CONSTANTS
  NoRecord = NoRecord
  NotSet = NotSet
  update = update
  comment = comment
  Reqs = {r1, r2}
  Rejects = {}
  Actions = {update, comment}
  Keys = {k1, k2}
  Payloads <- FewPayloads
  Proposed <- MCProposed
  Editable <- MCEditable
  Valid <- MCValid
  LostReplies = FALSE
  MaxCrashes = 0
SPECIFICATION Spec
SYMMETRY Symmetry
CHECK_DEADLOCK FALSE
INVARIANTS AtMostOnce
