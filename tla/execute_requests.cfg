CONSTANTS
  NoRecord = NoRecord
  NotSet = NotSet
  update = update
  comment = comment
  Reqs = {r1, r2}
  Rejects = {q1}
  Actions = {update, comment}
  Keys = {k1, k2}
  Payloads <- MCPayloads
  Proposed <- MCProposed
  Editable <- MCEditable
  Valid <- MCValid
  LostReplies = TRUE
  MaxCrashes = 1
SPECIFICATION Spec
SYMMETRY Symmetry
CHECK_DEADLOCK FALSE
INVARIANTS TypeOK AnswerMeansApplied ConsumedForGood RepeatNeedsFault
PROPERTIES RetryGetsReplay
