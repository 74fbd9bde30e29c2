CONSTANTS
  Submit = submit
  Runners = {w1, w2}
  Cancels = {c1}
  UserPat = TRUE
  MaxAttempts = 2
  ActionIds = {a1}
  MaxSteps = 1
  MaxCrashes = 1
  MaxAborts = 1
  MaxStalls = 1
  LostReplies = TRUE
  Expiry = {"job", "tok", "cancel", "result", "proposal"}
SPECIFICATION Spec
CHECK_DEADLOCK FALSE
SYMMETRY Symmetry
VIEW View
INVARIANTS TypeOK AckedCancelPurged FailedCancelHarmless TokenPurgedWhenTerminal
           RecordConsistent CompletedHasResult DropNeedsFault JobNotOrphaned
PROPERTIES NeverRequeued
