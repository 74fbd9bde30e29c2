CONSTANTS
  Submit = submit
  Runners = {w1}
  Cancels = {c1}
  UserPat = TRUE
  MaxAttempts = 2
  ActionIds = {a1}
  MaxSteps = 1
  MaxCrashes = 0
  MaxAborts = 0
  MaxStalls = 0
  LostReplies = FALSE
  Expiry = {}
SPECIFICATION Spec
CHECK_DEADLOCK FALSE
PROPERTIES TerminalIsFinal
