CONSTANTS
  Submit = submit
  Runners = {w1}
  Cancels = {}
  UserPat = FALSE
  MaxAttempts = 2
  ActionIds = {a1}
  MaxSteps = 1
  MaxCrashes = 1
  MaxAborts = 0
  MaxStalls = 0
  LostReplies = FALSE
  Expiry = {}
SPECIFICATION FairSpec
CHECK_DEADLOCK FALSE
PROPERTIES JobSettles
