CONSTANTS
  Submit = submit
  Runners = {w1}
  Cancels = {c1}
  UserPat = TRUE
  MaxAttempts = 2
  ActionIds = {a1}
  MaxSteps = 1
  MaxCrashes = 1
  MaxAborts = 0
  MaxStalls = 0
  LostReplies = FALSE
  Expiry = {"result", "proposal"}
SPECIFICATION PollFairSpec
CHECK_DEADLOCK FALSE
INVARIANTS AnswerComplete RejectedLeavesNothing
PROPERTIES AckedCancelVisible AnswersMoveForward SettlesUnlessDropped FollowsStateMachine
