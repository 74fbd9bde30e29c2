CONSTANTS
  ResultTtl = 4
  ProposalTtl = 3
  IdempotencyTtl = 3
  JobTimeout = 2
  MaxAttempts = 2
  TokenSlack = 1
  MaxDefer = 3
  Horizon = 14
SPECIFICATION Spec
CHECK_DEADLOCK FALSE
INVARIANTS RecordOutlivesResult
