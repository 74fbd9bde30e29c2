CONSTANTS
  Calls = {c1, c2, c3, c4}
  Limits = {0, 2}
  MaxRetries = 1
SPECIFICATION FairSpec
CHECK_DEADLOCK FALSE
INVARIANTS TypeOK CapRespected NoIdleSlot RetriesExact
PROPERTIES CallsEnd
