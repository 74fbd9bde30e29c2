CONSTANTS
  w1 = w1
  w2 = w2
  Configs <- MCConfigs
  Workers <- MCWorkers
  Owners <- MCOwners
  OwnsResources = FALSE
  MaxRestarts = 4
SPECIFICATION Spec
CHECK_DEADLOCK FALSE
INVARIANTS LostNeedsMismatch StagedSealed
PROPERTIES JobEndsIfHeard
