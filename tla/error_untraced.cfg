CONSTANTS
  Jobs = {j1}
  Others = {r1, r2}
  CallerIds = {c1}
SPECIFICATION Spec
CHECK_DEADLOCK FALSE
SYMMETRY Symmetry
INVARIANTS ErrorsTraceable
