SPECIFICATION Spec
CONSTANTS
  Randoms = {b1, b2}
CHECK_DEADLOCK FALSE
INVARIANTS LinkOpens
