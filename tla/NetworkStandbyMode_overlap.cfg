CONSTANTS
  Workers = {w1, w2}
  MaxChanges = 3
SPECIFICATION Spec
INVARIANTS TypeOK CacheFresh
CHECK_DEADLOCK FALSE
