CONSTANTS
  RING = 3
CHECK_DEADLOCK FALSE
SPECIFICATION TxPathSpec
INVARIANTS OutputReferenceIsOne
