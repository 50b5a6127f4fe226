CONSTANTS
  MaxGen = 2
  MaxSignals = 3
SPECIFICATION Spec
CHECK_DEADLOCK FALSE
INVARIANT ParentReadsChildAck
