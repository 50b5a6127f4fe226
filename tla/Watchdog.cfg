CONSTANTS
  MaxGen = 2
  MaxSignals = 3
SPECIFICATION Spec
\* The processes exit: a final state is the end of the daemon.
CHECK_DEADLOCK FALSE
INVARIANTS
  TypeOK
  SingleWorkerProcess
PROPERTIES
  DrainEnds
