\* Four commands, and db_check_requirements' three statements: enough for a transaction in which one command succeeds,
\* one fails and one runs after the failure, followed by another
\* transaction on the same or a new connection.
CONSTANTS
  c1 = c1  c2 = c2  c3 = c3  c4 = c4
  r1 = r1  r2 = r2  r3 = r3
  ReqCmd <- MC_ReqCmd
  Cmd <- MC_Cmd
SYMMETRY MC_Symmetry
SPECIFICATION Spec
INVARIANTS
  HaveXactTracksServer
