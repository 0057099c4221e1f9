\* Both sides send a file; nothing is lost and nobody leaves.
SPECIFICATION Spec
CONSTANTS
  Initiators <- BothSides
  MaxSessions = 1
  MaxConns = 4
  MaxFaults = 0
  MaxIces = 2
INVARIANTS
  SasAgrees
CHECK_DEADLOCK FALSE
