\* One side sends files, under fairness; each peer may be told that the other left, or
\* a message is lost.
SPECIFICATION FairSpec
CONSTANTS
  Initiators <- OneSide
  MaxSessions = 2
  MaxConns = 4
  MaxFaults = 2
  MaxIces = 2
CONSTRAINT BriefFaults
ACTION_CONSTRAINT OneReportEach
INVARIANTS
  TypeOK
  KeysAgree
PROPERTIES
  Connects
CHECK_DEADLOCK FALSE
