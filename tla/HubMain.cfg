\* Three connections of different peers or of the same one, a room of two, one routed
\* message; clients vanish while there are two connections at most.
SPECIFICATION Spec
CONSTANTS
  c1 = c1
  c2 = c2
  c3 = c3
  p1 = p1
  p2 = p2
  p3 = p3
  r1 = r1
  ip1 = ip1
  ip2 = ip2
  Conns <- ThreeConns
  PeerIds <- ThreePeers
  Rooms <- OneRoom
  IPs <- Addresses
  IpOf <- AllBehindOne
  NoConn = NoConn
  NoPeer = NoPeer
  NoRoom = NoRoom
  MaxPeersPerRoom = 2
  MaxConnsPerIP = 0
  OutCap = 2
  Vanishers <- ThreeConns
  MaxJoins = 1
  MaxRouted = 1
CONSTRAINT VanishInPairs
VIEW RelayView
SYMMETRY ConnSymmetry
INVARIANTS
  TypeOK
  CapHolds
  NoGhosts
  RosterAgrees
  SignalsIntroduced
CHECK_DEADLOCK FALSE
