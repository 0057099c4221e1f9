\* Two connections, one peer id: a peer that reconnects before its old connection is found dead.
SPECIFICATION Spec
CONSTANTS
  c1 = c1
  c2 = c2
  c3 = c3
  p1 = p1
  p2 = p2
  p3 = p3
  r1 = r1
  ip1 = ip1
  ip2 = ip2
  Conns <- TwoConns
  PeerIds <- OnePeer
  Rooms <- OneRoom
  IPs <- Addresses
  IpOf <- BothBehindOne
  NoConn = NoConn
  NoPeer = NoPeer
  NoRoom = NoRoom
  MaxPeersPerRoom = 2
  MaxConnsPerIP = 0
  OutCap = 2
  Vanishers <- NoConns
  MaxJoins = 1
  MaxRouted = 0
PROPERTIES
  LeaveRemovesItsOwn
CHECK_DEADLOCK FALSE
