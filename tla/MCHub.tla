--------------------------------- MODULE MCHub --------------------------------
(***************************************************************************)
(* Small instances of Hub for TLC.                                         *)
(***************************************************************************)
EXTENDS Hub, TLC

CONSTANTS c1, c2, c3,  \* connections
          p1, p2, p3,  \* peer ids
          r1,          \* a named room
          ip1, ip2     \* addresses

ThreeConns == {c1, c2, c3}
TwoConns == {c1, c2}
OnePeer == {p1}
TwoPeers == {p1, p2}
ThreePeers == {p1, p2, p3}
NoConns == {}
OneRoom == {r1}
TwoRooms == {r1, NoRoom}
Addresses == {ip1, ip2}
AllBehindOne == (c1 :> ip1) @@ (c2 :> ip1) @@ (c3 :> ip1)
BothBehindOne == (c1 :> ip1) @@ (c2 :> ip1)
ConnSymmetry == Permutations(ThreeConns) \cup Permutations(ThreePeers)

\* What a connection that has left keeps in memory is read by nobody, nor is it of
\* interest whether the client of one that ends is there: states that differ only
\* in this are the same state of the relay.
InUse(c) == conn[c] \notin {"left", "closed"}
Vanished == {c \in Conns \ alive : conn[c] \in {"upgrading", "open"}}
RelayView ==
  <<conn, Vanished, id, room, rooms, members, connsPer, joins, routed, rejected,
    [c \in Conns |-> IF InUse(c) THEN <<out[c], writer[c], roster[c], c \in dropped>>
                     ELSE <<>>]>>

\* Clients vanish while there are two connections at most.
VanishInPairs == Vanished # {} => Cardinality({c \in Conns : conn[c] # "none"}) <= 2
===============================================================================
