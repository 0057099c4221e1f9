--------------------------------- MODULE Hub ---------------------------------
(***************************************************************************)
(* The signaling relay (relay/internal/signaling: server.go, hub.go): one  *)
(* reader goroutine (handleWS) and one writer goroutine per connection,    *)
(* and the hub they share.  A hub operation runs under the hub's mutex and *)
(* is one step; so is each message the reader or the writer handles.       *)
(*                                                                         *)
(* A connection stands for its Client too (PeerID, Room, out).  Connection *)
(* ids are not reused, peer ids are: a reconnecting peer says hello with   *)
(* the id it had, possibly before its old connection is found dead.        *)
(*                                                                         *)
(* The socket is external: a client sends any sequence of messages, goes   *)
(* away with or without closing (alive), and shows what was written to it  *)
(* by the set of peers it believes to be in its room (roster).             *)
(*                                                                         *)
(* An operator X_Bug is X with one plausible bug (README, "Mutation").     *)
(***************************************************************************)
EXTENDS Integers, Sequences, FiniteSets

CONSTANTS Conns,       \* connection attempts over the life of the relay
          PeerIds,     \* ids peers choose (hello)
          Rooms,       \* rooms peers may ask for; NoRoom among them if "" is
          IPs, IpOf,   \* client addresses, and the one each connection comes from
          NoConn, NoPeer,
          NoRoom,      \* the empty string: Client.Room before the first join
          MaxPeersPerRoom,  \* Config: 0 is no cap
          MaxConnsPerIP,    \* Config: 0 is no cap
          OutCap,      \* capacity of Client.out (64)
          Vanishers,   \* connections whose client may vanish (bounds the model)
          MaxJoins,    \* joins per connection (bounds the model)
          MaxRouted    \* routed messages in all (bounds the model)

ASSUME HubAssumption ==
  /\ NoConn \notin Conns
  /\ NoPeer \notin PeerIds
  /\ IpOf \in [Conns -> IPs]
  /\ MaxPeersPerRoom \in Nat
  /\ MaxConnsPerIP \in Nat
  /\ OutCap \in Nat \ {0}
  /\ MaxJoins \in Nat
  /\ MaxRouted \in Nat

VARIABLES
  conn,      \* conn[c]: where handleWS is with connection c
  alive,     \* connections whose client is still there
  id,        \* id[c]: client.PeerID, NoPeer while client is nil
  room,      \* room[c]: client.Room
  out,       \* out[c]: the messages in client.out
  writer,    \* writer[c]: "none", "running" or "stopped"
  dropped,   \* connections for which a Send found out full
  roster,    \* roster[c]: peers the client has been told are present
  told,      \* connections whose client received a room-full error
  rooms,     \* the keys of Hub.rooms
  members,   \* members[r][p]: Hub.rooms[r][p], NoConn if absent
  connsPer,  \* connsPer[ip]: Server.connsPer
  joins,     \* joins[c]: c's successful joins (they sum to joinsTotal)
  routed,    \* messagesRouted
  rejected   \* connections whose join was refused (roomsRejected counts them)

connVars == <<conn, alive, id, writer, roster, told, connsPer>>
hubVars == <<room, out, dropped, rooms, members, joins, routed, rejected>>
vars == <<conn, alive, id, room, out, writer, dropped, roster, told,
          rooms, members, connsPer, joins, routed, rejected>>

Message == [t : {"welcome", "room-full"}]
           \cup [t : {"peer-joined", "peer-left", "signal"}, peer : PeerIds]
Joined(p) == [t |-> "peer-joined", peer |-> p]
Left(p) == [t |-> "peer-left", peer |-> p]
Signal(from) == [t |-> "signal", peer |-> from]  \* offer, answer or ice

TypeOK ==
  /\ conn \in [Conns -> {"none", "refused", "upgrading", "open", "closing",
                         "left", "closed"}]
  /\ alive \in SUBSET Conns
  /\ id \in [Conns -> PeerIds \cup {NoPeer}]
  /\ room \in [Conns -> Rooms \cup {NoRoom}]
  /\ out \in [Conns -> Seq(Message)]
  /\ \A c \in Conns : Len(out[c]) <= OutCap
  /\ writer \in [Conns -> {"none", "running", "stopped"}]
  /\ dropped \in SUBSET Conns
  /\ roster \in [Conns -> SUBSET PeerIds]
  /\ told \in SUBSET Conns
  /\ rooms \in SUBSET Rooms
  /\ members \in [Rooms -> [PeerIds -> Conns \cup {NoConn}]]
  /\ connsPer \in [IPs -> Nat]
  /\ joins \in [Conns -> 0..MaxJoins]
  /\ routed \in 0..MaxRouted
  /\ rejected \in SUBSET Conns

Init ==
  /\ conn = [c \in Conns |-> "none"]
  /\ alive = {}
  /\ id = [c \in Conns |-> NoPeer]
  /\ room = [c \in Conns |-> NoRoom]
  /\ out = [c \in Conns |-> <<>>]
  /\ writer = [c \in Conns |-> "none"]
  /\ dropped = {}
  /\ roster = [c \in Conns |-> {}]
  /\ told = {}
  /\ rooms = {}
  /\ members = [r \in Rooms |-> [p \in PeerIds |-> NoConn]]
  /\ connsPer = [ip \in IPs |-> 0]
  /\ joins = [c \in Conns |-> 0]
  /\ routed = 0
  /\ rejected = {}

(***************************************************************************)
(* Client.Send                                                             *)
(***************************************************************************)

\* The channel has no capacity.
Queued_Unbounded(q, ms) == q \o ms

\* A batch of Sends: what fits is queued, the rest is dropped.
Queued(q, ms) == IF Len(q) + Len(ms) <= OutCap THEN q \o ms
                 ELSE q \o SubSeq(ms, 1, OutCap - Len(q))

\* Send the batch batch[c] to every connection c.
SendAll(batch) ==
  /\ out' = [c \in Conns |-> Queued(out[c], batch[c])]
  /\ dropped' = dropped \cup {c \in Conns : Len(out[c]) + Len(batch[c]) > OutCap}

Nothing == [c \in Conns |-> <<>>]

(***************************************************************************)
(* Connections                                                             *)
(***************************************************************************)

\* acquireConn, before the upgrade.
Acquire(c) ==
  /\ conn[c] = "none"
  /\ IF MaxConnsPerIP > 0 /\ connsPer[IpOf[c]] >= MaxConnsPerIP
     THEN /\ conn' = [conn EXCEPT ![c] = "refused"]
          /\ UNCHANGED <<alive, connsPer>>
     ELSE /\ conn' = [conn EXCEPT ![c] = "upgrading"]
          /\ alive' = alive \cup {c}
          /\ connsPer' = IF MaxConnsPerIP > 0
                         THEN [connsPer EXCEPT ![IpOf[c]] = @ + 1] ELSE connsPer
  /\ UNCHANGED <<id, writer, roster, told, hubVars>>

\* releaseConn, deferred in handleWS (the map entry goes away at zero).
Released(c) == IF MaxConnsPerIP > 0 /\ connsPer[IpOf[c]] > 0
               THEN [connsPer EXCEPT ![IpOf[c]] = @ - 1] ELSE connsPer

\* A failed upgrade returns without releasing the address's slot.
Upgrade_Leaks(c) ==
  /\ conn[c] = "upgrading"
  /\ \/ conn' = [conn EXCEPT ![c] = "open"]
     \/ conn' = [conn EXCEPT ![c] = "closed"]
  /\ UNCHANGED <<alive, id, writer, roster, told, connsPer, hubVars>>

\* The upgrade succeeds, or it fails and handleWS returns.
Upgrade(c) ==
  /\ conn[c] = "upgrading"
  /\ \/ conn' = [conn EXCEPT ![c] = "open"] /\ UNCHANGED connsPer
     \/ conn' = [conn EXCEPT ![c] = "closed"] /\ connsPer' = Released(c)
  /\ UNCHANGED <<alive, id, writer, roster, told, hubVars>>

\* The client is gone and the relay has not noticed yet.
Vanish(c) ==
  /\ c \in alive \cap Vanishers
  /\ alive' = alive \ {c}
  /\ UNCHANGED <<conn, id, writer, roster, told, connsPer, hubVars>>

\* There is no read deadline: the loop ends only when the client ends it.
ReadEnds_NoDeadline(c) ==
  /\ conn[c] = "open"
  /\ c \in alive
  /\ conn' = [conn EXCEPT ![c] = "closing"]
  /\ UNCHANGED <<alive, id, writer, roster, told, connsPer, hubVars>>

\* The read loop returns: closed by the client, rate limit, a hello with the
\* wrong version, or the read deadline (no pong for pongWait).
ReadEnds(c) ==
  /\ conn[c] = "open"
  /\ conn' = [conn EXCEPT ![c] = "closing"]
  /\ UNCHANGED <<alive, id, writer, roster, told, connsPer, hubVars>>

\* hello: make the client, start its writer, welcome it.
Hello(c, p) ==
  /\ conn[c] = "open"
  /\ id[c] = NoPeer
  /\ id' = [id EXCEPT ![c] = p]
  /\ writer' = [writer EXCEPT ![c] = "running"]
  /\ SendAll([Nothing EXCEPT ![c] = <<[t |-> "welcome"]>>])
  /\ UNCHANGED <<conn, alive, roster, told, connsPer,
                 room, rooms, members, joins, routed, rejected>>

(***************************************************************************)
(* Hub                                                                     *)
(***************************************************************************)

Members(r) == {p \in PeerIds : members[r][p] # NoConn}

\* The cap lets one peer too many in.
Full_OffByOne(r, p) == /\ MaxPeersPerRoom > 0
                       /\ p \notin Members(r)
                       /\ Cardinality(Members(r)) > MaxPeersPerRoom

\* The cap refuses a peer that is not a member yet.
Full(r, p) == /\ MaxPeersPerRoom > 0
              /\ p \notin Members(r)
              /\ Cardinality(Members(r)) >= MaxPeersPerRoom

\* The orders in which Go may range over a map with the keys S.
Orders(S) == {s \in [1..Cardinality(S) -> S] : \A p \in S : \E i \in DOMAIN s : s[i] = p}

\* Hub.Join refused at the cap: the error is queued and handleWS returns.
JoinRefused(c, r) ==
  /\ conn[c] = "open" /\ id[c] # NoPeer
  /\ Full(r, id[c])
  /\ SendAll([Nothing EXCEPT ![c] = <<[t |-> "room-full"]>>])
  /\ rejected' = rejected \cup {c}
  /\ conn' = [conn EXCEPT ![c] = "closing"]
  /\ UNCHANGED <<alive, id, writer, roster, told, connsPer,
                 room, rooms, members, joins, routed>>

\* The newcomer is not told who is there.
Announce_OneWay(c, r, order) ==
  [d \in Conns |-> IF \E p \in Members(r) : members[r][p] = d
                   THEN <<Joined(id[c])>> ELSE <<>>]

\* The announcements of c's join: the members in some order to c, and c to each
\* of them (to c itself right after its own name, if it is a member already).
Announce(c, r, order) ==
  LET present == [i \in DOMAIN order |-> Joined(order[i])]
      upTo == IF \E i \in DOMAIN order : members[r][order[i]] = c
              THEN CHOOSE i \in DOMAIN order : members[r][order[i]] = c ELSE 0
      toSelf == IF upTo = 0 THEN <<>> ELSE <<Joined(id[c])>>
  IN  [d \in Conns |->
         CASE d = c -> SubSeq(present, 1, upTo) \o toSelf
                       \o SubSeq(present, upTo + 1, Len(order))
           [] d # c /\ (\E p \in Members(r) : members[r][p] = d) -> <<Joined(id[c])>>
           [] OTHER -> <<>>]

\* Hub.Join, not refused: announcements first, then the map entry.
Join(c, r) ==
  /\ conn[c] = "open" /\ id[c] # NoPeer
  /\ joins[c] < MaxJoins
  /\ ~Full(r, id[c])
  /\ \E order \in Orders(Members(r)) : SendAll(Announce(c, r, order))
  /\ room' = [room EXCEPT ![c] = r]
  /\ rooms' = rooms \cup {r}
  /\ members' = [members EXCEPT ![r][id[c]] = c]
  /\ joins' = [joins EXCEPT ![c] = @ + 1]
  /\ UNCHANGED <<connVars, routed, rejected>>

\* The message keeps the sender it claims.
Route_TrustsFrom(c, p, claimed) ==
  /\ conn[c] = "open" /\ id[c] # NoPeer
  /\ room[c] \in rooms
  /\ p \in Members(room[c])
  /\ routed < MaxRouted
  /\ SendAll([Nothing EXCEPT ![members[room[c]][p]] = <<Signal(claimed)>>])
  /\ routed' = routed + 1
  /\ UNCHANGED <<connVars, room, rooms, members, joins, rejected>>

\* Route, for a message to peer p that the sender says is from claimed.
Route(c, p, claimed) ==
  /\ conn[c] = "open" /\ id[c] # NoPeer
  /\ room[c] \in rooms
  /\ p \in Members(room[c])
  /\ routed < MaxRouted
  /\ SendAll([Nothing EXCEPT ![members[room[c]][p]] = <<Signal(id[c])>>])
  /\ routed' = routed + 1
  /\ UNCHANGED <<connVars, room, rooms, members, joins, rejected>>

\* The room of the last peer to leave stays in the map.
Leave_KeepsRoom(c) ==
  /\ conn[c] = "closing"
  /\ conn' = [conn EXCEPT ![c] = "left"]
  /\ IF room[c] # NoRoom /\ room[c] \in rooms
     THEN LET others == Members(room[c]) \ {id[c]} IN
          /\ members' = [members EXCEPT ![room[c]][id[c]] = NoConn]
          /\ SendAll([d \in Conns |-> IF \E p \in others : members[room[c]][p] = d
                                      THEN <<Left(id[c])>> ELSE <<>>])
     ELSE UNCHANGED <<members, out, dropped>>
  /\ UNCHANGED <<alive, id, writer, roster, told, connsPer, room, rooms,
                 joins, routed, rejected>>

\* The deferred Leave: by peer id, and only for a client with a room.
Leave(c) ==
  /\ conn[c] = "closing"
  /\ conn' = [conn EXCEPT ![c] = "left"]
  /\ IF room[c] # NoRoom /\ room[c] \in rooms
     THEN LET others == Members(room[c]) \ {id[c]} IN
          /\ members' = [members EXCEPT ![room[c]][id[c]] = NoConn]
          /\ rooms' = IF others = {} THEN rooms \ {room[c]} ELSE rooms
          /\ SendAll([d \in Conns |-> IF \E p \in others : members[room[c]][p] = d
                                      THEN <<Left(id[c])>> ELSE <<>>])
     ELSE UNCHANGED <<members, rooms, out, dropped>>
  /\ UNCHANGED <<alive, id, writer, roster, told, connsPer, room, joins, routed, rejected>>

\* conn.Close and the deferred releaseConn.
Finish(c) ==
  /\ conn[c] = "left"
  /\ conn' = [conn EXCEPT ![c] = "closed"]
  /\ connsPer' = Released(c)
  /\ UNCHANGED <<alive, id, writer, roster, told, hubVars>>

(***************************************************************************)
(* The writer goroutine                                                    *)
(***************************************************************************)

\* The roster a client keeps from the messages it is sent.
Apply(known, m) == CASE m.t = "peer-joined" -> known \cup {m.peer}
                     [] m.t = "peer-left" -> known \ {m.peer}
                     [] OTHER -> known

Write(c) ==
  /\ writer[c] = "running"
  /\ conn[c] # "closed"
  /\ out[c] # <<>>
  /\ out' = [out EXCEPT ![c] = Tail(@)]
  /\ roster' = [roster EXCEPT ![c] = Apply(@, Head(out[c]))]
  /\ told' = IF Head(out[c]).t = "room-full" THEN told \cup {c} ELSE told
  /\ UNCHANGED <<conn, alive, id, writer, connsPer,
                 room, dropped, rooms, members, joins, routed, rejected>>

\* A write failed, or done was closed: select may take it with out not empty.
WriterStops(c) ==
  /\ writer[c] = "running"
  /\ c \notin alive \/ conn[c] \in {"closing", "left", "closed"}
  /\ writer' = [writer EXCEPT ![c] = "stopped"]
  /\ UNCHANGED <<conn, alive, id, roster, told, connsPer, hubVars>>

(***************************************************************************)
(* Specification                                                           *)
(***************************************************************************)

ConnStep(c) == \/ Acquire(c) \/ Upgrade(c) \/ Vanish(c) \/ ReadEnds(c)
               \/ Leave(c) \/ Finish(c) \/ Write(c) \/ WriterStops(c)

ClientStep(c) == \/ \E p \in PeerIds : Hello(c, p)
                 \/ \E r \in Rooms : Join(c, r) \/ JoinRefused(c, r)
                 \/ \E p, q \in PeerIds : Route(c, p, q)

Next == \E c \in Conns : ConnStep(c) \/ ClientStep(c)

Spec == Init /\ [][Next]_vars

\* Goroutines run; pings find a client that is gone within pongWait.
Fairness ==
  \A c \in Conns :
    /\ WF_vars(Upgrade(c))
    /\ WF_vars(c \notin alive /\ ReadEnds(c))
    /\ WF_vars(Leave(c))
    /\ WF_vars(Finish(c))
    /\ WF_vars(Write(c))
    /\ WF_vars(WriterStops(c))

FairSpec == Spec /\ Fairness

(***************************************************************************)
(* Properties                                                              *)
(***************************************************************************)

\* Join never lets a room grow past MaxPeersPerRoom, also when a member joins
\* again at the cap and when members are replaced and leave.
CapHolds ==
  MaxPeersPerRoom > 0 => \A r \in Rooms : Cardinality(Members(r)) <= MaxPeersPerRoom

\* A room exists exactly while it has members, and each member is a connection
\* that has not been through its Leave: no ghosts are announced or routed to.
\* (Of connections that join once, a named room: a client that joins a second
\* room stays in the first, and Leave ignores the room named "".)
NoGhosts ==
  \A r \in Rooms :
    /\ r \in rooms <=> Members(r) # {}
    /\ \A p \in Members(r) :
         LET c == members[r][p] IN
           /\ id[c] = p
           /\ joins[c] = 1 /\ r # NoRoom => room[c] = r /\ conn[c] \in {"open", "closing"}

\* connsPer counts an address's connections between acquire and release, so the
\* per-IP cap never leaks and is never exceeded.
ConnsCounted ==
  MaxConnsPerIP > 0 =>
    \A ip \in IPs :
      /\ connsPer[ip] = Cardinality({c \in Conns :
                          IpOf[c] = ip /\ conn[c] \in {"upgrading", "open", "closing", "left"}})
      /\ connsPer[ip] <= MaxConnsPerIP

\* What c's client believes once it has read n more of the messages queued for it.
View(c, n) ==
  LET v[i \in 0..n] == IF i = 0 THEN roster[c] ELSE Apply(v[i - 1], out[c][i])
  IN  v[n]

\* Peers that used one connection and joined one named room at most.
Simple(c) == /\ \A d \in Conns \ {c} : id[d] # id[c]
             /\ joins[c] <= 1

\* As long as no announcement was dropped, every member's client knows, from
\* what it has been sent and what is queued, exactly the other members of its
\* room, whatever the order of joins, leaves and writes.
RosterAgrees ==
  (\A d \in Conns : id[d] # NoPeer => Simple(d)) =>
    \A r \in Rooms \ {NoRoom} : \A p \in Members(r) :
      LET c == members[r][p] IN
      c \notin dropped => View(c, Len(out[c])) = Members(r) \ {p}

\* A signal comes from a peer that the receiver was introduced to before, on the
\* same connection, and that has not been reported gone: join announcements,
\* routed messages and leaves reach a member in the order they happened, and a
\* sender cannot speak as somebody else or from another room.
SignalsIntroduced ==
  (\A d \in Conns : id[d] # NoPeer => Simple(d)) =>
    \A r \in Rooms \ {NoRoom} : \A p \in Members(r) :
      LET c == members[r][p] IN
      \A i \in 1..Len(out[c]) :
        c \notin dropped /\ out[c][i].t = "signal" =>
          out[c][i].peer \in View(c, i - 1) \cup {p}

\* A peer whose client vanished is eventually out of the room it joined.
VanishedLeaves ==
  \A c \in Vanishers : \A r \in Rooms :
    (r # NoRoom /\ joins[c] = 1 /\ room[c] = r /\ c \notin alive)
      ~> (\A p \in PeerIds : members[r][p] # c)

(***************************************************************************)
(* Claims of the repository that do not hold                               *)
(***************************************************************************)

\* hub.go:141, 'Leave removes a client': a peer's entry is removed only when
\* the connection it belongs to leaves.
LeaveRemovesItsOwn ==
  [][\A r \in Rooms : \A p \in PeerIds :
       members[r][p] # NoConn /\ members'[r][p] = NoConn
         => conn[members[r][p]] = "closing"]_vars

\* server.go:224, 'room full -- the hub already told the client': a client that
\* stayed on the line got the error before its connection was closed.
RejectedIsTold ==
  \A c \in rejected \cap alive :
    conn[c] = "closed" /\ c \notin dropped => c \in told
==============================================================================
