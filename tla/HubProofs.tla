------------------------------ MODULE HubProofs ------------------------------
(***************************************************************************)
(* The relay's bounds, for any connections, peers, rooms and addresses.    *)
(***************************************************************************)
EXTENDS Hub, FiniteSetTheorems, SequenceTheorems, TLAPS

\* What a client's roster becomes when it reads the messages queued for it.
R == INSTANCE Replay WITH Updates <- Message, Apply <- Apply

(***************************************************************************)
(* Types                                                                   *)
(***************************************************************************)

\* Client.Send never grows a queue past its capacity.
LEMMA QueuedFits ==
  ASSUME NEW q \in Seq(Message), NEW ms \in Seq(Message), Len(q) <= OutCap
  PROVE  Queued(q, ms) \in Seq(Message) /\ Len(Queued(q, ms)) <= OutCap
<1> USE HubAssumption
<1>1. CASE Len(q) + Len(ms) <= OutCap
  <2>1. q \o ms \in Seq(Message) /\ Len(q \o ms) = Len(q) + Len(ms)
    BY ConcatProperties
  <2> QED BY <1>1, <2>1 DEF Queued
<1>2. CASE ~(Len(q) + Len(ms) <= OutCap)
  <2> DEFINE k == OutCap - Len(q)
             cut == SubSeq(ms, 1, k)
  <2>1. k \in 0..Len(ms) /\ Len(q) \in Nat /\ OutCap \in Nat
    BY <1>2, LenProperties
  <2>2. cut \in Seq(Message) /\ Len(cut) = k
    BY <2>1, SubSeqProperties, LenProperties
  <2>3. q \o cut \in Seq(Message) /\ Len(q \o cut) = Len(q) + Len(cut)
    BY <2>2, ConcatProperties
  <2>4. Queued(q, ms) = q \o cut
    BY <1>2 DEF Queued
  <2> HIDE DEF cut
  <2> QED BY <2>1, <2>2, <2>3, <2>4
<1> QED BY <1>1, <1>2

LEMMA SendAllFits ==
  ASSUME TypeOK, NEW batch \in [Conns -> Seq(Message)], SendAll(batch)
  PROVE  /\ out' \in [Conns -> Seq(Message)]
         /\ \A c \in Conns : Len(out'[c]) <= OutCap
         /\ dropped' \in SUBSET Conns
  BY QueuedFits DEF SendAll, TypeOK

LEMMA MessageForms ==
  /\ [t |-> "welcome"] \in Message /\ [t |-> "room-full"] \in Message
  /\ \A p \in PeerIds : Joined(p) \in Message /\ Left(p) \in Message /\ Signal(p) \in Message
  BY DEF Message, Joined, Left, Signal

\* Every room's members are finitely many: a join adds one.
FiniteRooms == \A r \in Rooms : IsFiniteSet(Members(r))

LEMMA AnnounceIsBatch ==
  ASSUME TypeOK, FiniteRooms, NEW c \in Conns, NEW r \in Rooms, id[c] \in PeerIds,
         NEW order \in Orders(Members(r))
  PROVE  Announce(c, r, order) \in [Conns -> Seq(Message)]
<1> DEFINE n == Cardinality(Members(r))
           present == [i \in DOMAIN order |-> Joined(order[i])]
           upTo == IF \E i \in DOMAIN order : members[r][order[i]] = c
                   THEN CHOOSE i \in DOMAIN order : members[r][order[i]] = c ELSE 0
           toSelf == IF upTo = 0 THEN <<>> ELSE <<Joined(id[c])>>
<1>1. n \in Nat
  BY FS_CardinalityType DEF FiniteRooms
<1>2. order \in [1..n -> Members(r)] /\ DOMAIN order = 1..n
  BY DEF Orders
<1>3. \A i \in 1..n : present[i] \in Message
  BY <1>2, MessageForms DEF Members
<1>4. upTo \in 0..n
  BY <1>1, <1>2
<1>5. toSelf \in Seq(Message)
  BY MessageForms
<1>6. Len(order) = n
  BY <1>1, <1>2
<1>7. SubSeq(present, 1, upTo) \in Seq(Message)
  <2> HIDE DEF present, upTo, n
  <2> QED BY <1>1, <1>3, <1>4, SubSeqProperties
<1>8. SubSeq(present, upTo + 1, Len(order)) \in Seq(Message)
  <2> HIDE DEF present, upTo, n
  <2>1. upTo + 1 \in Int /\ Len(order) \in Int
    BY <1>1, <1>4, <1>6
  <2>2. \A i \in upTo + 1 .. Len(order) : present[i] \in Message
    BY <1>1, <1>3, <1>4, <1>6
  <2> QED BY <2>1, <2>2, SubSeqProperties
<1>9. SubSeq(present, 1, upTo) \o toSelf \o SubSeq(present, upTo + 1, Len(order)) \in Seq(Message)
  <2> HIDE DEF present, upTo, toSelf
  <2>1. SubSeq(present, 1, upTo) \o toSelf \in Seq(Message)
    BY <1>5, <1>7, ConcatProperties
  <2> QED BY <2>1, <1>8, ConcatProperties
<1>10. <<Joined(id[c])>> \in Seq(Message) /\ <<>> \in Seq(Message)
  BY MessageForms
<1> HIDE DEF n
<1> QED
  BY <1>9, <1>10 DEF Announce

(***************************************************************************)
(* How joins and leaves change a room                                      *)
(***************************************************************************)

LEMMA MembersJoined ==
  ASSUME TypeOK, NEW c \in Conns, NEW r \in Rooms, NEW p \in PeerIds,
         members' = [members EXCEPT ![r][p] = c]
  PROVE  /\ members' \in [Rooms -> [PeerIds -> Conns \cup {NoConn}]]
         /\ Members(r)' = Members(r) \cup {p}
         /\ \A s \in Rooms \ {r} : Members(s)' = Members(s)
         /\ \A s \in Rooms : \A q \in PeerIds :
              members'[s][q] = IF s = r /\ q = p THEN c ELSE members[s][q]
<1>1. /\ members \in [Rooms -> [PeerIds -> Conns \cup {NoConn}]]
      /\ c # NoConn
  BY HubAssumption DEF TypeOK
<1>2. \A s \in Rooms : \A q \in PeerIds :
        members'[s][q] = IF s = r /\ q = p THEN c ELSE members[s][q]
  BY <1>1
<1>3. members' \in [Rooms -> [PeerIds -> Conns \cup {NoConn}]]
  BY <1>1
<1> QED
  BY <1>1, <1>2, <1>3 DEF Members

LEMMA MembersLeft ==
  ASSUME TypeOK, NEW r \in Rooms, NEW p \in PeerIds \cup {NoPeer},
         members' = [members EXCEPT ![r][p] = NoConn]
  PROVE  /\ members' \in [Rooms -> [PeerIds -> Conns \cup {NoConn}]]
         /\ Members(r)' = Members(r) \ {p}
         /\ \A s \in Rooms \ {r} : Members(s)' = Members(s)
         /\ \A s \in Rooms : \A q \in PeerIds :
              members'[s][q] = IF s = r /\ q = p THEN NoConn ELSE members[s][q]
<1>1. members \in [Rooms -> [PeerIds -> Conns \cup {NoConn}]] /\ NoPeer \notin PeerIds
  BY HubAssumption DEF TypeOK
<1>2. members' \in [Rooms -> [PeerIds -> Conns \cup {NoConn}]]
  BY <1>1
<1>3. \A s \in Rooms : \A q \in PeerIds :
        members'[s][q] = IF s = r /\ q = p THEN NoConn ELSE members[s][q]
  BY <1>1
<1> QED
  BY <1>1, <1>2, <1>3 DEF Members
\* A batch of one message to one connection.
LEMMA OneMessage ==
  ASSUME NEW c \in Conns, NEW m \in Message
  PROVE  [Nothing EXCEPT ![c] = <<m>>] \in [Conns -> Seq(Message)]
<1>1. Nothing \in [Conns -> Seq(Message)]
  BY DEF Nothing
<1>2. <<m>> \in Seq(Message)
  OBVIOUS
<1> QED BY <1>1, <1>2

(***************************************************************************)
(* Type correctness                                                        *)
(***************************************************************************)

\* A client in a room has said who it is, so that what Leave announces has a name.
Named == \A c \in Conns : room[c] # NoRoom => id[c] # NoPeer

TypeInv == TypeOK /\ FiniteRooms /\ Named

LEMMA ReleasedTyped ==
  ASSUME TypeOK, NEW c \in Conns
  PROVE  Released(c) \in [IPs -> Nat]
<1>1. IpOf[c] \in IPs /\ connsPer \in [IPs -> Nat]
  BY HubAssumption DEF TypeOK
<1>2. connsPer[IpOf[c]] > 0 => connsPer[IpOf[c]] - 1 \in Nat
  BY <1>1
<1> QED BY <1>1, <1>2 DEF Released

\* A connection's own steps.
LEMMA ConnStepTyped ==
  ASSUME TypeInv, NEW c \in Conns, ConnStep(c)
  PROVE  TypeInv'
<1> USE HubAssumption DEF TypeInv
<1> DEFINE Same == members' = members /\ room' = room /\ id' = id
<1>s. Same => (FiniteRooms /\ Named)'
  BY DEF FiniteRooms, Named, Members
<1>1. CASE Acquire(c)
  <2>1. IpOf[c] \in IPs /\ connsPer \in [IPs -> Nat]
    BY DEF TypeOK
  <2>2. connsPer' \in [IPs -> Nat]
    BY <1>1, <2>1 DEF Acquire
  <2>3. /\ alive' \in SUBSET Conns
        /\ conn' \in [Conns -> {"none", "refused", "upgrading", "open", "closing", "left", "closed"}]
    BY <1>1 DEF Acquire, TypeOK
  <2>4. TypeOK'
    BY <1>1, <2>2, <2>3 DEF Acquire, TypeOK, hubVars
  <2> QED BY <1>1, <1>s, <2>4 DEF Acquire, hubVars
<1>2. CASE Upgrade(c)
  <2>1. connsPer' \in [IPs -> Nat]
    BY <1>2, ReleasedTyped DEF Upgrade, TypeOK
  <2>2. TypeOK'
    BY <1>2, <2>1 DEF Upgrade, TypeOK, hubVars
  <2> QED BY <1>2, <1>s, <2>2 DEF Upgrade, hubVars
<1>3. CASE Vanish(c)
  <2>1. TypeOK'
    BY <1>3 DEF Vanish, TypeOK, hubVars
  <2> QED BY <1>3, <1>s, <2>1 DEF Vanish, hubVars
<1>4. CASE ReadEnds(c)
  <2>1. TypeOK'
    BY <1>4 DEF ReadEnds, TypeOK, hubVars
  <2> QED BY <1>4, <1>s, <2>1 DEF ReadEnds, hubVars
<1>5. CASE Leave(c) /\ room[c] # NoRoom /\ room[c] \in rooms
  <2>1. PICK r \in Rooms, p \in PeerIds : r = room[c] /\ p = id[c]
    BY <1>5 DEF TypeOK, Named
  <2> DEFINE others == Members(r) \ {p}
             batch == [d \in Conns |-> IF \E q \in others : members[r][q] = d
                                       THEN <<Left(p)>> ELSE <<>>]
  <2>2. members' = [members EXCEPT ![r][p] = NoConn]
    BY <1>5, <2>1 DEF Leave
  <2>3. /\ members' \in [Rooms -> [PeerIds -> Conns \cup {NoConn}]]
        /\ Members(r)' = Members(r) \ {p}
        /\ \A s \in Rooms \ {r} : Members(s)' = Members(s)
    BY <2>1, <2>2, MembersLeft
  <2>4. FiniteRooms'
    <3>1. IsFiniteSet(Members(r)) /\ \A s \in Rooms \ {r} : IsFiniteSet(Members(s))
      BY <2>1 DEF FiniteRooms
    <3>2. IsFiniteSet(Members(r) \ {p})
      BY <3>1, FS_RemoveElement
    <3> QED BY <2>3, <3>1, <3>2 DEF FiniteRooms
  <2>5. batch \in [Conns -> Seq(Message)]
    BY <2>1, MessageForms
  <2>6. SendAll(batch)
    BY <1>5, <2>1 DEF Leave
  <2>7. /\ out' \in [Conns -> Seq(Message)]
        /\ \A d \in Conns : Len(out'[d]) <= OutCap
        /\ dropped' \in SUBSET Conns
    BY <2>5, <2>6, SendAllFits
  <2>8. rooms' \in SUBSET Rooms /\ conn' = [conn EXCEPT ![c] = "left"]
    BY <1>5 DEF Leave, TypeOK
  <2>9. UNCHANGED <<alive, id, writer, roster, told, connsPer, room, joins, routed, rejected>>
    BY <1>5 DEF Leave
  <2>10. TypeOK'
    BY <2>3, <2>7, <2>8, <2>9 DEF TypeOK
  <2> QED BY <2>4, <2>9, <2>10 DEF Named
<1>6. CASE Leave(c) /\ ~(room[c] # NoRoom /\ room[c] \in rooms)
  <2>1. TypeOK'
    BY <1>6 DEF Leave, TypeOK
  <2> QED BY <1>6, <1>s, <2>1 DEF Leave
<1>7. CASE Finish(c)
  <2>1. connsPer' \in [IPs -> Nat]
    BY <1>7, ReleasedTyped DEF Finish
  <2>2. TypeOK'
    BY <1>7, <2>1 DEF Finish, TypeOK, hubVars
  <2> QED BY <1>7, <1>s, <2>2 DEF Finish, hubVars
<1>8. CASE Write(c)
  <2>1. out[c] \in Seq(Message) /\ out[c] # <<>>
    BY <1>8 DEF Write, TypeOK
  <2>2. /\ Head(out[c]) \in Message /\ Tail(out[c]) \in Seq(Message)
        /\ Len(Tail(out[c])) = Len(out[c]) - 1 /\ Len(out[c]) \in Nat
    BY <2>1, HeadTailProperties, LenProperties
  <2>3. Apply(roster[c], Head(out[c])) \in SUBSET PeerIds
    BY <2>2 DEF Apply, Message, TypeOK
  <2>4. out' = [out EXCEPT ![c] = Tail(@)] /\ roster' = [roster EXCEPT ![c] = Apply(@, Head(out[c]))]
    BY <1>8 DEF Write
  <2>5. /\ out' \in [Conns -> Seq(Message)]
        /\ \A d \in Conns : Len(out'[d]) <= OutCap
    BY <2>2, <2>4 DEF TypeOK
  <2>6. roster' \in [Conns -> SUBSET PeerIds]
    BY <2>3, <2>4 DEF TypeOK
  <2>7. TypeOK'
    BY <1>8, <2>5, <2>6 DEF Write, TypeOK
  <2> QED BY <1>8, <1>s, <2>7 DEF Write
<1>9. CASE WriterStops(c)
  <2>1. TypeOK'
    BY <1>9 DEF WriterStops, TypeOK, hubVars
  <2> QED BY <1>9, <1>s, <2>1 DEF WriterStops, hubVars
<1> QED
  BY <1>1, <1>2, <1>3, <1>4, <1>5, <1>6, <1>7, <1>8, <1>9 DEF ConnStep

\* What a client's messages do.
LEMMA ClientStepTyped ==
  ASSUME TypeInv, NEW c \in Conns, ClientStep(c)
  PROVE  TypeInv'
<1> USE HubAssumption DEF TypeInv
<1>1. ASSUME NEW p \in PeerIds, Hello(c, p) PROVE TypeInv'
  <2>1. SendAll([Nothing EXCEPT ![c] = <<[t |-> "welcome"]>>])
    BY <1>1 DEF Hello
  <2>2. /\ out' \in [Conns -> Seq(Message)]
        /\ \A d \in Conns : Len(out'[d]) <= OutCap
        /\ dropped' \in SUBSET Conns
    BY <2>1, OneMessage, MessageForms, SendAllFits
  <2>3. /\ id' = [id EXCEPT ![c] = p] /\ writer' = [writer EXCEPT ![c] = "running"]
        /\ UNCHANGED <<conn, alive, roster, told, connsPer,
                       room, rooms, members, joins, routed, rejected>>
    BY <1>1 DEF Hello
  <2>4. TypeOK'
    BY <2>2, <2>3 DEF TypeOK
  <2>5. FiniteRooms'
    BY <2>3 DEF FiniteRooms, Members
  <2>6. Named'
    BY <2>3 DEF Named, TypeOK
  <2> QED BY <2>4, <2>5, <2>6
<1>2. ASSUME NEW r \in Rooms, Join(c, r) PROVE TypeInv'
  <2>1. id[c] \in PeerIds
    BY <1>2 DEF Join, TypeOK
  <2>2. PICK order \in Orders(Members(r)) : SendAll(Announce(c, r, order))
    BY <1>2 DEF Join
  <2>3. Announce(c, r, order) \in [Conns -> Seq(Message)]
    BY <2>1, AnnounceIsBatch
  <2>4. /\ out' \in [Conns -> Seq(Message)]
        /\ \A d \in Conns : Len(out'[d]) <= OutCap
        /\ dropped' \in SUBSET Conns
    BY <2>2, <2>3, SendAllFits
  <2>5. /\ members' = [members EXCEPT ![r][id[c]] = c] /\ rooms' = rooms \cup {r}
        /\ room' = [room EXCEPT ![c] = r] /\ joins' = [joins EXCEPT ![c] = @ + 1]
        /\ joins[c] < MaxJoins
        /\ UNCHANGED <<conn, alive, id, writer, roster, told, connsPer, routed, rejected>>
    BY <1>2 DEF Join, connVars
  <2>6. /\ members' \in [Rooms -> [PeerIds -> Conns \cup {NoConn}]]
        /\ Members(r)' = Members(r) \cup {id[c]}
        /\ \A s \in Rooms \ {r} : Members(s)' = Members(s)
    BY <2>1, <2>5, MembersJoined
  <2>7. joins' \in [Conns -> 0..MaxJoins]
    BY <2>5 DEF TypeOK
  <2>8. TypeOK'
    BY <2>4, <2>5, <2>6, <2>7 DEF TypeOK
  <2>9. FiniteRooms'
    BY <2>6, FS_AddElement DEF FiniteRooms
  <2>10. Named'
    BY <2>1, <2>5 DEF Named, TypeOK
  <2> QED BY <2>8, <2>9, <2>10
<1>3. ASSUME NEW r \in Rooms, JoinRefused(c, r) PROVE TypeInv'
  <2>1. SendAll([Nothing EXCEPT ![c] = <<[t |-> "room-full"]>>])
    BY <1>3 DEF JoinRefused
  <2>2. /\ out' \in [Conns -> Seq(Message)]
        /\ \A d \in Conns : Len(out'[d]) <= OutCap
        /\ dropped' \in SUBSET Conns
    BY <2>1, OneMessage, MessageForms, SendAllFits
  <2>3. /\ rejected' = rejected \cup {c} /\ conn' = [conn EXCEPT ![c] = "closing"]
        /\ UNCHANGED <<alive, id, writer, roster, told, connsPer,
                       room, rooms, members, joins, routed>>
    BY <1>3 DEF JoinRefused
  <2>4. TypeOK'
    BY <2>2, <2>3 DEF TypeOK
  <2> QED
    BY <2>3, <2>4 DEF FiniteRooms, Named, Members
<1>4. ASSUME NEW p \in PeerIds, NEW q \in PeerIds, Route(c, p, q) PROVE TypeInv'
  <2>1. SendAll([Nothing EXCEPT ![members[room[c]][p]] = <<Signal(id[c])>>])
    BY <1>4 DEF Route
  <2>2. id[c] \in PeerIds /\ members[room[c]][p] \in Conns
    BY <1>4 DEF Route, Members, TypeOK
  <2>3. /\ out' \in [Conns -> Seq(Message)]
        /\ \A d \in Conns : Len(out'[d]) <= OutCap
        /\ dropped' \in SUBSET Conns
    BY <2>1, <2>2, OneMessage, MessageForms, SendAllFits
  <2>4. /\ routed' = routed + 1 /\ routed < MaxRouted
        /\ UNCHANGED <<connVars, room, rooms, members, joins, rejected>>
    BY <1>4 DEF Route
  <2>5. TypeOK'
    BY <2>3, <2>4 DEF TypeOK, connVars
  <2> QED
    BY <2>4, <2>5 DEF FiniteRooms, Named, Members, connVars
<1> QED
  BY <1>1, <1>2, <1>3, <1>4 DEF ClientStep

LEMMA TypeStep ==
  ASSUME TypeInv, [Next]_vars
  PROVE  TypeInv'
<1>1. TypeInv /\ UNCHANGED vars => TypeInv'
  BY DEF TypeInv, TypeOK, FiniteRooms, Named, Members, vars
<1> QED
  BY <1>1, ConnStepTyped, ClientStepTyped DEF Next

LEMMA InitTyped ==
  ASSUME Init
  PROVE  TypeInv /\ \A r \in Rooms : Members(r) = {}
<1>1. TypeOK
  BY HubAssumption DEF Init, TypeOK
<1>2. \A r \in Rooms : Members(r) = {}
  BY DEF Init, Members
<1> QED
  BY <1>1, <1>2, FS_EmptySet DEF Init, TypeInv, FiniteRooms, Named

\* Every reachable state of the relay is well typed; in particular no queue of a client
\* ever holds more than its capacity (hub.go:22-30).
THEOREM TypeCorrect == Spec => []TypeOK
<1>1. TypeInv => TypeOK
  BY DEF TypeInv
<1> QED
  BY <1>1, InitTyped, TypeStep, PTL DEF Spec

(***************************************************************************)
(* Rooms                                                                   *)
(***************************************************************************)

\* Who is a member has joined, so that a first join is a connection's first entry.
Entered == \A r \in Rooms : \A p \in Members(r) : joins[members[r][p]] > 0

RoomsInv == TypeInv /\ CapHolds /\ NoGhosts /\ Entered

\* Steps that touch no room keep the rooms in order, as long as they take no
\* connection out of its read loop's life.
LEMMA RoomsUntouched ==
  ASSUME RoomsInv, TypeInv',
         UNCHANGED <<members, rooms, room, joins>>,
         \A d \in Conns : id[d] # NoPeer => id'[d] = id[d],
         \A d \in Conns : conn[d] \in {"open", "closing"} => conn'[d] \in {"open", "closing"}
  PROVE  RoomsInv'
<1>1. \A r \in Rooms : Members(r)' = Members(r)
  BY DEF Members
<1>2. CapHolds'
  BY <1>1 DEF RoomsInv, CapHolds
<1>3. Entered'
  BY <1>1 DEF RoomsInv, Entered
<1>4. \A r \in Rooms : \A p \in Members(r) : members[r][p] \in Conns /\ p # NoPeer
  BY HubAssumption DEF RoomsInv, TypeInv, TypeOK, Members
<1>5. NoGhosts'
  BY <1>1, <1>4 DEF RoomsInv, NoGhosts
<1> QED
  BY <1>2, <1>3, <1>5 DEF RoomsInv

LEMMA JoinKeepsRooms ==
  ASSUME RoomsInv, TypeInv', NEW c \in Conns, NEW r \in Rooms, Join(c, r)
  PROVE  RoomsInv'
<1> USE DEF RoomsInv
<1>1. PICK p \in PeerIds : p = id[c]
  BY DEF Join, TypeInv, TypeOK
<1>2. /\ members' = [members EXCEPT ![r][p] = c] /\ rooms' = rooms \cup {r}
      /\ room' = [room EXCEPT ![c] = r] /\ joins' = [joins EXCEPT ![c] = @ + 1]
      /\ conn' = conn /\ id' = id /\ conn[c] = "open" /\ ~Full(r, p)
  BY <1>1 DEF Join, connVars
<1>3. /\ Members(r)' = Members(r) \cup {p}
      /\ \A s \in Rooms \ {r} : Members(s)' = Members(s)
      /\ \A s \in Rooms : \A q \in PeerIds :
           members'[s][q] = IF s = r /\ q = p THEN c ELSE members[s][q]
  BY <1>2, MembersJoined DEF TypeInv
<1>4. /\ joins \in [Conns -> Nat] /\ room \in [Conns -> Rooms \cup {NoRoom}]
      /\ \A d \in Conns : joins'[d] = IF d = c THEN joins[c] + 1 ELSE joins[d]
      /\ \A d \in Conns : room'[d] = IF d = c THEN r ELSE room[d]
  BY <1>2, HubAssumption DEF TypeInv, TypeOK
<1>5. \A s \in Rooms : \A q \in Members(s) : q \in PeerIds /\ members[s][q] \in Conns
  BY DEF TypeInv, TypeOK, Members
<1>6. CapHolds'
  <2> SUFFICES ASSUME MaxPeersPerRoom > 0 PROVE Cardinality(Members(r)') <= MaxPeersPerRoom
    BY <1>3 DEF CapHolds
  <2>1. IsFiniteSet(Members(r)) /\ Cardinality(Members(r)) <= MaxPeersPerRoom
    BY DEF TypeInv, FiniteRooms, CapHolds
  <2>2. Cardinality(Members(r)) \in Nat /\ MaxPeersPerRoom \in Nat
    BY <2>1, FS_CardinalityType, HubAssumption
  <2>3. Cardinality(Members(r) \cup {p}) = IF p \in Members(r) THEN Cardinality(Members(r))
                                           ELSE Cardinality(Members(r)) + 1
    BY <2>1, FS_AddElement
  <2>4. p \notin Members(r) => Cardinality(Members(r)) < MaxPeersPerRoom
    BY <1>2, <2>2 DEF Full
  <2> QED
    BY <1>3, <2>1, <2>2, <2>3, <2>4
<1>7. Entered'
  BY <1>3, <1>4, <1>5 DEF Entered
<1>8. ASSUME NEW s \in Rooms PROVE (s \in rooms <=> Members(s) # {})'
  BY <1>2, <1>3 DEF NoGhosts
<1>9. ASSUME NEW s \in Rooms, NEW q \in Members(s)'
      PROVE  /\ id'[members'[s][q]] = q
             /\ joins'[members'[s][q]] = 1 /\ s # NoRoom
                  => room'[members'[s][q]] = s /\ conn'[members'[s][q]] \in {"open", "closing"}
  <2>1. CASE s = r /\ q = p
    BY <1>1, <1>2, <1>3, <1>4, <2>1
  <2>2. CASE ~(s = r /\ q = p)
    <3>1. q \in Members(s) /\ members'[s][q] = members[s][q] /\ members[s][q] \in Conns
      BY <1>3, <1>5, <2>2
    <3>2. id[members[s][q]] = q /\ joins[members[s][q]] > 0
      BY <3>1 DEF NoGhosts, Entered
    <3>3. CASE members[s][q] = c
      BY <1>2, <1>4, <3>1, <3>2, <3>3
    <3>4. CASE members[s][q] # c
      BY <1>2, <1>4, <3>1, <3>4 DEF NoGhosts
    <3> QED BY <3>3, <3>4
  <2> QED BY <2>1, <2>2
<1>10. NoGhosts'
  BY <1>8, <1>9 DEF NoGhosts
<1> QED
  BY <1>6, <1>7, <1>10

LEMMA LeaveKeepsRooms ==
  ASSUME RoomsInv, TypeInv', NEW c \in Conns, Leave(c)
  PROVE  RoomsInv'
<1> USE DEF RoomsInv
<1>1. /\ conn' = [conn EXCEPT ![c] = "left"] /\ conn[c] = "closing"
      /\ id' = id /\ room' = room /\ joins' = joins
  BY DEF Leave
<1>2. \A s \in Rooms : \A q \in Members(s) :
        q \in PeerIds /\ members[s][q] \in Conns /\ s \in rooms
  BY DEF TypeInv, TypeOK, Members, NoGhosts
<1>3. \A d \in Conns : conn'[d] = IF d = c THEN "left" ELSE conn[d]
  BY <1>1 DEF TypeInv, TypeOK
<1>4. CASE room[c] # NoRoom /\ room[c] \in rooms
  <2>1. PICK r \in Rooms, p \in PeerIds : r = room[c] /\ p = id[c]
    BY <1>4 DEF TypeInv, TypeOK, Named
  <2>2. /\ members' = [members EXCEPT ![r][p] = NoConn]
        /\ rooms' = IF Members(r) \ {p} = {} THEN rooms \ {r} ELSE rooms
    BY <1>4, <2>1 DEF Leave
  <2>3. /\ Members(r)' = Members(r) \ {p}
        /\ \A s \in Rooms \ {r} : Members(s)' = Members(s)
        /\ \A s \in Rooms : \A q \in PeerIds :
             members'[s][q] = IF s = r /\ q = p THEN NoConn ELSE members[s][q]
    BY <2>1, <2>2, MembersLeft DEF TypeInv
  <2>4. \A s \in Rooms : \A q \in Members(s)' :
          q \in Members(s) /\ members'[s][q] = members[s][q]
    BY <1>2, <2>3
  <2>5. CapHolds'
    <3> SUFFICES ASSUME MaxPeersPerRoom > 0 PROVE Cardinality(Members(r)') <= MaxPeersPerRoom
      BY <2>3 DEF CapHolds
    <3>1. IsFiniteSet(Members(r)) /\ Cardinality(Members(r)) <= MaxPeersPerRoom
      BY DEF TypeInv, FiniteRooms, CapHolds
    <3>2. Cardinality(Members(r)) \in Nat
      BY <3>1, FS_CardinalityType
    <3>3. Cardinality(Members(r) \ {p}) = IF p \in Members(r) THEN Cardinality(Members(r)) - 1
                                          ELSE Cardinality(Members(r))
      BY <3>1, FS_RemoveElement
    <3> QED
      BY <2>3, <3>1, <3>2, <3>3, HubAssumption
  <2>6. Entered'
    BY <1>1, <2>4 DEF Entered
  <2>7. \A s \in Rooms : (s \in rooms <=> Members(s) # {})'
    BY <1>4, <2>1, <2>2, <2>3 DEF NoGhosts
  <2>8. ASSUME NEW s \in Rooms, NEW q \in Members(s)'
        PROVE  /\ id'[members'[s][q]] = q
               /\ joins'[members'[s][q]] = 1 /\ s # NoRoom
                    => room'[members'[s][q]] = s /\ conn'[members'[s][q]] \in {"open", "closing"}
    <3>1. q \in Members(s) /\ members'[s][q] = members[s][q] /\ members[s][q] \in Conns
      BY <1>2, <2>4
    <3>2. id[members[s][q]] = q
      BY <3>1 DEF NoGhosts
    <3>3. CASE members[s][q] # c
      BY <1>1, <1>3, <3>1, <3>2, <3>3 DEF NoGhosts
    <3>4. CASE members[s][q] = c
      <4>1. q = p /\ s # r
        BY <2>1, <2>3, <3>2, <3>4
      <4>2. joins[c] = 1 /\ s # NoRoom => room[c] = s
        BY <3>1, <3>4 DEF NoGhosts
      <4> QED
        BY <1>1, <2>1, <3>1, <3>2, <3>4, <4>1, <4>2
    <3> QED BY <3>3, <3>4
  <2>9. NoGhosts'
    BY <2>7, <2>8 DEF NoGhosts
  <2> QED
    BY <2>5, <2>6, <2>9
<1>5. CASE ~(room[c] # NoRoom /\ room[c] \in rooms)
  <2>1. members' = members /\ rooms' = rooms
    BY <1>5 DEF Leave
  <2>2. \A s \in Rooms : Members(s)' = Members(s)
    BY <2>1 DEF Members
  <2>3. CapHolds' /\ Entered'
    BY <1>1, <2>1, <2>2 DEF CapHolds, Entered
  <2>4. ASSUME NEW s \in Rooms, NEW q \in Members(s), s # NoRoom, joins[members[s][q]] = 1
        PROVE  members[s][q] # c
    BY <1>2, <1>5, <2>4 DEF NoGhosts
  <2>5. NoGhosts'
    BY <1>1, <1>2, <1>3, <2>1, <2>2, <2>4 DEF NoGhosts
  <2> QED
    BY <2>3, <2>5
<1> QED
  BY <1>4, <1>5

LEMMA RoomsStep ==
  ASSUME RoomsInv, [Next]_vars
  PROVE  RoomsInv'
<1>1. TypeInv'
  BY TypeStep DEF RoomsInv
<1> DEFINE Quiet == /\ UNCHANGED <<members, rooms, room, joins>>
                    /\ \A d \in Conns : id[d] # NoPeer => id'[d] = id[d]
                    /\ \A d \in Conns : conn[d] \in {"open", "closing"} => conn'[d] \in {"open", "closing"}
<1>q. Quiet => RoomsInv'
  BY <1>1, RoomsUntouched
<1>t. conn \in [Conns -> {"none", "refused", "upgrading", "open", "closing", "left", "closed"}]
      /\ id \in [Conns -> PeerIds \cup {NoPeer}]
  BY DEF RoomsInv, TypeInv, TypeOK
<1>2. ASSUME NEW c \in Conns, ConnStep(c) PROVE RoomsInv'
  <2>1. CASE Acquire(c)
    BY <2>1, <1>q, <1>t DEF Acquire, hubVars
  <2>2. CASE Upgrade(c)
    BY <2>2, <1>q, <1>t DEF Upgrade, hubVars
  <2>3. CASE Vanish(c) \/ WriterStops(c) \/ Write(c)
    BY <2>3, <1>q DEF Vanish, WriterStops, Write, hubVars
  <2>4. CASE ReadEnds(c)
    BY <2>4, <1>q, <1>t DEF ReadEnds, hubVars
  <2>5. CASE Leave(c)
    BY <2>5, <1>1, LeaveKeepsRooms
  <2>6. CASE Finish(c)
    BY <2>6, <1>q, <1>t DEF Finish, hubVars
  <2> QED
    BY <1>2, <2>1, <2>2, <2>3, <2>4, <2>5, <2>6 DEF ConnStep
<1>3. ASSUME NEW c \in Conns, ClientStep(c) PROVE RoomsInv'
  <2>1. CASE \E p \in PeerIds : Hello(c, p)
    BY <2>1, <1>q, <1>t DEF Hello
  <2>2. CASE \E r \in Rooms : Join(c, r)
    BY <2>2, <1>1, JoinKeepsRooms
  <2>3. CASE \E r \in Rooms : JoinRefused(c, r)
    BY <2>3, <1>q, <1>t DEF JoinRefused
  <2>4. CASE \E p, q \in PeerIds : Route(c, p, q)
    BY <2>4, <1>q DEF Route, connVars
  <2> QED
    BY <1>3, <2>1, <2>2, <2>3, <2>4 DEF ClientStep
<1>4. CASE UNCHANGED vars
  BY <1>4, <1>q DEF vars
<1> QED
  BY <1>2, <1>3, <1>4 DEF Next

\* At every moment RoomsInv holds; the theorems below name its parts.
THEOREM RoomsInOrder == Spec => []RoomsInv
<1>1. Init => RoomsInv
  <2> SUFFICES ASSUME Init PROVE RoomsInv
    OBVIOUS
  <2>2. TypeInv /\ \A r \in Rooms : Members(r) = {}
    BY InitTyped
  <2>4. CapHolds
    BY <2>2, FS_EmptySet, HubAssumption DEF CapHolds
  <2> QED
    BY <2>2, <2>4 DEF RoomsInv, NoGhosts, Entered, Init
<1>2. RoomsInv /\ [Next]_vars => RoomsInv'
  BY RoomsStep
<1> QED
  BY <1>1, <1>2, PTL DEF Spec

\* No room outgrows MaxPeersPerRoom (hub.go:114-125), for any cap and any joins, re-joins
\* of members and leaves.
THEOREM CapIsKept == Spec => []CapHolds
<1>1. RoomsInv => CapHolds
  BY DEF RoomsInv
<1> QED
  BY <1>1, RoomsInOrder, PTL

\* Rooms exist while they have members, and members of a room they joined are connections
\* that have not left (hub.go:104-161), for any connections, peers and rooms.
THEOREM NoGhostMembers == Spec => []NoGhosts
<1>1. RoomsInv => NoGhosts
  BY DEF RoomsInv
<1> QED
  BY <1>1, RoomsInOrder, PTL

(***************************************************************************)
(* Connections per address                                                 *)
(***************************************************************************)

\* The connections of an address between acquire and release.
Held(ip) == {c \in Conns : IpOf[c] = ip /\ conn[c] \in {"upgrading", "open", "closing", "left"}}

SlotsInv ==
  /\ TypeInv
  /\ MaxConnsPerIP > 0 => \A ip \in IPs :
       /\ IsFiniteSet(Held(ip))
       /\ connsPer[ip] = Cardinality(Held(ip))
       /\ connsPer[ip] <= MaxConnsPerIP

\* A release gives back the slot its connection took, and no other.
LEMMA ReleaseGivesBack ==
  ASSUME SlotsInv, TypeInv', NEW c \in Conns, conn[c] \in {"upgrading", "left"},
         conn' = [conn EXCEPT ![c] = "closed"], connsPer' = Released(c)
  PROVE  SlotsInv'
<1> SUFFICES ASSUME MaxConnsPerIP > 0, NEW ip \in IPs
             PROVE  /\ IsFiniteSet(Held(ip)')
                    /\ connsPer'[ip] = Cardinality(Held(ip)')
                    /\ connsPer'[ip] <= MaxConnsPerIP
  BY DEF SlotsInv
<1>1. IsFiniteSet(Held(ip)) /\ connsPer[ip] = Cardinality(Held(ip)) /\ connsPer[ip] <= MaxConnsPerIP
  BY DEF SlotsInv
<1>2. \A d \in Conns : conn'[d] = IF d = c THEN "closed" ELSE conn[d]
  BY DEF SlotsInv, TypeInv, TypeOK
<1>3. Held(ip)' = Held(ip) \ {c}
  BY <1>2 DEF Held
<1>4. IsFiniteSet(Held(ip) \ {c})
  BY <1>1, FS_RemoveElement
<1>5. Cardinality(Held(ip) \ {c}) = IF c \in Held(ip) THEN Cardinality(Held(ip)) - 1
                                    ELSE Cardinality(Held(ip))
  BY <1>1, FS_RemoveElement
<1>6. Cardinality(Held(ip)) \in Nat /\ Cardinality(Held(ip) \ {c}) \in Nat /\ MaxConnsPerIP \in Nat
  BY <1>1, <1>4, FS_CardinalityType, HubAssumption
<1>7. connsPer \in [IPs -> Nat]
  BY DEF SlotsInv, TypeInv, TypeOK
<1>8. CASE ip = IpOf[c]
  <2>1. c \in Held(ip)
    BY <1>8 DEF Held
  <2>2. connsPer[ip] > 0
    BY <1>1, <1>5, <1>6, <2>1
  <2>3. connsPer'[ip] = connsPer[ip] - 1
    BY <1>7, <1>8, <2>2 DEF Released
  <2> QED
    BY <1>1, <1>3, <1>4, <1>5, <1>6, <2>1, <2>3
<1>9. CASE ip # IpOf[c]
  <2>1. c \notin Held(ip)
    BY <1>9 DEF Held
  <2>2. connsPer'[ip] = connsPer[ip]
    BY <1>7, <1>9 DEF Released
  <2> QED
    BY <1>1, <1>3, <1>4, <1>5, <2>1, <2>2
<1> QED BY <1>8, <1>9

LEMMA AcquireTakesOne ==
  ASSUME SlotsInv, TypeInv', NEW c \in Conns, Acquire(c)
  PROVE  SlotsInv'
<1> SUFFICES ASSUME MaxConnsPerIP > 0, NEW ip \in IPs
             PROVE  /\ IsFiniteSet(Held(ip)')
                    /\ connsPer'[ip] = Cardinality(Held(ip)')
                    /\ connsPer'[ip] <= MaxConnsPerIP
  BY DEF SlotsInv
<1>1. IsFiniteSet(Held(ip)) /\ connsPer[ip] = Cardinality(Held(ip)) /\ connsPer[ip] <= MaxConnsPerIP
  BY DEF SlotsInv
<1>2. /\ conn \in [Conns -> {"none", "refused", "upgrading", "open", "closing", "left", "closed"}]
      /\ connsPer \in [IPs -> Nat] /\ MaxConnsPerIP \in Nat /\ conn[c] = "none"
  BY HubAssumption DEF SlotsInv, TypeInv, TypeOK, Acquire
<1>3. CASE connsPer[IpOf[c]] >= MaxConnsPerIP
  <2>1. conn' = [conn EXCEPT ![c] = "refused"] /\ connsPer' = connsPer
    BY <1>3 DEF Acquire
  <2>2. Held(ip)' = Held(ip)
    BY <1>2, <2>1 DEF Held
  <2> QED
    BY <1>1, <2>1, <2>2
<1>4. CASE ~(connsPer[IpOf[c]] >= MaxConnsPerIP)
  <2>1. conn' = [conn EXCEPT ![c] = "upgrading"] /\ connsPer' = [connsPer EXCEPT ![IpOf[c]] = @ + 1]
    BY <1>4 DEF Acquire
  <2>2. CASE ip = IpOf[c]
    <3>1. Held(ip)' = Held(ip) \cup {c} /\ c \notin Held(ip)
      BY <1>2, <2>1, <2>2 DEF Held
    <3>2. IsFiniteSet(Held(ip) \cup {c}) /\ Cardinality(Held(ip) \cup {c}) = Cardinality(Held(ip)) + 1
      BY <1>1, <3>1, FS_AddElement
    <3>3. connsPer'[ip] = connsPer[ip] + 1 /\ connsPer[ip] < MaxConnsPerIP /\ connsPer[ip] \in Nat
      BY <1>2, <1>4, <2>1, <2>2
    <3> QED
      BY <1>1, <1>2, <3>1, <3>2, <3>3
  <2>3. CASE ip # IpOf[c]
    <3>1. Held(ip)' = Held(ip) /\ connsPer'[ip] = connsPer[ip]
      BY <1>2, <2>1, <2>3 DEF Held
    <3> QED
      BY <1>1, <3>1
  <2> QED BY <2>2, <2>3
<1> QED BY <1>3, <1>4

LEMMA SlotsStep ==
  ASSUME SlotsInv, [Next]_vars
  PROVE  SlotsInv'
<1>1. TypeInv'
  BY TypeStep DEF SlotsInv
<1> DEFINE Here == {"upgrading", "open", "closing", "left"}
           Quiet == connsPer' = connsPer /\ \A d \in Conns : conn'[d] \in Here <=> conn[d] \in Here
<1>q. Quiet => SlotsInv'
  <2> SUFFICES ASSUME Quiet PROVE SlotsInv'
    OBVIOUS
  <2>1. \A ip : Held(ip)' = Held(ip)
    BY DEF Held
  <2> QED
    BY <1>1, <2>1 DEF SlotsInv
<1>t. conn \in [Conns -> {"none", "refused", "upgrading", "open", "closing", "left", "closed"}]
  BY DEF SlotsInv, TypeInv, TypeOK
<1>2. ASSUME NEW c \in Conns, ConnStep(c) PROVE SlotsInv'
  <2>1. CASE Acquire(c)
    BY <2>1, <1>1, AcquireTakesOne
  <2>2. CASE Upgrade(c)
    <3>1. CASE conn' = [conn EXCEPT ![c] = "open"] /\ UNCHANGED connsPer
      BY <2>2, <3>1, <1>q, <1>t DEF Upgrade
    <3>2. CASE conn' = [conn EXCEPT ![c] = "closed"] /\ connsPer' = Released(c)
      BY <2>2, <3>2, <1>1, ReleaseGivesBack DEF Upgrade
    <3> QED BY <2>2, <3>1, <3>2 DEF Upgrade
  <2>3. CASE Vanish(c) \/ WriterStops(c) \/ Write(c)
    BY <2>3, <1>q DEF Vanish, WriterStops, Write
  <2>4. CASE ReadEnds(c) \/ Leave(c)
    <3>1. /\ connsPer' = connsPer /\ conn[c] \in Here
          /\ \E s \in Here : conn' = [conn EXCEPT ![c] = s]
      BY <2>4 DEF ReadEnds, Leave
    <3> QED
      BY <3>1, <1>q, <1>t
  <2>5. CASE Finish(c)
    BY <2>5, <1>1, ReleaseGivesBack DEF Finish
  <2> QED
    BY <1>2, <2>1, <2>2, <2>3, <2>4, <2>5 DEF ConnStep
<1>3. ASSUME NEW c \in Conns, ClientStep(c) PROVE SlotsInv'
  <2>1. CASE \E p \in PeerIds : Hello(c, p)
    BY <2>1, <1>q DEF Hello
  <2>2. CASE \E r \in Rooms : Join(c, r)
    BY <2>2, <1>q DEF Join, connVars
  <2>3. CASE \E r \in Rooms : JoinRefused(c, r)
    <3>1. connsPer' = connsPer /\ conn[c] = "open" /\ conn' = [conn EXCEPT ![c] = "closing"]
      BY <2>3 DEF JoinRefused
    <3> QED
      BY <3>1, <1>q, <1>t
  <2>4. CASE \E p, q \in PeerIds : Route(c, p, q)
    BY <2>4, <1>q DEF Route, connVars
  <2> QED
    BY <1>3, <2>1, <2>2, <2>3, <2>4 DEF ClientStep
<1>4. CASE UNCHANGED vars
  BY <1>4, <1>q DEF vars
<1> QED
  BY <1>2, <1>3, <1>4 DEF Next

\* The count kept for an address is that of its connections between acquire and release,
\* and never above the cap (server.go:116-136, 170-184, 253-265).
THEOREM SlotsAreCounted == Spec => []ConnsCounted
<1>1. Init => SlotsInv
  <2> SUFFICES ASSUME Init PROVE SlotsInv
    OBVIOUS
  <2>3. TypeInv
    BY InitTyped
  <2>4. \A ip \in IPs : Held(ip) = {} /\ connsPer[ip] = 0
    BY DEF Init, Held
  <2> QED
    BY <2>3, <2>4, FS_EmptySet, HubAssumption DEF SlotsInv
<1>2. SlotsInv /\ [Next]_vars => SlotsInv'
  BY SlotsStep
<1>3. SlotsInv => ConnsCounted
  BY DEF SlotsInv, ConnsCounted, Held
<1> QED
  BY <1>1, <1>2, <1>3, PTL DEF Spec

(***************************************************************************)
(* What the members' clients know                                          *)
(***************************************************************************)

\* The roster of c's client once it has read all that is queued for it.
Seen(c) == R!Result(roster[c], out[c])

\* In a queue q read by a client p that knows k, signals come from peers it knows by then.
IntroducedIn(k, q, p) ==
  \A i \in 1..Len(q) : q[i].t = "signal" => q[i].peer \in R!Steps(k, q, i - 1)[i - 1] \cup {p}

Introduced(c) == IntroducedIn(roster[c], out[c], id[c])

NoSignals(q) == \A i \in 1..Len(q) : q[i].t # "signal"

AllSimple == \A d \in Conns : id[d] # NoPeer => Simple(d)

\* Of peers with one connection that join once: a member is in the room it asked for last
\* and no other, a client in a room that has not left is the member of its name, one that
\* did not join was told of nobody, and a member's client knows the others.
InOneRoom == \A r \in Rooms : \A p \in Members(r) : room[members[r][p]] = r

OwnEntry == \A c \in Conns : room[c] # NoRoom /\ conn[c] \notin {"left", "closed"} =>
                               room[c] \in Rooms /\ members[room[c]][id[c]] = c

Newcomers == \A c \in Conns : joins[c] = 0 /\ c \notin dropped => Seen(c) = {} /\ NoSignals(out[c])

MembersKnow == \A r \in Rooms \ {NoRoom} : \A p \in Members(r) :
                 members[r][p] \notin dropped => /\ Seen(members[r][p]) = Members(r) \ {p}
                                                 /\ Introduced(members[r][p])

Known == InOneRoom /\ OwnEntry /\ Newcomers /\ MembersKnow

LEMMA IntroducedAppend ==
  ASSUME NEW k, NEW q \in Seq(Message), NEW m \in Message, NEW p, IntroducedIn(k, q, p),
         m.t = "signal" => m.peer \in R!Result(k, q) \cup {p}
  PROVE  IntroducedIn(k, Append(q, m), p)
<1>1. /\ Len(q) \in Nat /\ Len(Append(q, m)) = Len(q) + 1 /\ Append(q, m)[Len(q) + 1] = m
      /\ \A i \in 1..Len(q) : Append(q, m)[i] = q[i]
  BY AppendProperties, LenProperties
<1>2. \A i \in 0..Len(q) : R!Steps(k, Append(q, m), i)[i] = R!Steps(k, q, i)[i]
  BY R!StepsAppend
<1>3. ASSUME NEW i \in 1..(Len(q) + 1), Append(q, m)[i].t = "signal"
      PROVE  Append(q, m)[i].peer \in R!Steps(k, Append(q, m), i - 1)[i - 1] \cup {p}
  <2>1. i - 1 \in 0..Len(q) /\ (i \in 1..Len(q) \/ i = Len(q) + 1)
    BY <1>1
  <2>2. CASE i \in 1..Len(q)
    BY <1>1, <1>2, <1>3, <2>1, <2>2 DEF IntroducedIn
  <2>3. CASE i = Len(q) + 1
    <3>1. i - 1 = Len(q) /\ Append(q, m)[i] = m
      BY <1>1, <2>3
    <3>2. R!Steps(k, Append(q, m), i - 1)[i - 1] = R!Result(k, q)
      BY <1>2, <2>1, <3>1 DEF R!Result
    <3> QED BY <1>3, <3>1, <3>2
  <2> QED BY <2>1, <2>2, <2>3
<1> QED BY <1>1, <1>3 DEF IntroducedIn

LEMMA IntroducedTail ==
  ASSUME NEW k, NEW q \in Seq(Message), q # <<>>, NEW p, IntroducedIn(k, q, p)
  PROVE  IntroducedIn(Apply(k, Head(q)), Tail(q), p)
<1>1. /\ Len(q) \in Nat /\ Len(Tail(q)) = Len(q) - 1
      /\ \A j \in 1..Len(Tail(q)) : Tail(q)[j] = q[j + 1]
  BY HeadTailProperties, LenProperties
<1>2. ASSUME NEW i \in 1..Len(Tail(q)), Tail(q)[i].t = "signal"
      PROVE  Tail(q)[i].peer \in R!Steps(Apply(k, Head(q)), Tail(q), i - 1)[i - 1] \cup {p}
  <2>1. i - 1 \in 0..Len(Tail(q)) /\ i + 1 \in 1..Len(q) /\ (i - 1) + 1 = i /\ (i + 1) - 1 = i
    BY <1>1
  <2>2. R!Steps(Apply(k, Head(q)), Tail(q), i - 1)[i - 1] = R!Steps(k, q, (i - 1) + 1)[(i - 1) + 1]
    BY <2>1, R!StepsTail
  <2>3. q[i + 1].peer \in R!Steps(k, q, (i + 1) - 1)[(i + 1) - 1] \cup {p}
    BY <1>1, <1>2, <2>1 DEF IntroducedIn
  <2> QED BY <1>1, <2>1, <2>2, <2>3
<1> QED BY <1>2 DEF IntroducedIn

\* What was queued before is simple now: peers keep their names, joins add up.
LEMMA SimpleBefore ==
  ASSUME TypeInv, AllSimple', \A d \in Conns : id'[d] = id[d] \/ id[d] = NoPeer,
         \A d \in Conns : joins'[d] >= joins[d], TypeOK'
  PROVE  AllSimple
<1>1. \A d \in Conns : joins[d] \in Nat /\ joins'[d] \in Nat
  BY HubAssumption DEF TypeInv, TypeOK
<1> QED BY <1>1 DEF AllSimple, Simple

(***************************************************************************)
(* Sending                                                                 *)
(***************************************************************************)

\* To a connection for which no Send was dropped, a batch is queued whole.
LEMMA Sent ==
  ASSUME TypeInv, NEW batch \in [Conns -> Seq(Message)], SendAll(batch), roster' = roster,
         NEW d \in Conns, d \notin dropped'
  PROVE  /\ d \notin dropped /\ out'[d] = out[d] \o batch[d]
         /\ Seen(d)' = R!Result(Seen(d), batch[d])
<1>1. out[d] \in Seq(Message) /\ batch[d] \in Seq(Message)
  BY DEF TypeInv, TypeOK
<1>2. Len(out[d]) \in Nat /\ Len(batch[d]) \in Nat /\ OutCap \in Nat
  BY <1>1, LenProperties, HubAssumption
<1>3. d \notin dropped /\ Len(out[d]) + Len(batch[d]) <= OutCap
  BY <1>2 DEF SendAll
<1>4. out'[d] = out[d] \o batch[d]
  BY <1>3 DEF SendAll, Queued
<1>5. ASSUME NEW q \in Seq(Message), NEW b \in Seq(Message), NEW k
      PROVE  R!Result(k, q \o b) = R!Result(R!Result(k, q), b)
  BY R!ResultConcat
<1>6. R!Result(roster[d], out[d] \o batch[d]) = R!Result(R!Result(roster[d], out[d]), batch[d])
  BY <1>1, <1>5
<1> QED BY <1>3, <1>4, <1>6 DEF Seen

LEMMA SentNothing ==
  ASSUME TypeInv, NEW batch \in [Conns -> Seq(Message)], SendAll(batch), roster' = roster,
         NEW d \in Conns, d \notin dropped', batch[d] = <<>>
  PROVE  d \notin dropped /\ out'[d] = out[d] /\ Seen(d)' = Seen(d)
<1>1. out[d] \in Seq(Message)
  BY DEF TypeInv, TypeOK
<1>2. out[d] \o <<>> = out[d]
  BY <1>1, ConcatEmptySeq
<1> QED BY <1>2, Sent DEF Seen

LEMMA SentOne ==
  ASSUME TypeInv, NEW batch \in [Conns -> Seq(Message)], SendAll(batch), roster' = roster,
         NEW d \in Conns, d \notin dropped', NEW m \in Message, batch[d] = <<m>>
  PROVE  /\ d \notin dropped /\ out'[d] = Append(out[d], m)
         /\ Seen(d)' = Apply(Seen(d), m)
         /\ NoSignals(out[d]) /\ m.t # "signal" => NoSignals(out'[d])
         /\ Introduced(d) /\ (m.t = "signal" => m.peer \in Seen(d) \cup {id[d]}) /\ id'[d] = id[d]
              => Introduced(d)'
<1>1. out[d] \in Seq(Message)
  BY DEF TypeInv, TypeOK
<1>2. d \notin dropped /\ out'[d] = out[d] \o <<m>> /\ Seen(d)' = R!Result(Seen(d), <<m>>)
  BY Sent
<1>3. out'[d] = Append(out[d], m)
  BY <1>1, <1>2, AppendIsConcat
<1>4. Seen(d)' = Apply(Seen(d), m)
  BY <1>2, R!ResultOne
<1>5. /\ Len(out[d]) \in Nat /\ Len(Append(out[d], m)) = Len(out[d]) + 1
      /\ Append(out[d], m)[Len(out[d]) + 1] = m
      /\ \A i \in 1..Len(out[d]) : Append(out[d], m)[i] = out[d][i]
  BY <1>1, AppendProperties, LenProperties
<1>6. NoSignals(out[d]) /\ m.t # "signal" => NoSignals(out'[d])
  BY <1>3, <1>5 DEF NoSignals
<1>7. ASSUME NEW q \in Seq(Message), NEW k, NEW p, IntroducedIn(k, q, p),
             m.t = "signal" => m.peer \in R!Result(k, q) \cup {p}
      PROVE  IntroducedIn(k, Append(q, m), p)
  BY <1>7, IntroducedAppend
<1>8. Introduced(d) /\ (m.t = "signal" => m.peer \in Seen(d) \cup {id[d]}) /\ id'[d] = id[d]
        => Introduced(d)'
  BY <1>1, <1>3, <1>7 DEF Introduced, Seen
<1> QED BY <1>2, <1>3, <1>4, <1>6, <1>8

(***************************************************************************)
(* Steps                                                                   *)
(***************************************************************************)

\* Steps that change no room, queue or roster, and end no client's stay, change nothing.
LEMMA KnownUntouched ==
  ASSUME RoomsInv, Known, UNCHANGED <<members, room, joins, out, dropped, roster>>,
         \A d \in Conns : id'[d] = id[d] \/ id[d] = NoPeer,
         \A d \in Conns : conn'[d] \notin {"left", "closed"} => conn[d] \notin {"left", "closed"}
  PROVE  Known'
<1>1. \A r : Members(r)' = Members(r)
  BY DEF Members
<1>2. \A d \in Conns : Seen(d)' = Seen(d)
  BY DEF Seen
<1>3. \A r \in Rooms : \A p \in Members(r) :
        members[r][p] \in Conns /\ id'[members[r][p]] = id[members[r][p]]
  BY HubAssumption DEF RoomsInv, TypeInv, TypeOK, NoGhosts, Members
<1>4. \A r \in Rooms : \A p \in Members(r) :
        Introduced(members[r][p]) => Introduced(members[r][p])'
  BY <1>3 DEF Introduced
<1>5. InOneRoom'
  BY <1>1 DEF Known, InOneRoom
<1>6. OwnEntry'
  BY DEF Known, OwnEntry, RoomsInv, TypeInv, Named
<1>7. Newcomers'
  BY <1>2 DEF Known, Newcomers
<1>8. MembersKnow'
  BY <1>1, <1>2, <1>3, <1>4 DEF Known, MembersKnow
<1> QED BY <1>5, <1>6, <1>7, <1>8 DEF Known

\* A message to one client that announces nobody, and if it is a signal comes from a
\* member of the receiver's room.
LEMMA KnownSent ==
  ASSUME RoomsInv, Known, NEW c \in Conns, NEW m \in Message,
         m.t \in {"welcome", "room-full", "signal"},
         SendAll([Nothing EXCEPT ![c] = <<m>>]),
         UNCHANGED <<members, room, joins, roster>>,
         \A d \in Conns : id'[d] = id[d] \/ id[d] = NoPeer,
         \A d \in Conns : conn'[d] \notin {"left", "closed"} => conn[d] \notin {"left", "closed"},
         m.t = "signal" => joins[c] # 0,
         m.t = "signal" => \A r \in Rooms \ {NoRoom} : \A p \in Members(r) :
                             members[r][p] = c => m.peer \in Members(r)
  PROVE  Known'
<1> DEFINE batch == [Nothing EXCEPT ![c] = <<m>>]
<1>1. \A r : Members(r)' = Members(r)
  BY DEF Members
<1>2. batch \in [Conns -> Seq(Message)] /\ batch[c] = <<m>> /\ \A d \in Conns \ {c} : batch[d] = <<>>
  BY OneMessage DEF Nothing
<1>3. SendAll(batch) /\ TypeInv /\ roster' = roster
  BY DEF RoomsInv
<1> HIDE DEF batch
<1>4. \A d \in Conns \ {c} : d \notin dropped' =>
        d \notin dropped /\ out'[d] = out[d] /\ Seen(d)' = Seen(d)
  BY <1>2, <1>3, SentNothing
<1>5. c \notin dropped' =>
        /\ c \notin dropped
        /\ Seen(c)' = Apply(Seen(c), m)
        /\ NoSignals(out[c]) /\ m.t # "signal" => NoSignals(out'[c])
        /\ Introduced(c) /\ (m.t = "signal" => m.peer \in Seen(c) \cup {id[c]}) /\ id'[c] = id[c]
             => Introduced(c)'
  BY <1>2, <1>3, SentOne
<1>6. \A k : Apply(k, m) = k
  BY DEF Apply
<1>7. \A r \in Rooms : \A p \in Members(r) :
        members[r][p] \in Conns /\ id[members[r][p]] = p /\ id'[members[r][p]] = id[members[r][p]]
  BY HubAssumption DEF RoomsInv, TypeInv, TypeOK, NoGhosts, Members
<1>8. InOneRoom'
  BY <1>1 DEF Known, InOneRoom
<1>9. OwnEntry'
  BY DEF Known, OwnEntry, RoomsInv, TypeInv, Named
<1>10. Newcomers'
  BY <1>4, <1>5, <1>6 DEF Known, Newcomers
<1>11. ASSUME NEW r \in Rooms \ {NoRoom}, NEW p \in Members(r), members[r][p] \notin dropped'
       PROVE  Seen(members[r][p])' = Members(r) \ {p} /\ Introduced(members[r][p])'
  <2> DEFINE d == members[r][p]
  <2>1. d \in Conns /\ id[d] = p /\ id'[d] = id[d]
    BY <1>7
  <2>2. CASE d # c
    <3>1. d \notin dropped /\ out'[d] = out[d] /\ Seen(d)' = Seen(d)
      BY <1>4, <1>11, <2>1, <2>2
    <3> QED BY <2>1, <3>1 DEF Known, MembersKnow, Introduced
  <2>3. CASE d = c
    <3>1. Seen(c) = Members(r) \ {p} /\ Introduced(c)
      BY <1>5, <1>11, <2>3 DEF Known, MembersKnow
    <3>2. m.t = "signal" => m.peer \in Seen(c) \cup {id[c]}
      BY <2>1, <2>3, <3>1
    <3> QED BY <1>5, <1>6, <1>11, <2>1, <2>3, <3>1, <3>2
  <2> QED BY <2>2, <2>3
<1>12. MembersKnow'
  BY <1>1, <1>11 DEF MembersKnow
<1> QED BY <1>8, <1>9, <1>10, <1>12 DEF Known

\* The client reads the next message.
LEMMA KnownWrite ==
  ASSUME RoomsInv, Known, NEW c \in Conns, Write(c)
  PROVE  Known'
<1>1. /\ out' = [out EXCEPT ![c] = Tail(@)] /\ roster' = [roster EXCEPT ![c] = Apply(@, Head(out[c]))]
      /\ out[c] # <<>> /\ UNCHANGED <<conn, id, room, dropped, members, joins>>
  BY DEF Write
<1>2. out[c] \in Seq(Message) /\ out \in [Conns -> Seq(Message)] /\ roster \in [Conns -> SUBSET PeerIds]
  BY DEF RoomsInv, TypeInv, TypeOK
<1>3. /\ out'[c] = Tail(out[c]) /\ roster'[c] = Apply(roster[c], Head(out[c]))
      /\ \A d \in Conns \ {c} : out'[d] = out[d] /\ roster'[d] = roster[d]
  BY <1>1, <1>2
<1>4. R!Result(roster[c], out[c]) = R!Result(Apply(roster[c], Head(out[c])), Tail(out[c]))
  BY <1>1, <1>2, R!ResultHead
<1>5. \A d \in Conns : Seen(d)' = Seen(d)
  BY <1>3, <1>4 DEF Seen
<1>6. NoSignals(out[c]) => NoSignals(out'[c])
  <2>1. /\ Len(out[c]) \in Nat /\ Len(Tail(out[c])) = Len(out[c]) - 1
        /\ \A j \in 1..Len(Tail(out[c])) : Tail(out[c])[j] = out[c][j + 1]
    BY <1>1, <1>2, HeadTailProperties, LenProperties
  <2> QED BY <1>3, <2>1 DEF NoSignals
<1>7. Introduced(c) => Introduced(c)'
  BY <1>1, <1>2, <1>3, IntroducedTail DEF Introduced
<1>8. \A d \in Conns : Introduced(d) => Introduced(d)'
  BY <1>1, <1>3, <1>7 DEF Introduced
<1>9. \A r : Members(r)' = Members(r)
  BY <1>1 DEF Members
<1>10. \A r \in Rooms : \A p \in Members(r) : members[r][p] \in Conns
  BY DEF RoomsInv, TypeInv, TypeOK, Members
<1>11. InOneRoom' /\ OwnEntry'
  BY <1>1, <1>9 DEF Known, InOneRoom, OwnEntry
<1>12. Newcomers'
  BY <1>1, <1>3, <1>5, <1>6 DEF Known, Newcomers
<1>13. MembersKnow'
  BY <1>1, <1>5, <1>8, <1>9, <1>10 DEF Known, MembersKnow
<1> QED BY <1>11, <1>12, <1>13 DEF Known

\* A member's departure is told to the others in its room and nobody else.
LEMMA KnownLeave ==
  ASSUME RoomsInv, AllSimple, Known, NEW c \in Conns, Leave(c), room[c] # NoRoom, room[c] \in rooms
  PROVE  Known'
<1>1. PICK r \in Rooms, p \in PeerIds : r = room[c] /\ p = id[c]
  BY DEF RoomsInv, TypeInv, TypeOK, Named
<1> DEFINE others == Members(r) \ {p}
           batch == [d \in Conns |-> IF \E q \in others : members[r][q] = d
                                     THEN <<Left(p)>> ELSE <<>>]
<1>2. /\ members' = [members EXCEPT ![r][p] = NoConn] /\ SendAll(batch)
      /\ conn' = [conn EXCEPT ![c] = "left"]
      /\ UNCHANGED <<id, roster, room, joins>>
  BY <1>1 DEF Leave
<1>3. /\ Members(r)' = Members(r) \ {p}
      /\ \A s \in Rooms \ {r} : Members(s)' = Members(s)
      /\ \A s \in Rooms : \A q \in PeerIds :
           members'[s][q] = IF s = r /\ q = p THEN NoConn ELSE members[s][q]
  BY <1>1, <1>2, MembersLeft DEF RoomsInv, TypeInv
<1>4. \A s \in Rooms : \A q \in Members(s) :
        /\ q \in PeerIds /\ members[s][q] \in Conns /\ id[members[s][q]] = q
        /\ room[members[s][q]] = s /\ joins[members[s][q]] > 0
  BY DEF RoomsInv, TypeInv, TypeOK, NoGhosts, Entered, Members, Known, InOneRoom
<1>5. \A s \in Rooms : \A q \in Members(s)' :
        q \in Members(s) /\ members'[s][q] = members[s][q] /\ ~(s = r /\ q = p)
  BY <1>3, <1>4
<1>6. /\ Left(p) \in Message /\ batch \in [Conns -> Seq(Message)] /\ roster' = roster /\ TypeInv
      /\ \A k : Apply(k, Left(p)) = k \ {p}
      /\ Left(p).t = "peer-left"
  BY <1>2, MessageForms DEF Apply, Left, RoomsInv
<1>7. InOneRoom'
  BY <1>2, <1>4, <1>5 DEF Known, InOneRoom
<1>8. OwnEntry'
  <2>1. ASSUME NEW d \in Conns, room[d] # NoRoom, conn'[d] \notin {"left", "closed"}
        PROVE  room[d] \in Rooms /\ members'[room[d]][id[d]] = d
    <3>1. d # c /\ conn[d] \notin {"left", "closed"}
      BY <1>2, <2>1 DEF RoomsInv, TypeInv, TypeOK
    <3>2. room[d] \in Rooms /\ members[room[d]][id[d]] = d /\ id[d] \in PeerIds
      BY <2>1, <3>1 DEF Known, OwnEntry, RoomsInv, TypeInv, TypeOK, Named
    <3>3. id[d] # p
      BY <1>1, <3>1, HubAssumption DEF AllSimple, Simple
    <3> QED BY <1>3, <3>2, <3>3
  <2> QED BY <1>2, <2>1 DEF OwnEntry
<1>9. \A d \in Conns : batch[d] = <<>> /\ d \notin dropped' =>
        d \notin dropped /\ out'[d] = out[d] /\ Seen(d)' = Seen(d)
  <2> HIDE DEF batch
  <2> QED BY <1>2, <1>6, SentNothing
<1>10. \A d \in Conns : batch[d] = <<Left(p)>> /\ d \notin dropped' =>
         /\ d \notin dropped /\ Seen(d)' = Apply(Seen(d), Left(p))
         /\ Introduced(d) => Introduced(d)'
  <2>1. PICK m \in Message : m = Left(p) /\ m.t # "signal"
    BY <1>6
  <2> HIDE DEF batch
  <2>2. id' = id /\ SendAll(batch)
    BY <1>2
  <2>3. \A d \in Conns : batch[d] = <<m>> /\ d \notin dropped' =>
         /\ d \notin dropped /\ Seen(d)' = Apply(Seen(d), m)
         /\ Introduced(d) => Introduced(d)'
    BY <1>6, <2>1, <2>2, SentOne
  <2> QED BY <2>1, <2>3
<1>11. Newcomers'
  <2>1. ASSUME NEW d \in Conns, joins[d] = 0 PROVE batch[d] = <<>>
    BY <1>4, <2>1
  <2> HIDE DEF batch
  <2> QED BY <1>2, <1>9, <2>1 DEF Known, Newcomers
<1>12. ASSUME NEW s \in Rooms \ {NoRoom}, NEW q \in Members(s)', NEW d \in Conns,
              d = members'[s][q], d \notin dropped'
       PROVE  Seen(d)' = Members(s)' \ {q} /\ Introduced(d)'
  <2>1. d = members[s][q]
    BY <1>5, <1>12
  <2>2. q \in Members(s) /\ room[d] = s /\ id[d] = q /\ ~(s = r /\ q = p)
    BY <1>4, <1>5, <2>1
  <2>3. CASE s = r
    <3>1. batch[d] = <<Left(p)>>
      BY <2>1, <2>2, <2>3
    <3>2. d \notin dropped /\ Seen(d)' = Apply(Seen(d), Left(p)) /\ (Introduced(d) => Introduced(d)')
      BY <1>10, <1>12, <2>1, <3>1
    <3>3. Seen(d) = Members(s) \ {q} /\ Introduced(d)
      BY <2>1, <2>2, <3>2 DEF Known, MembersKnow
    <3>4. Seen(d)' = (Members(r) \ {q}) \ {p}
      BY <1>6, <2>3, <3>2, <3>3
    <3> QED BY <1>3, <2>1, <2>3, <3>2, <3>3, <3>4
  <2>4. CASE s # r
    <3>1. batch[d] = <<>>
      BY <1>4, <2>2, <2>4
    <3>2. d \notin dropped /\ out'[d] = out[d] /\ Seen(d)' = Seen(d)
      BY <1>9, <1>12, <2>1, <3>1
    <3>3. Seen(d) = Members(s) \ {q} /\ Introduced(d)
      BY <2>1, <2>2, <3>2 DEF Known, MembersKnow
    <3> QED BY <1>2, <1>3, <2>1, <2>4, <3>2, <3>3 DEF Introduced
  <2> QED BY <2>3, <2>4
<1>13. MembersKnow'
  <2>1. \A s \in Rooms : \A q \in Members(s)' : members'[s][q] \in Conns
    BY <1>4, <1>5
  <2> QED BY <1>12, <2>1 DEF MembersKnow
<1> QED BY <1>7, <1>8, <1>11, <1>13 DEF Known

\* What a first join tells the newcomer: the names of the members, one each.
LEMMA NewcomerIsTold ==
  ASSUME TypeInv, NEW c \in Conns, NEW r \in Rooms, id[c] \in PeerIds,
         NEW order \in Orders(Members(r)), \A p \in Members(r) : members[r][p] # c
  PROVE  /\ R!Result({}, Announce(c, r, order)[c]) = Members(r)
         /\ NoSignals(Announce(c, r, order)[c])
<1> DEFINE n == Cardinality(Members(r))
           present == [i \in DOMAIN order |-> Joined(order[i])]
<1>1. n \in Nat /\ order \in [1..n -> Members(r)] /\ DOMAIN order = 1..n
      /\ \A p \in Members(r) : \E i \in 1..n : order[i] = p
  BY FS_CardinalityType DEF TypeInv, FiniteRooms, Orders
<1>2. \A i \in 1..n : Joined(order[i]) \in Message
  BY <1>1, MessageForms DEF Members
<1>3. present \in Seq(Message) /\ Len(present) = n /\ Len(order) = n
  <2> HIDE DEF n
  <2>1. [i \in 1..n |-> Joined(order[i])] \in Seq(Message)
    BY <1>1, <1>2, IsASeq
  <2> QED BY <1>1, <2>1
<1>4. Announce(c, r, order)[c] = SubSeq(present, 1, 0) \o <<>> \o SubSeq(present, 0 + 1, Len(order))
  <2>1. ~\E i \in DOMAIN order : members[r][order[i]] = c
    BY <1>1
  <2> HIDE DEF n
  <2> QED BY <2>1 DEF Announce
<1>5. \A i \in 1..n : present[i] = Joined(order[i])
  BY <1>1
<1> HIDE DEF present, n
<1>6. SubSeq(present, 1, 0) = <<>> /\ SubSeq(present, 0 + 1, Len(order)) = present
  BY <1>1, <1>3, SubSeqEmpty, SubSeqFull
<1>7. Announce(c, r, order)[c] = present
  <2>1. <<>> \o <<>> \o present = present
    BY <1>3, ConcatEmptySeq
  <2> QED BY <1>4, <1>6, <2>1
<1>8. R!Adds(present, order, n)
  <2>1. ASSUME NEW x, NEW i \in 1..n PROVE Apply(x, present[i]) = x \cup {order[i]}
    <3>1. present[i] = Joined(order[i])
      BY <1>5
    <3>2. \A q : Apply(x, Joined(q)) = x \cup {q}
      BY DEF Apply, Joined
    <3> QED BY <3>1, <3>2
  <2> QED BY <2>1 DEF R!Adds
<1>9. R!Elements(order, n) = Members(r)
  BY <1>1 DEF R!Elements
<1>10. R!Steps({}, present, n)[n] = {} \cup R!Elements(order, n)
  <2>1. ASSUME NEW us, NEW f, NEW k \in Nat, R!Adds(us, f, k)
        PROVE  R!Steps({}, us, k)[k] = {} \cup R!Elements(f, k)
    BY <2>1, R!StepsGather
  <2> QED BY <1>1, <1>8, <2>1
<1>11. R!Result({}, present) = Members(r)
  BY <1>3, <1>9, <1>10 DEF R!Result
<1>12. NoSignals(present)
  BY <1>3, <1>5 DEF NoSignals, Joined
<1> QED BY <1>7, <1>11, <1>12

\* A first join tells the newcomer who is there, and those that are of the newcomer.
LEMMA KnownJoin ==
  ASSUME RoomsInv, AllSimple, AllSimple', Known, NEW c \in Conns, NEW r \in Rooms, Join(c, r)
  PROVE  Known'
<1>1. PICK p \in PeerIds : p = id[c]
  BY DEF Join, RoomsInv, TypeInv, TypeOK
<1>2. PICK order \in Orders(Members(r)) : SendAll(Announce(c, r, order))
  BY DEF Join
<1>3. /\ members' = [members EXCEPT ![r][p] = c] /\ conn[c] = "open"
      /\ room' = [room EXCEPT ![c] = r] /\ joins' = [joins EXCEPT ![c] = @ + 1]
      /\ UNCHANGED <<conn, id, roster>>
  BY <1>1 DEF Join, connVars
<1>4. /\ Members(r)' = Members(r) \cup {p}
      /\ \A s \in Rooms \ {r} : Members(s)' = Members(s)
      /\ \A s \in Rooms : \A q \in PeerIds :
           members'[s][q] = IF s = r /\ q = p THEN c ELSE members[s][q]
  <2>1. TypeOK
    BY DEF RoomsInv, TypeInv
  <2>2. members' = [members EXCEPT ![r][p] = c]
    BY <1>3
  <2> QED BY <2>1, <2>2, MembersJoined
<1>5. \A s \in Rooms : \A q \in Members(s) :
        /\ q \in PeerIds /\ members[s][q] \in Conns /\ id[members[s][q]] = q
        /\ room[members[s][q]] = s /\ joins[members[s][q]] > 0
  BY DEF RoomsInv, TypeInv, TypeOK, NoGhosts, Entered, Members, Known, InOneRoom
<1>6. joins[c] = 0 /\ \A d \in Conns : joins'[d] = IF d = c THEN 1 ELSE joins[d]
  <2>1. joins \in [Conns -> Nat]
    BY HubAssumption DEF RoomsInv, TypeInv, TypeOK
  <2>2. joins'[c] = joins[c] + 1 /\ joins'[c] <= 1
    BY <1>1, <1>3, <2>1, HubAssumption DEF AllSimple, Simple
  <2> QED BY <1>3, <2>1, <2>2
<1>7. \A s \in Rooms : \A q \in Members(s) : members[s][q] # c /\ q # p
  <2>1. \A d \in Conns \ {c} : id[d] # p
    BY <1>1, HubAssumption DEF AllSimple, Simple
  <2>2. \A s \in Rooms : \A q \in Members(s) : members[s][q] # c
    BY <1>5, <1>6
  <2> QED BY <1>5, <2>1, <2>2
<1>8. \A d \in Conns : room'[d] = IF d = c THEN r ELSE room[d]
  BY <1>3 DEF RoomsInv, TypeInv, TypeOK
<1>9. \A s \in Rooms : \A q \in Members(s)' :
        \/ s = r /\ q = p /\ members'[s][q] = c
        \/ q \in Members(s) /\ members'[s][q] = members[s][q]
  BY <1>4, <1>5
<1>10. InOneRoom'
  <2>1. ASSUME NEW s \in Rooms, NEW q \in Members(s)' PROVE room'[members'[s][q]] = s
    BY <1>5, <1>7, <1>8, <1>9
  <2> QED BY <2>1 DEF InOneRoom
<1>11. OwnEntry'
  <2>1. ASSUME NEW d \in Conns, room'[d] # NoRoom, conn[d] \notin {"left", "closed"}
        PROVE  room'[d] \in Rooms /\ members'[room'[d]][id[d]] = d
    <3>1. CASE d = c
      BY <1>1, <1>4, <1>8, <3>1
    <3>2. CASE d # c
      <4>1. room'[d] = room[d] /\ room[d] \in Rooms /\ members[room[d]][id[d]] = d /\ id[d] \in PeerIds
        BY <1>8, <2>1, <3>2 DEF Known, OwnEntry, RoomsInv, TypeInv, TypeOK, Named
      <4>2. id[d] # p
        BY <1>1, <3>2, HubAssumption DEF AllSimple, Simple
      <4> QED BY <1>4, <4>1, <4>2
    <3> QED BY <3>1, <3>2
  <2> QED BY <1>3, <2>1 DEF OwnEntry
<1> DEFINE batch == Announce(c, r, order)
<1>12. batch \in [Conns -> Seq(Message)]
  BY <1>1, AnnounceIsBatch DEF RoomsInv, TypeInv
<1>13. /\ \A d \in Conns \ {c} : (\E q \in Members(r) : members[r][q] = d) => batch[d] = <<Joined(p)>>
       /\ \A d \in Conns \ {c} : ~(\E q \in Members(r) : members[r][q] = d) => batch[d] = <<>>
  BY <1>1 DEF Announce
<1>14. R!Result({}, batch[c]) = Members(r) /\ NoSignals(batch[c])
  BY <1>1, <1>7, NewcomerIsTold DEF RoomsInv
<1> HIDE DEF batch
<1>15. SendAll(batch) /\ TypeInv /\ roster' = roster /\ id' = id
  BY <1>2, <1>3 DEF batch, RoomsInv
<1>16. \A d \in Conns : batch[d] = <<>> /\ d \notin dropped' =>
         d \notin dropped /\ out'[d] = out[d] /\ Seen(d)' = Seen(d)
  BY <1>12, <1>15, SentNothing
<1>17. \A d \in Conns : batch[d] = <<Joined(p)>> /\ d \notin dropped' =>
         /\ d \notin dropped /\ Seen(d)' = Seen(d) \cup {p}
         /\ Introduced(d) => Introduced(d)'
  <2>1. PICK m \in Message : m = Joined(p) /\ m.t # "signal" /\ \A k : Apply(k, m) = k \cup {p}
    BY MessageForms DEF Joined, Apply
  <2>2. \A d \in Conns : batch[d] = <<m>> /\ d \notin dropped' =>
         /\ d \notin dropped /\ Seen(d)' = Apply(Seen(d), m)
         /\ Introduced(d) => Introduced(d)'
    BY <1>12, <1>15, <2>1, SentOne
  <2> QED BY <2>1, <2>2
<1>18. c \notin dropped' => Seen(c)' = Members(r) /\ Introduced(c)'
  <2> SUFFICES ASSUME c \notin dropped' PROVE Seen(c)' = Members(r) /\ Introduced(c)'
    OBVIOUS
  <2>1. /\ c \notin dropped /\ out'[c] = out[c] \o batch[c]
        /\ Seen(c)' = R!Result(Seen(c), batch[c])
    BY <1>12, <1>15, Sent
  <2>2. Seen(c) = {} /\ NoSignals(out[c])
    BY <1>6, <2>1 DEF Known, Newcomers
  <2>3. NoSignals(out[c] \o batch[c])
    <3>1. out[c] \in Seq(Message) /\ batch[c] \in Seq(Message)
      BY <1>12 DEF RoomsInv, TypeInv, TypeOK
    <3>2. /\ Len(out[c] \o batch[c]) = Len(out[c]) + Len(batch[c])
          /\ Len(out[c]) \in Nat /\ Len(batch[c]) \in Nat
          /\ \A i \in 1..(Len(out[c]) + Len(batch[c])) :
               (out[c] \o batch[c])[i] = IF i <= Len(out[c]) THEN out[c][i] ELSE batch[c][i - Len(out[c])]
      BY <3>1, ConcatProperties, LenProperties
    <3>3. ASSUME NEW i \in 1..(Len(out[c]) + Len(batch[c])) PROVE (out[c] \o batch[c])[i].t # "signal"
      <4>1. CASE i <= Len(out[c])
        BY <2>2, <3>2, <4>1 DEF NoSignals
      <4>2. CASE ~(i <= Len(out[c]))
        <5>1. i - Len(out[c]) \in 1..Len(batch[c])
          <6>1. \A a, b \in Nat : \A j \in 1..(a + b) : ~(j <= a) => j - a \in 1..b
            OBVIOUS
          <6>2. Len(out[c]) \in Nat /\ Len(batch[c]) \in Nat
            BY <3>2
          <6> HIDE DEF batch
          <6> QED BY <4>2, <6>1, <6>2
        <5> QED BY <1>14, <3>2, <4>2, <5>1 DEF NoSignals
      <4> QED BY <4>1, <4>2
    <3> QED BY <3>2, <3>3 DEF NoSignals
  <2>4. NoSignals(out'[c])
    BY <2>1, <2>3
  <2> QED BY <1>14, <2>1, <2>2, <2>4 DEF NoSignals, Introduced, IntroducedIn
<1>19. Newcomers'
  <2>1. ASSUME NEW d \in Conns, joins'[d] = 0 PROVE batch[d] = <<>> /\ joins[d] = 0
    BY <1>5, <1>6, <1>13, <2>1
  <2> QED BY <1>16, <2>1 DEF Known, Newcomers
<1>20. ASSUME NEW s \in Rooms \ {NoRoom}, NEW q \in Members(s)', NEW d \in Conns,
              d = members'[s][q], d \notin dropped'
       PROVE  Seen(d)' = Members(s)' \ {q} /\ Introduced(d)'
  <2>1. CASE s = r /\ q = p /\ d = c
    BY <1>4, <1>7, <1>18, <1>20, <2>1
  <2>2. CASE q \in Members(s) /\ d = members[s][q]
    <3>1. d # c /\ room[d] = s /\ id[d] = q /\ q # p
      BY <1>5, <1>7, <2>2
    <3>2. CASE s = r
      <4>1. batch[d] = <<Joined(p)>>
        BY <1>13, <2>2, <3>1, <3>2
      <4>2. /\ d \notin dropped /\ Seen(d)' = Seen(d) \cup {p}
            /\ Introduced(d) => Introduced(d)'
        BY <1>17, <1>20, <4>1
      <4>3. Seen(d) = Members(s) \ {q} /\ Introduced(d)
        BY <2>2, <4>2 DEF Known, MembersKnow
      <4> QED BY <1>4, <3>1, <3>2, <4>2, <4>3
    <3>3. CASE s # r
      <4>1. batch[d] = <<>>
        BY <1>5, <1>13, <3>1, <3>3
      <4>2. d \notin dropped /\ out'[d] = out[d] /\ Seen(d)' = Seen(d)
        BY <1>16, <1>20, <4>1
      <4>3. Seen(d) = Members(s) \ {q} /\ Introduced(d)
        BY <2>2, <4>2 DEF Known, MembersKnow
      <4> QED BY <1>4, <1>15, <3>3, <4>2, <4>3 DEF Introduced
    <3> QED BY <3>2, <3>3
  <2> QED BY <1>9, <1>20, <2>1, <2>2
<1>21. MembersKnow'
  <2>1. \A s \in Rooms : \A q \in Members(s)' : members'[s][q] \in Conns
    BY <1>5, <1>9
  <2> QED BY <1>20, <2>1 DEF MembersKnow
<1> QED BY <1>10, <1>11, <1>19, <1>21 DEF Known

\* As long as peers are simple, clients know their rooms.
KnowledgeInv == RoomsInv /\ (AllSimple => Known)

LEMMA KnowledgeStep ==
  ASSUME KnowledgeInv, [Next]_vars
  PROVE  KnowledgeInv'
<1>1. RoomsInv'
  BY RoomsStep DEF KnowledgeInv
<1> SUFFICES ASSUME AllSimple' PROVE Known'
  BY <1>1 DEF KnowledgeInv
<1>t. /\ RoomsInv /\ conn \in [Conns -> {"none", "refused", "upgrading", "open", "closing", "left", "closed"}]
      /\ id \in [Conns -> PeerIds \cup {NoPeer}]
      /\ joins \in [Conns -> Nat]
  BY HubAssumption DEF KnowledgeInv, RoomsInv, TypeInv, TypeOK
<1> DEFINE Ids == \A d \in Conns : id'[d] = id[d] \/ id[d] = NoPeer
           Stays == \A d \in Conns : conn'[d] \notin {"left", "closed"} => conn[d] \notin {"left", "closed"}
<1>2. Ids
  <2>1. ASSUME NEW c \in Conns, ConnStep(c) PROVE id' = id
    BY <2>1 DEF ConnStep, Acquire, Upgrade, Vanish, ReadEnds, Leave, Finish, Write, WriterStops
  <2>2. ASSUME NEW c \in Conns, ClientStep(c) PROVE Ids
    <3>1. CASE \E p \in PeerIds : Hello(c, p)
      BY <1>t, <3>1 DEF Hello
    <3>2. CASE id' = id
      BY <3>2
    <3> QED BY <2>2, <3>1, <3>2 DEF ClientStep, Join, JoinRefused, Route, connVars
  <2> QED BY <2>1, <2>2 DEF Next, vars
<1>3. \A d \in Conns : joins'[d] >= joins[d]
  <2>1. ASSUME NEW c \in Conns, ConnStep(c) PROVE joins' = joins
    BY <2>1 DEF ConnStep, Acquire, Upgrade, Vanish, ReadEnds, Leave, Finish, Write, WriterStops, hubVars
  <2>2. ASSUME NEW c \in Conns, ClientStep(c) PROVE \A d \in Conns : joins'[d] >= joins[d]
    <3>1. CASE \E r \in Rooms : Join(c, r)
      BY <1>t, <3>1 DEF Join
    <3>2. CASE joins' = joins
      BY <1>t, <3>2
    <3> QED BY <2>2, <3>1, <3>2 DEF ClientStep, Hello, JoinRefused, Route
  <2> QED BY <1>t, <2>1, <2>2 DEF Next, vars
<1>4. AllSimple /\ Known
  <2>1. AllSimple
    BY <1>1, <1>2, <1>3, <1>t, SimpleBefore DEF RoomsInv, TypeInv
  <2> QED BY <2>1 DEF KnowledgeInv
<1>u. UNCHANGED <<members, room, joins, out, dropped, roster>> /\ Stays => Known'
  BY <1>2, <1>4, <1>t, KnownUntouched
<1>5. ASSUME NEW c \in Conns, ConnStep(c) PROVE Known'
  <2>1. CASE Acquire(c) \/ Upgrade(c)
    BY <1>t, <1>u, <2>1 DEF Acquire, Upgrade, hubVars
  <2>2. CASE Vanish(c) \/ ReadEnds(c) \/ WriterStops(c)
    BY <1>t, <1>u, <2>2 DEF Vanish, ReadEnds, WriterStops, hubVars
  <2>3. CASE Finish(c)
    BY <1>t, <1>u, <2>3 DEF Finish, hubVars
  <2>4. CASE Leave(c) /\ ~(room[c] # NoRoom /\ room[c] \in rooms)
    BY <1>t, <1>u, <2>4 DEF Leave
  <2>5. CASE Leave(c) /\ room[c] # NoRoom /\ room[c] \in rooms
    BY <1>4, <1>t, <2>5, KnownLeave
  <2>6. CASE Write(c)
    BY <1>4, <1>t, <2>6, KnownWrite
  <2> QED BY <1>5, <2>1, <2>2, <2>3, <2>4, <2>5, <2>6 DEF ConnStep
<1>6. ASSUME NEW c \in Conns, ClientStep(c) PROVE Known'
  <2>1. ASSUME NEW p \in PeerIds, Hello(c, p) PROVE Known'
    <3>1. PICK m \in Message : m = [t |-> "welcome"] /\ m.t = "welcome"
      BY MessageForms
    <3>2. /\ SendAll([Nothing EXCEPT ![c] = <<m>>])
          /\ UNCHANGED <<members, room, joins, roster, conn>>
      BY <2>1, <3>1 DEF Hello
    <3> QED BY <1>2, <1>4, <1>t, <3>1, <3>2, KnownSent
  <2>2. ASSUME NEW r \in Rooms, JoinRefused(c, r) PROVE Known'
    <3>1. PICK m \in Message : m = [t |-> "room-full"] /\ m.t = "room-full"
      BY MessageForms
    <3>2. /\ SendAll([Nothing EXCEPT ![c] = <<m>>])
          /\ UNCHANGED <<members, room, joins, roster>>
      BY <2>2, <3>1 DEF JoinRefused
    <3>3. Stays
      BY <1>t, <2>2 DEF JoinRefused
    <3> QED BY <1>2, <1>4, <1>t, <3>1, <3>2, <3>3, KnownSent
  <2>3. ASSUME NEW r \in Rooms, Join(c, r) PROVE Known'
    BY <1>4, <1>t, <2>3, KnownJoin
  <2>4. ASSUME NEW p \in PeerIds, NEW claimed \in PeerIds, Route(c, p, claimed) PROVE Known'
    <3>1. PICK d \in Conns : d = members[room[c]][p]
      BY <2>4 DEF Route, Members, RoomsInv, TypeInv, TypeOK, KnowledgeInv
    <3>2. id[c] \in PeerIds /\ conn[c] = "open" /\ p \in Members(room[c]) /\ room[c] \in Rooms
      BY <1>t, <2>4 DEF Route, RoomsInv, TypeInv, TypeOK
    <3>3. PICK m \in Message : m = Signal(id[c]) /\ m.t = "signal" /\ m.peer = id[c]
      BY <3>2, MessageForms DEF Signal
    <3>4. /\ SendAll([Nothing EXCEPT ![d] = <<m>>])
          /\ UNCHANGED <<members, room, joins, roster, conn>>
      BY <2>4, <3>1, <3>3 DEF Route, connVars
    <3>5. joins[d] # 0 /\ room[d] = room[c]
      BY <1>4, <1>t, <3>1, <3>2 DEF RoomsInv, Entered, Known, InOneRoom
    <3>6. ASSUME NEW r \in Rooms \ {NoRoom}, NEW q \in Members(r), members[r][q] = d
          PROVE  m.peer \in Members(r)
      <4>1. room[c] = r
        BY <1>4, <3>5, <3>6 DEF Known, InOneRoom
      <4>2. members[r][id[c]] = c
        BY <1>4, <3>2, <4>1 DEF Known, OwnEntry
      <4> QED BY <3>2, <3>3, <4>2, HubAssumption DEF Members
    <3> QED BY <1>2, <1>4, <1>t, <3>3, <3>4, <3>5, <3>6, KnownSent
  <2> QED BY <1>6, <2>1, <2>2, <2>3, <2>4 DEF ClientStep
<1>7. CASE UNCHANGED vars
  BY <1>7, <1>u DEF vars
<1> QED BY <1>5, <1>6, <1>7 DEF Next

\* At every moment the rooms are in order and, when every peer has one connection and joins
\* once, members and their clients know each other; the theorems below read off their parts.
THEOREM KnowledgeHolds == Spec => []KnowledgeInv
<1>1. Init => KnowledgeInv
  <2> SUFFICES ASSUME Init PROVE KnowledgeInv
    OBVIOUS
  <2>1. RoomsInv
    <3>1. TypeInv /\ \A r \in Rooms : Members(r) = {}
      BY InitTyped
    <3>2. CapHolds
      BY <3>1, FS_EmptySet, HubAssumption DEF CapHolds
    <3> QED
      BY <3>1, <3>2 DEF RoomsInv, NoGhosts, Entered, Init
  <2>2. \A r \in Rooms : Members(r) = {}
    BY InitTyped
  <2>3. \A c \in Conns : Seen(c) = {} /\ NoSignals(out[c])
    BY R!ResultEmpty DEF Init, Seen, NoSignals
  <2>4. Known
    BY <2>2, <2>3 DEF Known, InOneRoom, OwnEntry, Newcomers, MembersKnow, Init
  <2> QED BY <2>1, <2>4 DEF KnowledgeInv
<1>2. KnowledgeInv /\ [Next]_vars => KnowledgeInv'
  BY KnowledgeStep
<1> QED
  BY <1>1, <1>2, PTL DEF Spec

LEMMA ViewIsSteps ==
  ASSUME NEW c, NEW n
  PROVE  View(c, n) = R!Steps(roster[c], out[c], n)[n]
BY DEF View, R!Steps

\* Whatever the order of joins, leaves and writes, what a member's client was told and what
\* is queued for it add up to the other members of its room (hub.go:104-161).
THEOREM RostersAgree == Spec => []RosterAgrees
<1>1. KnowledgeInv => RosterAgrees
  <2> SUFFICES ASSUME RoomsInv, Known, NEW r \in Rooms \ {NoRoom}, NEW p \in Members(r),
                      members[r][p] \notin dropped
               PROVE  View(members[r][p], Len(out[members[r][p]])) = Members(r) \ {p}
    BY DEF KnowledgeInv, RosterAgrees, AllSimple
  <2>1. Seen(members[r][p]) = Members(r) \ {p}
    BY DEF Known, MembersKnow
  <2> QED BY <2>1, ViewIsSteps DEF Seen, R!Result
<1> QED
  BY <1>1, KnowledgeHolds, PTL

\* A routed message reaches a client after the announcement of its sender and before that of
\* its departure (hub.go:104-192).
THEOREM SendersAreIntroduced == Spec => []SignalsIntroduced
<1>1. KnowledgeInv => SignalsIntroduced
  <2> SUFFICES ASSUME RoomsInv, Known, NEW r \in Rooms \ {NoRoom}, NEW p \in Members(r),
                      NEW i \in 1..Len(out[members[r][p]]),
                      members[r][p] \notin dropped, out[members[r][p]][i].t = "signal"
               PROVE  out[members[r][p]][i].peer \in View(members[r][p], i - 1) \cup {p}
    BY DEF KnowledgeInv, SignalsIntroduced, AllSimple
  <2>1. Introduced(members[r][p]) /\ id[members[r][p]] = p
    BY DEF Known, MembersKnow, RoomsInv, NoGhosts
  <2> QED BY <2>1, ViewIsSteps DEF Introduced, IntroducedIn
<1> QED
  BY <1>1, KnowledgeHolds, PTL
=============================================================================
