--------------------------- MODULE HandshakeProofs ---------------------------
(***************************************************************************)
(* For any number of sessions, connections and faults: the state is well   *)
(* typed, and settled sessions agree on their keys.  Those are sessions on *)
(* which no two calls ever overlapped; of the others nothing is assumed    *)
(* and nothing is promised.                                                *)
(***************************************************************************)
EXTENDS Handshake, SequenceTheorems, TLAPS

(***************************************************************************)
(* The invariant                                                           *)
(***************************************************************************)

\* Where a call stands: past its key pair on the offering and on the answering side, and
\* within establishKey.
Offering == {"createOffer", "setOffer", "exportOffer"}
Answering == {"setRemoteOffer", "createAnswer", "setAnswer", "exportAnswer"}
Keying == {"importing", "deriving", "digesting"}

Alone(s) == s \notin overlapped

\* Connection n is of a session on which no call ever overlapped another.
Fresh(n) == conns[n].s \notin overlapped

\* A message of a session without overlaps names the connection and its own key pair.
Sound == {m \in Message : m.t \in {"offer", "answer"} =>
            m.conn \in DOMAIN conns /\ (Fresh(m.conn) => m.key = m.conn)}

Mail == \A p \in Peers : net[p] \in Seq(Sound)

\* A session's key pair was made with a connection of its own, which is this.pc until the
\* session is closed; channels are open on negotiated connections only.
Owned ==
  /\ \A s \in Session : /\ keyPair[s] # 0 => keyPair[s] \in DOMAIN conns /\ conns[keyPair[s]].s = s
                        /\ pc[s] # 0 => pc[s] = keyPair[s]
  /\ \A n \in DOMAIN conns : /\ conns[n].remote # 0 => conns[n].remote \in DOMAIN conns
                             /\ conns[n].link = "open" => conns[n].sig = "stable"

\* What a suspended call has passed, whatever else runs on its session.
Passed(k) ==
  /\ k.at # "keygen" => k.desc \in DOMAIN conns /\ conns[k.desc].s = k.s /\ keyPair[k.s] # 0
  /\ k.at \in Offering => k.call = "connect"
  /\ k.at \in Answering => k.call = "onOffer"
  /\ k.at = "keygen" => k.call # "onAnswer"
  /\ k.at = "setRemoteAnswer" => k.call = "onAnswer"
  /\ k.at \in Keying => k.call # "connect" /\ ownKey[k.s] # 0
  /\ k.call # "connect" => k.remote \in DOMAIN conns
  /\ k.call = "connect" => k.remote = 0
  /\ k.call = "onOffer" => k.remoteKey # 0
  /\ k.call # "connect" /\ k.at # "keygen" => peerKey[k.s] # 0
  /\ k.at \in {"exportOffer", "exportAnswer"} => k.pub # 0
  /\ k.at \in Keying /\ k.call = "onOffer" => k.pub # 0

\* A call that has its session for itself works on the session's connection and with the
\* key of the message it handles, if the sender's session had no overlaps either.
Undisturbed(k) ==
  /\ k.at # "keygen" => k.desc = keyPair[k.s]
  /\ k.at \in {"exportOffer", "exportAnswer"} => k.pub = k.desc
  /\ k.at \in Keying => ownKey[k.s] = k.desc /\ (k.call = "onOffer" => k.pub = k.desc)
  /\ k.at \in Answering \cup Keying => conns[k.desc].remote = k.remote
  /\ k.call # "connect" /\ Fresh(k.remote) =>
       /\ k.call = "onOffer" => k.remoteKey = k.remote
       /\ k.at # "keygen" => peerKey[k.s] = k.remote
       /\ k.at = "importing" => k.keys = {k.remote}
       /\ k.at \in {"deriving", "digesting"} => k.keys = {k.desc, k.remote}
       /\ k.at = "digesting" => key[k.s] = {k.desc, k.remote}

Calls == \A k \in tasks : Passed(k) /\ (Alone(k.s) => Undisturbed(k))

OneCall == \A j, k \in tasks : j.s = k.s /\ Alone(k.s) => j = k

\* A call on s is between two awaits of Places.
Busy(s, places) == \E k \in tasks : k.s = s /\ k.at \in places

\* Once a session's offer is out its key is set, and once its connection is negotiated it
\* has derived key and SAS from its own key pair and the other end's.
Keyed(s) ==
  LET n == keyPair[s] IN
  n # 0 => /\ conns[n].sig = "have-local-offer" /\ ~Busy(s, {"exportOffer"}) => ownKey[s] = n
           /\ /\ conns[n].sig = "stable" /\ conns[n].remote # 0 /\ Fresh(conns[n].remote)
              /\ ~Busy(s, Keying \cup {"exportAnswer"})
              => key[s] = {n, conns[n].remote} /\ sas[s] = {n, conns[n].remote}

HandshakeInv == /\ TypeOK /\ Owned /\ Mail /\ Calls /\ OneCall
                /\ \A s \in Session : Alone(s) => Keyed(s)

(***************************************************************************)
(* Facts                                                                   *)
(***************************************************************************)

LEMMA Bounds ==
  /\ MaxSessions \in Nat /\ MaxConns \in Nat /\ MaxFaults \in Nat
  /\ \A s \in Session : s[1] \in Peers
  /\ \A p \in Peers : Other(p) \in Peers
BY HandshakeAssumption DEF Session, Peers, Other

LEMMA Fields ==
  ASSUME TypeOK
  PROVE  /\ created \in [Peers -> 0..MaxSessions] /\ current \in [Peers -> 0..MaxSessions]
         /\ keyPair \in [Session -> Conn \cup {0}] /\ ownKey \in [Session -> Conn \cup {0}]
         /\ peerKey \in [Session -> Conn \cup {0}] /\ pc \in [Session -> Conn \cup {0}]
         /\ channel \in [Session -> Conn \cup {0}]
         /\ key \in [Session -> SUBSET Conn] /\ sas \in [Session -> SUBSET Conn]
         /\ waiting \subseteq Session /\ tasks \subseteq Task /\ overlapped \subseteq Session
         /\ net \in [Peers -> Seq(Message)]
         /\ flaps \in Nat /\ drops \in Nat /\ Faults \in Nat /\ Faults <= MaxFaults
BY DEF TypeOK, Faults

LEMMA ConnsTyped ==
  ASSUME TypeOK
  PROVE  /\ conns \in Seq(Connection) /\ Len(conns) \in Nat /\ Len(conns) <= MaxConns
         /\ DOMAIN conns = 1..Len(conns) /\ DOMAIN conns \subseteq Conn
         /\ \A n \in DOMAIN conns : conns[n] \in Connection
<1>1. conns \in Seq(Connection) /\ Len(conns) <= MaxConns
  BY DEF TypeOK
<1>2. Len(conns) \in Nat /\ DOMAIN conns = 1..Len(conns) /\ \A n \in DOMAIN conns : conns[n] \in Connection
  BY <1>1, ElementOfSeq, LenProperties
<1> QED
  BY <1>1, <1>2, Bounds DEF Conn

LEMMA AreConns ==
  ASSUME NEW n \in Nat, n <= MaxConns, NEW f, f \in [1..n -> Connection]
  PROVE  f \in Seq(Connection) /\ Len(f) = n
BY SeqDef, LenProperties

\* A step that replaces the record of one connection.
LEMMA ConnsChanged ==
  ASSUME TypeOK, NEW d \in DOMAIN conns, NEW c \in Connection, conns' = [conns EXCEPT ![d] = c]
  PROVE  /\ conns' \in Seq(Connection) /\ Len(conns') = Len(conns) /\ DOMAIN conns' = DOMAIN conns
         /\ conns'[d] = c /\ \A n \in DOMAIN conns \ {d} : conns'[n] = conns[n]
<1>1. conns' \in [1..Len(conns) -> Connection] /\ DOMAIN conns = 1..Len(conns)
      /\ Len(conns) \in Nat /\ Len(conns) <= MaxConns
  BY ConnsTyped
<1>2. conns' \in Seq(Connection) /\ Len(conns') = Len(conns)
  BY <1>1, AreConns
<1> QED
  BY <1>1, <1>2

\* A step that makes a connection.
LEMMA ConnsMade ==
  ASSUME TypeOK, NEW c \in Connection, Len(conns) + 1 <= MaxConns, conns' = Append(conns, c)
  PROVE  /\ conns' \in Seq(Connection) /\ Len(conns') = Len(conns) + 1
         /\ DOMAIN conns' = DOMAIN conns \cup {Len(conns) + 1}
         /\ conns'[Len(conns) + 1] = c /\ \A n \in DOMAIN conns : conns'[n] = conns[n]
<1>1. conns \in Seq(Connection) /\ Len(conns) \in Nat /\ DOMAIN conns = 1..Len(conns)
  BY ConnsTyped
<1>2. conns' \in Seq(Connection) /\ Len(conns') = Len(conns) + 1
      /\ conns'[Len(conns) + 1] = c /\ \A n \in 1..Len(conns) : conns'[n] = conns[n]
  BY <1>1, AppendProperties
<1>3. DOMAIN conns' = 1..Len(conns')
  BY <1>2, LenProperties
<1> QED
  BY <1>1, <1>2, <1>3

LEMMA MessageParts ==
  /\ \A m \in Message : m.t \in {"offer", "answer"} => m.conn \in Conn /\ m.key \in Conn
  /\ \A t \in {"offer", "answer"} : \A n, x \in Conn : [t |-> t, conn |-> n, key |-> x] \in Message
  /\ \A n \in Conn : [t |-> "ice", conn |-> n] \in Message
  /\ [t |-> "peer-left"] \in Message
BY DEF Message

LEMMA SeqGrows ==
  ASSUME NEW S, NEW T, S \subseteq T, NEW q \in Seq(S)
  PROVE  q \in Seq(T)
<1>1. q \in [1..Len(q) -> S] /\ Len(q) \in Nat
  BY LenProperties
<1>2. q \in [1..Len(q) -> T]
  BY <1>1
<1> QED
  BY <1>1, <1>2, SeqDef

(***************************************************************************)
(* What a step leaves alone                                                *)
(***************************************************************************)

\* Connections stay whose they are, and disturbed sessions stay disturbed.
Grows ==
  /\ DOMAIN conns \subseteq DOMAIN conns'
  /\ \A n \in DOMAIN conns : conns'[n].s = conns[n].s
  /\ overlapped \subseteq overlapped'

LEMMA SoundGrows ==
  ASSUME Grows
  PROVE  Sound \subseteq Sound'
BY DEF Grows, Sound, Fresh

LEMMA MailStays ==
  ASSUME Mail, Grows
  PROVE  \A p \in Peers : net[p] \in Seq(Sound')
<1>1. Sound \subseteq Sound'
  BY SoundGrows
<1>2. ASSUME NEW p \in Peers PROVE net[p] \in Seq(Sound')
  <2>1. net[p] \in Seq(Sound)
    BY DEF Mail
  <2> QED BY <1>1, <2>1, SeqGrows
<1> QED BY <1>2

LEMMA MailKept ==
  ASSUME Mail, Grows, net' = net
  PROVE  Mail'
BY MailStays DEF Mail

LEMMA MailSent ==
  ASSUME TypeOK, Mail, Grows, NEW p \in Peers, NEW m \in Sound', net' = [net EXCEPT ![p] = Append(@, m)]
  PROVE  Mail'
<1>1. \A q \in Peers : net[q] \in Seq(Sound')
  BY MailStays
<1>2. Append(net[p], m) \in Seq(Sound')
  BY <1>1, AppendProperties
<1>3. net \in [Peers -> Seq(Message)]
  BY Fields
<1> QED BY <1>1, <1>2, <1>3 DEF Mail

\* A message taken: the head of the queue, whose rest stays.
LEMMA MailTaken ==
  ASSUME TypeOK, Mail, NEW p \in Peers, net[p] # <<>>, net' = [net EXCEPT ![p] = Tail(@)]
  PROVE  /\ Head(net[p]) \in Sound /\ Head(net[p]) \in Message
         /\ net' \in [Peers -> Seq(Message)]
         /\ Grows => Mail'
<1>1. net[p] \in Seq(Sound) /\ net \in [Peers -> Seq(Message)]
  BY Fields DEF Mail
<1>2. Head(net[p]) \in Sound /\ Tail(net[p]) \in Seq(Message)
  BY <1>1, HeadTailProperties
<1>3. ASSUME Grows PROVE Mail'
  <2>1. \A q \in Peers : net[q] \in Seq(Sound')
    BY <1>3, MailStays
  <2>2. Tail(net[p]) \in Seq(Sound')
    BY <2>1, HeadTailProperties
  <2> QED BY <1>1, <2>1, <2>2 DEF Mail
<1> QED BY <1>1, <1>2, <1>3 DEF Sound

LEMMA MessagesTyped ==
  ASSUME TypeOK, NEW p \in Peers, NEW m \in Message, net' = [net EXCEPT ![p] = Append(@, m)]
  PROVE  net' \in [Peers -> Seq(Message)]
<1>1. net \in [Peers -> Seq(Message)]
  BY Fields
<1>2. Append(net[p], m) \in Seq(Message)
  BY <1>1, AppendProperties
<1> QED BY <1>1, <1>2

\* The steps of calls and messages that leave keys and calls alone: a connection may close.
LEMMA Untouched ==
  ASSUME HandshakeInv, UNCHANGED <<keyPair, ownKey, peerKey, key, sas, tasks, overlapped>>,
         DOMAIN conns' = DOMAIN conns,
         \A n \in DOMAIN conns : /\ conns'[n].s = conns[n].s /\ conns'[n].remote = conns[n].remote
                                 /\ conns'[n].sig \in {conns[n].sig, "closed"}
  PROVE  Calls' /\ OneCall' /\ \A s \in Session : Alone(s)' => Keyed(s)'
<1> USE DEF HandshakeInv
<1>1. \A k \in tasks : Passed(k) => Passed(k)'
  BY DEF Passed
<1>2. \A k \in tasks : Passed(k) /\ Undisturbed(k) => Undisturbed(k)'
  BY DEF Passed, Undisturbed, Fresh, Offering, Answering, Keying
<1>3. Calls'
  BY <1>1, <1>2 DEF Calls, Alone
<1>4. OneCall'
  BY DEF OneCall, Alone
<1>5. ASSUME NEW s \in Session, Alone(s)' PROVE Keyed(s)'
  <2>1. Keyed(s) /\ (keyPair[s] # 0 => keyPair[s] \in DOMAIN conns)
    BY <1>5 DEF Alone, Owned
  <2>2. \A n \in DOMAIN conns : conns[n].remote # 0 => conns[n].remote \in DOMAIN conns
    BY DEF Owned
  <2>3. \A r, places : Busy(r, places)' <=> Busy(r, places)
    BY DEF Busy
  <2> QED BY <2>1, <2>2, <2>3 DEF Keyed, Fresh
<1> QED BY <1>3, <1>4, <1>5

\* What a step on session s leaves alone: keys and connections of the other sessions.
Elsewhere(s) ==
  /\ Grows
  /\ \A n \in DOMAIN conns : conns[n].s # s => /\ conns'[n].remote = conns[n].remote
                                               /\ conns'[n].sig = conns[n].sig
  /\ \A r \in Session \ {s} : /\ keyPair'[r] = keyPair[r] /\ ownKey'[r] = ownKey[r]
                              /\ peerKey'[r] = peerKey[r] /\ key'[r] = key[r] /\ sas'[r] = sas[r]
  /\ keyPair[s] # 0 => keyPair'[s] # 0
  /\ ownKey[s] # 0 => ownKey'[s] # 0
  /\ peerKey[s] # 0 => peerKey'[s] # 0
  /\ overlapped' \subseteq overlapped \cup {s}
  /\ \A k : k.s # s => (k \in tasks' <=> k \in tasks)

LEMMA PassedStays ==
  ASSUME TypeOK, NEW s \in Session, Elsewhere(s), NEW k \in tasks, Passed(k)
  PROVE  Passed(k)'
<1>1. k.s \in Session
  BY Fields DEF Task
<1>2. CASE k.s = s
  BY <1>2 DEF Passed, Elsewhere, Grows
<1>3. CASE k.s # s
  BY <1>1, <1>3 DEF Passed, Elsewhere, Grows
<1> QED BY <1>2, <1>3

\* A step of one session keeps the invariant of calls and keys if it does so there: its new
\* call is in order, calls it leaves beside another are marked, and the session stays keyed.
LEMMA Touched ==
  ASSUME HandshakeInv, NEW s \in Session, Elsewhere(s), NEW next,
         \A k \in tasks' : k.s = s => k = next \/ (k \in tasks /\ s \in overlapped'),
         next \in tasks' => next.s = s /\ Passed(next)' /\ (Alone(s)' => Undisturbed(next)'),
         Alone(s)' => Keyed(s)'
  PROVE  Calls' /\ OneCall' /\ \A r \in Session : Alone(r)' => Keyed(r)'
<1> USE DEF HandshakeInv
<1>1. Calls'
  <2> SUFFICES ASSUME NEW k \in tasks' PROVE Passed(k)' /\ (Alone(k.s)' => Undisturbed(k)')
    BY DEF Calls
  <2>1. CASE k = next
    BY <2>1
  <2>2. CASE k # next /\ k.s = s
    <3>1. k \in tasks /\ s \in overlapped'
      BY <2>2
    <3> QED BY <2>2, <3>1, PassedStays DEF Calls, Alone
  <2>3. CASE k # next /\ k.s # s
    <3>1. k \in tasks
      BY <2>3 DEF Elsewhere
    <3>2. Passed(k) /\ (Alone(k.s) => Undisturbed(k)) /\ Passed(k)' /\ k.s \in Session
      BY <3>1, PassedStays, Fields DEF Calls, Task
    <3>3. ASSUME Alone(k.s)' PROVE Undisturbed(k)'
      <4>1. Alone(k.s)
        BY <3>3 DEF Alone, Elsewhere, Grows
      <4>2. /\ keyPair'[k.s] = keyPair[k.s] /\ ownKey'[k.s] = ownKey[k.s]
            /\ peerKey'[k.s] = peerKey[k.s] /\ key'[k.s] = key[k.s]
        BY <2>3, <3>2 DEF Elsewhere
      <4>3. k.at # "keygen" => k.desc \in DOMAIN conns /\ conns'[k.desc].remote = conns[k.desc].remote
        BY <2>3, <3>2 DEF Elsewhere, Passed
      <4>4. k.call # "connect" => k.remote \in DOMAIN conns /\ (Fresh(k.remote)' => Fresh(k.remote))
        BY <3>2 DEF Elsewhere, Grows, Passed, Fresh
      <4> QED BY <3>2, <4>1, <4>2, <4>3, <4>4 DEF Undisturbed, Answering, Keying
    <3> QED BY <3>2, <3>3
  <2> QED BY <2>1, <2>2, <2>3
<1>2. OneCall'
  <2> SUFFICES ASSUME NEW j \in tasks', NEW k \in tasks', j.s = k.s, Alone(k.s)' PROVE j = k
    BY DEF OneCall
  <2>1. CASE k.s = s
    BY <2>1 DEF Alone
  <2>2. CASE k.s # s
    BY <2>2 DEF OneCall, Alone, Elsewhere, Grows
  <2> QED BY <2>1, <2>2
<1>3. ASSUME NEW r \in Session, r # s, Alone(r)' PROVE Keyed(r)'
  <2>1. Alone(r) /\ Keyed(r)
    BY <1>3 DEF Alone, Elsewhere, Grows
  <2>2. /\ keyPair'[r] = keyPair[r] /\ ownKey'[r] = ownKey[r] /\ key'[r] = key[r] /\ sas'[r] = sas[r]
        /\ keyPair[r] # 0 => keyPair[r] \in DOMAIN conns /\ conns[keyPair[r]].s = r
    BY <1>3 DEF Elsewhere, Owned
  <2>3. /\ \A n \in DOMAIN conns : conns[n].remote # 0 => conns[n].remote \in DOMAIN conns
        /\ \A n \in DOMAIN conns : Fresh(n)' => Fresh(n)
    BY DEF Owned, Elsewhere, Grows, Fresh
  <2>4. \A places : Busy(r, places) => Busy(r, places)'
    BY <1>3 DEF Busy, Elsewhere
  <2> HIDE DEF HandshakeInv
  <2> QED BY <1>3, <2>1, <2>2, <2>3, <2>4 DEF Keyed, Elsewhere
<1> QED BY <1>1, <1>2, <1>3

LEMMA MadeTyped ==
  ASSUME NEW k \in Task, NEW offers \in BOOLEAN
  PROVE  /\ Made(k, offers) \in Connection
         /\ Made(k, offers).s = k.s /\ Made(k, offers).offers = offers
         /\ Made(k, offers).remote = k.remote
         /\ Made(k, offers).sig = "new" /\ Made(k, offers).link = "none"
BY DEF Made, Connection, Task

Same(k, j) == /\ k.s = j.s /\ k.call = j.call /\ k.remote = j.remote /\ k.remoteKey = j.remoteKey

\* What the forms of EXCEPT give that suspend a call at its next await.
LEMMA TaskForms ==
  ASSUME NEW k \in Task, NEW at \in Await
  PROVE  /\ LET j == [k EXCEPT !.at = at]
            IN  /\ j \in Task /\ Same(k, j)
                /\ j.at = at /\ j.desc = k.desc /\ j.pub = k.pub /\ j.keys = k.keys
         /\ \A d \in Conn \cup {0} : LET j == [k EXCEPT !.at = at, !.desc = d]
            IN  /\ j \in Task /\ Same(k, j)
                /\ j.at = at /\ j.desc = d /\ j.pub = k.pub /\ j.keys = k.keys
         /\ \A d \in Conn \cup {0} : LET j == [k EXCEPT !.at = at, !.pub = d]
            IN  /\ j \in Task /\ Same(k, j)
                /\ j.at = at /\ j.desc = k.desc /\ j.pub = d /\ j.keys = k.keys
         /\ \A ks \in SUBSET Conn : LET j == [k EXCEPT !.at = at, !.keys = ks]
            IN  /\ j \in Task /\ Same(k, j)
                /\ j.at = at /\ j.desc = k.desc /\ j.pub = k.pub /\ j.keys = ks
BY DEF Task, Same

LEMMA SigForms ==
  ASSUME NEW c \in Connection
  PROVE  /\ \A sig \in {"have-local-offer", "have-remote-offer", "stable"} :
              LET b == [c EXCEPT !.sig = sig]
              IN  /\ b \in Connection /\ b.s = c.s /\ b.offers = c.offers /\ b.remote = c.remote
                  /\ b.sig = sig /\ b.link = c.link
         /\ \A n \in Conn \cup {0} :
              LET b == [c EXCEPT !.sig = "stable", !.remote = n]
              IN  /\ b \in Connection /\ b.s = c.s /\ b.offers = c.offers /\ b.remote = n
                  /\ b.sig = "stable" /\ b.link = c.link
         /\ \A link \in {"open", "closed"} :
              LET b == [c EXCEPT !.link = link]
              IN  /\ b \in Connection /\ b.s = c.s /\ b.offers = c.offers /\ b.remote = c.remote
                  /\ b.sig = c.sig /\ b.link = link
BY DEF Connection

(***************************************************************************)
(* Calls resumed                                                           *)
(***************************************************************************)

\* A step of s that leaves all connections but one of its own alone.
LEMMA OneChanged ==
  ASSUME HandshakeInv, NEW s \in Session, NEW d \in DOMAIN conns, NEW c \in Connection,
         conns[d].s = s, conns' = [conns EXCEPT ![d] = c], c.s = s, overlapped' = overlapped,
         c.remote # 0 => c.remote \in DOMAIN conns, c.link = "open" => c.sig = "stable",
         UNCHANGED <<keyPair, pc>>
  PROVE  /\ conns' \in Seq(Connection) /\ Len(conns') <= MaxConns /\ DOMAIN conns' = DOMAIN conns
         /\ conns'[d] = c /\ \A n \in DOMAIN conns \ {d} : conns'[n] = conns[n]
         /\ Grows /\ Owned'
<1>1. TypeOK /\ Owned
  BY DEF HandshakeInv
<1>2. /\ conns' \in Seq(Connection) /\ Len(conns') = Len(conns) /\ DOMAIN conns' = DOMAIN conns
      /\ conns'[d] = c /\ \A n \in DOMAIN conns \ {d} : conns'[n] = conns[n]
  BY <1>1, ConnsChanged
<1>3. Grows
  BY <1>2 DEF Grows
<1>4. Owned'
  BY <1>1, <1>2 DEF Owned
<1> QED BY <1>1, <1>2, <1>3, <1>4, ConnsTyped

LEMMA ConnectKeyedStep ==
  ASSUME HandshakeInv, NEW s \in Session, ConnectKeyed(s)
  PROVE  HandshakeInv'
<1>1. PICK k \in tasks :
        /\ k.s = s /\ k.at = "keygen" /\ k.call = "connect" /\ Len(conns) + 1 <= MaxConns
        /\ Resume(k, [k EXCEPT !.at = "createOffer", !.desc = Len(conns) + 1])
        /\ conns' = Append(conns, Made(k, TRUE))
        /\ keyPair' = [keyPair EXCEPT ![s] = Len(conns) + 1] /\ pc' = [pc EXCEPT ![s] = Len(conns) + 1]
        /\ channel' = [channel EXCEPT ![s] = Len(conns) + 1]
        /\ UNCHANGED <<sessionVars, ownKey, peerKey, key, sas, net>>
  BY DEF ConnectKeyed, Suspended
<1>2. TypeOK /\ Owned /\ Mail /\ Calls /\ OneCall /\ k \in Task
  BY Fields DEF HandshakeInv
<1>3. PICK n \in Conn : n = Len(conns) + 1 /\ n # 0
  BY <1>1, <1>2, ConnsTyped, Bounds DEF Conn
<1>4. PICK c \in Connection : c = Made(k, TRUE)
  BY <1>2, MadeTyped
<1>5. c.s = s /\ c.remote = k.remote /\ c.sig = "new" /\ c.link = "none"
  BY <1>1, <1>2, <1>4, MadeTyped
<1>6. /\ conns' \in Seq(Connection) /\ Len(conns') <= MaxConns
      /\ DOMAIN conns' = DOMAIN conns \cup {n} /\ n \notin DOMAIN conns
      /\ conns'[n] = c /\ \A m \in DOMAIN conns : conns'[m] = conns[m]
  <2>1. /\ conns' \in Seq(Connection) /\ Len(conns') = Len(conns) + 1
        /\ DOMAIN conns' = DOMAIN conns \cup {Len(conns) + 1}
        /\ conns'[Len(conns) + 1] = c /\ \A m \in DOMAIN conns : conns'[m] = conns[m]
    BY <1>1, <1>2, <1>4, ConnsMade
  <2>2. Len(conns) \in Nat /\ DOMAIN conns = 1..Len(conns) /\ MaxConns \in Nat
    BY <1>2, ConnsTyped, Bounds
  <2>3. Len(conns) + 1 \notin 1..Len(conns)
    BY <2>2
  <2> QED BY <1>1, <1>3, <2>1, <2>2, <2>3
<1>7. PICK next \in Task : next = [k EXCEPT !.at = "createOffer", !.desc = n]
  BY <1>2 DEF Task, Await
<1>8. next.s = s /\ next.at = "createOffer" /\ next.desc = n /\ next.call = "connect" /\ next.remote = k.remote
  BY <1>1, <1>2, <1>7 DEF Task
<1>9. /\ tasks' = (tasks \ {k}) \cup {next} /\ overlapped' = overlapped
      /\ keyPair' = [keyPair EXCEPT ![s] = n] /\ pc' = [pc EXCEPT ![s] = n]
      /\ channel' = [channel EXCEPT ![s] = n]
      /\ ownKey' = ownKey /\ peerKey' = peerKey /\ key' = key /\ sas' = sas /\ net' = net
      /\ UNCHANGED <<created, current, waiting, flaps, drops>>
  BY <1>1, <1>3, <1>7 DEF Resume, sessionVars, bounds
<1>t. /\ keyPair \in [Session -> Conn \cup {0}] /\ pc \in [Session -> Conn \cup {0}]
      /\ tasks \subseteq Task
  BY <1>2, Fields
<1>10. TypeOK'
  BY <1>2, <1>6, <1>9 DEF TypeOK, Faults
<1>11. Elsewhere(s)
  BY <1>1, <1>3, <1>6, <1>8, <1>9, <1>t DEF Elsewhere, Grows
<1>12. Owned'
  <2>1. c.remote = 0
    BY <1>1, <1>2, <1>5 DEF Calls, Passed
  <2> QED BY <1>2, <1>5, <1>6, <1>9, <1>t, <2>1 DEF Owned
<1>13. Mail'
  BY <1>2, <1>9, <1>11, MailKept DEF Elsewhere
<1>14. Passed(next)' /\ (Alone(s)' => Undisturbed(next)')
  <2>1. k.remote = 0
    BY <1>1, <1>2 DEF Calls, Passed
  <2> QED
    BY <1>3, <1>5, <1>6, <1>8, <1>9, <1>t, <2>1 DEF Passed, Undisturbed, Offering, Answering, Keying
<1>15. Keyed(s)'
  BY <1>3, <1>5, <1>6, <1>9, <1>t DEF Keyed
<1>16. \A j \in tasks' : j.s = s => j = next \/ (j \in tasks /\ s \in overlapped')
  BY <1>1, <1>2, <1>9 DEF OneCall, Alone
<1> QED BY <1>8, <1>10, <1>11, <1>12, <1>13, <1>14, <1>15, <1>16, Touched DEF HandshakeInv

\* A step of call k, which goes on as next or ends.
LEMMA CallStep ==
  ASSUME HandshakeInv, NEW k \in tasks, NEW next, TypeOK', Owned', Mail', Elsewhere(k.s),
         overlapped' = overlapped,
         \/ tasks' = tasks \ {k}
         \/ /\ tasks' = (tasks \ {k}) \cup {next}
            /\ next.s = k.s /\ Passed(next)' /\ (Alone(k.s)' => Undisturbed(next)'),
         Alone(k.s)' => Keyed(k.s)'
  PROVE  HandshakeInv'
<1>1. OneCall /\ k.s \in Session
  BY Fields DEF HandshakeInv, Task
<1>2. CASE tasks' = tasks \ {k}
  <2>1. \A j \in tasks' : j.s = k.s => j = k \/ (j \in tasks /\ k.s \in overlapped')
    BY <1>1, <1>2 DEF OneCall, Alone
  <2>2. k \notin tasks'
    BY <1>2
  <2> QED BY <1>1, <2>1, <2>2, Touched DEF HandshakeInv
<1>3. CASE /\ tasks' = (tasks \ {k}) \cup {next}
           /\ next.s = k.s /\ Passed(next)' /\ (Alone(k.s)' => Undisturbed(next)')
  <2>1. \A j \in tasks' : j.s = k.s => j = next \/ (j \in tasks /\ k.s \in overlapped')
    BY <1>1, <1>3 DEF OneCall, Alone
  <2> QED BY <1>1, <1>3, <2>1, Touched DEF HandshakeInv
<1> QED BY <1>2, <1>3

\* A call steps without touching a connection or a key pair.
LEMMA StillConns ==
  ASSUME HandshakeInv, UNCHANGED <<conns, keyPair, pc, overlapped>>
  PROVE  Owned' /\ Grows /\ (net' = net => Mail')
<1>1. Grows
  BY DEF Grows
<1> QED BY <1>1, MailKept DEF HandshakeInv, Owned

LEMMA StillElsewhere ==
  ASSUME HandshakeInv, NEW s \in Session, UNCHANGED <<conns, keyPair, overlapped>>,
         \A r \in Session \ {s} : /\ ownKey'[r] = ownKey[r] /\ peerKey'[r] = peerKey[r]
                                  /\ key'[r] = key[r] /\ sas'[r] = sas[r],
         ownKey[s] # 0 => ownKey'[s] # 0, peerKey[s] # 0 => peerKey'[s] # 0,
         \A k : k.s # s => (k \in tasks' <=> k \in tasks)
  PROVE  Elsewhere(s)
BY DEF Elsewhere, Grows

\* The call on s alone.
LEMMA OnlyCall ==
  ASSUME HandshakeInv, NEW k \in tasks, Alone(k.s)
  PROVE  \A places : Busy(k.s, places) <=> k.at \in places
BY DEF HandshakeInv, OneCall, Busy

\* Nothing of s has changed but its peer key, and no call has left the places that count.
LEMMA StaysKeyed ==
  ASSUME HandshakeInv, NEW s \in Session, Alone(s), overlapped \subseteq overlapped',
         UNCHANGED <<conns, keyPair>>, ownKey'[s] = ownKey[s], key'[s] = key[s], sas'[s] = sas[s],
         Busy(s, {"exportOffer"}) => Busy(s, {"exportOffer"})',
         Busy(s, Keying \cup {"exportAnswer"}) => Busy(s, Keying \cup {"exportAnswer"})'
  PROVE  Keyed(s)'
<1>1. Keyed(s)
  BY DEF HandshakeInv
<1>2. \A n \in DOMAIN conns : Fresh(n)' => Fresh(n)
  BY DEF Fresh
<1>3. /\ keyPair[s] # 0 => keyPair[s] \in DOMAIN conns
      /\ \A n \in DOMAIN conns : conns[n].remote # 0 => conns[n].remote \in DOMAIN conns
  BY DEF HandshakeInv, Owned
<1> QED BY <1>1, <1>2, <1>3 DEF Keyed

LEMMA OfferCreatedStep ==
  ASSUME HandshakeInv, NEW s \in Session, OfferCreated(s)
  PROVE  HandshakeInv'
<1>1. PICK k \in tasks : /\ k.s = s /\ k.at = "createOffer" /\ AwaitOnPc(k, "setOffer")
                         /\ UNCHANGED <<sessionVars, fields, conns, net>>
  BY DEF OfferCreated, Suspended
<1>2. TypeOK /\ k \in Task /\ Passed(k) /\ (Alone(s) => Undisturbed(k))
  BY <1>1, Fields DEF HandshakeInv, Calls
<1>3. PICK next \in Task : next = [k EXCEPT !.at = "setOffer"]
  BY <1>2 DEF Task, Await
<1>4. Same(next, k) /\ next.at = "setOffer" /\ next.desc = k.desc
  BY <1>2, <1>3 DEF Task, Same
<1>5. \/ tasks' = tasks \ {k}
      \/ tasks' = (tasks \ {k}) \cup {next}
  BY <1>1, <1>3 DEF AwaitOnPc, Resume, End
<1>6. UNCHANGED <<created, current, waiting, overlapped, flaps, drops, keyPair, ownKey, peerKey,
                  key, sas, pc, channel, conns, net>>
  BY <1>1 DEF sessionVars, bounds, fields
<1>7. TypeOK'
  BY <1>2, <1>5, <1>6 DEF TypeOK, Faults
<1>8. Owned' /\ Mail'
  BY <1>6, StillConns
<1>9. Elsewhere(s)
  <2>1. \A j : j.s # s => (j \in tasks' <=> j \in tasks)
    BY <1>1, <1>4, <1>5 DEF Same
  <2> QED BY <1>6, <2>1, StillElsewhere
<1>10. next.s = k.s /\ Passed(next)' /\ (Alone(s)' => Undisturbed(next)')
  BY <1>1, <1>2, <1>4, <1>6 DEF Passed, Undisturbed, Same, Offering, Answering, Keying, Alone, Fresh
<1>11. ASSUME Alone(s)' PROVE Keyed(s)'
  <2>1. Alone(s)
    BY <1>6, <1>11 DEF Alone
  <2>2. ~Busy(s, {"exportOffer"}) /\ ~Busy(s, Keying \cup {"exportAnswer"})
    BY <1>1, <2>1, OnlyCall DEF Keying
  <2> QED BY <1>6, <2>1, <2>2, StaysKeyed
<1> QED BY <1>1, <1>5, <1>6, <1>7, <1>8, <1>9, <1>10, <1>11, CallStep

LEMMA AnswerCreatedStep ==
  ASSUME HandshakeInv, NEW s \in Session, AnswerCreated(s)
  PROVE  HandshakeInv'
<1>1. PICK k \in tasks : /\ k.s = s /\ k.at = "createAnswer" /\ (AwaitOnPc(k, "setAnswer") \/ End(k))
                         /\ UNCHANGED <<sessionVars, fields, conns, net>>
  BY DEF AnswerCreated, Suspended
<1>2. TypeOK /\ k \in Task /\ Passed(k) /\ (Alone(s) => Undisturbed(k))
  BY <1>1, Fields DEF HandshakeInv, Calls
<1>3. PICK next \in Task : next = [k EXCEPT !.at = "setAnswer"]
  BY <1>2 DEF Task, Await
<1>4. Same(next, k) /\ next.at = "setAnswer" /\ next.desc = k.desc
  BY <1>2, <1>3 DEF Task, Same
<1>5. \/ tasks' = tasks \ {k}
      \/ tasks' = (tasks \ {k}) \cup {next}
  BY <1>1, <1>3 DEF AwaitOnPc, Resume, End
<1>6. UNCHANGED <<created, current, waiting, overlapped, flaps, drops, keyPair, ownKey, peerKey,
                  key, sas, pc, channel, conns, net>>
  BY <1>1 DEF sessionVars, bounds, fields
<1>7. TypeOK'
  BY <1>2, <1>5, <1>6 DEF TypeOK, Faults
<1>8. Owned' /\ Mail'
  BY <1>6, StillConns
<1>9. Elsewhere(s)
  <2>1. \A j : j.s # s => (j \in tasks' <=> j \in tasks)
    BY <1>1, <1>4, <1>5 DEF Same
  <2> QED BY <1>6, <2>1, StillElsewhere
<1>10. next.s = k.s /\ Passed(next)' /\ (Alone(s)' => Undisturbed(next)')
  BY <1>1, <1>2, <1>4, <1>6 DEF Passed, Undisturbed, Same, Offering, Answering, Keying, Alone, Fresh
<1>11. ASSUME Alone(s)' PROVE Keyed(s)'
  <2>1. Alone(s)
    BY <1>6, <1>11 DEF Alone
  <2>2. ~Busy(s, {"exportOffer"}) /\ ~Busy(s, Keying \cup {"exportAnswer"})
    BY <1>1, <2>1, OnlyCall DEF Keying
  <2> QED BY <1>6, <2>1, <2>2, StaysKeyed
<1> QED BY <1>1, <1>5, <1>6, <1>7, <1>8, <1>9, <1>10, <1>11, CallStep

LEMMA OfferSentStep ==
  ASSUME HandshakeInv, NEW s \in Session, OfferSent(s)
  PROVE  HandshakeInv'
<1>1. PICK k \in tasks : /\ k.s = s /\ k.at = "exportOffer" /\ End(k)
                         /\ ownKey' = [ownKey EXCEPT ![s] = k.pub]
                         /\ Send(s[1], [t |-> "offer", conn |-> k.desc, key |-> k.pub])
                         /\ UNCHANGED <<sessionVars, keyPair, peerKey, key, sas, pc, channel, conns>>
  BY DEF OfferSent, Suspended
<1>2. TypeOK /\ Mail /\ k \in Task /\ Passed(k) /\ (Alone(s) => Undisturbed(k))
  BY <1>1, Fields DEF HandshakeInv, Calls
<1>3. k.desc \in Conn /\ k.pub \in Conn /\ k.desc \in DOMAIN conns /\ conns[k.desc].s = s
  BY <1>1, <1>2, ConnsTyped DEF Passed, Task
<1>4. PICK m \in Message : m = [t |-> "offer", conn |-> k.desc, key |-> k.pub]
                           /\ m.t = "offer" /\ m.conn = k.desc /\ m.key = k.pub
  BY <1>3, MessageParts
<1>5. /\ tasks' = tasks \ {k} /\ ownKey' = [ownKey EXCEPT ![s] = k.pub]
      /\ net' = [net EXCEPT ![Other(s[1])] = Append(@, m)] /\ Other(s[1]) \in Peers
  BY <1>1, <1>4, Bounds DEF End, Send
<1>6. UNCHANGED <<created, current, waiting, overlapped, flaps, drops, keyPair, peerKey,
                  key, sas, pc, channel, conns>>
  BY <1>1 DEF sessionVars, bounds
<1>7. TypeOK'
  <2>1. net' \in [Peers -> Seq(Message)]
    BY <1>2, <1>5, MessagesTyped
  <2> QED BY <1>2, <1>3, <1>5, <1>6, <2>1 DEF TypeOK, Faults
<1>8. Owned' /\ Grows
  BY <1>6, StillConns
<1>9. Mail'
  <2>1. m \in Sound'
    BY <1>1, <1>2, <1>3, <1>4, <1>6 DEF Sound, Fresh, Alone, Undisturbed
  <2> QED BY <1>2, <1>5, <1>8, <2>1, MailSent
<1>10. /\ \A r \in Session \ {s} : ownKey'[r] = ownKey[r]
       /\ ownKey'[s] = k.pub /\ k.pub # 0
  BY <1>1, <1>2, <1>5, Fields DEF Passed
<1>11. Elsewhere(s)
  <2>1. \A j : j.s # s => (j \in tasks' <=> j \in tasks)
    BY <1>1, <1>5
  <2> QED BY <1>6, <1>10, <2>1, StillElsewhere
<1>12. ASSUME Alone(s)' PROVE Keyed(s)'
  <2>1. Alone(s) /\ Keyed(s)
    BY <1>6, <1>12 DEF Alone, HandshakeInv
  <2>2. ~Busy(s, Keying \cup {"exportAnswer"})
    BY <1>1, <2>1, OnlyCall DEF Keying
  <2>3. ownKey'[s] = keyPair[s]
    BY <1>1, <1>2, <1>10, <2>1 DEF Undisturbed
  <2> QED BY <1>6, <2>1, <2>2, <2>3 DEF Keyed, Fresh
<1> QED BY <1>1, <1>5, <1>6, <1>7, <1>8, <1>9, <1>11, <1>12, CallStep

LEMMA AnswerExportedStep ==
  ASSUME HandshakeInv, NEW s \in Session, AnswerExported(s)
  PROVE  HandshakeInv'
<1>1. PICK k \in tasks :
        /\ k.s = s /\ k.at = "exportAnswer" /\ ownKey' = [ownKey EXCEPT ![s] = k.pub]
        /\ Resume(k, [k EXCEPT !.at = "importing", !.keys = {peerKey[s]}])
        /\ UNCHANGED <<sessionVars, keyPair, peerKey, key, sas, pc, channel, conns, net>>
  BY DEF AnswerExported, Suspended
<1>2. TypeOK /\ k \in Task /\ Passed(k) /\ (Alone(s) => Undisturbed(k))
  BY <1>1, Fields DEF HandshakeInv, Calls
<1>3. /\ k.call = "onOffer" /\ k.pub # 0 /\ k.pub \in Conn /\ peerKey[s] # 0 /\ peerKey[s] \in Conn
  BY <1>1, <1>2, Fields DEF Passed, Answering, Task
<1>4. PICK next \in Task : next = [k EXCEPT !.at = "importing", !.keys = {peerKey[s]}]
  BY <1>2, <1>3 DEF Task, Await
<1>5. Same(next, k) /\ next.at = "importing" /\ next.desc = k.desc /\ next.pub = k.pub
      /\ next.keys = {peerKey[s]}
  BY <1>2, <1>4 DEF Task, Same
<1>6. tasks' = (tasks \ {k}) \cup {next} /\ ownKey' = [ownKey EXCEPT ![s] = k.pub]
  BY <1>1, <1>4 DEF Resume
<1>7. UNCHANGED <<created, current, waiting, overlapped, flaps, drops, keyPair, peerKey,
                  key, sas, pc, channel, conns, net>>
  BY <1>1 DEF sessionVars, bounds
<1>8. TypeOK'
  BY <1>2, <1>3, <1>6, <1>7 DEF TypeOK, Faults
<1>9. Owned' /\ Mail'
  BY <1>7, StillConns
<1>10. /\ \A r \in Session \ {s} : ownKey'[r] = ownKey[r]
       /\ ownKey'[s] = k.pub
  BY <1>2, <1>6, Fields
<1>11. Elsewhere(s)
  <2>1. \A j : j.s # s => (j \in tasks' <=> j \in tasks)
    BY <1>1, <1>5, <1>6 DEF Same
  <2> QED BY <1>3, <1>7, <1>10, <2>1, StillElsewhere
<1>12. next.s = k.s /\ Passed(next)' /\ (Alone(s)' => Undisturbed(next)')
  BY <1>1, <1>2, <1>3, <1>5, <1>7, <1>10
     DEF Passed, Undisturbed, Same, Offering, Answering, Keying, Alone, Fresh
<1>13. ASSUME Alone(s)' PROVE Keyed(s)'
  <2>1. Alone(s)
    BY <1>7, <1>13 DEF Alone
  <2>2. ownKey'[s] = keyPair[s]
    BY <1>1, <1>2, <1>10, <2>1 DEF Undisturbed
  <2>3. Busy(s, Keying \cup {"exportAnswer"})'
    BY <1>1, <1>5, <1>6 DEF Busy, Keying, Same
  <2> QED BY <1>7, <2>2, <2>3 DEF Keyed
<1> QED BY <1>1, <1>6, <1>7, <1>8, <1>9, <1>11, <1>12, <1>13, CallStep

LEMMA PeerKeyImportedStep ==
  ASSUME HandshakeInv, NEW s \in Session, PeerKeyImported(s)
  PROVE  HandshakeInv'
<1>1. PICK k \in tasks :
        /\ k.s = s /\ k.at = "importing"
        /\ Resume(k, [k EXCEPT !.at = "deriving", !.keys = @ \cup {keyPair[s]}])
        /\ UNCHANGED <<sessionVars, fields, conns, net>>
  BY DEF PeerKeyImported, Suspended
<1>2. TypeOK /\ k \in Task /\ Passed(k) /\ (Alone(s) => Undisturbed(k))
  BY <1>1, Fields DEF HandshakeInv, Calls
<1>3. keyPair[s] # 0 /\ keyPair[s] \in Conn /\ k.keys \in SUBSET Conn
  BY <1>1, <1>2, Fields DEF Passed, Task
<1>4. PICK next \in Task : next = [k EXCEPT !.at = "deriving", !.keys = @ \cup {keyPair[s]}]
  BY <1>2, <1>3 DEF Task, Await
<1>5. Same(next, k) /\ next.at = "deriving" /\ next.desc = k.desc /\ next.pub = k.pub
      /\ next.keys = k.keys \cup {keyPair[s]}
  BY <1>2, <1>4 DEF Task, Same
<1>6. tasks' = (tasks \ {k}) \cup {next}
  BY <1>1, <1>4 DEF Resume
<1>7. UNCHANGED <<created, current, waiting, overlapped, flaps, drops, keyPair, ownKey, peerKey,
                  key, sas, pc, channel, conns, net>>
  BY <1>1 DEF sessionVars, bounds, fields
<1>8. TypeOK'
  BY <1>2, <1>6, <1>7 DEF TypeOK, Faults
<1>9. Owned' /\ Mail'
  BY <1>7, StillConns
<1>10. Elsewhere(s)
  <2>1. \A j : j.s # s => (j \in tasks' <=> j \in tasks)
    BY <1>1, <1>5, <1>6 DEF Same
  <2> QED BY <1>7, <2>1, StillElsewhere
<1>11. next.s = k.s /\ Passed(next)' /\ (Alone(s)' => Undisturbed(next)')
  <2>1. k.call # "connect" /\ ownKey[s] # 0 /\ peerKey[s] # 0
    BY <1>1, <1>2 DEF Passed, Keying
  <2>2. Passed(next)'
    BY <1>1, <1>2, <1>5, <1>7, <2>1 DEF Passed, Same, Offering, Answering, Keying
  <2>3. ASSUME Alone(s)' PROVE Undisturbed(next)'
    BY <1>1, <1>2, <1>5, <1>7, <2>1, <2>3 DEF Undisturbed, Same, Answering, Keying, Alone, Fresh
  <2> QED BY <1>5, <2>2, <2>3 DEF Same
<1>12. ASSUME Alone(s)' PROVE Keyed(s)'
  <2>1. Alone(s)
    BY <1>7, <1>12 DEF Alone
  <2>2. Busy(s, Keying \cup {"exportAnswer"})'
    BY <1>1, <1>5, <1>6 DEF Busy, Keying, Same
  <2>3. ~Busy(s, {"exportOffer"})
    BY <1>1, <2>1, OnlyCall
  <2> QED BY <1>7, <2>1, <2>2, <2>3, StaysKeyed
<1> QED BY <1>1, <1>6, <1>7, <1>8, <1>9, <1>10, <1>11, <1>12, CallStep

LEMMA KeyDerivedStep ==
  ASSUME HandshakeInv, NEW s \in Session, KeyDerived(s)
  PROVE  HandshakeInv'
<1>1. PICK k \in tasks :
        /\ k.s = s /\ k.at = "deriving" /\ key' = [key EXCEPT ![s] = k.keys]
        /\ Resume(k, [k EXCEPT !.at = "digesting", !.keys = {ownKey[s], peerKey[s]}])
        /\ UNCHANGED <<sessionVars, keyPair, ownKey, peerKey, sas, pc, channel, conns, net>>
  BY DEF KeyDerived, Suspended
<1>2. TypeOK /\ k \in Task /\ Passed(k) /\ (Alone(s) => Undisturbed(k))
  BY <1>1, Fields DEF HandshakeInv, Calls
<1>3. /\ k.call # "connect" /\ ownKey[s] # 0 /\ peerKey[s] # 0
      /\ ownKey[s] \in Conn /\ peerKey[s] \in Conn /\ k.keys \in SUBSET Conn
  BY <1>1, <1>2, Fields DEF Passed, Keying, Task
<1>4. PICK next \in Task : next = [k EXCEPT !.at = "digesting", !.keys = {ownKey[s], peerKey[s]}]
  BY <1>2, <1>3 DEF Task, Await
<1>5. Same(next, k) /\ next.at = "digesting" /\ next.desc = k.desc /\ next.pub = k.pub
      /\ next.keys = {ownKey[s], peerKey[s]}
  BY <1>2, <1>4 DEF Task, Same
<1>6. tasks' = (tasks \ {k}) \cup {next} /\ key' = [key EXCEPT ![s] = k.keys]
  BY <1>1, <1>4 DEF Resume
<1>7. UNCHANGED <<created, current, waiting, overlapped, flaps, drops, keyPair, ownKey, peerKey,
                  sas, pc, channel, conns, net>>
  BY <1>1 DEF sessionVars, bounds
<1>8. TypeOK'
  BY <1>2, <1>3, <1>6, <1>7 DEF TypeOK, Faults
<1>9. Owned' /\ Mail'
  BY <1>7, StillConns
<1>10. (\A r \in Session \ {s} : key'[r] = key[r]) /\ key'[s] = k.keys
  BY <1>2, <1>6, Fields
<1>11. Elsewhere(s)
  <2>1. \A j : j.s # s => (j \in tasks' <=> j \in tasks)
    BY <1>1, <1>5, <1>6 DEF Same
  <2> QED BY <1>7, <1>10, <2>1, StillElsewhere
<1>12. next.s = k.s /\ Passed(next)' /\ (Alone(s)' => Undisturbed(next)')
  <2>1. Passed(next)'
    BY <1>1, <1>2, <1>3, <1>5, <1>7 DEF Passed, Same, Offering, Answering, Keying
  <2>2. ASSUME Alone(s)' PROVE Undisturbed(next)'
    BY <1>1, <1>2, <1>3, <1>5, <1>7, <1>10, <2>2 DEF Undisturbed, Same, Answering, Keying, Alone, Fresh
  <2> QED BY <1>5, <2>1, <2>2 DEF Same
<1>13. ASSUME Alone(s)' PROVE Keyed(s)'
  <2>1. Alone(s) /\ Keyed(s)
    BY <1>7, <1>13 DEF Alone, HandshakeInv
  <2>2. Busy(s, Keying \cup {"exportAnswer"})'
    BY <1>1, <1>5, <1>6 DEF Busy, Keying, Same
  <2>3. ~Busy(s, {"exportOffer"})
    BY <1>1, <2>1, OnlyCall
  <2> QED BY <1>7, <2>1, <2>2, <2>3 DEF Keyed
<1> QED BY <1>1, <1>6, <1>7, <1>8, <1>9, <1>11, <1>12, <1>13, CallStep

LEMMA SasDerivedStep ==
  ASSUME HandshakeInv, NEW s \in Session, SasDerived(s)
  PROVE  HandshakeInv'
<1>1. PICK k \in tasks :
        /\ k.s = s /\ k.at = "digesting" /\ End(k) /\ sas' = [sas EXCEPT ![s] = k.keys]
        /\ IF k.call = "onOffer"
           THEN Send(s[1], [t |-> "answer", conn |-> k.desc, key |-> k.pub])
           ELSE UNCHANGED net
        /\ UNCHANGED <<sessionVars, keyPair, ownKey, peerKey, key, pc, channel, conns>>
  BY DEF SasDerived, Suspended
<1>2. TypeOK /\ Mail /\ k \in Task /\ Passed(k) /\ (Alone(s) => Undisturbed(k))
  BY <1>1, Fields DEF HandshakeInv, Calls
<1>3. /\ k.desc \in Conn /\ k.desc \in DOMAIN conns /\ conns[k.desc].s = s /\ k.call # "connect"
      /\ k.remote \in DOMAIN conns /\ k.keys \in SUBSET Conn
      /\ k.call = "onOffer" => k.pub \in Conn
  BY <1>1, <1>2, ConnsTyped DEF Passed, Keying, Task
<1>4. tasks' = tasks \ {k} /\ sas' = [sas EXCEPT ![s] = k.keys]
  BY <1>1 DEF End
<1>5. UNCHANGED <<created, current, waiting, overlapped, flaps, drops, keyPair, ownKey, peerKey,
                  key, pc, channel, conns>>
  BY <1>1 DEF sessionVars, bounds
<1>6. Owned' /\ Grows
  BY <1>5, StillConns
<1>7. Mail' /\ net' \in [Peers -> Seq(Message)]
  <2>1. CASE k.call = "onOffer"
    <3>1. PICK m \in Message : m = [t |-> "answer", conn |-> k.desc, key |-> k.pub]
                               /\ m.t = "answer" /\ m.conn = k.desc /\ m.key = k.pub
      BY <1>3, <2>1, MessageParts
    <3>2. net' = [net EXCEPT ![Other(s[1])] = Append(@, m)] /\ Other(s[1]) \in Peers
      BY <1>1, <2>1, <3>1, Bounds DEF Send
    <3>3. m \in Sound'
      BY <1>1, <1>2, <1>3, <1>5, <2>1, <3>1 DEF Sound, Fresh, Alone, Undisturbed, Keying
    <3> QED BY <1>2, <1>6, <3>2, <3>3, MailSent, MessagesTyped
  <2>2. CASE k.call # "onOffer"
    BY <1>1, <1>2, <1>6, <2>2, MailKept, Fields
  <2> QED BY <2>1, <2>2
<1>8. TypeOK'
  BY <1>2, <1>3, <1>4, <1>5, <1>7 DEF TypeOK, Faults
<1>9. (\A r \in Session \ {s} : sas'[r] = sas[r]) /\ sas'[s] = k.keys
  BY <1>2, <1>4, Fields
<1>10. Elsewhere(s)
  <2>1. \A j : j.s # s => (j \in tasks' <=> j \in tasks)
    BY <1>1, <1>4
  <2> QED BY <1>5, <1>9, <2>1, StillElsewhere
<1>11. ASSUME Alone(s)' PROVE Keyed(s)'
  <2>1. Alone(s) /\ Undisturbed(k)
    BY <1>2, <1>5, <1>11 DEF Alone
  <2>2. /\ keyPair[s] = k.desc /\ ownKey[s] = k.desc /\ conns[k.desc].remote = k.remote
        /\ Fresh(k.remote) => k.keys = {k.desc, k.remote} /\ key[s] = {k.desc, k.remote}
    BY <1>1, <1>3, <2>1 DEF Undisturbed, Keying
  <2> QED BY <1>5, <1>9, <2>2 DEF Keyed, Fresh
<1> QED BY <1>1, <1>4, <1>5, <1>6, <1>7, <1>8, <1>10, <1>11, CallStep

LEMMA OfferKeyedStep ==
  ASSUME HandshakeInv, NEW s \in Session, OfferKeyed(s)
  PROVE  HandshakeInv'
<1>1. PICK k \in tasks :
        /\ k.s = s /\ k.at = "keygen" /\ k.call = "onOffer" /\ Len(conns) + 1 <= MaxConns
        /\ Resume(k, [k EXCEPT !.at = "setRemoteOffer", !.desc = Len(conns) + 1])
        /\ conns' = Append(conns, Made(k, FALSE))
        /\ keyPair' = [keyPair EXCEPT ![s] = Len(conns) + 1] /\ pc' = [pc EXCEPT ![s] = Len(conns) + 1]
        /\ peerKey' = [peerKey EXCEPT ![s] = k.remoteKey]
        /\ UNCHANGED <<sessionVars, ownKey, channel, key, sas, net>>
  BY DEF OfferKeyed, Suspended
<1>2. /\ TypeOK /\ Owned /\ Mail /\ Calls /\ OneCall /\ k \in Task
      /\ Passed(k) /\ (Alone(s) => Undisturbed(k))
  BY <1>1, Fields DEF HandshakeInv, Calls
<1>3. PICK n \in Conn : n = Len(conns) + 1 /\ n # 0
  BY <1>1, <1>2, ConnsTyped, Bounds DEF Conn
<1>4. PICK c \in Connection : c = Made(k, FALSE)
  BY <1>2, MadeTyped
<1>5. c.s = s /\ c.remote = k.remote /\ c.sig = "new" /\ c.link = "none"
  BY <1>1, <1>2, <1>4, MadeTyped
<1>6. /\ conns' \in Seq(Connection) /\ Len(conns') <= MaxConns
      /\ DOMAIN conns' = DOMAIN conns \cup {n} /\ n \notin DOMAIN conns
      /\ conns'[n] = c /\ \A m \in DOMAIN conns : conns'[m] = conns[m]
  <2>1. /\ conns' \in Seq(Connection) /\ Len(conns') = Len(conns) + 1
        /\ DOMAIN conns' = DOMAIN conns \cup {Len(conns) + 1}
        /\ conns'[Len(conns) + 1] = c /\ \A m \in DOMAIN conns : conns'[m] = conns[m]
    BY <1>1, <1>2, <1>4, ConnsMade
  <2>2. Len(conns) \in Nat /\ DOMAIN conns = 1..Len(conns) /\ MaxConns \in Nat
    BY <1>2, ConnsTyped, Bounds
  <2>3. Len(conns) + 1 \notin 1..Len(conns)
    BY <2>2
  <2> QED BY <1>1, <1>3, <2>1, <2>2, <2>3
<1>7. PICK next \in Task : next = [k EXCEPT !.at = "setRemoteOffer", !.desc = n]
  BY <1>2 DEF Task, Await
<1>8. Same(next, k) /\ next.at = "setRemoteOffer" /\ next.desc = n
  BY <1>1, <1>2, <1>7 DEF Task, Same
<1>9. /\ tasks' = (tasks \ {k}) \cup {next} /\ overlapped' = overlapped
      /\ keyPair' = [keyPair EXCEPT ![s] = n] /\ pc' = [pc EXCEPT ![s] = n]
      /\ peerKey' = [peerKey EXCEPT ![s] = k.remoteKey]
      /\ ownKey' = ownKey /\ channel' = channel /\ key' = key /\ sas' = sas /\ net' = net
      /\ UNCHANGED <<created, current, waiting, flaps, drops>>
  BY <1>1, <1>3, <1>7 DEF Resume, sessionVars, bounds
<1>t. /\ keyPair \in [Session -> Conn \cup {0}] /\ pc \in [Session -> Conn \cup {0}]
      /\ peerKey \in [Session -> Conn \cup {0}]
      /\ k.remote \in DOMAIN conns /\ k.remoteKey # 0 /\ k.remoteKey \in Conn
  BY <1>1, <1>2, Fields DEF Passed, Task
<1>10. TypeOK'
  BY <1>2, <1>6, <1>9, <1>t DEF TypeOK, Faults
<1>11. Elsewhere(s)
  <2>1. Grows
    BY <1>6, <1>9 DEF Grows
  <2>2. \A j : j.s # s => (j \in tasks' <=> j \in tasks)
    BY <1>1, <1>8, <1>9 DEF Same
  <2>3. keyPair'[s] = n /\ peerKey'[s] = k.remoteKey
        /\ \A r \in Session \ {s} : keyPair'[r] = keyPair[r] /\ peerKey'[r] = peerKey[r]
    BY <1>9, <1>t
  <2> QED BY <1>3, <1>6, <1>9, <1>t, <2>1, <2>2, <2>3 DEF Elsewhere
<1>12. Owned'
  BY <1>2, <1>5, <1>6, <1>9, <1>t DEF Owned
<1>13. Mail'
  BY <1>2, <1>9, <1>11, MailKept DEF Elsewhere
<1>14. next.s = k.s /\ Passed(next)' /\ (Alone(s)' => Undisturbed(next)')
  <2>1. keyPair'[s] = n /\ peerKey'[s] = k.remoteKey
    BY <1>9, <1>t
  <2>2. Passed(next)'
    BY <1>1, <1>2, <1>3, <1>5, <1>6, <1>8, <1>t, <2>1 DEF Passed, Same, Offering, Answering, Keying
  <2>3. ASSUME Alone(s)' PROVE Undisturbed(next)'
    <3>1. Fresh(k.remote)' => Fresh(k.remote)
      BY <1>6, <1>9, <1>t DEF Fresh
    <3>2. Fresh(k.remote) => k.remoteKey = k.remote
      BY <1>1, <1>2, <1>9, <2>3 DEF Alone, Undisturbed
    <3> QED BY <1>1, <1>5, <1>6, <1>8, <2>1, <3>1, <3>2 DEF Undisturbed, Same, Answering, Keying
  <2> QED BY <1>8, <2>2, <2>3 DEF Same
<1>15. Keyed(s)'
  BY <1>3, <1>5, <1>6, <1>9, <1>t DEF Keyed
<1> QED BY <1>1, <1>9, <1>10, <1>11, <1>12, <1>13, <1>14, <1>15, CallStep

\* A call ends without having changed anything.
LEMMA EndStep ==
  ASSUME HandshakeInv, NEW k \in tasks, tasks' = tasks \ {k},
         k.at \notin {"exportOffer", "exportAnswer"} \cup Keying,
         UNCHANGED <<sessionVars, fields, conns, net>>
  PROVE  HandshakeInv'
<1>1. TypeOK /\ k.s \in Session
  BY Fields DEF HandshakeInv, Task
<1>2. UNCHANGED <<created, current, waiting, overlapped, flaps, drops, keyPair, ownKey, peerKey,
                  key, sas, pc, channel, conns, net>>
  BY DEF sessionVars, bounds, fields
<1>3. TypeOK'
  BY <1>1, <1>2 DEF TypeOK, Faults
<1>4. Owned' /\ Mail'
  BY <1>2, StillConns
<1>5. Elsewhere(k.s)
  <2>1. \A j : j.s # k.s => (j \in tasks' <=> j \in tasks)
    OBVIOUS
  <2> QED BY <1>1, <1>2, <2>1, StillElsewhere
<1>6. ASSUME Alone(k.s)' PROVE Keyed(k.s)'
  <2>1. Alone(k.s)
    BY <1>2, <1>6 DEF Alone
  <2>2. ~Busy(k.s, {"exportOffer"}) /\ ~Busy(k.s, Keying \cup {"exportAnswer"})
    BY <2>1, OnlyCall
  <2> QED BY <1>1, <1>2, <2>1, <2>2, StaysKeyed
<1> QED BY <1>2, <1>3, <1>4, <1>5, <1>6, CallStep

\* What a step of call k that changes its connection to c, and no key, leaves alone.
LEMMA OwnConn ==
  ASSUME HandshakeInv, NEW k \in tasks, NEW c \in Connection, k.at # "keygen",
         conns' = [conns EXCEPT ![k.desc] = c], c.s = k.s,
         c.remote # 0 => c.remote \in DOMAIN conns, c.link = "open" => c.sig = "stable",
         UNCHANGED <<created, current, waiting, overlapped, flaps, drops, keyPair, ownKey, peerKey,
                     key, sas, pc, channel, net>>,
         tasks' \subseteq Task, \A j : j.s # k.s => (j \in tasks' <=> j \in tasks)
  PROVE  /\ k.desc \in DOMAIN conns /\ DOMAIN conns' = DOMAIN conns
         /\ conns'[k.desc] = c /\ \A n \in DOMAIN conns \ {k.desc} : conns'[n] = conns[n]
         /\ TypeOK' /\ Owned' /\ Mail' /\ Elsewhere(k.s)
<1>1. TypeOK /\ Mail /\ Passed(k) /\ k.s \in Session
  BY Fields DEF HandshakeInv, Task, Calls
<1>2. k.desc \in DOMAIN conns /\ conns[k.desc].s = k.s
  BY <1>1 DEF Passed
<1>3. /\ conns' \in Seq(Connection) /\ Len(conns') <= MaxConns /\ DOMAIN conns' = DOMAIN conns
      /\ conns'[k.desc] = c /\ \A n \in DOMAIN conns \ {k.desc} : conns'[n] = conns[n]
      /\ Grows /\ Owned'
  BY <1>1, <1>2, OneChanged
<1>4. TypeOK'
  BY <1>1, <1>3 DEF TypeOK, Faults
<1>5. Mail'
  BY <1>1, <1>3, MailKept
<1>6. Elsewhere(k.s)
  BY <1>2, <1>3 DEF Elsewhere
<1> QED BY <1>2, <1>3, <1>4, <1>5, <1>6

LEMMA OfferSetStep ==
  ASSUME HandshakeInv, NEW s \in Session, OfferSet(s)
  PROVE  HandshakeInv'
<1>1. PICK k \in tasks :
        /\ k.s = s /\ k.at = "setOffer"
        /\ \/ /\ conns[k.desc].sig = "new"
              /\ conns' = [conns EXCEPT ![k.desc].sig = "have-local-offer"]
              /\ Resume(k, [k EXCEPT !.at = "exportOffer", !.pub = keyPair[s]])
           \/ End(k) /\ UNCHANGED conns
        /\ UNCHANGED <<sessionVars, fields, net>>
  BY DEF OfferSet, Suspended
<1>2. TypeOK /\ Owned /\ k \in Task /\ Passed(k) /\ (Alone(s) => Undisturbed(k))
  BY <1>1, Fields DEF HandshakeInv, Calls
<1>3. k.desc \in DOMAIN conns /\ conns[k.desc] \in Connection /\ conns[k.desc].s = s
  BY <1>1, <1>2, ConnsTyped DEF Passed
<1>4. CASE End(k) /\ UNCHANGED conns
  BY <1>1, <1>4, EndStep DEF End, Keying
<1>5. CASE /\ conns[k.desc].sig = "new"
           /\ conns' = [conns EXCEPT ![k.desc].sig = "have-local-offer"]
           /\ Resume(k, [k EXCEPT !.at = "exportOffer", !.pub = keyPair[s]])
  <2>1. PICK c \in Connection : c = [conns[k.desc] EXCEPT !.sig = "have-local-offer"]
    BY <1>3 DEF Connection
  <2>2. /\ c.s = s /\ c.remote = conns[k.desc].remote /\ c.sig = "have-local-offer"
        /\ c.link = conns[k.desc].link /\ c.link # "open"
        /\ c.remote # 0 => c.remote \in DOMAIN conns
    BY <1>2, <1>3, <1>5, <2>1 DEF Connection, Owned
  <2>3. conns' = [conns EXCEPT ![k.desc] = c]
    BY <1>5, <2>1
  <2>4. keyPair[s] # 0 /\ keyPair[s] \in Conn
    BY <1>1, <1>2, Fields DEF Passed
  <2>5. PICK next \in Task : next = [k EXCEPT !.at = "exportOffer", !.pub = keyPair[s]]
    BY <1>2, <2>4 DEF Task, Await
  <2>6. Same(next, k) /\ next.at = "exportOffer" /\ next.desc = k.desc /\ next.pub = keyPair[s]
    BY <1>2, <2>5 DEF Task, Same
  <2>7. /\ tasks' = (tasks \ {k}) \cup {next} /\ tasks' \subseteq Task
        /\ \A j : j.s # k.s => (j \in tasks' <=> j \in tasks)
    BY <1>2, <1>5, <2>5, <2>6, Fields DEF Resume, Same
  <2>8. UNCHANGED <<created, current, waiting, overlapped, flaps, drops, keyPair, ownKey, peerKey,
                    key, sas, pc, channel, net>>
    BY <1>1 DEF sessionVars, bounds, fields
  <2>9. /\ DOMAIN conns' = DOMAIN conns /\ conns'[k.desc] = c
        /\ \A n \in DOMAIN conns \ {k.desc} : conns'[n] = conns[n]
        /\ TypeOK' /\ Owned' /\ Mail' /\ Elsewhere(k.s)
    BY <1>1, <2>2, <2>3, <2>7, <2>8, OwnConn
  <2>10. next.s = k.s /\ Passed(next)' /\ (Alone(s)' => Undisturbed(next)')
    <3>1. Passed(next)'
      BY <1>1, <1>2, <1>3, <2>2, <2>4, <2>6, <2>8, <2>9 DEF Passed, Same, Offering, Answering, Keying
    <3>2. ASSUME Alone(s)' PROVE Undisturbed(next)'
      BY <1>1, <1>2, <2>6, <2>8, <3>2 DEF Undisturbed, Passed, Same, Offering, Answering, Keying, Alone
    <3> QED BY <2>6, <3>1, <3>2 DEF Same
  <2>11. ASSUME Alone(s)' PROVE Keyed(s)'
    <3>1. keyPair'[s] = k.desc
      BY <1>1, <1>2, <2>8, <2>11 DEF Alone, Undisturbed
    <3>2. Busy(s, {"exportOffer"})'
      BY <1>1, <2>6, <2>7 DEF Busy, Same
    <3> QED BY <2>2, <2>9, <3>1, <3>2 DEF Keyed
  <2> QED BY <1>1, <2>7, <2>8, <2>9, <2>10, <2>11, CallStep
<1> QED BY <1>1, <1>4, <1>5

LEMMA RemoteOfferSetStep ==
  ASSUME HandshakeInv, NEW s \in Session, RemoteOfferSet(s)
  PROVE  HandshakeInv'
<1>1. PICK k \in tasks :
        /\ k.s = s /\ k.at = "setRemoteOffer"
        /\ \/ /\ conns[k.desc].sig = "new"
              /\ conns' = [conns EXCEPT ![k.desc].sig = "have-remote-offer"]
              /\ IF pc[s] = 0 THEN End(k)
                 ELSE Resume(k, [k EXCEPT !.at = "createAnswer", !.desc = pc[s]])
           \/ End(k) /\ UNCHANGED conns
        /\ UNCHANGED <<sessionVars, fields, net>>
  BY DEF RemoteOfferSet, Suspended
<1>2. TypeOK /\ Owned /\ k \in Task /\ Passed(k) /\ (Alone(s) => Undisturbed(k))
  BY <1>1, Fields DEF HandshakeInv, Calls
<1>3. k.desc \in DOMAIN conns /\ conns[k.desc] \in Connection /\ conns[k.desc].s = s
  BY <1>1, <1>2, ConnsTyped DEF Passed
<1>4. CASE End(k) /\ UNCHANGED conns
  BY <1>1, <1>4, EndStep DEF End, Keying
<1>5. CASE /\ conns[k.desc].sig = "new"
           /\ conns' = [conns EXCEPT ![k.desc].sig = "have-remote-offer"]
           /\ IF pc[s] = 0 THEN End(k)
              ELSE Resume(k, [k EXCEPT !.at = "createAnswer", !.desc = pc[s]])
  <2>1. PICK c \in Connection : c = [conns[k.desc] EXCEPT !.sig = "have-remote-offer"]
    BY <1>3 DEF Connection
  <2>2. /\ c.s = s /\ c.remote = conns[k.desc].remote /\ c.sig = "have-remote-offer"
        /\ c.link = conns[k.desc].link /\ c.link # "open"
        /\ c.remote # 0 => c.remote \in DOMAIN conns
    BY <1>2, <1>3, <1>5, <2>1 DEF Connection, Owned
  <2>3. conns' = [conns EXCEPT ![k.desc] = c]
    BY <1>5, <2>1
  <2>4. pc[s] \in Conn \cup {0} /\ (pc[s] # 0 => pc[s] = keyPair[s])
    BY <1>2, Fields DEF Owned
  <2>5. PICK next \in Task : next = [k EXCEPT !.at = "createAnswer", !.desc = pc[s]]
    BY <1>2, <2>4 DEF Task, Await
  <2>6. Same(next, k) /\ next.at = "createAnswer" /\ next.desc = pc[s] /\ next.pub = k.pub
    BY <1>2, <2>5 DEF Task, Same
  <2>7. /\ \/ tasks' = tasks \ {k}
           \/ tasks' = (tasks \ {k}) \cup {next} /\ pc[s] # 0
        /\ tasks' \subseteq Task
        /\ \A j : j.s # k.s => (j \in tasks' <=> j \in tasks)
    BY <1>2, <1>5, <2>5, <2>6, Fields DEF Resume, End, Same
  <2>8. UNCHANGED <<created, current, waiting, overlapped, flaps, drops, keyPair, ownKey, peerKey,
                    key, sas, pc, channel, net>>
    BY <1>1 DEF sessionVars, bounds, fields
  <2>9. /\ DOMAIN conns' = DOMAIN conns /\ conns'[k.desc] = c
        /\ \A n \in DOMAIN conns \ {k.desc} : conns'[n] = conns[n]
        /\ TypeOK' /\ Owned' /\ Mail' /\ Elsewhere(k.s)
    BY <1>1, <2>2, <2>3, <2>7, <2>8, OwnConn
  <2>10. ASSUME pc[s] # 0 PROVE next.s = k.s /\ Passed(next)' /\ (Alone(s)' => Undisturbed(next)')
    <3>1. next.desc = keyPair[s] /\ keyPair'[s] = keyPair[s] /\ keyPair[s] \in DOMAIN conns
          /\ conns[keyPair[s]].s = s
      BY <1>2, <2>4, <2>6, <2>8, <2>10 DEF Owned
    <3>2. conns'[next.desc].s = s
      BY <2>2, <2>9, <3>1
    <3>3. Passed(next)'
      BY <1>1, <1>2, <2>6, <2>8, <2>9, <2>10, <3>1, <3>2 DEF Passed, Same, Offering, Answering, Keying
    <3>4. ASSUME Alone(s)' PROVE Undisturbed(next)'
      <4>1. Undisturbed(k) /\ k.desc = keyPair[s] /\ conns[k.desc].remote = k.remote
        BY <1>1, <1>2, <2>8, <3>4 DEF Alone, Undisturbed, Answering
      <4>2. Fresh(k.remote)' => Fresh(k.remote)
        BY <1>1, <1>2, <2>2, <2>8, <2>9, <1>3 DEF Fresh, Passed, Answering
      <4> QED BY <1>1, <2>2, <2>6, <2>8, <2>9, <3>1, <4>1, <4>2 DEF Undisturbed, Same, Answering, Keying
    <3> QED BY <2>6, <3>3, <3>4 DEF Same
  <2>11. ASSUME Alone(s)' PROVE Keyed(s)'
    <3>1. keyPair'[s] = k.desc
      BY <1>1, <1>2, <2>8, <2>11 DEF Alone, Undisturbed
    <3> QED BY <2>2, <2>9, <3>1 DEF Keyed
  <2> QED BY <1>1, <2>7, <2>8, <2>9, <2>10, <2>11, CallStep
<1> QED BY <1>1, <1>4, <1>5

LEMMA AnswerSetStep ==
  ASSUME HandshakeInv, NEW s \in Session, AnswerSet(s)
  PROVE  HandshakeInv'
<1>1. PICK k \in tasks :
        /\ k.s = s /\ k.at = "setAnswer"
        /\ \/ /\ conns[k.desc].sig = "have-remote-offer"
              /\ conns' = [conns EXCEPT ![k.desc].sig = "stable"]
              /\ Resume(k, [k EXCEPT !.at = "exportAnswer", !.pub = keyPair[s]])
           \/ End(k) /\ UNCHANGED conns
        /\ UNCHANGED <<sessionVars, fields, net>>
  BY DEF AnswerSet, Suspended
<1>2. TypeOK /\ Owned /\ k \in Task /\ Passed(k) /\ (Alone(s) => Undisturbed(k))
  BY <1>1, Fields DEF HandshakeInv, Calls
<1>3. k.desc \in DOMAIN conns /\ conns[k.desc] \in Connection /\ conns[k.desc].s = s
  BY <1>1, <1>2, ConnsTyped DEF Passed
<1>4. CASE End(k) /\ UNCHANGED conns
  BY <1>1, <1>4, EndStep DEF End, Keying
<1>5. CASE /\ conns[k.desc].sig = "have-remote-offer"
           /\ conns' = [conns EXCEPT ![k.desc].sig = "stable"]
           /\ Resume(k, [k EXCEPT !.at = "exportAnswer", !.pub = keyPair[s]])
  <2>1. PICK c \in Connection : c = [conns[k.desc] EXCEPT !.sig = "stable"]
    BY <1>3 DEF Connection
  <2>2. /\ c.s = s /\ c.remote = conns[k.desc].remote /\ c.sig = "stable"
        /\ c.remote # 0 => c.remote \in DOMAIN conns
    BY <1>2, <1>3, <1>5, <2>1 DEF Connection, Owned
  <2>3. conns' = [conns EXCEPT ![k.desc] = c]
    BY <1>5, <2>1
  <2>4. keyPair[s] # 0 /\ keyPair[s] \in Conn
    BY <1>1, <1>2, Fields DEF Passed
  <2>5. PICK next \in Task : next = [k EXCEPT !.at = "exportAnswer", !.pub = keyPair[s]]
    BY <1>2, <2>4 DEF Task, Await
  <2>6. Same(next, k) /\ next.at = "exportAnswer" /\ next.desc = k.desc /\ next.pub = keyPair[s]
    BY <1>2, <2>5 DEF Task, Same
  <2>7. /\ tasks' = (tasks \ {k}) \cup {next} /\ tasks' \subseteq Task
        /\ \A j : j.s # k.s => (j \in tasks' <=> j \in tasks)
    BY <1>2, <1>5, <2>5, <2>6, Fields DEF Resume, Same
  <2>8. UNCHANGED <<created, current, waiting, overlapped, flaps, drops, keyPair, ownKey, peerKey,
                    key, sas, pc, channel, net>>
    BY <1>1 DEF sessionVars, bounds, fields
  <2>9. /\ DOMAIN conns' = DOMAIN conns /\ conns'[k.desc] = c
        /\ \A n \in DOMAIN conns \ {k.desc} : conns'[n] = conns[n]
        /\ TypeOK' /\ Owned' /\ Mail' /\ Elsewhere(k.s)
    BY <1>1, <2>2, <2>3, <2>7, <2>8, OwnConn
  <2>10. next.s = k.s /\ Passed(next)' /\ (Alone(s)' => Undisturbed(next)')
    <3>1. Passed(next)'
      BY <1>1, <1>2, <1>3, <2>2, <2>4, <2>6, <2>8, <2>9 DEF Passed, Same, Offering, Answering, Keying
    <3>2. ASSUME Alone(s)' PROVE Undisturbed(next)'
      <4>1. Undisturbed(k)
        BY <1>2, <2>8, <3>2 DEF Alone
      <4>2. Fresh(k.remote)' => Fresh(k.remote)
        BY <1>1, <1>2, <1>3, <2>2, <2>8, <2>9 DEF Fresh, Passed, Answering
      <4> QED BY <1>1, <2>2, <2>6, <2>8, <2>9, <4>1, <4>2 DEF Undisturbed, Same, Answering, Keying
    <3> QED BY <2>6, <3>1, <3>2 DEF Same
  <2>11. Keyed(s)' \/ ~Alone(s)'
    <3>1. ASSUME Alone(s)' PROVE keyPair'[s] = k.desc
      BY <1>1, <1>2, <2>8, <3>1 DEF Alone, Undisturbed
    <3>2. Busy(s, Keying \cup {"exportAnswer"})'
      BY <1>1, <2>6, <2>7 DEF Busy, Same
    <3> QED BY <2>2, <2>9, <3>1, <3>2 DEF Keyed
  <2> QED BY <1>1, <2>7, <2>8, <2>9, <2>10, <2>11, CallStep
<1> QED BY <1>1, <1>4, <1>5

LEMMA RemoteAnswerSetStep ==
  ASSUME HandshakeInv, NEW s \in Session, RemoteAnswerSet(s)
  PROVE  HandshakeInv'
<1>1. PICK k \in tasks :
        /\ k.s = s /\ k.at = "setRemoteAnswer"
        /\ \/ /\ conns[k.desc].sig = "have-local-offer"
              /\ conns' = [conns EXCEPT ![k.desc].sig = "stable", ![k.desc].remote = k.remote]
              /\ IF ownKey[s] = 0 THEN End(k)
                 ELSE Resume(k, [k EXCEPT !.at = "importing", !.keys = {peerKey[s]}])
           \/ End(k) /\ UNCHANGED conns
        /\ UNCHANGED <<sessionVars, fields, net>>
  BY DEF RemoteAnswerSet, Suspended
<1>2. TypeOK /\ Owned /\ k \in Task /\ Passed(k) /\ (Alone(s) => Undisturbed(k))
  BY <1>1, Fields DEF HandshakeInv, Calls
<1>3. k.desc \in DOMAIN conns /\ conns[k.desc] \in Connection /\ conns[k.desc].s = s
  BY <1>1, <1>2, ConnsTyped DEF Passed
<1>4. CASE End(k) /\ UNCHANGED conns
  BY <1>1, <1>4, EndStep DEF End, Keying
<1>5. CASE /\ conns[k.desc].sig = "have-local-offer"
           /\ conns' = [conns EXCEPT ![k.desc].sig = "stable", ![k.desc].remote = k.remote]
           /\ IF ownKey[s] = 0 THEN End(k)
              ELSE Resume(k, [k EXCEPT !.at = "importing", !.keys = {peerKey[s]}])
  <2>0. k.call = "onAnswer" /\ k.remote \in DOMAIN conns /\ peerKey[s] # 0 /\ peerKey[s] \in Conn
    BY <1>1, <1>2, Fields DEF Passed
  <2>1. PICK c \in Connection : c = [conns[k.desc] EXCEPT !.sig = "stable", !.remote = k.remote]
    BY <1>2, <1>3 DEF Connection, Task
  <2>2. c.s = s /\ c.remote = k.remote /\ c.sig = "stable" /\ k.remote \in DOMAIN conns
    BY <1>3, <2>0, <2>1 DEF Connection
  <2>3. conns' = [conns EXCEPT ![k.desc] = c]
    BY <1>3, <1>5, <2>1
  <2>5. PICK next \in Task : next = [k EXCEPT !.at = "importing", !.keys = {peerKey[s]}]
    BY <1>2, <2>0 DEF Task, Await
  <2>6. Same(next, k) /\ next.at = "importing" /\ next.desc = k.desc /\ next.keys = {peerKey[s]}
    BY <1>2, <2>5 DEF Task, Same
  <2>7. /\ \/ tasks' = tasks \ {k} /\ ownKey[s] = 0
           \/ tasks' = (tasks \ {k}) \cup {next} /\ ownKey[s] # 0
        /\ tasks' \subseteq Task
        /\ \A j : j.s # k.s => (j \in tasks' <=> j \in tasks)
    BY <1>2, <1>5, <2>5, <2>6, Fields DEF Resume, End, Same
  <2>8. UNCHANGED <<created, current, waiting, overlapped, flaps, drops, keyPair, ownKey, peerKey,
                    key, sas, pc, channel, net>>
    BY <1>1 DEF sessionVars, bounds, fields
  <2>9. /\ DOMAIN conns' = DOMAIN conns /\ conns'[k.desc] = c
        /\ \A n \in DOMAIN conns \ {k.desc} : conns'[n] = conns[n]
        /\ TypeOK' /\ Owned' /\ Mail' /\ Elsewhere(k.s)
    BY <1>1, <2>2, <2>3, <2>7, <2>8, OwnConn
  <2>10. ASSUME Alone(s)' PROVE keyPair[s] = k.desc /\ ownKey[s] = k.desc /\ ownKey[s] # 0 /\ Undisturbed(k)
    <3>1. Alone(s) /\ Undisturbed(k) /\ Keyed(s) /\ keyPair[s] # 0
      BY <1>1, <1>2, <2>8, <2>10 DEF Alone, HandshakeInv, Passed
    <3>2. keyPair[s] = k.desc
      BY <1>1, <3>1 DEF Undisturbed
    <3>3. ~Busy(s, {"exportOffer"})
      BY <1>1, <3>1, OnlyCall
    <3> QED BY <1>5, <3>1, <3>2, <3>3 DEF Keyed
  <2>11. ASSUME ownKey[s] # 0 PROVE next.s = k.s /\ Passed(next)' /\ (Alone(s)' => Undisturbed(next)')
    <3>1. Passed(next)'
      BY <1>1, <1>2, <1>3, <2>0, <2>2, <2>6, <2>8, <2>9, <2>11 DEF Passed, Same, Offering, Answering, Keying
    <3>2. ASSUME Alone(s)' PROVE Undisturbed(next)'
      <4>1. Fresh(k.remote)' => Fresh(k.remote)
        BY <1>3, <2>0, <2>2, <2>8, <2>9 DEF Fresh
      <4> QED BY <1>1, <2>0, <2>2, <2>6, <2>8, <2>9, <2>10, <3>2, <4>1
              DEF Undisturbed, Same, Answering, Keying
    <3> QED BY <2>6, <3>1, <3>2 DEF Same
  <2>12. ASSUME Alone(s)' PROVE Keyed(s)'
    <3>1. keyPair'[s] = k.desc /\ tasks' = (tasks \ {k}) \cup {next}
      BY <2>7, <2>8, <2>10, <2>12
    <3>2. Busy(s, Keying \cup {"exportAnswer"})'
      BY <1>1, <2>6, <3>1 DEF Busy, Same, Keying
    <3> QED BY <2>2, <2>9, <3>1, <3>2 DEF Keyed
  <2> QED BY <1>1, <2>7, <2>8, <2>9, <2>11, <2>12, CallStep
<1> QED BY <1>1, <1>4, <1>5

(***************************************************************************)
(* Sessions, messages and channels                                         *)
(***************************************************************************)

LEMMA SessionTyped ==
  ASSUME TypeOK, NEW p \in Peers, GetOrCreate(p)
  PROVE  /\ SessionOf(p) \in Session
         /\ created' \in [Peers -> 0..MaxSessions] /\ current' \in [Peers -> 0..MaxSessions]
<1>1. created \in [Peers -> 0..MaxSessions] /\ current \in [Peers -> 0..MaxSessions] /\ MaxSessions \in Nat
  BY Fields, Bounds
<1>2. CASE current[p] = 0
  BY <1>1, <1>2 DEF GetOrCreate, SessionOf, Session
<1>3. CASE current[p] # 0
  BY <1>1, <1>3 DEF GetOrCreate, SessionOf, Session
<1> QED BY <1>2, <1>3

\* A call begins, perhaps with the peer's key set.
LEMMA CallBegins ==
  ASSUME HandshakeInv, NEW k, Begin(k), k.s \in Session, TypeOK', Mail',
         UNCHANGED <<conns, keyPair, ownKey, key, sas, pc>>,
         \A r \in Session \ {k.s} : peerKey'[r] = peerKey[r],
         peerKey[k.s] # 0 => peerKey'[k.s] # 0,
         Passed(k)', Alone(k.s)' => Undisturbed(k)'
  PROVE  HandshakeInv'
<1>1. /\ tasks' = tasks \cup {k} /\ overlapped \subseteq overlapped' /\ overlapped' \subseteq overlapped \cup {k.s}
      /\ (\E j \in tasks : j.s = k.s) => k.s \in overlapped'
  BY DEF Begin
<1>2. Owned'
  BY DEF HandshakeInv, Owned
<1>3. Elsewhere(k.s)
  BY <1>1 DEF Elsewhere, Grows
<1>4. \A j \in tasks' : j.s = k.s => j = k \/ (j \in tasks /\ k.s \in overlapped')
  BY <1>1
<1>5. ASSUME Alone(k.s)' PROVE Keyed(k.s)'
  <2>1. Alone(k.s)
    BY <1>1, <1>5 DEF Alone
  <2>2. \A places : Busy(k.s, places) => Busy(k.s, places)'
    BY <1>1 DEF Busy
  <2> QED BY <1>1, <2>1, <2>2, StaysKeyed
<1> QED BY <1>2, <1>3, <1>4, <1>5, Touched DEF HandshakeInv

\* No call and no key changes, and a connection at most closes.
LEMMA QuietStep ==
  ASSUME HandshakeInv, TypeOK', Owned', Mail',
         UNCHANGED <<keyPair, ownKey, peerKey, key, sas, tasks, overlapped>>,
         DOMAIN conns' = DOMAIN conns,
         \A n \in DOMAIN conns : /\ conns'[n].s = conns[n].s /\ conns'[n].remote = conns[n].remote
                                 /\ conns'[n].sig \in {conns[n].sig, "closed"}
  PROVE  HandshakeInv'
BY Untouched DEF HandshakeInv

\* A step that only moves messages.
LEMMA MessageStep ==
  ASSUME HandshakeInv, TypeOK', Mail', UNCHANGED <<fields, tasks, overlapped, conns>>
  PROVE  HandshakeInv'
<1>1. Owned'
  BY DEF HandshakeInv, Owned, fields
<1>2. \A n \in DOMAIN conns : /\ conns'[n].s = conns[n].s /\ conns'[n].remote = conns[n].remote
                              /\ conns'[n].sig \in {conns[n].sig, "closed"}
  OBVIOUS
<1> QED BY <1>1, <1>2, QuietStep DEF fields

LEMMA SendFilesToStep ==
  ASSUME HandshakeInv, NEW p \in Peers, SendFilesTo(p)
  PROVE  HandshakeInv'
<1>1. TypeOK /\ Mail
  BY DEF HandshakeInv
<1>2. PICK s \in Session : s = SessionOf(p)
  BY <1>1, SessionTyped DEF SendFilesTo
<1>3. /\ created' \in [Peers -> 0..MaxSessions] /\ current' \in [Peers -> 0..MaxSessions]
      /\ waiting' = waiting \cup {s}
      /\ Begin(NewTask(s, "connect", "keygen")) \/ UNCHANGED <<tasks, overlapped>>
      /\ UNCHANGED <<fields, keyPair, ownKey, peerKey, key, sas, pc, channel,
                     conns, net, flaps, drops>>
  BY <1>1, <1>2, SessionTyped DEF SendFilesTo, bounds, fields
<1>4. CASE Begin(NewTask(s, "connect", "keygen"))
  <2>1. PICK k \in Task : k = NewTask(s, "connect", "keygen")
    BY <1>2 DEF NewTask, Task, Await
  <2>2. k.s = s /\ k.call = "connect" /\ k.at = "keygen" /\ k.remote = 0
    BY <2>1 DEF NewTask
  <2>3. Begin(k) /\ tasks' = tasks \cup {k} /\ overlapped' \subseteq overlapped \cup {s}
        /\ overlapped \subseteq overlapped'
    BY <1>4, <2>1, <2>2 DEF Begin
  <2>4. TypeOK'
    BY <1>1, <1>2, <1>3, <2>3 DEF TypeOK, Faults
  <2>5. Grows
    BY <1>3, <2>3 DEF Grows
  <2>6. Mail'
    BY <1>1, <1>3, <2>5, MailKept
  <2>7. Passed(k)' /\ Undisturbed(k)'
    BY <2>2 DEF Passed, Undisturbed, Offering, Answering, Keying
  <2> QED BY <1>2, <1>3, <2>2, <2>3, <2>4, <2>6, <2>7, CallBegins
<1>5. CASE UNCHANGED <<tasks, overlapped>>
  <2>1. TypeOK'
    BY <1>1, <1>2, <1>3, <1>5 DEF TypeOK, Faults
  <2>2. Grows
    BY <1>3, <1>5 DEF Grows
  <2> QED BY <1>1, <1>3, <1>5, <2>1, <2>2, MailKept, MessageStep
<1> QED BY <1>3, <1>4, <1>5

LEMMA OnOfferStep ==
  ASSUME HandshakeInv, NEW p \in Peers, OnOffer(p)
  PROVE  HandshakeInv'
<1>1. TypeOK /\ Mail
  BY DEF HandshakeInv
<1>2. PICK s \in Session : s = SessionOf(p)
  BY <1>1, SessionTyped DEF OnOffer
<1>3. PICK m \in Sound : m = Head(net[p])
  BY <1>1, MailTaken DEF OnOffer, Receive
<1>4. /\ created' \in [Peers -> 0..MaxSessions] /\ current' \in [Peers -> 0..MaxSessions]
      /\ m.t = "offer" /\ net[p] # <<>> /\ net' = [net EXCEPT ![p] = Tail(@)]
      /\ Begin([NewTask(s, "onOffer", "keygen") EXCEPT !.remote = m.conn, !.remoteKey = m.key])
      /\ UNCHANGED <<keyPair, ownKey, peerKey, key, sas, pc, channel, waiting,
                     conns, flaps, drops>>
  BY <1>1, <1>2, <1>3, SessionTyped DEF OnOffer, Receive, bounds, fields
<1>5. /\ m.conn \in Conn /\ m.key \in Conn /\ m.conn \in DOMAIN conns
      /\ Fresh(m.conn) => m.key = m.conn
  BY <1>4, MessageParts DEF Sound
<1>6. PICK k \in Task : k = [NewTask(s, "onOffer", "keygen") EXCEPT !.remote = m.conn, !.remoteKey = m.key]
  BY <1>5 DEF NewTask, Task, Await
<1>7. k.s = s /\ k.call = "onOffer" /\ k.at = "keygen" /\ k.remote = m.conn /\ k.remoteKey = m.key
  BY <1>6 DEF NewTask
<1>8. Begin(k) /\ tasks' = tasks \cup {k} /\ overlapped' \subseteq overlapped \cup {s}
      /\ overlapped \subseteq overlapped'
  BY <1>4, <1>6, <1>7 DEF Begin
<1>9. Grows
  BY <1>4, <1>8 DEF Grows
<1>10. Mail' /\ net' \in [Peers -> Seq(Message)]
  BY <1>1, <1>4, <1>9, MailTaken
<1>11. TypeOK'
  BY <1>1, <1>4, <1>8, <1>10 DEF TypeOK, Faults
<1>12. Passed(k)'
  BY <1>4, <1>5, <1>7, Bounds DEF Passed, Offering, Answering, Keying, Conn
<1>13. Undisturbed(k)'
  <2>1. Fresh(m.conn)' => Fresh(m.conn)
    BY <1>4, <1>8 DEF Fresh
  <2> QED BY <1>5, <1>7, <2>1 DEF Undisturbed, Answering, Keying
<1> QED BY <1>4, <1>7, <1>8, <1>10, <1>11, <1>12, <1>13, CallBegins

LEMMA OnAnswerStep ==
  ASSUME HandshakeInv, NEW p \in Peers, OnAnswer(p)
  PROVE  HandshakeInv'
<1>1. TypeOK /\ Mail /\ Owned
  BY DEF HandshakeInv
<1>2. PICK s \in Session : s = SessionOf(p)
  BY <1>1, SessionTyped DEF OnAnswer
<1>3. PICK m \in Sound : m = Head(net[p])
  BY <1>1, MailTaken DEF OnAnswer, Receive
<1>4. /\ created' \in [Peers -> 0..MaxSessions] /\ current' \in [Peers -> 0..MaxSessions]
      /\ m.t = "answer" /\ net[p] # <<>> /\ net' = [net EXCEPT ![p] = Tail(@)]
      /\ IF pc[s] = 0
         THEN UNCHANGED <<peerKey, tasks, overlapped>>
         ELSE /\ peerKey' = [peerKey EXCEPT ![s] = m.key]
              /\ Begin([NewTask(s, "onAnswer", "setRemoteAnswer") EXCEPT !.desc = pc[s], !.remote = m.conn])
      /\ UNCHANGED <<keyPair, ownKey, key, sas, pc, channel, waiting, conns, flaps, drops>>
  BY <1>1, <1>2, <1>3, SessionTyped DEF OnAnswer, Receive, bounds
<1>5. /\ m.conn \in Conn /\ m.key \in Conn /\ m.conn \in DOMAIN conns /\ m.key # 0
      /\ Fresh(m.conn) => m.key = m.conn
  BY <1>4, MessageParts, Bounds DEF Sound, Conn
<1>6. CASE pc[s] = 0
  <2>1. Grows
    BY <1>4, <1>6 DEF Grows
  <2>2. Mail' /\ net' \in [Peers -> Seq(Message)]
    BY <1>1, <1>4, <2>1, MailTaken
  <2>3. TypeOK'
    <3>1. UNCHANGED <<keyPair, ownKey, peerKey, key, sas, pc, channel, waiting, tasks, conns,
                      overlapped, flaps, drops>>
      BY <1>4, <1>6
    <3> QED BY <1>1, <1>4, <2>2, <3>1 DEF TypeOK, Faults
  <2> QED BY <1>4, <1>6, <2>2, <2>3, MessageStep DEF fields
<1>7. CASE pc[s] # 0
  <2>1. pc[s] \in Conn /\ pc[s] = keyPair[s] /\ pc[s] \in DOMAIN conns /\ conns[pc[s]].s = s
    BY <1>1, <1>7, Fields DEF Owned
  <2>2. PICK k \in Task : k = [NewTask(s, "onAnswer", "setRemoteAnswer") EXCEPT !.desc = pc[s], !.remote = m.conn]
    BY <1>5, <2>1 DEF NewTask, Task, Await
  <2>3. k.s = s /\ k.call = "onAnswer" /\ k.at = "setRemoteAnswer" /\ k.desc = pc[s] /\ k.remote = m.conn
    BY <2>2 DEF NewTask
  <2>4. Begin(k) /\ tasks' = tasks \cup {k} /\ overlapped' \subseteq overlapped \cup {s}
        /\ overlapped \subseteq overlapped'
    BY <1>4, <1>7, <2>2, <2>3 DEF Begin
  <2>5. Grows
    BY <1>4, <2>4 DEF Grows
  <2>6. Mail' /\ net' \in [Peers -> Seq(Message)]
    BY <1>1, <1>4, <2>5, MailTaken
  <2>7. peerKey'[s] = m.key /\ \A r \in Session \ {s} : peerKey'[r] = peerKey[r]
    BY <1>1, <1>4, <1>7, Fields
  <2>8. TypeOK'
    <3>1. peerKey' \in [Session -> Conn \cup {0}]
      BY <1>1, <1>4, <1>5, <1>7, Fields
    <3>2. tasks' \subseteq Task /\ overlapped' \subseteq Session
      BY <1>1, <2>4, Fields
    <3> QED BY <1>1, <1>4, <2>6, <3>1, <3>2 DEF TypeOK, Faults
  <2>9. Passed(k)'
    BY <1>4, <1>5, <1>7, <2>1, <2>3, <2>7 DEF Passed, Offering, Answering, Keying
  <2>10. Undisturbed(k)'
    <3>1. Fresh(m.conn)' => Fresh(m.conn)
      BY <1>4, <2>4 DEF Fresh
    <3> QED BY <1>4, <1>5, <2>1, <2>3, <2>7, <3>1 DEF Undisturbed, Answering, Keying
  <2> QED BY <1>4, <1>5, <2>3, <2>4, <2>6, <2>7, <2>8, <2>9, <2>10, CallBegins
<1> QED BY <1>6, <1>7

\* A candidate's way: nothing but cand and the messages changes.
LEMMA CandStep ==
  ASSUME HandshakeInv, NEW n \in DOMAIN conns, NEW cand \in {"sent", "added", "missed"},
         conns' = [conns EXCEPT ![n].cand = cand],
         created' \in [Peers -> 0..MaxSessions], current' \in [Peers -> 0..MaxSessions],
         net' \in [Peers -> Seq(Message)], Grows => Mail',
         UNCHANGED <<keyPair, ownKey, peerKey, key, sas, pc, channel, waiting, tasks, overlapped,
                     flaps, drops>>
  PROVE  HandshakeInv'
<1>1. TypeOK /\ Mail /\ Owned /\ conns[n] \in Connection
  BY ConnsTyped DEF HandshakeInv
<1>2. PICK c \in Connection : c = [conns[n] EXCEPT !.cand = cand]
  BY <1>1 DEF Connection
<1>3. c.s = conns[n].s /\ c.remote = conns[n].remote /\ c.sig = conns[n].sig /\ c.link = conns[n].link
  BY <1>1, <1>2 DEF Connection
<1>4. /\ conns' \in Seq(Connection) /\ Len(conns') = Len(conns) /\ DOMAIN conns' = DOMAIN conns
      /\ conns'[n] = c /\ \A m \in DOMAIN conns \ {n} : conns'[m] = conns[m]
  <2>1. conns' = [conns EXCEPT ![n] = c]
    BY <1>2
  <2> QED BY <1>1, <2>1, ConnsChanged
<1>5. Grows
  BY <1>3, <1>4 DEF Grows
<1>6. TypeOK'
  BY <1>1, <1>4 DEF TypeOK, Faults
<1>7. Owned'
  BY <1>1, <1>3, <1>4 DEF Owned
<1>8. \A m \in DOMAIN conns : /\ conns'[m].s = conns[m].s /\ conns'[m].remote = conns[m].remote
                              /\ conns'[m].sig \in {conns[m].sig, "closed"}
  BY <1>3, <1>4
<1> QED BY <1>4, <1>5, <1>6, <1>7, <1>8, QuietStep

LEMMA OnIceStep ==
  ASSUME HandshakeInv, NEW p \in Peers, OnIce(p)
  PROVE  HandshakeInv'
<1>1. TypeOK /\ Mail
  BY DEF HandshakeInv
<1>2. /\ created' \in [Peers -> 0..MaxSessions] /\ current' \in [Peers -> 0..MaxSessions]
      /\ net[p] # <<>> /\ net' = [net EXCEPT ![p] = Tail(@)]
      /\ UNCHANGED <<keyPair, ownKey, peerKey, key, sas, pc, channel, waiting, tasks, overlapped,
                     flaps, drops>>
  BY <1>1, SessionTyped DEF OnIce, Receive, bounds, fields
<1>3. PICK n \in {Head(net[p]).conn}, cand \in {"sent", "added", "missed"} :
             conns' = [conns EXCEPT ![n].cand = cand]
  <2> DEFINE got == IF TakesCandidate(SessionOf(p), Head(net[p]).conn) THEN "added" ELSE "missed"
  <2>1. conns' = [conns EXCEPT ![Head(net[p]).conn].cand = got]
    BY DEF OnIce
  <2>2. got \in {"sent", "added", "missed"}
    OBVIOUS
  <2> HIDE DEF got
  <2> QED BY <2>1, <2>2
<1>4. net' \in [Peers -> Seq(Message)] /\ (Grows => Mail')
  BY <1>1, <1>2, MailTaken
<1>5. CASE n \in DOMAIN conns
  BY <1>2, <1>3, <1>4, <1>5, CandStep
<1>6. CASE n \notin DOMAIN conns
  <2>1. conns' = conns
    <3>1. conns \in Seq(Connection)
      BY <1>1, ConnsTyped
    <3>2. conns = [m \in DOMAIN conns |-> conns[m]]
      BY <3>1
    <3>3. conns' = [m \in DOMAIN conns |-> conns[m]]
      BY <1>3, <1>6
    <3> QED BY <3>2, <3>3
  <2>2. Grows
    BY <1>2, <2>1 DEF Grows
  <2>3. TypeOK'
    BY <1>1, <1>2, <1>4, <2>1 DEF TypeOK, Faults
  <2> QED BY <1>2, <1>4, <2>1, <2>2, <2>3, MessageStep DEF fields
<1> QED BY <1>5, <1>6

LEMMA OnPeerLeftStep ==
  ASSUME HandshakeInv, NEW p \in Peers, OnPeerLeft(p)
  PROVE  HandshakeInv'
<1>1. TypeOK /\ Mail /\ Owned
  BY DEF HandshakeInv
<1>2. /\ current' = [current EXCEPT ![p] = 0] /\ net[p] # <<>> /\ net' = [net EXCEPT ![p] = Tail(@)]
      /\ UNCHANGED <<created, keyPair, ownKey, peerKey, key, sas, waiting, tasks, overlapped,
                     flaps, drops>>
      /\ IF current[p] = 0
         THEN UNCHANGED <<pc, channel, conns>>
         ELSE /\ conns' = Shut(SessionOf(p))
              /\ pc' = [pc EXCEPT ![SessionOf(p)] = 0]
              /\ channel' = [channel EXCEPT ![SessionOf(p)] = 0]
  BY DEF OnPeerLeft, Receive, bounds
<1>3. current' \in [Peers -> 0..MaxSessions]
  BY <1>1, <1>2, Fields, Bounds
<1>4. CASE current[p] = 0
  <2>1. Grows
    BY <1>2, <1>4 DEF Grows
  <2>2. Mail' /\ net' \in [Peers -> Seq(Message)]
    BY <1>1, <1>2, <2>1, MailTaken
  <2>3. TypeOK'
    BY <1>1, <1>2, <1>3, <1>4, <2>2 DEF TypeOK, Faults
  <2> QED BY <1>2, <1>4, <2>2, <2>3, MessageStep DEF fields
<1>5. CASE current[p] # 0
  <2>1. PICK s \in Session : s = SessionOf(p)
    <3>1. current[p] \in 1..MaxSessions
      BY <1>1, <1>5, Fields, Bounds
    <3>2. SessionOf(p) \in Session
      BY <1>5, <3>1 DEF SessionOf, Session
    <3> QED BY <3>2
  <2>2. /\ conns' = Shut(s) /\ pc' = [pc EXCEPT ![s] = 0] /\ channel' = [channel EXCEPT ![s] = 0]
    BY <1>2, <1>5, <2>1
  <2>3. /\ DOMAIN conns' = DOMAIN conns
        /\ \A n \in DOMAIN conns :
             /\ conns'[n] \in Connection
             /\ conns'[n].s = conns[n].s /\ conns'[n].remote = conns[n].remote
             /\ conns'[n].sig = IF n = pc[s] THEN "closed" ELSE conns[n].sig
             /\ conns'[n].link = IF n \in {pc[s], channel[s]} THEN "closed" ELSE conns[n].link
    <3>1. \A n \in DOMAIN conns : conns[n] \in Connection
      BY <1>1, ConnsTyped
    <3> QED BY <2>2, <3>1 DEF Shut, Connection
  <2>4. conns' \in Seq(Connection) /\ Len(conns') <= MaxConns
    <3>1. conns' \in [1..Len(conns) -> Connection] /\ Len(conns) \in Nat /\ Len(conns) <= MaxConns
      BY <1>1, <2>2, <2>3, ConnsTyped DEF Shut
    <3> QED BY <3>1, AreConns
  <2>5. Grows
    BY <1>2, <2>3 DEF Grows
  <2>6. Mail' /\ net' \in [Peers -> Seq(Message)]
    BY <1>1, <1>2, <2>5, MailTaken
  <2>7. TypeOK'
    BY <1>1, <1>2, <1>3, <2>2, <2>4, <2>6 DEF TypeOK, Faults
  <2>8. Owned'
    <3>1. \A r \in Session : pc'[r] = IF r = s THEN 0 ELSE pc[r]
      BY <1>1, <2>2, Fields
    <3> QED BY <1>1, <1>2, <2>3, <3>1 DEF Owned
  <2> QED BY <1>2, <2>3, <2>6, <2>7, <2>8, QuietStep
<1> QED BY <1>4, <1>5

\* A channel's end changes, on a negotiated connection if it opens.
LEMMA LinkStep ==
  ASSUME HandshakeInv, NEW n \in DOMAIN conns, NEW link \in {"open", "closed"},
         conns' = [conns EXCEPT ![n].link = link], link = "open" => conns[n].sig = "stable",
         channel' \in [Session -> Conn \cup {0}],
         UNCHANGED <<created, current, waiting, overlapped, flaps, drops,
                     keyPair, ownKey, peerKey, key, sas, pc, tasks, net>>
  PROVE  HandshakeInv'
<1>1. TypeOK /\ Mail /\ Owned /\ conns[n] \in Connection
  BY ConnsTyped DEF HandshakeInv
<1>2. PICK c \in Connection : c = [conns[n] EXCEPT !.link = link]
  BY <1>1 DEF Connection
<1>3. c.s = conns[n].s /\ c.remote = conns[n].remote /\ c.sig = conns[n].sig /\ c.link = link
  BY <1>1, <1>2 DEF Connection
<1>4. /\ conns' \in Seq(Connection) /\ Len(conns') = Len(conns) /\ DOMAIN conns' = DOMAIN conns
      /\ conns'[n] = c /\ \A m \in DOMAIN conns \ {n} : conns'[m] = conns[m]
  <2>1. conns' = [conns EXCEPT ![n] = c]
    BY <1>2
  <2> QED BY <1>1, <2>1, ConnsChanged
<1>5. Grows
  BY <1>3, <1>4 DEF Grows
<1>6. Mail'
  BY <1>1, <1>5, MailKept
<1>7. TypeOK'
  BY <1>1, <1>4 DEF TypeOK, Faults
<1>8. Owned'
  BY <1>1, <1>3, <1>4 DEF Owned
<1>9. \A m \in DOMAIN conns : /\ conns'[m].s = conns[m].s /\ conns'[m].remote = conns[m].remote
                              /\ conns'[m].sig \in {conns[m].sig, "closed"}
  BY <1>3, <1>4
<1> QED BY <1>4, <1>6, <1>7, <1>8, <1>9, QuietStep

LEMMA ChannelOpensStep ==
  ASSUME HandshakeInv, NEW n \in Conn, ChannelOpens(n)
  PROVE  HandshakeInv'
<1>1. TypeOK
  BY DEF HandshakeInv
<1>2. n \in DOMAIN conns /\ conns' = [conns EXCEPT ![n].link = "open"] /\ conns[n].sig = "stable"
      /\ UNCHANGED <<created, current, waiting, overlapped, flaps, drops,
                     keyPair, ownKey, peerKey, key, sas, pc, tasks, net>>
  BY DEF ChannelOpens, bounds
<1>3. channel' \in [Session -> Conn \cup {0}]
  <2>1. conns[n].s \in Session
    BY <1>1, <1>2, ConnsTyped DEF Connection
  <2> QED BY <1>1, <2>1, Fields DEF ChannelOpens
<1> QED BY <1>2, <1>3, LinkStep

LEMMA ChannelClosesStep ==
  ASSUME HandshakeInv, NEW n \in Conn, ChannelCloses(n)
  PROVE  HandshakeInv'
<1>1. n \in DOMAIN conns /\ conns' = [conns EXCEPT ![n].link = "closed"] /\ channel' = channel
      /\ UNCHANGED <<created, current, waiting, overlapped, flaps, drops,
                     keyPair, ownKey, peerKey, key, sas, pc, tasks, net>>
  BY DEF ChannelCloses, sessionVars, bounds, fields
<1>2. channel' \in [Session -> Conn \cup {0}]
  BY <1>1, Fields DEF HandshakeInv
<1> QED BY <1>1, <1>2, LinkStep

LEMMA SendIceStep ==
  ASSUME HandshakeInv, NEW n \in Conn, SendIce(n)
  PROVE  HandshakeInv'
<1>1. TypeOK /\ Mail
  BY DEF HandshakeInv
<1>2. /\ n \in DOMAIN conns /\ conns' = [conns EXCEPT ![n].cand = "sent"]
      /\ Send(conns[n].s[1], [t |-> "ice", conn |-> n])
      /\ UNCHANGED <<created, current, waiting, keyPair, ownKey, peerKey, key, sas, pc, channel,
                     tasks, overlapped, flaps, drops>>
  BY DEF SendIce, sessionVars, bounds, fields
<1>3. PICK m \in Message : m = [t |-> "ice", conn |-> n] /\ m.t = "ice"
  BY MessageParts
<1>4. PICK q \in Peers : net' = [net EXCEPT ![q] = Append(@, m)]
  <2>1. conns[n].s \in Session
    BY <1>1, <1>2, ConnsTyped DEF Connection
  <2> QED BY <1>2, <1>3, <2>1, Bounds DEF Send
<1>5. net' \in [Peers -> Seq(Message)] /\ (Grows => Mail')
  <2>1. m \in Sound'
    BY <1>3 DEF Sound
  <2> QED BY <1>1, <1>4, <2>1, MailSent, MessagesTyped
<1>6. created' \in [Peers -> 0..MaxSessions] /\ current' \in [Peers -> 0..MaxSessions]
  BY <1>1, <1>2, Fields
<1> QED BY <1>2, <1>5, <1>6, CandStep

LEMMA PeerLeftStep ==
  ASSUME HandshakeInv, NEW p \in Peers, PeerLeft(p)
  PROVE  HandshakeInv'
<1>1. TypeOK /\ Mail
  BY DEF HandshakeInv
<1>2. /\ Faults < MaxFaults /\ flaps' = flaps + 1
      /\ UNCHANGED <<created, current, waiting, keyPair, ownKey, peerKey, key, sas, pc, channel,
                     tasks, conns, overlapped, drops>>
  BY DEF PeerLeft, fields
<1>3. PICK m \in Message : m = [t |-> "peer-left"] /\ m.t = "peer-left"
  BY MessageParts
<1>4. net' = [net EXCEPT ![p] = Append(@, m)]
  BY <1>3 DEF PeerLeft
<1>5. Grows
  BY <1>2 DEF Grows
<1>6. Mail' /\ net' \in [Peers -> Seq(Message)]
  <2>1. m \in Sound'
    BY <1>3 DEF Sound
  <2> QED BY <1>1, <1>4, <1>5, <2>1, MailSent, MessagesTyped
<1>7. flaps' \in Nat /\ Faults' <= MaxFaults
  <2>1. flaps \in Nat /\ drops \in Nat /\ MaxFaults \in Nat
    BY <1>1, Fields, Bounds
  <2> QED BY <1>2, <2>1 DEF Faults
<1>8. TypeOK'
  BY <1>1, <1>2, <1>6, <1>7 DEF TypeOK
<1> QED BY <1>2, <1>6, <1>8, MessageStep DEF fields

LEMMA LostStep ==
  ASSUME HandshakeInv, NEW p \in Peers, Lost(p)
  PROVE  HandshakeInv'
<1>1. TypeOK /\ Mail
  BY DEF HandshakeInv
<1>2. /\ Faults < MaxFaults /\ drops' = drops + 1
      /\ net[p] # <<>> /\ net' = [net EXCEPT ![p] = Tail(@)]
      /\ UNCHANGED <<created, current, waiting, keyPair, ownKey, peerKey, key, sas, pc, channel,
                     tasks, conns, overlapped, flaps>>
  BY DEF Lost, fields
<1>3. Grows
  BY <1>2 DEF Grows
<1>4. Mail' /\ net' \in [Peers -> Seq(Message)]
  BY <1>1, <1>2, <1>3, MailTaken
<1>5. drops' \in Nat /\ Faults' <= MaxFaults
  <2>1. flaps \in Nat /\ drops \in Nat /\ MaxFaults \in Nat
    BY <1>1, Fields, Bounds
  <2> QED BY <1>2, <2>1 DEF Faults
<1>6. TypeOK'
  BY <1>1, <1>2, <1>4, <1>5 DEF TypeOK
<1> QED BY <1>2, <1>4, <1>6, MessageStep DEF fields

(***************************************************************************)
(* The theorems                                                            *)
(***************************************************************************)

LEMMA Step ==
  ASSUME HandshakeInv, [Next]_vars
  PROVE  HandshakeInv'
<1>1. ASSUME NEW p \in Peers, SendFilesTo(p) \/ Receives(p) \/ PeerLeft(p) \/ Lost(p) PROVE HandshakeInv'
  BY <1>1, SendFilesToStep, OnOfferStep, OnAnswerStep, OnIceStep, OnPeerLeftStep, PeerLeftStep, LostStep
     DEF Receives
<1>2. ASSUME NEW s \in Session, Resumes(s) PROVE HandshakeInv'
  BY <1>2, ConnectKeyedStep, OfferCreatedStep, OfferSetStep, OfferSentStep, OfferKeyedStep,
     RemoteOfferSetStep, AnswerCreatedStep, AnswerSetStep, AnswerExportedStep, RemoteAnswerSetStep,
     PeerKeyImportedStep, KeyDerivedStep, SasDerivedStep DEF Resumes
<1>3. ASSUME NEW n \in Conn, Transport(n) PROVE HandshakeInv'
  BY <1>3, ChannelOpensStep, ChannelClosesStep, SendIceStep DEF Transport
<1>4. CASE UNCHANGED vars
  <2>1. UNCHANGED <<created, current, keyPair, ownKey, peerKey, key, sas, pc, channel, waiting, tasks,
                    conns, net, overlapped, flaps, drops>>
    BY <1>4 DEF vars, fields, bounds
  <2>2. TypeOK' /\ Grows
    BY <2>1 DEF HandshakeInv, TypeOK, Faults, Grows
  <2> QED BY <2>1, <2>2, MailKept, MessageStep DEF HandshakeInv, fields
<1> QED BY <1>1, <1>2, <1>3, <1>4 DEF Next

LEMMA Initially ==
  ASSUME Init
  PROVE  HandshakeInv
<1>1. TypeOK
  <2>1. <<>> \in Seq(Connection) /\ Len(<<>>) = 0 /\ <<>> \in Seq(Message)
    BY EmptySeq
  <2> QED BY <2>1, Bounds DEF Init, TypeOK, Faults
<1>2. Mail
  <2>1. <<>> \in Seq(Sound)
    BY EmptySeq
  <2> QED BY <2>1 DEF Init, Mail
<1>3. DOMAIN conns = {}
  BY EmptySeq DEF Init
<1> QED BY <1>1, <1>2, <1>3 DEF Init, HandshakeInv, Owned, Calls, OneCall, Keyed

\* Whatever overlaps, is lost or arrives late, sessions and messages are well formed; and a
\* session on which no call overlapped another works with its own connection and key pair
\* (peer.ts:210-335).
THEOREM HandshakeInOrder == Spec => []HandshakeInv
<1>1. Init => HandshakeInv
  BY Initially
<1>2. HandshakeInv /\ [Next]_vars => HandshakeInv'
  BY Step
<1> QED BY <1>1, <1>2, PTL DEF Spec

\* No message and no key set ever holds a null: each side exports its key before it sends
\* it and has both before it derives (peer.ts:150-157, 190-216), also when calls overlap.
THEOREM TypesHold == Spec => []TypeOK
<1>1. HandshakeInv => TypeOK
  BY DEF HandshakeInv
<1> QED BY <1>1, HandshakeInOrder, PTL

\* Two settled sessions at the ends of one open channel have the same key and the same
\* SAS (peer.ts:141-221), for any initiators, sessions, connections, losses and late
\* answers.  It speaks of sessions on which no call is under way, no two calls ever
\* overlapped and no later offer replaced the channel's key pair; in a glare, or after a
\* second offer on a live session, it says nothing, and there SAS and keys can differ.
THEOREM SameKeys == Spec => []KeysAgree
<1>1. HandshakeInv => KeysAgree
  <2> SUFFICES ASSUME HandshakeInv, NEW s \in Session, NEW r \in Session,
                      Joined(s, r), Settled(s), Settled(r)
               PROVE  key[s] = key[r] /\ sas[s] = sas[r]
    BY DEF KeysAgree
  <2>1. ASSUME NEW x \in Session, NEW y \in Session, IsReady(x), Settled(x), Settled(y), channel[y] # 0,
               conns[channel[x]].remote = channel[y]
        PROVE  key[x] = {channel[x], channel[y]} /\ sas[x] = {channel[x], channel[y]}
    <3>1. keyPair[x] = channel[x] /\ keyPair[y] = channel[y] /\ Alone(x) /\ Alone(y) /\ Keyed(x)
      BY <2>1 DEF Settled, Alone, HandshakeInv
    <3>2. channel[x] # 0 /\ channel[x] \in DOMAIN conns /\ conns[channel[x]].sig = "stable"
      BY <2>1, <3>1 DEF IsReady, HandshakeInv, Owned
    <3>3. Fresh(channel[y])
      BY <2>1, <3>1 DEF Fresh, Alone, HandshakeInv, Owned
    <3>4. ~Busy(x, Keying \cup {"exportAnswer"})
      BY <2>1 DEF Busy, Settled
    <3> QED BY <2>1, <3>1, <3>2, <3>3, <3>4 DEF Keyed
  <2>2. /\ IsReady(s) /\ IsReady(r) /\ channel[s] # 0 /\ channel[r] # 0
        /\ conns[channel[s]].remote = channel[r] /\ conns[channel[r]].remote = channel[s]
    BY DEF Joined, IsReady, Paired
  <2>3. key[s] = {channel[s], channel[r]} /\ sas[s] = {channel[s], channel[r]}
    BY <2>1, <2>2
  <2>4. key[r] = {channel[r], channel[s]} /\ sas[r] = {channel[r], channel[s]}
    BY <2>1, <2>2
  <2> QED BY <2>3, <2>4
<1> QED BY <1>1, HandshakeInOrder, PTL
==============================================================================
