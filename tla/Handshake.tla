------------------------------ MODULE Handshake ------------------------------
(***************************************************************************)
(* How two clients get from 'send a file' to an encrypted data channel:    *)
(* the sessions of useLanTransfer.ts (getOrCreateSession, handleSignal)    *)
(* and the negotiation and key exchange of PeerSession                     *)
(* (desktop/src/shared/peer.ts: connect, onOffer, onAnswer, establishKey). *)
(*                                                                         *)
(* A PeerSession is <<p, k>>, the k-th that peer p creates for the other   *)
(* peer.  Its fields are shared by every async call running on it; a call  *)
(* is a task, suspended at the await it names.  A field is read when the   *)
(* code reads it: on resumption, after other calls may have changed it.    *)
(*                                                                         *)
(* RTCPeerConnections are numbered in order of creation.  A key pair is    *)
(* assigned in the same step as the connection made after it, and has its  *)
(* number.  A derived key, and a short authentication string, is the set   *)
(* of the two key pairs it is computed from: deriveSessionKey is symmetric *)
(* and deriveSAS sorts.  0 and {} are null.                                *)
(*                                                                         *)
(* External: WebRTC and the relay.  Of WebRTC: the signaling state of a    *)
(* connection, its candidates (one of each connection stands for those the *)
(* pair needs) and a channel, which can open once each end has applied the *)
(* other's description and one of them has the other's candidate.  The     *)
(* relay keeps the order, may lose a message, and may report that the      *)
(* other peer left.  Peers and relay are honest.                           *)
(***************************************************************************)
EXTENDS Integers, Sequences, FiniteSets

CONSTANTS Initiators,   \* peers whose user sends a file
          MaxSessions,  \* sessions per peer (bounds the model, as the next three)
          MaxConns,     \* connections in all
          MaxFaults,    \* 'peer-left' reports and signaling messages lost, in all
          MaxIces       \* connections that send their candidate

Peers == {"A", "B"}
Other(p) == IF p = "A" THEN "B" ELSE "A"
Session == Peers \X (1..MaxSessions)
Conn == 1..MaxConns

ASSUME HandshakeAssumption ==
  /\ Initiators \subseteq Peers
  /\ {MaxSessions, MaxConns, MaxFaults, MaxIces} \subseteq Nat

VARIABLES
  created,   \* created[p]: sessions p has created
  current,   \* current[p]: the one in p's session map, 0 if there is none
  keyPair, ownKey, peerKey, key, sas, pc, channel,  \* fields of each session
  waiting,   \* sessions on which sendFilesTo waits for isReady
  tasks,     \* suspended calls
  conns,     \* the connections made so far
  net,       \* net[p]: signaling messages on the way to p
  overlapped, \* history: sessions on which a call began while another was suspended
  flaps, drops

fields == <<keyPair, ownKey, peerKey, key, sas, pc, channel>>
bounds == <<flaps, drops>>
Faults == flaps + drops
vars == <<created, current, fields, waiting, tasks, conns, net, overlapped, bounds>>

Await == {"keygen", "createOffer", "setOffer", "exportOffer",
          "setRemoteOffer", "createAnswer", "setAnswer", "exportAnswer",
          "setRemoteAnswer", "importing", "deriving", "digesting"}

\* call: the method; desc: the connection its pending WebRTC call is on or its
\* description of; remote, remoteKey: what the message handled carried; pub: our
\* exported key; keys: the keys being imported, derived from or digested.
Task == [s : Session, call : {"connect", "onOffer", "onAnswer"}, at : Await,
         desc : Conn \cup {0}, remote : Conn \cup {0}, remoteKey : Conn \cup {0},
         pub : Conn \cup {0}, keys : SUBSET Conn]

\* sig: RTCSignalingState; link: the channel at this end; cand: this end's own
\* candidate, "missed" if the other end's handleSignal dropped or refused it.
Connection == [s : Session, offers : BOOLEAN, remote : Conn \cup {0},
               sig : {"new", "have-local-offer", "have-remote-offer", "stable", "closed"},
               link : {"none", "open", "closed"},
               cand : {"none", "sent", "added", "missed"}]

Message == [t : {"offer", "answer"}, conn : Conn, key : Conn]
           \cup [t : {"ice"}, conn : Conn]
           \cup [t : {"peer-left"}]

TypeOK ==
  /\ created \in [Peers -> 0..MaxSessions]
  /\ current \in [Peers -> 0..MaxSessions]
  /\ \A f \in {keyPair, ownKey, peerKey, pc, channel} : f \in [Session -> Conn \cup {0}]
  /\ \A f \in {key, sas} : f \in [Session -> SUBSET Conn]
  /\ waiting \subseteq Session
  /\ tasks \subseteq Task
  /\ conns \in Seq(Connection) /\ Len(conns) <= MaxConns
  /\ net \in [Peers -> Seq(Message)]
  /\ overlapped \subseteq Session
  /\ {flaps, drops} \subseteq Nat /\ Faults <= MaxFaults

Init ==
  /\ created = [p \in Peers |-> 0]
  /\ current = [p \in Peers |-> 0]
  /\ keyPair = [s \in Session |-> 0]
  /\ ownKey = [s \in Session |-> 0]
  /\ peerKey = [s \in Session |-> 0]
  /\ key = [s \in Session |-> {}]
  /\ sas = [s \in Session |-> {}]
  /\ pc = [s \in Session |-> 0]
  /\ channel = [s \in Session |-> 0]
  /\ waiting = {}
  /\ tasks = {}
  /\ conns = <<>>
  /\ net = [p \in Peers |-> <<>>]
  /\ overlapped = {}
  /\ flaps = 0 /\ drops = 0

(***************************************************************************)
(* Sessions (useLanTransfer.ts)                                            *)
(***************************************************************************)

\* The session of p's map, or the one getOrCreateSession is about to create.
SessionOf(p) == <<p, IF current[p] = 0 THEN created[p] + 1 ELSE current[p]>>

GetOrCreate(p) ==
  IF current[p] = 0
  THEN /\ created[p] < MaxSessions
       /\ created' = [created EXCEPT ![p] = @ + 1]
       /\ current' = [current EXCEPT ![p] = created[p] + 1]
  ELSE UNCHANGED <<created, current>>

NewTask(s, call, at) == [s |-> s, call |-> call, at |-> at,
                         desc |-> 0, remote |-> 0, remoteKey |-> 0,
                         pub |-> 0, keys |-> {}]

\* A call runs to its first await.
Begin(k) ==
  /\ tasks' = tasks \cup {k}
  /\ overlapped' = overlapped \cup {s \in {k.s} : \E j \in tasks : j.s = s}

\* sendFilesTo: only a session made here is told to connect.
SendFilesTo(p) ==
  /\ p \in Initiators
  /\ SessionOf(p) \notin waiting
  /\ GetOrCreate(p)
  /\ waiting' = waiting \cup {SessionOf(p)}
  /\ IF current[p] = 0
     THEN Begin(NewTask(SessionOf(p), "connect", "keygen"))
     ELSE UNCHANGED <<tasks, overlapped>>
  /\ UNCHANGED <<fields, conns, net, bounds>>

Receive(p, t) == /\ net[p] # <<>>
                 /\ Head(net[p]).t = t
                 /\ net' = [net EXCEPT ![p] = Tail(@)]

Send(p, m) == net' = [net EXCEPT ![Other(p)] = Append(@, m)]

OnOffer(p) ==
  /\ Receive(p, "offer")
  /\ GetOrCreate(p)
  /\ Begin([NewTask(SessionOf(p), "onOffer", "keygen")
              EXCEPT !.remote = Head(net[p]).conn, !.remoteKey = Head(net[p]).key])
  /\ UNCHANGED <<fields, waiting, conns, bounds>>

OnAnswer(p) ==
  /\ Receive(p, "answer")
  /\ GetOrCreate(p)
  /\ LET s == SessionOf(p) IN
     IF pc[s] = 0
     THEN UNCHANGED <<peerKey, tasks, overlapped>>
     ELSE /\ peerKey' = [peerKey EXCEPT ![s] = Head(net[p]).key]
          /\ Begin([NewTask(s, "onAnswer", "setRemoteAnswer")
                      EXCEPT !.desc = pc[s], !.remote = Head(net[p]).conn])
  /\ UNCHANGED <<keyPair, ownKey, key, sas, pc, channel, waiting, conns, bounds>>

\* addIceCandidate on this.pc succeeds with a candidate of connection n: n's
\* description is applied, or setRemoteDescription was called with it (it goes
\* first).  onOffer makes that call in the step that makes this.pc.
TakesCandidate(s, n) ==
  /\ pc[s] # 0
  /\ \/ conns[pc[s]].remote = n
     \/ \E k \in tasks : k.at = "setRemoteAnswer" /\ k.desc = pc[s] /\ k.remote = n

\* Dropped while this.pc is null, refused before the remote description: a
\* candidate is neither queued nor sent again.
OnIce(p) ==
  /\ Receive(p, "ice")
  /\ GetOrCreate(p)
  /\ LET n == Head(net[p]).conn IN
     conns' = [conns EXCEPT ![n].cand = IF TakesCandidate(SessionOf(p), n)
                                        THEN "added" ELSE "missed"]
  /\ UNCHANGED <<fields, waiting, tasks, overlapped, bounds>>

\* close(): of the session's connection and channel.
Shut(s) == [n \in DOMAIN conns |->
              [conns[n] EXCEPT !.sig = IF n = pc[s] THEN "closed" ELSE @,
                               !.link = IF n \in {pc[s], channel[s]} THEN "closed" ELSE @]]

OnPeerLeft(p) ==
  /\ Receive(p, "peer-left")
  /\ current' = [current EXCEPT ![p] = 0]
  /\ IF current[p] = 0
     THEN UNCHANGED <<pc, channel, conns>>
     ELSE /\ conns' = Shut(SessionOf(p))
          /\ pc' = [pc EXCEPT ![SessionOf(p)] = 0]
          /\ channel' = [channel EXCEPT ![SessionOf(p)] = 0]
  /\ UNCHANGED <<created, keyPair, ownKey, peerKey, key, sas, waiting, tasks, overlapped, bounds>>

(***************************************************************************)
(* Calls resumed (peer.ts)                                                 *)
(***************************************************************************)

sessionVars == <<created, current, waiting, overlapped, bounds>>

\* The calls suspended on s at an await; one of them resumes or ends.
Suspended(s, at) == {k \in tasks : k.s = s /\ k.at = at}
Resume(k, next) == tasks' = (tasks \ {k}) \cup {next}
End(k) == tasks' = tasks \ {k}

\* Await a call on this.pc, or end if this.pc is no longer the connection wanted
\* (null, or one made by another call: setLocalDescription refuses its offer).
AwaitOnPc(k, at) == IF pc[k.s] = k.desc THEN Resume(k, [k EXCEPT !.at = at]) ELSE End(k)

Made(k, offers) == [s |-> k.s, offers |-> offers, remote |-> k.remote,
                    sig |-> "new", link |-> "none", cand |-> "none"]

\* connect, keyed: the connection and its data channel are made.
ConnectKeyed(s) ==
  \E k \in Suspended(s, "keygen") : LET n == Len(conns) + 1 IN
    /\ k.call = "connect"
    /\ n <= MaxConns
    /\ Resume(k, [k EXCEPT !.at = "createOffer", !.desc = n])
    /\ conns' = Append(conns, Made(k, TRUE))
    /\ keyPair' = [keyPair EXCEPT ![s] = n]
    /\ pc' = [pc EXCEPT ![s] = n]
    /\ channel' = [channel EXCEPT ![s] = n]
    /\ UNCHANGED <<sessionVars, ownKey, peerKey, key, sas, net>>

OfferCreated(s) ==
  \E k \in Suspended(s, "createOffer") :
    /\ AwaitOnPc(k, "setOffer")
    /\ UNCHANGED <<sessionVars, fields, conns, net>>

\* setLocalDescription(offer) is done; the key exported is the current one.
OfferSet(s) ==
  \E k \in Suspended(s, "setOffer") :
    /\ IF conns[k.desc].sig = "new"
       THEN /\ conns' = [conns EXCEPT ![k.desc].sig = "have-local-offer"]
            /\ Resume(k, [k EXCEPT !.at = "exportOffer", !.pub = keyPair[s]])
       ELSE /\ End(k)
            /\ UNCHANGED conns
    /\ UNCHANGED <<sessionVars, fields, net>>

\* A plausible bug: the offer is sent with the key field as it was before the
\* export (breaks TypeOK).
OfferSent_KeyUnset(s) ==
  \E k \in Suspended(s, "exportOffer") :
    /\ End(k)
    /\ ownKey' = [ownKey EXCEPT ![s] = k.pub]
    /\ Send(s[1], [t |-> "offer", conn |-> k.desc, key |-> ownKey[s]])
    /\ UNCHANGED <<sessionVars, keyPair, peerKey, key, sas, pc, channel, conns>>

OfferSent(s) ==
  \E k \in Suspended(s, "exportOffer") :
    /\ End(k)
    /\ ownKey' = [ownKey EXCEPT ![s] = k.pub]
    /\ Send(s[1], [t |-> "offer", conn |-> k.desc, key |-> k.pub])
    /\ UNCHANGED <<sessionVars, keyPair, peerKey, key, sas, pc, channel, conns>>

\* A plausible bug: the peer's key is taken only from its first offer or answer
\* (breaks KeysAgree).
OfferKeyed_KeepsPeer(s) ==
  \E k \in Suspended(s, "keygen") : LET n == Len(conns) + 1 IN
    /\ k.call = "onOffer"
    /\ n <= MaxConns
    /\ Resume(k, [k EXCEPT !.at = "setRemoteOffer", !.desc = n])
    /\ conns' = Append(conns, Made(k, FALSE))
    /\ keyPair' = [keyPair EXCEPT ![s] = n]
    /\ pc' = [pc EXCEPT ![s] = n]
    /\ peerKey' = IF peerKey[s] # 0 THEN peerKey ELSE [peerKey EXCEPT ![s] = k.remoteKey]
    /\ UNCHANGED <<sessionVars, ownKey, channel, key, sas, net>>

\* onOffer, keyed: the connection is made; setRemoteDescription is called.
OfferKeyed(s) ==
  \E k \in Suspended(s, "keygen") : LET n == Len(conns) + 1 IN
    /\ k.call = "onOffer"
    /\ n <= MaxConns
    /\ Resume(k, [k EXCEPT !.at = "setRemoteOffer", !.desc = n])
    /\ conns' = Append(conns, Made(k, FALSE))
    /\ keyPair' = [keyPair EXCEPT ![s] = n]
    /\ pc' = [pc EXCEPT ![s] = n]
    /\ peerKey' = [peerKey EXCEPT ![s] = k.remoteKey]
    /\ UNCHANGED <<sessionVars, ownKey, channel, key, sas, net>>

\* The remote offer is set; createAnswer is called on this.pc as it is now.
RemoteOfferSet(s) ==
  \E k \in Suspended(s, "setRemoteOffer") :
    /\ IF conns[k.desc].sig = "new"
       THEN /\ conns' = [conns EXCEPT ![k.desc].sig = "have-remote-offer"]
            /\ IF pc[s] = 0 THEN End(k)
               ELSE Resume(k, [k EXCEPT !.at = "createAnswer", !.desc = pc[s]])
       ELSE End(k) /\ UNCHANGED conns
    /\ UNCHANGED <<sessionVars, fields, net>>

\* createAnswer, once a remote offer is there; it fails without one.
AnswerCreated(s) ==
  \E k \in Suspended(s, "createAnswer") :
    /\ conns[k.desc].offers \/ conns[k.desc].sig # "new"
    /\ IF conns[k.desc].sig = "have-remote-offer" THEN AwaitOnPc(k, "setAnswer") ELSE End(k)
    /\ UNCHANGED <<sessionVars, fields, conns, net>>

AnswerSet(s) ==
  \E k \in Suspended(s, "setAnswer") :
    /\ IF conns[k.desc].sig = "have-remote-offer"
       THEN /\ conns' = [conns EXCEPT ![k.desc].sig = "stable"]
            /\ Resume(k, [k EXCEPT !.at = "exportAnswer", !.pub = keyPair[s]])
       ELSE End(k) /\ UNCHANGED conns
    /\ UNCHANGED <<sessionVars, fields, net>>

\* A plausible bug: establishKey is entered before ownPublicKeyB64 is set, and
\* returns; onOffer goes on to send the answer (breaks Connects).
AnswerExported_TooLate(s) ==
  \E k \in Suspended(s, "exportAnswer") :
    /\ End(k)
    /\ ownKey' = [ownKey EXCEPT ![s] = k.pub]
    /\ Send(s[1], [t |-> "answer", conn |-> k.desc, key |-> k.pub])
    /\ UNCHANGED <<sessionVars, keyPair, peerKey, key, sas, pc, channel, conns>>

\* establishKey is entered: importPublicKey of the peer's key as it is now.
AnswerExported(s) ==
  \E k \in Suspended(s, "exportAnswer") :
    /\ ownKey' = [ownKey EXCEPT ![s] = k.pub]
    /\ Resume(k, [k EXCEPT !.at = "importing", !.keys = {peerKey[s]}])
    /\ UNCHANGED <<sessionVars, keyPair, peerKey, key, sas, pc, channel, conns, net>>

\* onAnswer, the remote answer set (after a pending setLocalDescription) or
\* refused; establishKey returns at once while connect has not exported its key.
RemoteAnswerSet(s) ==
  \E k \in Suspended(s, "setRemoteAnswer") :
    /\ \A j \in tasks : ~(j.at = "setOffer" /\ j.desc = k.desc)
    /\ IF conns[k.desc].sig = "have-local-offer"
       THEN /\ conns' = [conns EXCEPT ![k.desc].sig = "stable", ![k.desc].remote = k.remote]
            /\ IF ownKey[s] = 0 THEN End(k)
               ELSE Resume(k, [k EXCEPT !.at = "importing", !.keys = {peerKey[s]}])
       ELSE End(k) /\ UNCHANGED conns
    /\ UNCHANGED <<sessionVars, fields, net>>

\* deriveSessionKey with the private key as it is now.
PeerKeyImported(s) ==
  \E k \in Suspended(s, "importing") :
    /\ Resume(k, [k EXCEPT !.at = "deriving", !.keys = @ \cup {keyPair[s]}])
    /\ UNCHANGED <<sessionVars, fields, conns, net>>

\* sessionKey is set; deriveSAS of the two public keys as they are now.
KeyDerived(s) ==
  \E k \in Suspended(s, "deriving") :
    /\ key' = [key EXCEPT ![s] = k.keys]
    /\ Resume(k, [k EXCEPT !.at = "digesting", !.keys = {ownKey[s], peerKey[s]}])
    /\ UNCHANGED <<sessionVars, keyPair, ownKey, peerKey, sas, pc, channel, conns, net>>

\* onSAS; onOffer then sends the answer.
SasDerived(s) ==
  \E k \in Suspended(s, "digesting") :
    /\ End(k)
    /\ sas' = [sas EXCEPT ![s] = k.keys]
    /\ IF k.call = "onOffer"
       THEN Send(s[1], [t |-> "answer", conn |-> k.desc, key |-> k.pub])
       ELSE UNCHANGED net
    /\ UNCHANGED <<sessionVars, keyPair, ownKey, peerKey, key, pc, channel, conns>>

(***************************************************************************)
(* WebRTC and the relay                                                    *)
(***************************************************************************)

\* n and m have applied each other's descriptions.
Paired(n, m) == /\ conns[n].offers # conns[m].offers
                /\ conns[n].remote = m /\ conns[m].remote = n
                /\ conns[n].sig \in {"stable", "closed"}
                /\ conns[m].sig \in {"stable", "closed"}

\* The ends of n's connection whose candidate the other end has.
Added(n) == {e \in {n, conns[n].remote} : e # 0 /\ conns[e].cand = "added"}

\* onopen, preceded by ondatachannel (setupChannel) at the answering end.  One
\* end's candidates may be enough: its checks tell the other end where it is.
ChannelOpens(n) ==
  /\ n \in DOMAIN conns
  /\ conns[n].link = "none" /\ conns[n].sig = "stable"
  /\ \E m \in DOMAIN conns : Paired(n, m) /\ conns[m].sig = "stable"
  /\ Added(n) # {}
  /\ conns' = [conns EXCEPT ![n].link = "open"]
  /\ channel' = IF conns[n].offers THEN channel ELSE [channel EXCEPT ![conns[n].s] = n]
  /\ UNCHANGED <<created, current, waiting, overlapped, bounds,
                 keyPair, ownKey, peerKey, key, sas, pc, tasks, net>>

\* The far end has closed.
ChannelCloses(n) ==
  /\ n \in DOMAIN conns
  /\ conns[n].link = "open"
  /\ \E m \in DOMAIN conns : Paired(n, m) /\ conns[m].link = "closed"
  /\ conns' = [conns EXCEPT ![n].link = "closed"]
  /\ UNCHANGED <<sessionVars, fields, tasks, net>>

\* onicecandidate, from the local description on.
SendIce(n) ==
  /\ n \in DOMAIN conns
  /\ conns[n].sig \in {"have-local-offer", "stable"}
  /\ conns[n].cand = "none"
  /\ Cardinality({m \in DOMAIN conns : conns[m].cand # "none"}) < MaxIces
  /\ conns' = [conns EXCEPT ![n].cand = "sent"]
  /\ Send(conns[n].s[1], [t |-> "ice", conn |-> n])
  /\ UNCHANGED <<sessionVars, fields, tasks>>

\* The relay reports that the other peer left (its socket broke, or a stale
\* connection of its was cleaned up).
PeerLeft(p) ==
  /\ Faults < MaxFaults
  /\ flaps' = flaps + 1
  /\ net' = [net EXCEPT ![p] = Append(@, [t |-> "peer-left"])]
  /\ UNCHANGED <<created, current, waiting, fields, tasks, conns, overlapped, drops>>

\* A message to p is lost: a socket is down, or the relay cannot route it.
Lost(p) ==
  /\ Faults < MaxFaults
  /\ net[p] # <<>>
  /\ drops' = drops + 1
  /\ net' = [net EXCEPT ![p] = Tail(@)]
  /\ UNCHANGED <<created, current, waiting, fields, tasks, conns, overlapped, flaps>>

(***************************************************************************)
(* Specification                                                           *)
(***************************************************************************)

Receives(p) == OnOffer(p) \/ OnAnswer(p) \/ OnIce(p) \/ OnPeerLeft(p)

Resumes(s) == \/ ConnectKeyed(s) \/ OfferCreated(s) \/ OfferSet(s) \/ OfferSent(s)
              \/ OfferKeyed(s) \/ RemoteOfferSet(s) \/ AnswerCreated(s) \/ AnswerSet(s)
              \/ AnswerExported(s) \/ RemoteAnswerSet(s)
              \/ PeerKeyImported(s) \/ KeyDerived(s) \/ SasDerived(s)

Transport(n) == ChannelOpens(n) \/ ChannelCloses(n) \/ SendIce(n)

Next == \/ \E p \in Peers : SendFilesTo(p) \/ Receives(p) \/ PeerLeft(p) \/ Lost(p)
        \/ \E s \in Session : Resumes(s)
        \/ \E n \in Conn : Transport(n)

Spec == Init /\ [][Next]_vars

\* What goes on by itself: promises settle, messages are delivered, candidates
\* are gathered, and a channel opens whose ends have each other's candidates (with
\* one it may).
Runs == \/ \E p \in Peers : Receives(p)
        \/ \E s \in {k.s : k \in tasks} : Resumes(s)
        \/ \E n \in DOMAIN conns : \/ SendIce(n)
                                   \/ ChannelOpens(n) /\ Cardinality(Added(n)) = 2

\* It does not stop while some of it can go on, in whatever order.  Nobody has to
\* send a file, no message has to be lost and no peer has to leave.
Fairness == WF_vars(Runs)

FairSpec == Spec /\ Fairness

(***************************************************************************)
(* Properties                                                              *)
(***************************************************************************)

IsReady(s) == channel[s] # 0 /\ conns[channel[s]].link = "open" /\ key[s] # {}

\* s and r are at the two ends of one open channel.
Joined(s, r) == IsReady(s) /\ IsReady(r) /\ Paired(channel[s], channel[r])

\* No call runs on s or ever began while another was suspended, and its key pair
\* is the one made with its channel: no later offer replaced it.
Settled(s) == /\ \A k \in tasks : k.s # s
              /\ s \notin overlapped
              /\ keyPair[s] = channel[s]

\* Two settled sessions at the ends of a channel have the same key and the same
\* SAS, also when answers of closed sessions arrived late and replaced
\* peerPublicKeyB64 on one of them.  Of sessions that are not settled (a glare, a
\* second offer on a live session) it says nothing: see SasAgrees.
KeysAgree ==
  \A s, r \in Session :
    Joined(s, r) /\ Settled(s) /\ Settled(r) => key[s] = key[r] /\ sas[s] = sas[r]

\* If one side sends a file, neither messages are lost nor peers leave, and no
\* candidate comes too early, both ends of its channel become ready, with the
\* same SAS.  A candidate does come too early if it arrives while onOffer awaits
\* its key pair, or before the answer, which establishKey delays: see OnIce.
Connects ==
  \A p \in Initiators :
    (<<p, 1>> \in waiting)
      ~> (\/ \E r \in Session : /\ Joined(<<p, 1>>, r)
                                /\ sas[r] # {} /\ sas[r] = sas[<<p, 1>>]
          \/ flaps + drops > 0
          \/ \E n \in DOMAIN conns : conns[n].cand = "missed")

(***************************************************************************)
(* Claims of the repository that do not hold                               *)
(***************************************************************************)

\* crypto.ts:188, 'both peers derive the identical SAS regardless of who
\* offered': two sessions ready on one channel never show different ones.
SasAgrees ==
  \A s, r \in Session : Joined(s, r) /\ sas[s] # {} /\ sas[r] # {} => sas[s] = sas[r]
==============================================================================
