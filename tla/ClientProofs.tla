----------------------------- MODULE ClientProofs -----------------------------
(***************************************************************************)
(* One relay client, a roster that follows the room, sessions and          *)
(* fingerprints in use, for any peers, sessions, files and events.         *)
(***************************************************************************)
EXTENDS Client, SequenceTheorems, FiniteSetTheorems, TLAPS

\* The state a list of updaters leads to, and a roster a list of relay messages.
R == INSTANCE Replay WITH Updates <- Update, Apply <- Apply

Hear(ps, m) == IF m.t = "peer-joined" THEN ps \cup {m.peer}
               ELSE IF m.t = "peer-left" THEN ps \ {m.peer} ELSE ps

M == INSTANCE Replay WITH Updates <- Message, Apply <- Hear

(***************************************************************************)
(* One relay client                                                        *)
(***************************************************************************)

\* Only the second boot() connects: the first one never runs or was disposed of.
BootOrder ==
  /\ boots \in [1..2 -> {"none", "loading", "disposed", "done"}]
  /\ boots[1] \in {"none", "disposed", "done"} /\ boots[2] \in {"loading", "done"}
  /\ relays = IF boots[2] = "done" THEN 1 ELSE 0

LEMMA OnlyBootEndsConnects ==
  ASSUME [Next]_vars, \A b \in 1..2 : ~BootEnds(b)
  PROVE  UNCHANGED <<boots, relays>>
<1>1. CASE LinkUp \/ LinkDown \/ Render \/ Frame \/ Answer
  BY <1>1 DEF LinkUp, LinkDown, Render, Frame, Answer, AnswerIncoming, Respond, relayVars
<1>2. CASE Deliver
  BY <1>2 DEF Deliver, OnPeerJoined, OnPeerLeft, OnSignal, Received
<1>3. ASSUME NEW p \in Peers, PeerStep(p) PROVE UNCHANGED <<boots, relays>>
  BY <1>3 DEF PeerStep, PeerMoves, PickFiles, Wait, SendFile, SendResumes,
                 PeerSignals, Picked, relayVars
<1>4. ASSUME NEW n \in Sessions,
             \/ SasDerived(n) \/ ChannelChanges(n) \/ OnOfferFile(n)
             \/ \E call \in Awaits : KeyPairMade(n, call)
      PROVE  UNCHANGED <<boots, relays>>
  BY <1>4 DEF SasDerived, ChannelChanges, OnOfferFile, KeyPairMade, relayVars
<1>5. CASE UNCHANGED vars
  BY <1>5 DEF vars, relayVars
<1> QED
  BY <1>1, <1>2, <1>3, <1>4, <1>5 DEF Next

\* A boot() that was disposed of while it loaded the configuration does not connect
\* (useLanTransfer.ts:119-139, 179-185): there is never a second relay client.
THEOREM OneRelayClient == Spec => []OneRelay
<1>1. Init => BootOrder
  BY DEF Init, BootOrder
<1>2. BootOrder /\ [Next]_vars => BootOrder'
  <2> SUFFICES ASSUME BootOrder, [Next]_vars PROVE BootOrder'
    OBVIOUS
  <2>1. ASSUME NEW b \in 1..2, BootEnds(b) PROVE BootOrder'
    <3>1. CASE b = 1
      BY <2>1, <3>1 DEF BootEnds, BootOrder
    <3>2. CASE b = 2
      BY <2>1, <3>2 DEF BootEnds, BootOrder
    <3> QED BY <3>1, <3>2
  <2>2. CASE \A b \in 1..2 : ~BootEnds(b)
    BY <2>2, OnlyBootEndsConnects DEF BootOrder
  <2> QED BY <2>1, <2>2
<1>3. BootOrder => OneRelay
  BY DEF BootOrder, OneRelay
<1> QED
  BY <1>1, <1>2, <1>3, PTL DEF Spec

(***************************************************************************)
(* Types                                                                   *)
(***************************************************************************)

LEMMA ApplyTyped ==
  ASSUME NEW s \in UiState, NEW u \in Update
  PROVE  Apply(s, u) \in UiState
<1>1. CASE u \in [u : {"join", "left"}, peer : Peers]
  BY <1>1 DEF Apply, UiState, LeftState
<1>2. CASE u \in [u : {"row"}, id : Offers \cup {0}]
  BY <1>2 DEF Apply, UiState, Upserted
<1>3. CASE u \in [u : {"prompt"}, id : Offers]
  BY <1>3 DEF Apply, UiState
<1>4. CASE u \in [u : {"answer"}, accept : BOOLEAN]
  BY <1>4 DEF Apply, UiState, Answered
<1>5. CASE u \in [u : {"sas"}, peer : Peers, session : Sessions]
  BY <1>5 DEF Apply, UiState
<1> QED BY <1>1, <1>2, <1>3, <1>4, <1>5 DEF Update

LEMMA RunIsSteps ==
  ASSUME NEW s, NEW us
  PROVE  Run(s, us) = R!Steps(s, us, Len(us))
BY DEF Run, R!Steps

LEMMA RunTyped ==
  ASSUME NEW s \in UiState, NEW us \in Seq(Update)
  PROVE  \A i \in 0..Len(us) : Run(s, us)[i] \in UiState
<1>1. Len(us) \in Nat /\ \A i \in 1..Len(us) : us[i] \in Update
  BY LenProperties
<1>2. \A x \in UiState : \A i \in 1..Len(us) : Apply(x, us[i]) \in UiState
  BY <1>1, ApplyTyped
<1>3. \A i \in 0..Len(us) : R!Steps(s, us, Len(us))[i] \in UiState
  BY <1>1, <1>2, R!StepsType
<1> QED BY <1>3, RunIsSteps

LEMMA RunIsResult ==
  ASSUME NEW s \in UiState, NEW us \in Seq(Update)
  PROVE  Run(s, us)[Len(us)] = R!Result(s, us) /\ R!Result(s, us) \in UiState
<1>1. Len(us) \in 0..Len(us)
  BY LenProperties
<1> QED BY <1>1, RunIsSteps, RunTyped DEF R!Result

\* What the screen will show once every updater has run.
Later == R!Result(base, queue)

Screen ==
  /\ base \in UiState /\ shown \in UiState /\ queue \in Seq(Update)
  /\ platform = "desktop" \/ queue = <<>>

\* setState applies its updaters to what the screen will show, on either platform.
LEMMA SetStateApplies ==
  ASSUME Screen, NEW us \in Seq(Update), SetState(us), platform' = platform
  PROVE  Screen' /\ Later' = R!Result(Later, us)
<1> USE DEF Screen
<1>1. CASE platform = "desktop"
  <2>1. queue' = queue \o us /\ base' = base /\ shown' = shown
    BY <1>1 DEF SetState
  <2>2. R!Result(base, queue \o us) = R!Result(R!Result(base, queue), us)
    BY R!ResultConcat
  <2> QED BY <1>1, <2>1, <2>2, ConcatProperties DEF Later
<1>2. CASE platform # "desktop"
  <2>1. base' = Run(base, us)[Len(us)] /\ queue' = <<>> /\ queue = <<>> /\ shown' = shown
    BY <1>2 DEF SetState
  <2>2. base' = R!Result(base, us) /\ base' \in UiState
    BY <2>1, RunIsResult
  <2>3. Later = base /\ Later' = base'
    BY <2>1, R!ResultEmpty DEF Later
  <2> QED BY <1>2, <2>1, <2>2, <2>3
<1> QED BY <1>1, <1>2

LEMMA SetStateOne ==
  ASSUME Screen, NEW u \in Update, SetState(<<u>>), platform' = platform
  PROVE  Screen' /\ Later' = Apply(Later, u)
<1>1. <<u>> \in Seq(Update)
  OBVIOUS
<1>2. Screen' /\ Later' = R!Result(Later, <<u>>)
  BY <1>1, SetStateApplies
<1> QED BY <1>2, R!ResultOne

LEMMA SetStateTwo ==
  ASSUME Screen, NEW u \in Update, NEW v \in Update, SetState(<<u, v>>), platform' = platform
  PROVE  Screen' /\ Later' = Apply(Apply(Later, u), v)
<1>1. <<u, v>> \in Seq(Update)
  OBVIOUS
<1>2. Screen' /\ Later' = R!Result(Later, <<u, v>>)
  BY <1>1, SetStateApplies
<1> QED BY <1>2, R!ResultTwo

(* The parts of the type invariant, and what the sessions' types rest on: a     *)
(* session in the map exists and is of that peer.                               *)
RelayTypes ==
  /\ platform \in Platforms /\ link \in {"none", "up", "down"}
  /\ room \in SUBSET Peers /\ IsFiniteSet(room)
  /\ inbox \in Seq(Message)
  /\ events \in 0..MaxEvents /\ broken \in BOOLEAN

MapTypes ==
  /\ peerOf \in Seq(Peers) /\ Len(peerOf) <= MaxSessions
  /\ sessions \in [Peers -> Sessions \cup {0}]
  /\ \A p \in Peers : sessions[p] # 0 =>
       sessions[p] \in 1..Len(peerOf) /\ peerOf[sessions[p]] = p

KeyTypes ==
  /\ phase \in [Sessions -> {"new", "ready", "lost", "closed"}]
  /\ dialed \subseteq 1..Len(peerOf) /\ keyed \subseteq 1..Len(peerOf)
  /\ calls \subseteq (1..Len(peerOf)) \X Awaits /\ abandoned \subseteq (1..Len(peerOf)) \X Awaits
  /\ \A n \in Sessions : phase[n] # "new" => n \in 1..Len(peerOf)

UseTypes ==
  /\ offerOf \in Seq(1..Len(peerOf)) /\ Len(offerOf) <= MaxOffers
  /\ promise \in [Offers -> {"none", "open", "accepted", "rejected"}]
  /\ send \in [Peers -> Call]
  /\ \A p \in Peers : UsesSession(p) => send[p].session \in 1..Len(peerOf)

TypeInv == BootOrder /\ RelayTypes /\ MapTypes /\ KeyTypes /\ UseTypes /\ Screen

LEMMA GetOrCreateMaps ==
  ASSUME MapTypes, NEW p \in Peers, GetOrCreate(p)
  PROVE  /\ MapTypes'
         /\ 1..Len(peerOf) \subseteq 1..Len(peerOf')
         /\ \A m \in 1..Len(peerOf) : peerOf'[m] = peerOf[m]
         /\ SessionOf(p) \in 1..Len(peerOf') /\ peerOf'[SessionOf(p)] = p
         /\ sessions' = [sessions EXCEPT ![p] = SessionOf(p)]
         /\ sessions[p] = 0 => SessionOf(p) = NewSession /\ NewSession \in 1..Len(peerOf')
<1> USE DEF MapTypes
<1>0. Len(peerOf) \in Nat /\ MaxSessions \in Nat /\ \A m \in 1..Len(peerOf) : peerOf[m] \in Peers
  BY ClientAssumption, LenProperties
<1>1. CASE sessions[p] = 0
  <2>1. /\ sessions' = [sessions EXCEPT ![p] = NewSession] /\ peerOf' = Append(peerOf, p)
        /\ SessionOf(p) = NewSession /\ Len(peerOf) < MaxSessions
    BY <1>1 DEF GetOrCreate, SessionOf, CanCreate
  <2>2. /\ peerOf' \in Seq(Peers) /\ Len(peerOf') = NewSession
        /\ peerOf'[NewSession] = p /\ \A m \in 1..Len(peerOf) : peerOf'[m] = peerOf[m]
    BY <2>1, <1>0, AppendProperties DEF NewSession
  <2>3. NewSession \in Sessions /\ NewSession <= MaxSessions /\ NewSession = Len(peerOf) + 1
    BY <2>1, <1>0 DEF Sessions, NewSession
  <2>4. \A q \in Peers : sessions'[q] # 0 =>
          sessions'[q] \in 1..Len(peerOf') /\ peerOf'[sessions'[q]] = q
    BY <2>1, <2>2, <2>3, <1>0
  <2> QED BY <1>0, <2>1, <2>2, <2>3, <2>4
<1>2. CASE sessions[p] # 0
  BY <1>0, <1>2 DEF GetOrCreate, SessionOf
<1> QED BY <1>1, <1>2

\* Types that mention a session hold on when the list of sessions grows.
LEMMA UseTypesGrow ==
  ASSUME UseTypes, peerOf \in Seq(Peers), peerOf' \in Seq(Peers),
         1..Len(peerOf) \subseteq 1..Len(peerOf'), UNCHANGED <<offerVars, send>>
  PROVE  UseTypes'
BY SeqMonotonic DEF UseTypes, UsesSession, offerVars

LEMMA CallTyped ==
  /\ Idle \in Call /\ [Idle EXCEPT !.at = "picking"] \in Call
  /\ Idle.at = "idle" /\ [Idle EXCEPT !.at = "picking"].at = "picking"
  /\ \A c \in Call, at \in {"sending", "flushing"} : [c EXCEPT !.at = at] \in Call
  /\ \A c \in Call : c.files > 1 => [c EXCEPT !.at = "sending", !.files = c.files - 1] \in Call
<1>1. Idle \in Call /\ [Idle EXCEPT !.at = "picking"] \in Call
  BY ClientAssumption DEF Call, Idle
<1>2. ASSUME NEW c \in Call, NEW at \in {"sending", "flushing"} PROVE [c EXCEPT !.at = at] \in Call
  BY <1>2 DEF Call
<1>3. ASSUME NEW c \in Call, c.files > 1
      PROVE  [c EXCEPT !.at = "sending", !.files = c.files - 1] \in Call
  <2>1. c.files - 1 \in 0..MaxFiles
    BY <1>3, ClientAssumption DEF Call
  <2> QED BY <2>1 DEF Call
<1>4. Idle.at = "idle" /\ [Idle EXCEPT !.at = "picking"].at = "picking"
  BY DEF Idle
<1> QED BY <1>1, <1>2, <1>3, <1>4

LEMMA ReceivedTyped ==
  ASSUME TypeInv, NEW kind, NEW p \in Peers, Received(kind, p)
  PROVE  RelayTypes'
BY HeadTailProperties DEF TypeInv, RelayTypes, Received, envVars

LEMMA TypeStep ==
  ASSUME TypeInv, [Next]_vars
  PROVE  TypeInv'
<1> USE DEF TypeInv
<1>b. UNCHANGED <<boots, relays>> => BootOrder'
  BY DEF BootOrder
<1>r. UNCHANGED <<envVars, link, room, inbox>> => RelayTypes'
  BY DEF RelayTypes, envVars
<1>m. UNCHANGED <<sessions, peerOf>> => MapTypes'
  BY DEF MapTypes
<1>k. UNCHANGED sessionVars => KeyTypes'
  BY DEF KeyTypes, sessionVars
<1>u. UNCHANGED <<peerOf, offerVars, send>> => UseTypes'
  BY DEF UseTypes, UsesSession, offerVars
<1>s. UNCHANGED <<platform, uiVars>> => Screen'
  BY DEF Screen, uiVars
<1>e. Event => events' \in 0..MaxEvents
  BY ClientAssumption DEF Event, RelayTypes
<1>1. ASSUME NEW b \in 1..2, BootEnds(b) PROVE TypeInv'
  <2>1. BootOrder'
    <3>1. CASE b = 1
      BY <1>1, <3>1 DEF BootEnds, BootOrder
    <3>2. CASE b = 2
      BY <1>1, <3>2 DEF BootEnds, BootOrder
    <3> QED BY <3>1, <3>2
  <2>2. RelayTypes'
    BY <1>1 DEF BootEnds, RelayTypes, envVars
  <2> QED BY <1>1, <1>m, <1>k, <1>u, <1>s, <2>1, <2>2 DEF BootEnds, envVars, sessionVars
<1>2. CASE LinkUp
  <2>1. PICK order \in [1..Cardinality(room) -> room] :
          inbox' = inbox \o [i \in DOMAIN order |-> [t |-> "peer-joined", peer |-> order[i]]]
    BY <1>2 DEF LinkUp
  <2>2. Cardinality(room) \in Nat
    BY FS_CardinalityType DEF RelayTypes
  <2>3. [i \in DOMAIN order |-> [t |-> "peer-joined", peer |-> order[i]]] \in Seq(Message)
    <3>1. ASSUME NEW i \in 1..Cardinality(room)
          PROVE  [t |-> "peer-joined", peer |-> order[i]] \in Message
      BY DEF Message, RelayTypes
    <3> QED BY <2>2, <3>1, IsASeq
  <2>4. RelayTypes'
    BY <1>2, <2>1, <2>3, ConcatProperties DEF LinkUp, RelayTypes, envVars
  <2> QED BY <1>2, <1>b, <1>m, <1>k, <1>u, <1>s, <2>4 DEF LinkUp, envVars, sessionVars
<1>3. CASE LinkDown
  <2>1. inbox' \in Seq(Message)
    BY <1>3, SubSeqProperties, LenProperties DEF LinkDown, RelayTypes
  <2>2. RelayTypes'
    BY <1>3, <1>e, <2>1 DEF LinkDown, RelayTypes, envVars
  <2> QED BY <1>3, <1>b, <1>m, <1>k, <1>u, <1>s, <2>2 DEF LinkDown, sessionVars
<1>4. CASE Render
  <2>1. Len(queue) \in 0..Len(queue)
    BY LenProperties DEF Screen
  <2>2. base' \in UiState /\ shown' \in UiState /\ queue' = <<>>
    BY <1>4, <2>1, RunTyped DEF Render, Screen
  <2>3. promise' \in [Offers -> {"none", "open", "accepted", "rejected"}]
    BY <1>4 DEF Render, Settle, UseTypes
  <2>4. Screen'
    BY <1>4, <2>2 DEF Render, Screen, envVars
  <2>5. UseTypes'
    BY <1>4, <2>3 DEF Render, UseTypes, UsesSession, sessionVars
  <2> QED BY <1>4, <1>b, <1>r, <1>m, <1>k, <2>4, <2>5 DEF Render, relayVars, sessionVars
<1>5. CASE Frame
  <2>1. Screen'
    BY <1>5 DEF Frame, Screen, envVars
  <2> QED BY <1>5, <1>b, <1>r, <1>m, <1>k, <1>u, <2>1 DEF Frame, relayVars, sessionVars
<1>6. CASE Answer
  <2>1. PICK accept \in BOOLEAN : AnswerIncoming(accept) \/ Respond(accept)
    BY <1>6 DEF Answer
  <2>2. Answered(base) \in UiState
    BY DEF Screen, Answered, UiState
  <2>3. [u |-> "answer", accept |-> accept] \in Update
    BY DEF Update
  <2>4. promise' \in [Offers -> {"none", "open", "accepted", "rejected"}]
    BY <2>1 DEF AnswerIncoming, Respond, Settle, UseTypes
  <2>5. Screen'
    <3>1. CASE AnswerIncoming(accept)
      BY <3>1, <2>2, <2>3, AppendProperties DEF AnswerIncoming, Screen, envVars
    <3>2. CASE Respond(accept)
      BY <3>2, <2>2 DEF Respond, Screen, envVars
    <3> QED BY <2>1, <3>1, <3>2
  <2>6. /\ UNCHANGED <<envVars, relayVars, sessionVars>>
        /\ UNCHANGED <<offerOf, send>>
    BY <2>1 DEF AnswerIncoming, Respond
  <2>7. UseTypes'
    BY <2>4, <2>6 DEF UseTypes, UsesSession, sessionVars
  <2> QED BY <1>b, <1>r, <1>m, <1>k, <2>5, <2>6, <2>7 DEF relayVars, sessionVars
<1>7. CASE Deliver
  <2>1. PICK p \in Peers : \/ OnPeerJoined(p) \/ OnPeerLeft(p)
                           \/ \E kind \in Signals : OnSignal(p, kind)
    BY <1>7 DEF Deliver
  <2>2. CASE OnPeerJoined(p)
    <3>1. [u |-> "join", peer |-> p] \in Update
      BY DEF Update
    <3>2. platform' = platform /\ UNCHANGED <<boots, relays>> /\ UNCHANGED <<offerVars, send>>
      BY <2>2 DEF OnPeerJoined, Received, envVars
    <3>3. Screen' /\ RelayTypes'
      BY <2>2, <3>1, <3>2, SetStateOne, ReceivedTyped DEF OnPeerJoined
    <3> QED BY <2>2, <3>2, <3>3, <1>b, <1>m, <1>k, <1>u DEF OnPeerJoined, sessionVars
  <2>3. CASE OnPeerLeft(p)
    <3>1. [u |-> "left", peer |-> p] \in Update
      BY DEF Update
    <3>2. platform' = platform /\ UNCHANGED <<boots, relays>> /\ UNCHANGED <<offerVars, send>>
      BY <2>3 DEF OnPeerLeft, Received, envVars
    <3>3. Screen' /\ RelayTypes'
      BY <2>3, <3>1, <3>2, SetStateOne, ReceivedTyped DEF OnPeerLeft
    <3>4. MapTypes'
      BY <2>3 DEF OnPeerLeft, MapTypes
    <3>5. KeyTypes'
      <4>1. UNCHANGED <<peerOf, dialed, calls, keyed>>
        BY <2>3 DEF OnPeerLeft
      <4>2. CASE UNCHANGED <<phase, abandoned>>
        BY <4>1, <4>2 DEF KeyTypes
      <4>3. CASE ~UNCHANGED <<phase, abandoned>>
        <5>1. PICK n : /\ n = sessions[p] /\ n # 0
                       /\ phase' = [phase EXCEPT ![n] = "closed"]
                       /\ abandoned' \subseteq abandoned \cup calls
          BY <2>3, <4>3 DEF OnPeerLeft
        <5>2. n \in 1..Len(peerOf)
          BY <5>1 DEF MapTypes
        <5> QED BY <4>1, <5>1, <5>2 DEF KeyTypes
      <4> QED BY <4>2, <4>3
    <3>6. peerOf' = peerOf
      BY <2>3 DEF OnPeerLeft
    <3> QED BY <3>2, <3>3, <3>4, <3>5, <3>6, <1>b, <1>u
  <2>4. ASSUME NEW kind \in Signals, OnSignal(p, kind) PROVE TypeInv'
    <3>1. /\ UNCHANGED <<boots, relays>> /\ UNCHANGED <<offerVars, send>>
          /\ UNCHANGED <<platform, uiVars>> /\ GetOrCreate(p) /\ RelayTypes'
      BY <2>4, ReceivedTyped DEF OnSignal, Received, envVars
    <3>2. MapTypes' /\ 1..Len(peerOf) \subseteq 1..Len(peerOf') /\ SessionOf(p) \in 1..Len(peerOf')
      BY <3>1, GetOrCreateMaps
    <3>3. KeyTypes'
      BY <2>4, <3>2 DEF OnSignal, KeyTypes, Awaits
    <3> QED BY <3>1, <3>2, <3>3, <1>b, <1>s, UseTypesGrow DEF MapTypes
  <2> QED BY <2>1, <2>2, <2>3, <2>4
<1>8. ASSUME NEW p \in Peers, PeerMoves(p) PROVE TypeInv'
  <2>1. room' \in SUBSET Peers /\ IsFiniteSet(room')
    BY <1>8, FS_AddElement, FS_RemoveElement DEF PeerMoves, RelayTypes
  <2>2. inbox' \in Seq(Message)
    <3>1. \A kind \in {"peer-joined", "peer-left"} : [t |-> kind, peer |-> p] \in Message
      BY DEF Message
    <3>2. PICK m \in Message : Post(m)
      BY <1>8, <3>1 DEF PeerMoves
    <3> QED BY <3>2, AppendProperties DEF Post, RelayTypes
  <2>3. RelayTypes'
    BY <1>8, <1>e, <2>1, <2>2 DEF PeerMoves, RelayTypes
  <2> QED BY <1>8, <1>b, <1>m, <1>k, <1>u, <1>s, <2>3 DEF PeerMoves, sessionVars
<1>9. ASSUME NEW p \in Peers, NEW kind \in Signals, PeerSignals(p, kind) PROVE TypeInv'
  <2>1. [t |-> kind, peer |-> p] \in Message
    BY DEF Message, Signals
  <2>2. RelayTypes'
    BY <1>9, <1>e, <2>1, AppendProperties DEF PeerSignals, Post, RelayTypes
  <2> QED BY <1>9, <1>b, <1>m, <1>k, <1>u, <1>s, <2>2 DEF PeerSignals, sessionVars
<1>10. ASSUME NEW p \in Peers, PickFiles(p) PROVE TypeInv'
  <2>1. send' \in [Peers -> Call]
    BY <1>10 DEF PickFiles, UseTypes, Call
  <2>2. UseTypes'
    BY <1>10, <2>1 DEF PickFiles, UseTypes, UsesSession, offerVars, sessionVars
  <2>3. RelayTypes'
    BY <1>10, <1>e DEF PickFiles, RelayTypes, relayVars
  <2> QED BY <1>10, <1>b, <1>m, <1>k, <1>s, <2>2, <2>3 DEF PickFiles, relayVars, sessionVars
<1>11. ASSUME NEW p \in Peers, NEW k \in 0..MaxFiles, Picked(p, k) PROVE TypeInv'
  <2>1. CASE k = 0
    <3>1. send' \in [Peers -> Call] /\ send' = [send EXCEPT ![p] = Idle]
      BY <1>11, <2>1, CallTyped DEF Picked, UseTypes
    <3>2. UseTypes'
      BY <1>11, <2>1, <3>1 DEF Picked, UseTypes, UsesSession, offerVars, Idle
    <3>3. KeyTypes'
      BY <1>11, <2>1 DEF Picked, KeyTypes
    <3> QED BY <1>11, <2>1, <1>b, <1>r, <1>m, <1>s, <3>2, <3>3 DEF Picked, relayVars, envVars
  <2>2. CASE k # 0
    <3>1. /\ GetOrCreate(p)
          /\ calls' = IF sessions[p] = 0 THEN calls \cup {<<NewSession, "connect">>} ELSE calls
          /\ send' = [send EXCEPT ![p] = [at |-> "waiting", session |-> SessionOf(p), files |-> k]]
      BY <1>11, <2>2 DEF Picked
    <3>2. /\ MapTypes' /\ 1..Len(peerOf) \subseteq 1..Len(peerOf') /\ SessionOf(p) \in 1..Len(peerOf')
          /\ sessions[p] = 0 => NewSession \in 1..Len(peerOf')
      BY <3>1, GetOrCreateMaps
    <3>3. KeyTypes'
      BY <1>11, <3>1, <3>2 DEF Picked, KeyTypes, Awaits
    <3>4. 1..Len(peerOf') \subseteq Sessions
      BY <3>2, ClientAssumption, LenProperties DEF MapTypes, Sessions
    <3>5. send' \in [Peers -> Call]
      BY <3>1, <3>2, <3>4 DEF UseTypes, Call
    <3>6. offerOf' \in Seq(1..Len(peerOf'))
      BY <1>11, <3>2, SeqMonotonic DEF Picked, UseTypes, offerVars
    <3>7. UseTypes'
      BY <1>11, <3>1, <3>2, <3>5, <3>6 DEF Picked, UseTypes, UsesSession, offerVars
    <3> QED BY <1>11, <1>b, <1>r, <1>s, <3>2, <3>3, <3>7 DEF Picked, relayVars, envVars
  <2> QED BY <2>1, <2>2
<1>12. ASSUME NEW p \in Peers, Wait(p) PROVE TypeInv'
  <2>1. send' \in [Peers -> Call]
    <3>1. PICK c \in Call : send' = [send EXCEPT ![p] = c]
      <4>1. send[p] \in Call /\ [send[p] EXCEPT !.at = "sending"] \in Call
        BY CallTyped DEF UseTypes
      <4>2. CASE send' = [send EXCEPT ![p].at = "sending"]
        BY <4>1, <4>2
      <4>3. CASE send' = [send EXCEPT ![p] = Idle]
        BY <4>3, CallTyped
      <4> QED BY <1>12, <4>2, <4>3 DEF Wait
    <3> QED BY <3>1 DEF UseTypes
  <2>2. /\ UNCHANGED <<peerOf, offerVars>>
        /\ \A q \in Peers : send'[q] = send[q] \/ send'[q] = Idle
                             \/ (send[q].at = "waiting" /\ send'[q].session = send[q].session)
    BY <1>12 DEF Wait, UseTypes, Call, sessionVars
  <2>3. UseTypes'
    BY <2>1, <2>2 DEF UseTypes, UsesSession, offerVars, Idle
  <2> QED BY <1>12, <1>b, <1>r, <1>m, <1>k, <1>s, <2>3 DEF Wait, relayVars, sessionVars, envVars
<1>13. ASSUME NEW p \in Peers, SendFile(p) PROVE TypeInv'
  <2>1. send' \in [Peers -> Call]
    <3>1. PICK c \in Call : send' = [send EXCEPT ![p] = c]
      <4>1. send[p] \in Call /\ [send[p] EXCEPT !.at = "flushing"] \in Call
        BY CallTyped DEF UseTypes
      <4>2. CASE send' = [send EXCEPT ![p].at = "flushing"]
        BY <4>1, <4>2
      <4>3. CASE send' = [send EXCEPT ![p] = Idle]
        BY <4>3, CallTyped
      <4> QED BY <1>13, <4>2, <4>3 DEF SendFile
    <3> QED BY <3>1 DEF UseTypes
  <2>2. /\ UNCHANGED <<peerOf, offerVars>>
        /\ \A q \in Peers : send'[q] = send[q] \/ send'[q] = Idle
                             \/ (send[q].at = "sending" /\ send'[q].session = send[q].session)
    BY <1>13 DEF SendFile, UseTypes, Call, sessionVars
  <2>3. UseTypes'
    BY <2>1, <2>2 DEF UseTypes, UsesSession, offerVars, Idle
  <2>4. Screen'
    <3>1. [u |-> "row", id |-> 0] \in Update
      BY DEF Update
    <3> QED BY <1>13, <1>s, <3>1, SetStateOne DEF SendFile, envVars
  <2> QED BY <1>13, <1>b, <1>r, <1>m, <1>k, <2>3, <2>4 DEF SendFile, relayVars, sessionVars, envVars
<1>19. ASSUME NEW p \in Peers, SendResumes(p) PROVE TypeInv'
  <2> DEFINE d == [send[p] EXCEPT !.at = "sending", !.files = send[p].files - 1]
  <2>1. UNCHANGED <<peerOf, offerVars>> /\ send[p].at = "flushing" /\ send[p] \in Call
    BY <1>19 DEF SendResumes, UseTypes, sessionVars
  <2>2. PICK c : /\ send' = [send EXCEPT ![p] = c]
                 /\ \/ c = Idle \/ c = [Idle EXCEPT !.at = "picking"]
                    \/ send[p].files > 1 /\ c = d
    <3>1. CASE platform = "mobile"
      BY <1>19, <3>1 DEF SendResumes
    <3>2. CASE platform # "mobile" /\ phase[send[p].session] = "ready" /\ send[p].files > 1
      BY <1>19, <3>2 DEF SendResumes
    <3>3. CASE platform # "mobile" /\ ~(phase[send[p].session] = "ready" /\ send[p].files > 1)
      BY <1>19, <3>3 DEF SendResumes
    <3> QED BY <3>1, <3>2, <3>3
  <2>3. c \in Call /\ (c.at \in {"idle", "picking"} \/ c.session = send[p].session)
    <3>1. CASE c = Idle \/ c = [Idle EXCEPT !.at = "picking"]
      BY <3>1, CallTyped
    <3>2. CASE send[p].files > 1 /\ c = d
      <4>1. d \in Call
        BY <2>1, <3>2, CallTyped
      <4>2. d.session = send[p].session
        BY <2>1 DEF Call
      <4> QED BY <3>2, <4>1, <4>2
    <3> QED BY <2>2, <3>1, <3>2
  <2>4. UseTypes'
    BY <2>1, <2>2, <2>3 DEF UseTypes, UsesSession, offerVars
  <2> QED BY <1>19, <1>b, <1>r, <1>m, <1>k, <1>s, <2>4 DEF SendResumes, relayVars, sessionVars, envVars
<1>20. ASSUME NEW n \in Sessions, NEW call \in Awaits, KeyPairMade(n, call) PROVE TypeInv'
  <2>1. n \in 1..Len(peerOf) /\ <<n, "establishKey">> \in (1..Len(peerOf)) \X Awaits
    BY <1>20 DEF KeyPairMade, KeyTypes, Awaits
  <2>2. KeyTypes'
    BY <1>20, <2>1 DEF KeyPairMade, KeyTypes
  <2> QED BY <1>20, <1>b, <1>r, <1>m, <1>u, <1>s, <2>2 DEF KeyPairMade, relayVars, envVars
<1>14. ASSUME NEW n \in Sessions, SasDerived(n) PROVE TypeInv'
  <2>1. KeyTypes'
    BY <1>14 DEF SasDerived, KeyTypes
  <2>2. Screen'
    <3>1. n \in 1..Len(peerOf) /\ peerOf[n] \in Peers
      BY <1>14, LenProperties DEF SasDerived, KeyTypes, MapTypes
    <3>2. [u |-> "sas", peer |-> peerOf[n], session |-> n] \in Update
      BY <3>1 DEF Update
    <3> QED BY <1>14, <1>s, <3>2, SetStateOne DEF SasDerived, envVars
  <2> QED BY <1>14, <1>b, <1>r, <1>m, <1>u, <2>1, <2>2 DEF SasDerived, relayVars, envVars
<1>15. ASSUME NEW n \in Sessions, ChannelChanges(n) PROVE TypeInv'
  <2>1. KeyTypes'
    BY <1>15 DEF ChannelChanges, KeyTypes
  <2> QED BY <1>15, <1>b, <1>r, <1>m, <1>u, <1>s, <2>1
          DEF ChannelChanges, relayVars, envVars
<1>16. ASSUME NEW n \in Sessions, OnOfferFile(n) PROVE TypeInv'
  <2> DEFINE t == Len(offerOf) + 1
  <2>1. t \in Offers /\ t <= MaxOffers
    BY <1>16, ClientAssumption, LenProperties DEF OnOfferFile, UseTypes, Offers
  <2>2. n \in 1..Len(peerOf)
    BY <1>16 DEF OnOfferFile, KeyTypes
  <2>3. UseTypes'
    BY <1>16, <2>1, <2>2, AppendProperties DEF OnOfferFile, UseTypes, UsesSession, sessionVars
  <2>4. Screen'
    <3>1. [u |-> "row", id |-> t] \in Update /\ [u |-> "prompt", id |-> t] \in Update
      BY <2>1 DEF Update
    <3> QED BY <1>16, <3>1, SetStateTwo DEF OnOfferFile
  <2>5. RelayTypes'
    BY <1>16, <1>e DEF OnOfferFile, RelayTypes, relayVars
  <2> QED BY <1>16, <1>b, <1>m, <1>k, <2>3, <2>4, <2>5 DEF OnOfferFile, relayVars, sessionVars
<1>17. CASE UNCHANGED vars
  BY <1>17, <1>b, <1>r, <1>m, <1>k, <1>u, <1>s DEF vars, envVars, relayVars, sessionVars
<1>18. ASSUME NEW p \in Peers, PeerStep(p) PROVE TypeInv'
  BY <1>18, <1>8, <1>9, <1>10, <1>11, <1>12, <1>13, <1>19 DEF PeerStep
<1> QED
  BY <1>1, <1>2, <1>3, <1>4, <1>5, <1>6, <1>7, <1>14, <1>15, <1>16, <1>17, <1>18, <1>20 DEF Next

LEMMA InitTyped ==
  ASSUME Init
  PROVE  TypeInv
<1>1. BootOrder
  BY DEF Init, BootOrder
<1>2. RelayTypes
  <2>1. room = {} /\ IsFiniteSet({}) /\ inbox = <<>> /\ events = 0 /\ broken = FALSE
        /\ platform \in Platforms /\ link = "none"
    BY FS_EmptySet DEF Init
  <2>2. IsFiniteSet(room) /\ room \in SUBSET Peers
    BY <2>1
  <2>3. events \in 0..MaxEvents
    BY <2>1, ClientAssumption
  <2>4. inbox \in Seq(Message)
    BY <2>1
  <2> QED BY <2>1, <2>2, <2>3, <2>4 DEF RelayTypes
<1>3. peerOf \in Seq(Peers) /\ Len(peerOf) = 0 /\ offerOf \in Seq(1..Len(peerOf)) /\ Len(offerOf) = 0
  BY DEF Init
<1>4. MapTypes
  BY <1>3, ClientAssumption DEF Init, MapTypes
<1>5. KeyTypes
  BY DEF Init, KeyTypes
<1>6. UseTypes
  BY <1>3, ClientAssumption DEF Init, UseTypes, UsesSession, Call, Idle
<1>7. base \in UiState
  BY DEF Init, UiState
<1>8. Screen
  BY <1>7 DEF Init, Screen
<1> QED
  BY <1>1, <1>2, <1>4, <1>5, <1>6, <1>8 DEF TypeInv

\* Every variable keeps its type; a send's session, an offer's and a key's exist.
THEOREM TypesHold == Spec => []TypeOK
<1>1. TypeInv => TypeOK
  <2> SUFFICES ASSUME TypeInv PROVE TypeOK
    OBVIOUS
  <2> USE DEF TypeInv
  <2>1. boots \in [1..2 -> {"none", "loading", "disposed", "done"}] /\ relays \in 0..2
    BY DEF BootOrder
  <2>2. /\ {dialed, keyed} \subseteq SUBSET (1..Len(peerOf))
        /\ {calls, abandoned} \subseteq SUBSET ((1..Len(peerOf)) \X Awaits)
    BY DEF KeyTypes
  <2> QED BY <2>1, <2>2 DEF TypeOK, RelayTypes, MapTypes, KeyTypes, UseTypes, Screen
<1>2. Init => TypeInv
  BY InitTyped
<1>3. TypeInv /\ [Next]_vars => TypeInv'
  BY TypeStep
<1> QED
  BY <1>1, <1>2, <1>3, PTL DEF Spec

(***************************************************************************)
(* The roster                                                              *)
(***************************************************************************)

\* The peers that will be listed once every relay message and updater has run.
Expected == M!Result(Later.peers, inbox)

RosterInv ==
  /\ relays = 0 => link = "none"
  /\ link = "up" => room \subseteq Expected /\ (~broken => Expected = room)
  /\ link # "up" /\ ~broken => inbox = <<>> /\ Later.peers = {}

PeersKept == Later'.peers = Later.peers
PrintsKept == Later'.prints = Later.prints

LEMMA LaterTyped ==
  ASSUME Screen
  PROVE  Later \in UiState
BY RunIsResult DEF Later, Screen

\* Steps that queue no updater, or one of a row, a prompt or an answer.
LEMMA UiKept ==
  ASSUME Screen, UNCHANGED uiVars
  PROVE  PeersKept /\ PrintsKept
BY DEF PeersKept, PrintsKept, Later, uiVars

LEMMA RowsKeep ==
  ASSUME NEW s \in UiState, NEW u \in Update, u.u \in {"row", "prompt", "answer"}
  PROVE  Apply(s, u) \in UiState /\ Apply(s, u).peers = s.peers /\ Apply(s, u).prints = s.prints
<1>1. Apply(s, u) = CASE u.u = "row" -> Upserted(s, u.id)
                      [] u.u = "prompt" -> [s EXCEPT !.incoming = u.id]
                      [] u.u = "answer" -> Answered(s)
  BY DEF Apply
<1> QED BY <1>1, ApplyTyped DEF UiState, Upserted, Answered

LEMMA RenderKeeps ==
  ASSUME TypeInv, Render
  PROVE  Later' = Later
<1>1. base' = R!Result(base, queue) /\ queue' = <<>>
  BY RunIsResult DEF Render, TypeInv, Screen
<1> QED BY <1>1, R!ResultEmpty DEF Later

LEMMA AnswerKeeps ==
  ASSUME TypeInv, Answer
  PROVE  PeersKept /\ PrintsKept
<1> USE DEF TypeInv, Screen
<1>1. PICK accept \in BOOLEAN : AnswerIncoming(accept) \/ Respond(accept)
  BY DEF Answer
<1>2. Later \in UiState
  BY LaterTyped
<1> DEFINE u == [u |-> "answer", accept |-> accept]
<1>3. u \in Update /\ \A s : Apply(s, u) = Answered(s)
  BY DEF Update, Apply
<1>4. Later' = Answered(Later)
  <2>1. CASE queue = <<>>
    <3>1. base' = Answered(base) /\ queue' = <<>>
      BY <1>1, <2>1 DEF AnswerIncoming, Respond
    <3> QED BY <2>1, <3>1, R!ResultEmpty DEF Later
  <2>2. CASE queue # <<>>
    <3>1. base' = base /\ queue' = Append(queue, u)
      BY <1>1, <2>2 DEF AnswerIncoming, Respond
    <3>2. R!Result(base, Append(queue, u)) = Apply(R!Result(base, queue), u)
      BY <1>3, R!ResultAppend
    <3> QED BY <1>3, <3>1, <3>2 DEF Later
  <2> QED BY <2>1, <2>2
<1> QED BY <1>2, <1>4 DEF PeersKept, PrintsKept, Answered, UiState

LEMMA SendFileKeeps ==
  ASSUME TypeInv, NEW p \in Peers, SendFile(p)
  PROVE  PeersKept /\ PrintsKept
<1>1. [u |-> "row", id |-> 0] \in Update
  BY DEF Update
<1>2. CASE UNCHANGED uiVars
  BY <1>2, UiKept DEF TypeInv
<1>3. CASE SetState(<<[u |-> "row", id |-> 0]>>)
  <2>1. Later' = Apply(Later, [u |-> "row", id |-> 0])
    BY <1>1, <1>3, SetStateOne DEF SendFile, envVars, TypeInv
  <2> QED BY <1>1, <2>1, LaterTyped, RowsKeep DEF PeersKept, PrintsKept, TypeInv
<1> QED BY <1>2, <1>3 DEF SendFile

LEMMA OfferKeeps ==
  ASSUME TypeInv, NEW n \in Sessions, OnOfferFile(n)
  PROVE  PeersKept /\ PrintsKept
<1> DEFINE t == Len(offerOf) + 1
           u == [u |-> "row", id |-> t]
           v == [u |-> "prompt", id |-> t]
<1>1. t \in Offers
  BY ClientAssumption, LenProperties DEF OnOfferFile, TypeInv, UseTypes, Offers
<1>2. u \in Update /\ v \in Update /\ u.u = "row" /\ v.u = "prompt"
  BY <1>1 DEF Update
<1>3. SetState(<<u, v>>) /\ platform' = platform
  BY DEF OnOfferFile
<1> HIDE DEF u, v
<1>4. Later' = Apply(Apply(Later, u), v)
  BY <1>2, <1>3, SetStateTwo DEF TypeInv
<1>5. Later \in UiState
  BY LaterTyped DEF TypeInv
<1>6. /\ Apply(Later, u) \in UiState
      /\ Apply(Later, u).peers = Later.peers /\ Apply(Later, u).prints = Later.prints
  BY <1>2, <1>5, RowsKeep
<1>7. /\ Apply(Apply(Later, u), v).peers = Apply(Later, u).peers
      /\ Apply(Apply(Later, u), v).prints = Apply(Later, u).prints
  BY <1>2, <1>6, RowsKeep
<1> QED BY <1>4, <1>6, <1>7 DEF PeersKept, PrintsKept

LEMMA SasKeeps ==
  ASSUME TypeInv, NEW n \in Sessions, SasDerived(n)
  PROVE  PeersKept /\ (PrintsKept \/ Later'.prints = [Later.prints EXCEPT ![peerOf[n]] = n])
<1>1. n \in 1..Len(peerOf) /\ peerOf[n] \in Peers
  BY LenProperties DEF SasDerived, TypeInv, KeyTypes, MapTypes
<1> DEFINE u == [u |-> "sas", peer |-> peerOf[n], session |-> n]
<1>2. u \in Update /\ \A s : Apply(s, u) = [s EXCEPT !.prints[peerOf[n]] = n]
  BY <1>1 DEF Update, Apply
<1>3. CASE SetState(<<u>>)
  <2>1. platform' = platform
    BY DEF SasDerived, envVars
  <2>2. Later' = Apply(Later, u)
    <3> HIDE DEF u
    <3> QED BY <1>2, <1>3, <2>1, SetStateOne DEF TypeInv
  <2>3. Later \in UiState
    BY LaterTyped DEF TypeInv
  <2> QED BY <1>2, <2>2, <2>3 DEF PeersKept, UiState
<1>4. CASE UNCHANGED uiVars
  BY <1>4, UiKept DEF TypeInv
<1> QED BY <1>3, <1>4 DEF SasDerived

LEMMA JoinedLater ==
  ASSUME TypeInv, NEW p \in Peers, OnPeerJoined(p)
  PROVE  Later'.peers = Later.peers \cup {p} /\ PrintsKept
<1> DEFINE u == [u |-> "join", peer |-> p]
<1>1. u \in Update /\ \A s : Apply(s, u) = [s EXCEPT !.peers = @ \cup {p}]
  BY DEF Update, Apply
<1>2. SetState(<<u>>) /\ platform' = platform
  BY DEF OnPeerJoined, Received, envVars
<1>3. Later' = Apply(Later, u)
  <2> HIDE DEF u
  <2> QED BY <1>1, <1>2, SetStateOne DEF TypeInv
<1> QED BY <1>1, <1>3, LaterTyped DEF TypeInv, UiState, PrintsKept

LEMMA LeftLater ==
  ASSUME TypeInv, NEW p \in Peers, OnPeerLeft(p)
  PROVE  Later'.peers = Later.peers \ {p} /\ Later'.prints = [Later.prints EXCEPT ![p] = 0]
<1> DEFINE u == [u |-> "left", peer |-> p]
<1>1. u \in Update /\ \A s : Apply(s, u) = [s EXCEPT !.peers = @ \ {p}, !.prints[p] = 0]
  BY DEF Update, Apply, LeftState
<1>2. SetState(<<u>>) /\ platform' = platform
  BY DEF OnPeerLeft, Received, envVars
<1>3. Later' = Apply(Later, u)
  <2> HIDE DEF u
  <2> QED BY <1>1, <1>2, SetStateOne DEF TypeInv
<1> QED BY <1>1, <1>3, LaterTyped DEF TypeInv, UiState

\* The messages LinkUp queues add the room to the roster.
Joins(n, order) == [i \in 1..n |-> [t |-> "peer-joined", peer |-> order[i]]]

LEMMA JoinsGather ==
  ASSUME NEW ps, NEW S \in SUBSET Peers, NEW n \in Nat, NEW order \in [1..n -> S],
         \A p \in S : \E i \in 1..n : order[i] = p
  PROVE  Joins(n, order) \in Seq(Message) /\ M!Result(ps, Joins(n, order)) = ps \cup S
<1> DEFINE joins == Joins(n, order)
<1>1. \A i \in 1..n : [t |-> "peer-joined", peer |-> order[i]] \in Message
  BY DEF Message
<1>2. joins \in Seq(Message) /\ Len(joins) = n
  <2>1. [i \in 1..n |-> [t |-> "peer-joined", peer |-> order[i]]] \in Seq(Message)
    BY <1>1, IsASeq
  <2> QED BY <2>1 DEF Joins
<1>3. M!Adds(joins, order, n)
  BY DEF M!Adds, Hear, Joins
<1>4. M!Elements(order, n) = S
  BY DEF M!Elements
<1> HIDE DEF joins
<1>5. M!Steps(ps, joins, n)[n] = ps \cup M!Elements(order, n)
  BY <1>3, M!StepsGather
<1>6. M!Result(ps, joins) = ps \cup S
  BY <1>2, <1>4, <1>5 DEF M!Result
<1> QED BY <1>2, <1>6 DEF joins

\* A message the client takes from its inbox changes the roster as expected.
LEMMA HeardAsExpected ==
  ASSUME TypeInv, RosterInv, NEW kind, NEW p \in Peers, Received(kind, p),
         Later'.peers = Hear(Later.peers, [t |-> kind, peer |-> p])
  PROVE  RosterInv'
<1>1. inbox # <<>> /\ Head(inbox) = [t |-> kind, peer |-> p] /\ inbox' = Tail(inbox)
  BY DEF Received
<1>2. UNCHANGED <<relays, link, room, broken>>
  BY DEF Received, envVars
<1>3. M!Result(Later.peers, inbox) = M!Result(Hear(Later.peers, Head(inbox)), Tail(inbox))
  <2>1. inbox \in Seq(Message)
    BY DEF TypeInv, RelayTypes
  <2> QED BY <1>1, <2>1, M!ResultHead
<1>4. Expected' = Expected
  BY <1>1, <1>3 DEF Expected
<1> QED BY <1>1, <1>2, <1>4 DEF RosterInv

LEMMA RosterKept ==
  ASSUME RosterInv, PeersKept, UNCHANGED <<relays, link, room, inbox, broken>>
  PROVE  RosterInv'
<1>1. Expected' = Expected
  BY DEF Expected, PeersKept
<1> QED BY <1>1 DEF RosterInv, PeersKept

LEMMA RosterStep ==
  ASSUME TypeInv, RosterInv, [Next]_vars
  PROVE  RosterInv'
<1>i. inbox \in Seq(Message)
  BY DEF TypeInv, RelayTypes
<1>k. UNCHANGED uiVars => PeersKept
  BY UiKept DEF TypeInv
<1>1. ASSUME NEW b \in 1..2, BootEnds(b) PROVE RosterInv'
  <2>1. CASE UNCHANGED <<relays, link>>
    BY <1>1, <2>1, <1>k, RosterKept DEF BootEnds, envVars
  <2>2. CASE ~UNCHANGED <<relays, link>>
    <3>1. boots[b] # "disposed" /\ relays' = relays + 1 /\ link' = "down"
      BY <1>1, <2>2 DEF BootEnds
    <3>2. relays = 0 /\ link = "none"
      BY <1>1, <3>1 DEF BootEnds, TypeInv, BootOrder, RosterInv
    <3> QED BY <1>1, <3>1, <3>2, <1>k DEF BootEnds, RosterInv, PeersKept, envVars
  <2> QED BY <2>1, <2>2
<1>2. CASE LinkUp
  <2>1. PICK order \in [1..Cardinality(room) -> room] :
          /\ \A p \in room : \E i \in DOMAIN order : order[i] = p
          /\ inbox' = inbox \o [i \in DOMAIN order |-> [t |-> "peer-joined", peer |-> order[i]]]
    BY <1>2 DEF LinkUp
  <2>2. PICK n \in Nat : n = Cardinality(room)
    BY FS_CardinalityType DEF TypeInv, RelayTypes
  <2> DEFINE joins == Joins(n, order)
  <2>4. inbox' = inbox \o joins /\ order \in [1..n -> room]
    BY <2>1, <2>2 DEF Joins
  <2>5. \A p \in room : \E i \in 1..n : order[i] = p
    BY <2>1, <2>2
  <2>6. room \in SUBSET Peers
    BY DEF TypeInv, RelayTypes
  <2>7. joins \in Seq(Message) /\ \A ps : M!Result(ps, joins) = ps \cup room
    BY <2>4, <2>5, <2>6, JoinsGather
  <2> HIDE DEF joins
  <2>8. M!Result(Later.peers, inbox \o joins) = M!Result(M!Result(Later.peers, inbox), joins)
    BY <1>i, <2>7, M!ResultConcat
  <2>9. Later'.peers = Later.peers
    BY <1>2, <1>k DEF LinkUp, PeersKept
  <2>10. Expected' = Expected \cup room
    BY <2>4, <2>7, <2>8, <2>9 DEF Expected
  <2>11. ~broken => Expected = {}
    BY <1>2, M!ResultEmpty DEF LinkUp, RosterInv, Expected
  <2>12. UNCHANGED <<relays, room, broken>> /\ link' = "up" /\ link = "down"
    BY <1>2 DEF LinkUp, envVars
  <2> QED BY <2>10, <2>11, <2>12 DEF RosterInv
<1>3. CASE LinkDown
  BY <1>3 DEF LinkDown, RosterInv
<1>4. ASSUME NEW p \in Peers, PeerMoves(p) PROVE RosterInv'
  <2>1. PeersKept /\ UNCHANGED <<relays, link, broken>>
    BY <1>4, <1>k DEF PeerMoves
  <2>2. PICK m \in Message : /\ room' = Hear(room, m) /\ Post(m)
                             /\ \A ps : Hear(ps, m) = IF p \in room THEN ps \ {p} ELSE ps \cup {p}
    BY <1>4, SMTT(20) DEF PeerMoves, Hear, Message
  <2>3. CASE link = "up"
    <3>1. inbox' = Append(inbox, m)
      BY <2>2, <2>3 DEF Post
    <3>2. M!Result(Later.peers, Append(inbox, m)) = Hear(M!Result(Later.peers, inbox), m)
      BY <1>i, M!ResultAppend
    <3>3. Expected' = Hear(Expected, m)
      BY <2>1, <3>1, <3>2 DEF Expected, PeersKept
    <3> QED BY <2>1, <2>2, <2>3, <3>3 DEF RosterInv
  <2>4. CASE link # "up"
    BY <2>1, <2>2, <2>4 DEF RosterInv, Post, PeersKept
  <2> QED BY <2>3, <2>4
<1>5. ASSUME NEW p \in Peers, NEW kind \in Signals, PeerSignals(p, kind) PROVE RosterInv'
  <2>1. PeersKept /\ UNCHANGED <<relays, link, room, broken>> /\ link = "up"
    BY <1>5, <1>k DEF PeerSignals
  <2>2. PICK m \in Message : Post(m) /\ \A ps : Hear(ps, m) = ps
    BY <1>5 DEF PeerSignals, Hear, Message, Signals
  <2>3. M!Result(Later.peers, Append(inbox, m)) = Hear(M!Result(Later.peers, inbox), m)
    BY <1>i, M!ResultAppend
  <2>4. Expected' = Expected
    BY <2>1, <2>2, <2>3 DEF Expected, PeersKept, Post
  <2> QED BY <2>1, <2>4 DEF RosterInv
<1>6. ASSUME NEW p \in Peers, OnPeerJoined(p) PROVE RosterInv'
  BY <1>6, JoinedLater, HeardAsExpected DEF OnPeerJoined, Hear
<1>7. ASSUME NEW p \in Peers, OnPeerLeft(p) PROVE RosterInv'
  BY <1>7, LeftLater, HeardAsExpected DEF OnPeerLeft, Hear
<1>8. ASSUME NEW p \in Peers, NEW kind \in Signals, OnSignal(p, kind) PROVE RosterInv'
  <2>1. Received(kind, p) /\ Later'.peers = Hear(Later.peers, [t |-> kind, peer |-> p])
    BY <1>8, <1>k DEF OnSignal, Hear, Signals, PeersKept
  <2> QED BY <2>1, HeardAsExpected
<1>9. CASE Render
  BY <1>9, RenderKeeps, RosterKept DEF Render, PeersKept, relayVars, envVars
<1>10. CASE Frame
  <2>1. PeersKept
    BY <1>10 DEF Frame, Later, PeersKept
  <2> QED BY <1>10, <2>1, RosterKept DEF Frame, relayVars, envVars
<1>11. CASE Answer
  <2>1. UNCHANGED <<relays, link, room, inbox, broken>>
    BY <1>11 DEF Answer, AnswerIncoming, Respond, relayVars, envVars
  <2> QED BY <1>11, <2>1, AnswerKeeps, RosterKept
<1>12. ASSUME NEW p \in Peers, SendFile(p) PROVE RosterInv'
  BY <1>12, SendFileKeeps, RosterKept DEF SendFile, relayVars, envVars
<1>13. ASSUME NEW p \in Peers,
              PickFiles(p) \/ Wait(p) \/ SendResumes(p) \/ \E k \in 0..MaxFiles : Picked(p, k)
       PROVE  RosterInv'
  BY <1>13, <1>k, RosterKept DEF PickFiles, Wait, SendResumes, Picked, relayVars, envVars
<1>14. ASSUME NEW n \in Sessions, OnOfferFile(n) PROVE RosterInv'
  BY <1>14, OfferKeeps, RosterKept DEF OnOfferFile, relayVars
<1>15. ASSUME NEW n \in Sessions, SasDerived(n) PROVE RosterInv'
  BY <1>15, SasKeeps, RosterKept DEF SasDerived, relayVars, envVars
<1>16. ASSUME NEW n \in Sessions,
              ChannelChanges(n) \/ \E call \in Awaits : KeyPairMade(n, call)
       PROVE  RosterInv'
  BY <1>16, <1>k, RosterKept DEF ChannelChanges, KeyPairMade, relayVars, envVars
<1>17. CASE UNCHANGED vars
  BY <1>17, <1>k, RosterKept DEF vars, relayVars, envVars
<1>18. CASE Deliver
  BY <1>18, <1>6, <1>7, <1>8 DEF Deliver
<1>19. ASSUME NEW p \in Peers, PeerStep(p) PROVE RosterInv'
  BY <1>19, <1>4, <1>5, <1>12, <1>13 DEF PeerStep
<1> QED
  BY <1>1, <1>2, <1>3, <1>9, <1>10, <1>11, <1>14, <1>15, <1>16, <1>17, <1>18, <1>19 DEF Next

\* A client that has applied what the relay reported lists every peer in the room, also
\* after outages, and nobody else unless its connection broke (useLanTransfer.ts:143-165).
THEOREM RosterIsTheRoom == Spec => []RosterFollows
<1>1. Init => TypeInv /\ RosterInv
  <2> SUFFICES ASSUME Init PROVE RosterInv
    BY InitTyped
  <2>1. Later = base /\ base.peers = {}
    BY R!ResultEmpty DEF Later, Init
  <2> QED BY <2>1 DEF Init, RosterInv
<1>2. TypeInv /\ RosterInv /\ [Next]_vars => (TypeInv /\ RosterInv)'
  BY TypeStep, RosterStep
<1>3. TypeInv /\ RosterInv => RosterFollows
  <2> SUFFICES ASSUME RosterInv, CaughtUp
               PROVE  room \subseteq base.peers /\ (~broken => base.peers = room)
    BY DEF RosterFollows
  <2>1. Later = base /\ Expected = Later.peers
    BY R!ResultEmpty, M!ResultEmpty DEF Later, Expected, CaughtUp
  <2> QED BY <2>1 DEF RosterInv, CaughtUp
<1> QED
  BY <1>1, <1>2, <1>3, PTL DEF Spec

(***************************************************************************)
(* Sessions and fingerprints                                               *)
(***************************************************************************)

\* A call under way is on the session in the map, or was when that was closed; what
\* goes on of an onOffer after its key pair then counts as the onOffer.
CallsInv ==
  \A n \in 1..Len(peerOf), call \in Awaits : <<n, call>> \in calls =>
    \/ sessions[peerOf[n]] = n \/ <<n, call>> \in abandoned
    \/ call = "establishKey" /\ <<n, "onOffer">> \in abandoned

LEMMA CallsKeep ==
  ASSUME CallsInv, UNCHANGED <<sessions, peerOf, abandoned>>, calls' \subseteq calls
  PROVE  CallsInv'
BY DEF CallsInv

\* A session is made only for a peer that has none in the map.
LEMMA GetOrCreateKeeps ==
  ASSUME TypeInv, NEW p \in Peers, GetOrCreate(p)
  PROVE  /\ \A n \in 1..Len(peerOf) :
              /\ n \in 1..Len(peerOf') /\ peerOf'[n] = peerOf[n] /\ peerOf[n] \in Peers
              /\ sessions[peerOf[n]] = n => sessions'[peerOf'[n]] = n
         /\ \A n \in 1..Len(peerOf') : n \in 1..Len(peerOf) \/ n = SessionOf(p)
         /\ SessionOf(p) \in 1..Len(peerOf') /\ peerOf'[SessionOf(p)] = p
         /\ sessions'[p] = SessionOf(p)
         /\ \A q \in Peers : sessions'[q] = sessions[q] \/ sessions[q] = 0
<1>1. /\ 1..Len(peerOf) \subseteq 1..Len(peerOf')
      /\ \A n \in 1..Len(peerOf) : peerOf'[n] = peerOf[n] /\ peerOf[n] \in Peers /\ n # 0
      /\ SessionOf(p) \in 1..Len(peerOf') /\ peerOf'[SessionOf(p)] = p
      /\ sessions' = [sessions EXCEPT ![p] = SessionOf(p)]
  BY GetOrCreateMaps, LenProperties DEF TypeInv, MapTypes
<1>2. sessions \in [Peers -> Sessions \cup {0}]
  BY DEF TypeInv, MapTypes
<1>3. \A q \in Peers : sessions'[q] = sessions[q] \/ sessions[q] = 0
  BY <1>1, <1>2 DEF SessionOf
<1>4. \A n \in 1..Len(peerOf') : n \in 1..Len(peerOf) \/ n = SessionOf(p)
  <2>1. peerOf' = peerOf \/ (peerOf' = Append(peerOf, p) /\ SessionOf(p) = Len(peerOf) + 1)
    BY DEF GetOrCreate, SessionOf, NewSession
  <2>2. Len(peerOf) \in Nat /\ (peerOf' = Append(peerOf, p) => Len(peerOf') = Len(peerOf) + 1)
    BY AppendProperties, LenProperties DEF TypeInv, MapTypes
  <2> QED BY <2>1, <2>2
<1>5. ASSUME NEW n \in 1..Len(peerOf), sessions[peerOf[n]] = n PROVE sessions'[peerOf'[n]] = n
  BY <1>1, <1>3, <1>5
<1> QED BY <1>1, <1>2, <1>3, <1>4, <1>5

LEMMA CallsGrow ==
  ASSUME TypeInv, CallsInv, NEW p \in Peers, GetOrCreate(p), abandoned' = abandoned,
         calls' \subseteq calls \cup ({SessionOf(p)} \X Awaits)
  PROVE  CallsInv'
<1> SUFFICES ASSUME NEW n \in 1..Len(peerOf'), NEW call \in Awaits, <<n, call>> \in calls'
             PROVE  \/ sessions'[peerOf'[n]] = n \/ <<n, call>> \in abandoned
                    \/ call = "establishKey" /\ <<n, "onOffer">> \in abandoned
  BY DEF CallsInv
<1>1. CASE n = SessionOf(p)
  BY <1>1, GetOrCreateKeeps
<1>2. CASE n # SessionOf(p)
  <2>1. <<n, call>> \in calls /\ n \in 1..Len(peerOf)
    BY <1>2, GetOrCreateKeeps
  <2> QED BY <2>1, GetOrCreateKeeps DEF CallsInv
<1> QED BY <1>1, <1>2

LEMMA LeavingAbandons ==
  ASSUME TypeInv, NEW p \in Peers, OnPeerLeft(p)
  PROVE  /\ UNCHANGED <<peerOf, calls>> /\ sessions' = [sessions EXCEPT ![p] = 0]
         /\ abandoned \subseteq abandoned'
         /\ \A n \in 1..Len(peerOf) : sessions[peerOf[n]] = n =>
              \/ sessions'[peerOf[n]] = n
              \/ /\ phase'[n] = "closed" /\ n = sessions[p] /\ peerOf[n] = p
                 /\ \A call \in Awaits : <<n, call>> \in calls => <<n, call>> \in abandoned'
         /\ \A n \in Sessions : phase'[n] # "closed" => phase[n] # "closed"
<1>1. /\ UNCHANGED <<peerOf, calls>> /\ sessions' = [sessions EXCEPT ![p] = 0]
      /\ \/ sessions[p] = 0 /\ UNCHANGED <<phase, abandoned>>
         \/ /\ phase' = [phase EXCEPT ![sessions[p]] = "closed"]
            /\ abandoned' = abandoned \cup {c \in calls : c[1] = sessions[p]}
  BY DEF OnPeerLeft
<1>2. /\ sessions \in [Peers -> Sessions \cup {0}]
      /\ phase \in [Sessions -> {"new", "ready", "lost", "closed"}]
      /\ \A n \in 1..Len(peerOf) : peerOf[n] \in Peers /\ n # 0 /\ n \in Sessions
  BY ClientAssumption, LenProperties DEF TypeInv, MapTypes, KeyTypes, Sessions
<1>3. ASSUME NEW n \in 1..Len(peerOf), sessions[peerOf[n]] = n, sessions'[peerOf[n]] # n
      PROVE  /\ phase'[n] = "closed" /\ n = sessions[p] /\ peerOf[n] = p
             /\ \A call \in Awaits : <<n, call>> \in calls => <<n, call>> \in abandoned'
  <2>1. peerOf[n] = p /\ n = sessions[p] /\ n # 0
    BY <1>1, <1>2, <1>3
  <2> QED BY <1>1, <1>2, <2>1
<1> QED BY <1>1, <1>2, <1>3

LEMMA CallsStep ==
  ASSUME TypeInv, CallsInv, [Next]_vars
  PROVE  CallsInv'
<1>1. ASSUME NEW p \in Peers, OnPeerLeft(p) PROVE CallsInv'
  BY <1>1, LeavingAbandons DEF CallsInv
<1>2. ASSUME NEW p \in Peers, NEW kind \in Signals, OnSignal(p, kind) PROVE CallsInv'
  BY <1>2, CallsGrow DEF OnSignal, Awaits
<1>3. ASSUME NEW p \in Peers, NEW k \in 0..MaxFiles, Picked(p, k) PROVE CallsInv'
  <2>1. CASE k = 0
    BY <1>3, <2>1, CallsKeep DEF Picked
  <2>2. CASE k # 0
    <3>1. calls' \subseteq calls \cup ({SessionOf(p)} \X Awaits)
      BY <1>3, <2>2 DEF Picked, SessionOf, Awaits
    <3> QED BY <1>3, <2>2, <3>1, CallsGrow DEF Picked
  <2> QED BY <2>1, <2>2
<1>4. ASSUME NEW n \in Sessions, NEW call \in Awaits, KeyPairMade(n, call) PROVE CallsInv'
  <2>1. /\ UNCHANGED <<sessions, peerOf, abandoned>> /\ <<n, call>> \in calls
        /\ \/ call = "onOffer" /\ calls' \subseteq calls \cup {<<n, "establishKey">>}
           \/ calls' \subseteq calls
    BY <1>4 DEF KeyPairMade
  <2> QED BY <2>1 DEF CallsInv, Awaits
<1>5. ASSUME NEW n \in Sessions, SasDerived(n) PROVE CallsInv'
  BY <1>5, CallsKeep DEF SasDerived
<1>6. ASSUME NEW p \in Peers, OnPeerJoined(p) PROVE CallsInv'
  BY <1>6, CallsKeep DEF OnPeerJoined, sessionVars
<1>7. CASE Render \/ Frame \/ Answer \/ LinkUp \/ LinkDown \/ \E b \in 1..2 : BootEnds(b)
  BY <1>7, CallsKeep DEF Render, Frame, Answer, AnswerIncoming, Respond, LinkUp, LinkDown,
                         BootEnds, sessionVars
<1>8. ASSUME NEW p \in Peers, PeerMoves(p) \/ PickFiles(p) \/ Wait(p) \/ SendFile(p)
                              \/ SendResumes(p) \/ \E kind \in Signals : PeerSignals(p, kind)
      PROVE  CallsInv'
  BY <1>8, CallsKeep DEF PeerMoves, PickFiles, Wait, SendFile, SendResumes, PeerSignals, sessionVars
<1>9. ASSUME NEW n \in Sessions, ChannelChanges(n) \/ OnOfferFile(n) PROVE CallsInv'
  BY <1>9, CallsKeep DEF ChannelChanges, OnOfferFile, sessionVars
<1>10. CASE UNCHANGED vars
  BY <1>10, CallsKeep DEF vars, sessionVars
<1>11. CASE Deliver
  BY <1>11, <1>1, <1>2, <1>6 DEF Deliver
<1>12. ASSUME NEW p \in Peers, PeerStep(p) PROVE CallsInv'
  BY <1>12, <1>3, <1>8 DEF PeerStep
<1> QED
  BY <1>4, <1>5, <1>7, <1>9, <1>10, <1>11, <1>12 DEF Next

LEMMA InitCalls ==
  ASSUME Init
  PROVE  CallsInv
BY DEF Init, CallsInv

LEMMA SessionStep ==
  ASSUME TypeInv, CallsInv, NoSessionLeaks, [Next]_vars
  PROVE  NoSessionLeaks'
<1>q. UNCHANGED <<sessions, peerOf, phase, abandoned>> => NoSessionLeaks'
  BY DEF NoSessionLeaks, ClosedDuring
<1>t. phase \in [Sessions -> {"new", "ready", "lost", "closed"}] /\ 1..Len(peerOf) \subseteq Sessions
  BY ClientAssumption, LenProperties DEF TypeInv, MapTypes, KeyTypes, Sessions
<1>g. ASSUME NEW p \in Peers, GetOrCreate(p), UNCHANGED <<phase, abandoned>> PROVE NoSessionLeaks'
  BY <1>g, GetOrCreateKeeps DEF NoSessionLeaks, ClosedDuring
<1>1. ASSUME NEW p \in Peers, OnPeerLeft(p) PROVE NoSessionLeaks'
  BY <1>1, <1>t, LeavingAbandons DEF NoSessionLeaks, ClosedDuring
<1>2. ASSUME NEW p \in Peers, NEW kind \in Signals, OnSignal(p, kind) PROVE NoSessionLeaks'
  BY <1>2, <1>g DEF OnSignal
<1>3. ASSUME NEW p \in Peers, NEW k \in 0..MaxFiles, Picked(p, k) PROVE NoSessionLeaks'
  BY <1>3, <1>g, <1>q DEF Picked
<1>4. ASSUME NEW n \in Sessions, NEW call \in Awaits, KeyPairMade(n, call) PROVE NoSessionLeaks'
  <2>1. /\ call \in {"connect", "onOffer"} /\ <<n, call>> \in calls
        /\ UNCHANGED <<sessions, peerOf, abandoned>>
        /\ \A m \in Sessions : m = n \/ phase'[m] = phase[m]
    BY <1>4, <1>t DEF KeyPairMade
  <2>2. n \in 1..Len(peerOf)
    BY <2>1 DEF TypeInv, KeyTypes
  <2>3. sessions[peerOf[n]] = n \/ <<n, call>> \in abandoned
    BY <2>1, <2>2 DEF CallsInv
  <2> QED BY <2>1, <2>3, <1>t DEF NoSessionLeaks, ClosedDuring
<1>5. ASSUME NEW n \in Sessions, ChannelChanges(n) PROVE NoSessionLeaks'
  <2>1. /\ UNCHANGED <<sessions, peerOf, abandoned>>
        /\ \A m \in Sessions : phase'[m] # "closed" => phase[m] # "closed"
    BY <1>5, <1>t DEF ChannelChanges
  <2> QED BY <2>1, <1>t DEF NoSessionLeaks, ClosedDuring
<1>6. ASSUME NEW p \in Peers, OnPeerJoined(p) PROVE NoSessionLeaks'
  BY <1>6, <1>q DEF OnPeerJoined, sessionVars
<1>7. CASE Render \/ Frame \/ Answer \/ LinkUp \/ LinkDown \/ \E b \in 1..2 : BootEnds(b)
  BY <1>7, <1>q DEF Render, Frame, Answer, AnswerIncoming, Respond, LinkUp, LinkDown,
                    BootEnds, sessionVars
<1>8. ASSUME NEW p \in Peers, PeerMoves(p) \/ PickFiles(p) \/ Wait(p) \/ SendFile(p)
                              \/ SendResumes(p) \/ \E kind \in Signals : PeerSignals(p, kind)
      PROVE  NoSessionLeaks'
  BY <1>8, <1>q DEF PeerMoves, PickFiles, Wait, SendFile, SendResumes, PeerSignals, sessionVars
<1>9. ASSUME NEW n \in Sessions, SasDerived(n) \/ OnOfferFile(n) PROVE NoSessionLeaks'
  BY <1>9, <1>q DEF SasDerived, OnOfferFile, sessionVars
<1>10. CASE UNCHANGED vars
  BY <1>10, <1>q DEF vars, sessionVars
<1>11. CASE Deliver
  BY <1>11, <1>1, <1>2, <1>6 DEF Deliver
<1>12. ASSUME NEW p \in Peers, PeerStep(p) PROVE NoSessionLeaks'
  BY <1>12, <1>3, <1>8 DEF PeerStep
<1> QED
  BY <1>4, <1>5, <1>7, <1>9, <1>10, <1>11, <1>12 DEF Next

\* Whatever the order of arrivals, departures, signals, sends and key pairs, a session with a
\* connection is in the map (useLanTransfer.ts:105-116, 152-173), except for one that was
\* closed while connect() or onOffer awaited its key pair (peer.ts:141-143, 178-180).
THEOREM NoSessionIsLost == Spec => []NoSessionLeaks
<1> DEFINE Inv == TypeInv /\ CallsInv /\ NoSessionLeaks
<1>1. Init => Inv
  <2>1. Init => 1..Len(peerOf) = {}
    BY DEF Init
  <2> QED BY <2>1, InitTyped, InitCalls DEF NoSessionLeaks
<1>2. Inv /\ [Next]_vars => Inv'
  BY TypeStep, CallsStep, SessionStep
<1>3. Inv => NoSessionLeaks
  OBVIOUS
<1> QED
  BY <1>1, <1>2, <1>3, PTL DEF Spec

\* The fingerprint that will be shown once the updaters have run.
PrintsInv ==
  \A p \in Peers : \/ Later.prints[p] \in {0, sessions[p]}
                   \/ ClosedDuring(Later.prints[p], {"onOffer", "establishKey"})

LEMMA PrintsKeep ==
  ASSUME PrintsInv, PrintsKept, abandoned' = abandoned,
         \A p \in Peers : sessions'[p] = sessions[p] \/ sessions[p] = 0
  PROVE  PrintsInv'
BY DEF PrintsInv, PrintsKept, ClosedDuring

LEMMA PrintsStep ==
  ASSUME TypeInv, CallsInv, PrintsInv, [Next]_vars
  PROVE  PrintsInv'
<1>k. UNCHANGED uiVars => PrintsKept
  BY UiKept DEF TypeInv
<1>t. /\ sessions \in [Peers -> Sessions \cup {0}] /\ Later.prints \in [Peers -> Sessions \cup {0}]
      /\ \A n \in 1..Len(peerOf) : peerOf[n] \in Peers
  BY LenProperties, LaterTyped DEF TypeInv, MapTypes, UiState
<1>1. ASSUME NEW p \in Peers, OnPeerLeft(p) PROVE PrintsInv'
  <2>1. Later'.prints = [Later.prints EXCEPT ![p] = 0]
    BY <1>1, LeftLater
  <2>2. sessions' = [sessions EXCEPT ![p] = 0] /\ abandoned \subseteq abandoned'
    BY <1>1, LeavingAbandons
  <2> QED BY <1>t, <2>1, <2>2 DEF PrintsInv, ClosedDuring
<1>2. ASSUME NEW p \in Peers, NEW kind \in Signals, OnSignal(p, kind) PROVE PrintsInv'
  BY <1>2, <1>k, GetOrCreateKeeps, PrintsKeep DEF OnSignal
<1>3. ASSUME NEW p \in Peers, NEW k \in 0..MaxFiles, Picked(p, k) PROVE PrintsInv'
  BY <1>3, <1>k, GetOrCreateKeeps, PrintsKeep DEF Picked
<1>4. ASSUME NEW n \in Sessions, SasDerived(n) PROVE PrintsInv'
  <2>1. n \in 1..Len(peerOf) /\ <<n, "establishKey">> \in calls /\ UNCHANGED <<sessions, abandoned>>
    BY <1>4 DEF SasDerived, TypeInv, KeyTypes
  <2>2. sessions[peerOf[n]] = n \/ ClosedDuring(n, {"onOffer", "establishKey"})
    BY <2>1 DEF CallsInv, Awaits, ClosedDuring
  <2>3. PrintsKept \/ Later'.prints = [Later.prints EXCEPT ![peerOf[n]] = n]
    BY <1>4, SasKeeps
  <2>4. CASE PrintsKept
    BY <2>1, <2>4, PrintsKeep
  <2>5. CASE Later'.prints = [Later.prints EXCEPT ![peerOf[n]] = n]
    BY <1>t, <2>1, <2>2, <2>5 DEF PrintsInv, ClosedDuring
  <2> QED BY <2>3, <2>4, <2>5
<1>5. ASSUME NEW p \in Peers, OnPeerJoined(p) PROVE PrintsInv'
  BY <1>5, JoinedLater, PrintsKeep DEF OnPeerJoined, sessionVars
<1>6. CASE Render
  BY <1>6, RenderKeeps, PrintsKeep DEF Render, PrintsKept, sessionVars
<1>7. CASE Frame
  <2>1. PrintsKept
    BY <1>7 DEF Frame, Later, PrintsKept
  <2> QED BY <1>7, <2>1, PrintsKeep DEF Frame, sessionVars
<1>8. CASE Answer
  <2>1. UNCHANGED sessionVars
    BY <1>8 DEF Answer, AnswerIncoming, Respond
  <2> QED BY <1>8, <2>1, AnswerKeeps, PrintsKeep DEF sessionVars
<1>9. ASSUME NEW p \in Peers, SendFile(p) PROVE PrintsInv'
  BY <1>9, SendFileKeeps, PrintsKeep DEF SendFile, sessionVars
<1>10. ASSUME NEW n \in Sessions, OnOfferFile(n) PROVE PrintsInv'
  BY <1>10, OfferKeeps, PrintsKeep DEF OnOfferFile, sessionVars
<1>11. CASE LinkUp \/ LinkDown \/ \E b \in 1..2 : BootEnds(b)
  BY <1>11, <1>k, PrintsKeep DEF LinkUp, LinkDown, BootEnds, sessionVars
<1>12. ASSUME NEW p \in Peers, PeerMoves(p) \/ PickFiles(p) \/ Wait(p) \/ SendResumes(p)
                               \/ \E kind \in Signals : PeerSignals(p, kind)
       PROVE  PrintsInv'
  BY <1>12, <1>k, PrintsKeep DEF PeerMoves, PickFiles, Wait, SendResumes, PeerSignals, sessionVars
<1>13. ASSUME NEW n \in Sessions,
              ChannelChanges(n) \/ \E call \in Awaits : KeyPairMade(n, call)
       PROVE  PrintsInv'
  BY <1>13, <1>k, PrintsKeep DEF ChannelChanges, KeyPairMade
<1>14. CASE UNCHANGED vars
  BY <1>14, <1>k, PrintsKeep DEF vars, sessionVars
<1>15. CASE Deliver
  BY <1>15, <1>1, <1>2, <1>5 DEF Deliver
<1>16. ASSUME NEW p \in Peers, PeerStep(p) PROVE PrintsInv'
  BY <1>16, <1>3, <1>9, <1>12 DEF PeerStep
<1> QED
  BY <1>4, <1>6, <1>7, <1>8, <1>10, <1>11, <1>13, <1>14, <1>15, <1>16 DEF Next

\* The fingerprint set for a peer is that of its session in the map, unless that session was
\* closed in the middle of onOffer or onAnswer (useLanTransfer.ts:83-86, 152-165).
THEOREM PrintsAreCurrent == Spec => []FingerprintIsCurrent
<1> DEFINE Inv == TypeInv /\ CallsInv /\ PrintsInv
<1>1. Init => Inv
  <2> SUFFICES ASSUME Init PROVE PrintsInv
    BY InitTyped, InitCalls
  <2>1. Later = base
    BY R!ResultEmpty DEF Later, Init
  <2> QED BY <2>1 DEF Init, PrintsInv
<1>2. Inv /\ [Next]_vars => Inv'
  BY TypeStep, CallsStep, PrintsStep
<1>3. Inv => FingerprintIsCurrent
  BY R!ResultEmpty DEF PrintsInv, FingerprintIsCurrent, Later
<1> QED
  BY <1>1, <1>2, <1>3, PTL DEF Spec
=============================================================================
