------------------------------- MODULE Client -------------------------------
(***************************************************************************)
(* What an application keeps around its sessions: the desktop's hook       *)
(* (useLanTransfer.ts) and the mobile controller (app_controller.dart).    *)
(* platform says which of the two a behaviour is about.                    *)
(*                                                                         *)
(* A call runs to its next await in one step.  Setting state does not show *)
(* it: on the desktop, setState queues an updater, which a later render    *)
(* runs; on mobile the fields change at once and the next frame shows      *)
(* them.  React renders a click's own update ahead of the queue, leaving   *)
(* the queue and the click's updater to run (again) in a later render.     *)
(*                                                                         *)
(* External: the relay, which reports arrivals and departures while the    *)
(* client's socket is up, and the sessions, of which this module keeps     *)
(* whether they are keyed, ready or closed (Handshake and Transfer have    *)
(* the rest).  X_Bug is X with one plausible bug (README, "Mutation").     *)
(***************************************************************************)
EXTENDS Integers, Sequences, FiniteSets

CONSTANTS Peers,        \* the other peers
          Platforms,    \* platforms to look at, of "desktop" and "mobile"
          MaxSessions,  \* sessions in all (bounds the model, as all below)
          MaxOffers,    \* files offered to this client
          MaxFiles,     \* files in a pick of files to send
          MaxEvents     \* arrivals, departures, connection offers and answers, picks,
                        \* breaks of the relay connection and files offered, in all

ASSUME ClientAssumption ==
  /\ Platforms \subseteq {"desktop", "mobile"}
  /\ {MaxSessions, MaxOffers, MaxFiles, MaxEvents} \subseteq Nat

Sessions == 1..MaxSessions
Offers == 1..MaxOffers

VARIABLES
  platform,
  boots,       \* boot() calls: "none", "loading", "disposed" (still loading) or "done"
  relays,      \* relay clients that were connected
  link,        \* the relay socket: "none", "up" or "down"
  room,        \* the other peers in the relay's room
  inbox,       \* relay messages on their way to this client
  sessions,    \* sessions[p]: the session in the map, 0 if there is none
  peerOf,      \* peerOf[n]: for n <= Len(peerOf), the peer of the n-th session
  phase,       \* phase[n]: "new", "ready", "lost" or "closed"
  dialed,      \* sessions whose RTCPeerConnection was made by connect()
  calls,       \* <<n, c>>: a call c is under way on the n-th session (see Awaits)
  keyed,       \* sessions whose key is set
  base, queue, \* the state that is set, and updaters not yet run on it
  shown,       \* the state on the screen
  offerOf,     \* offerOf[t]: the session that offered t, for t <= Len(offerOf)
  promise,     \* promise[t]: "none", "open", "accepted" or "rejected"
  send,        \* send[p]: the sendFilesTo call for p
  events,      \* counted against MaxEvents
  broken,      \* the relay connection broke at least once (history)
  abandoned    \* calls that were under way when their session was closed (history)

envVars == <<platform, events, broken>>
relayVars == <<boots, relays, link, room, inbox>>
sessionVars == <<sessions, peerOf, phase, dialed, calls, keyed, abandoned>>
uiVars == <<base, queue, shown>>
offerVars == <<offerOf, promise>>
vars == <<envVars, relayVars, sessionVars, uiVars, offerVars, send>>

Message == [t : {"peer-joined", "peer-left", "offer", "answer"}, peer : Peers]
UiState == [peers : SUBSET Peers, rows : SUBSET (Offers \cup {0}), incoming : Offers \cup {0},
            prints : [Peers -> Sessions \cup {0}]]
Update == [u : {"join", "left"}, peer : Peers] \cup [u : {"row"}, id : Offers \cup {0}]
          \cup [u : {"prompt"}, id : Offers] \cup [u : {"answer"}, accept : BOOLEAN]
          \cup [u : {"sas"}, peer : Peers, session : Sessions]

\* connect() and onOffer until they have their key pair, and the rest of onOffer or
\* of onAnswer, which ends with establishKey.
Awaits == {"connect", "onOffer", "establishKey"}

\* A sendFilesTo call: the file dialog is open, the session is waited for, a file is
\* read, or its offer waits in applyBackpressure.
Call == [at : {"idle", "picking", "waiting", "sending", "flushing"},
         session : Sessions \cup {0}, files : 0..MaxFiles]
Idle == [at |-> "idle", session |-> 0, files |-> 0]
UsesSession(p) == send[p].at \in {"waiting", "sending", "flushing"}

TypeOK ==
  /\ platform \in Platforms
  /\ boots \in [1..2 -> {"none", "loading", "disposed", "done"}] /\ relays \in 0..2
  /\ link \in {"none", "up", "down"}
  /\ room \in SUBSET Peers
  /\ inbox \in Seq(Message)
  /\ sessions \in [Peers -> Sessions \cup {0}]
  /\ peerOf \in Seq(Peers) /\ Len(peerOf) <= MaxSessions
  /\ phase \in [Sessions -> {"new", "ready", "lost", "closed"}]
  /\ {dialed, keyed} \subseteq SUBSET (1..Len(peerOf))
  /\ {calls, abandoned} \subseteq SUBSET ((1..Len(peerOf)) \X Awaits)
  /\ base \in UiState /\ shown \in UiState /\ queue \in Seq(Update)
  /\ offerOf \in Seq(1..Len(peerOf)) /\ Len(offerOf) <= MaxOffers
  /\ promise \in [Offers -> {"none", "open", "accepted", "rejected"}]
  /\ send \in [Peers -> Call]
  /\ \A p \in Peers : UsesSession(p) => send[p].session \in 1..Len(peerOf)
  /\ events \in 0..MaxEvents /\ broken \in BOOLEAN

\* In development React mounts, cleans up and mounts again: the first boot() is
\* disposed of before its first await ends.
Init ==
  /\ platform \in Platforms
  /\ boots \in {<<"none", "loading">>}
               \cup (IF platform = "desktop" THEN {<<"disposed", "loading">>} ELSE {})
  /\ relays = 0 /\ link = "none"
  /\ room = {} /\ inbox = <<>>
  /\ sessions = [p \in Peers |-> 0] /\ peerOf = <<>>
  /\ phase = [n \in Sessions |-> "new"]
  /\ dialed = {} /\ calls = {} /\ keyed = {} /\ abandoned = {}
  /\ base = [peers |-> {}, rows |-> {}, incoming |-> 0, prints |-> [p \in Peers |-> 0]]
  /\ queue = <<>> /\ shown = base
  /\ offerOf = <<>> /\ promise = [t \in Offers |-> "none"]
  /\ send = [p \in Peers |-> Idle]
  /\ events = 0 /\ broken = FALSE

(***************************************************************************)
(* State and what is shown of it                                           *)
(***************************************************************************)

\* The peer's fingerprint stays when the peer leaves.
LeftState_KeepsPrint(s, p) == [s EXCEPT !.peers = @ \ {p}]

LeftState(s, p) == [s EXCEPT !.peers = @ \ {p}, !.prints[p] = 0]

Upserted(s, t) == [s EXCEPT !.rows = @ \cup {t}]

Answered(s) == [s EXCEPT !.incoming = 0]

\* What an updater makes of the state.
Apply(s, u) == CASE u.u = "join"   -> [s EXCEPT !.peers = @ \cup {u.peer}]
                 [] u.u = "left"   -> LeftState(s, u.peer)
                 [] u.u = "row"    -> Upserted(s, u.id)
                 [] u.u = "prompt" -> [s EXCEPT !.incoming = u.id]
                 [] u.u = "sas"    -> [s EXCEPT !.prints[u.peer] = u.session]
                 [] u.u = "answer" -> Answered(s)

\* The states s goes through when the updaters us run on it.
Run(s, us) ==
  LET r[i \in 0..Len(us)] == IF i = 0 THEN s ELSE Apply(r[i - 1], us[i])
  IN  r

\* setState; on mobile, assignments to the fields.
SetState(us) ==
  /\ IF platform = "desktop"
     THEN queue' = queue \o us /\ UNCHANGED base
     ELSE base' = Run(base, us)[Len(us)] /\ UNCHANGED queue
  /\ UNCHANGED shown

\* The promises of prompts ts are resolved; a second resolve does nothing.
Settle(ts, accept) ==
  [t \in Offers |-> IF t \in ts /\ promise[t] = "open"
                    THEN IF accept THEN "accepted" ELSE "rejected"
                    ELSE promise[t]]

\* React renders: the queued updaters run, also those of clicks.
Render ==
  /\ platform = "desktop" /\ queue # <<>>
  /\ LET r == Run(base, queue)
         clicks == {i \in DOMAIN queue : queue[i].u = "answer"}
     IN  /\ base' = r[Len(queue)] /\ shown' = r[Len(queue)]
         /\ queue' = <<>>
         /\ promise' = Settle({r[i - 1].incoming : i \in clicks} \ {0},
                              \A i \in clicks : queue[i].accept)
  /\ UNCHANGED <<envVars, relayVars, sessionVars, offerOf, send>>

\* The next frame, after notifyListeners.
Frame ==
  /\ platform = "mobile" /\ shown # base
  /\ shown' = base
  /\ UNCHANGED <<envVars, relayVars, sessionVars, base, queue, offerVars, send>>

(***************************************************************************)
(* The relay                                                               *)
(***************************************************************************)

\* A boot() that was disposed of while it loaded the configuration goes on.
BootEnds_Disposed(b) ==
  /\ boots[b] \in {"loading", "disposed"}
  /\ boots' = [boots EXCEPT ![b] = "done"]
  /\ relays' = relays + 1 /\ link' = "down"
  /\ UNCHANGED <<envVars, room, inbox, sessionVars, uiVars, offerVars, send>>

\* The configuration is loaded: connect to the relay, unless cleaned up meanwhile.
BootEnds(b) ==
  /\ boots[b] \in {"loading", "disposed"}
  /\ boots' = [boots EXCEPT ![b] = "done"]
  /\ IF boots[b] = "disposed" THEN UNCHANGED <<relays, link>>
     ELSE relays' = relays + 1 /\ link' = "down"
  /\ UNCHANGED <<envVars, room, inbox, sessionVars, uiVars, offerVars, send>>

\* A message reaches the client as long as its socket is up.
Post(m) == inbox' = IF link = "up" THEN Append(inbox, m) ELSE inbox

\* Something the bound counts happens.
Event == events < MaxEvents /\ events' = events + 1

PeerMoves(p) ==
  /\ Event
  /\ IF p \in room THEN room' = room \ {p} /\ Post([t |-> "peer-left", peer |-> p])
                   ELSE room' = room \cup {p} /\ Post([t |-> "peer-joined", peer |-> p])
  /\ UNCHANGED <<platform, broken, boots, relays, link, sessionVars, uiVars,
                 offerVars, send>>

PeerSignals(p, kind) ==
  /\ p \in room /\ link = "up" /\ Event
  /\ Post([t |-> kind, peer |-> p])
  /\ UNCHANGED <<platform, broken, boots, relays, link, room, sessionVars, uiVars,
                 offerVars, send>>

\* The socket opens, the client joins and is told who is there, in any order.
LinkUp ==
  /\ link = "down"
  /\ link' = "up"
  /\ \E order \in [1..Cardinality(room) -> room] :
       /\ \A p \in room : \E i \in DOMAIN order : order[i] = p
       /\ inbox' = inbox \o [i \in DOMAIN order |-> [t |-> "peer-joined", peer |-> order[i]]]
  /\ UNCHANGED <<envVars, boots, relays, room, sessionVars, uiVars, offerVars, send>>

\* The socket breaks; messages in flight may be lost with it.
LinkDown ==
  /\ link = "up" /\ Event
  /\ broken' = TRUE
  /\ link' = "down"
  /\ \E k \in 0..Len(inbox) : inbox' = SubSeq(inbox, 1, k)
  /\ UNCHANGED <<platform, boots, relays, room, sessionVars, uiVars,
                 offerVars, send>>

(***************************************************************************)
(* Signals and sessions                                                    *)
(***************************************************************************)

\* getOrCreateSession when the map has no session: the new one's number.
NewSession == Len(peerOf) + 1
CanCreate(p) == sessions[p] # 0 \/ Len(peerOf) < MaxSessions

\* The lookup's result is used although nothing was found.
SessionOf_Absent(p) == sessions[p]

SessionOf(p) == IF sessions[p] = 0 THEN NewSession ELSE sessions[p]

\* A session is made although the map has one.
GetOrCreate_Always(p) ==
  /\ Len(peerOf) < MaxSessions
  /\ sessions' = [sessions EXCEPT ![p] = NewSession]
  /\ peerOf' = Append(peerOf, p)

GetOrCreate(p) ==
  /\ CanCreate(p)
  /\ sessions' = [sessions EXCEPT ![p] = SessionOf(p)]
  /\ peerOf' = IF sessions[p] = 0 THEN Append(peerOf, p) ELSE peerOf

Received(kind, p) ==
  /\ inbox # <<>> /\ Head(inbox) = [t |-> kind, peer |-> p]
  /\ inbox' = Tail(inbox)
  /\ UNCHANGED <<envVars, boots, relays, link, room, offerVars, send>>

OnPeerJoined(p) ==
  /\ Received("peer-joined", p)
  /\ SetState(<<[u |-> "join", peer |-> p]>>)
  /\ UNCHANGED sessionVars

OnPeerLeft(p) ==
  /\ Received("peer-left", p)
  /\ SetState(<<[u |-> "left", peer |-> p]>>)
  /\ sessions' = [sessions EXCEPT ![p] = 0]
  /\ LET n == sessions[p] IN
     IF n = 0 THEN UNCHANGED <<phase, abandoned>>
     ELSE /\ phase' = [phase EXCEPT ![n] = "closed"]
          /\ abandoned' = abandoned \cup {c \in calls : c[1] = n}
  /\ UNCHANGED <<peerOf, dialed, calls, keyed>>

\* An offer starts onOffer (calls of it at the same await count once), an answer keys a
\* session that was dialed; each makes a session if there is none.  (A candidate only
\* does the latter: it is an answer to a session that was not dialed.)
OnSignal(p, kind) ==
  /\ Received(kind, p)
  /\ GetOrCreate(p)
  /\ calls' = calls \cup (IF kind = "offer" THEN {<<SessionOf(p), "onOffer">>}
                          ELSE IF SessionOf(p) \in dialed THEN {<<SessionOf(p), "establishKey">>}
                          ELSE {})
  /\ UNCHANGED <<phase, dialed, keyed, abandoned, uiVars>>

\* connect() or onOffer has its key pair and makes an RTCPeerConnection, also on a session
\* closed meanwhile.  connect() replaces the channel too, onOffer keeps an open one.
KeyPairMade(n, call) ==
  /\ call \in {"connect", "onOffer"} /\ <<n, call>> \in calls
  /\ phase' = IF call = "onOffer" /\ phase[n] = "ready" THEN phase
              ELSE [phase EXCEPT ![n] = "new"]
  /\ calls' = (calls \ {<<n, call>>})
              \cup (IF call = "onOffer" THEN {<<n, "establishKey">>} ELSE {})
  /\ dialed' = IF call = "connect" THEN dialed \cup {n} ELSE dialed \ {n}
  /\ UNCHANGED <<envVars, relayVars, sessions, peerOf, keyed, abandoned, uiVars, offerVars, send>>

\* establishKey ends and calls onSAS, also on a session closed meanwhile.
SasDerived(n) ==
  /\ <<n, "establishKey">> \in calls
  /\ calls' = calls \ {<<n, "establishKey">>}
  /\ keyed' = keyed \cup {n}
  /\ IF platform = "desktop"
     THEN SetState(<<[u |-> "sas", peer |-> peerOf[n], session |-> n]>>)
     ELSE UNCHANGED uiVars
  /\ UNCHANGED <<envVars, relayVars, sessions, peerOf, phase, dialed, abandoned, offerVars, send>>

\* The channel opens (Handshake says when), or the connection fails.
ChannelChanges(n) ==
  /\ \/ phase[n] = "new" /\ n \in keyed /\ phase' = [phase EXCEPT ![n] = "ready"]
     \/ phase[n] = "ready" /\ phase' = [phase EXCEPT ![n] = "lost"]
  /\ UNCHANGED <<envVars, relayVars, sessions, peerOf, dialed, calls, keyed, abandoned, uiVars,
                 offerVars, send>>

(***************************************************************************)
(* Incoming files                                                          *)
(***************************************************************************)

\* onOfferFile calls onTransferUpdate and then onIncomingFile.
OnOfferFile(n) ==
  LET t == Len(offerOf) + 1 IN
  /\ phase[n] = "ready" /\ t <= MaxOffers /\ Event
  /\ offerOf' = Append(offerOf, n)
  /\ promise' = [promise EXCEPT ![t] = "open"]
  /\ SetState(<<[u |-> "row", id |-> t], [u |-> "prompt", id |-> t]>>)
  /\ UNCHANGED <<platform, broken, relayVars, sessionVars, send>>

\* The updater answers the prompt on the screen only when nothing is queued.
AnswerIncoming_DropsQueue(accept) ==
  /\ platform = "desktop" /\ shown.incoming # 0
  /\ base' = Answered(base) /\ shown' = Answered(base) /\ queue' = <<>>
  /\ promise' = Settle({base.incoming} \ {0}, accept)
  /\ UNCHANGED <<envVars, relayVars, sessionVars, offerOf, send>>

\* The user answers the prompt on the screen.  The click's updater runs at once
\* on the state without the queued updaters, and again when those run.
AnswerIncoming(accept) ==
  /\ platform = "desktop" /\ shown.incoming # 0
  /\ shown' = Answered(base)
  /\ promise' = Settle({base.incoming} \ {0}, accept)
  /\ IF queue = <<>> THEN base' = Answered(base) /\ UNCHANGED queue
     ELSE queue' = Append(queue, [u |-> "answer", accept |-> accept]) /\ UNCHANGED base
  /\ UNCHANGED <<envVars, relayVars, sessionVars, offerOf, send>>

\* respond, the closure of the prompt on the screen; it clears whatever prompt
\* there is by now.
Respond(accept) ==
  /\ platform = "mobile" /\ shown.incoming # 0
  /\ base' = Answered(base)
  /\ promise' = Settle({shown.incoming}, accept)
  /\ UNCHANGED <<envVars, relayVars, sessionVars, queue, shown, offerOf, send>>

(***************************************************************************)
(* Sending                                                                 *)
(***************************************************************************)

PickFiles(p) ==
  /\ p \in shown.peers /\ send[p].at = "idle" /\ Event
  /\ send' = [send EXCEPT ![p].at = "picking"]
  /\ UNCHANGED <<platform, broken, relayVars, sessionVars, uiVars, offerVars>>

\* The dialog ends with k files; with some, the call needs a session, and connects a new
\* one.  On mobile each file is a call of its own.
Picked(p, k) ==
  /\ send[p].at = "picking"
  /\ platform = "mobile" => k <= 1
  /\ IF k = 0
     THEN send' = [send EXCEPT ![p] = Idle] /\ UNCHANGED <<sessions, peerOf, calls>>
     ELSE /\ GetOrCreate(p)
          /\ calls' = IF sessions[p] = 0 THEN calls \cup {<<NewSession, "connect">>} ELSE calls
          /\ send' = [send EXCEPT ![p] = [at |-> "waiting", session |-> SessionOf(p), files |-> k]]
  /\ UNCHANGED <<envVars, relayVars, phase, dialed, keyed, abandoned, uiVars, offerVars>>

\* waitUntil without its timeout.
Wait_Forever(p) ==
  /\ send[p].at = "waiting"
  /\ phase[send[p].session] = "ready"
  /\ send' = [send EXCEPT ![p].at = "sending"]
  /\ UNCHANGED <<envVars, relayVars, sessionVars, uiVars, offerVars>>

\* A poll finds the session ready, or (on the desktop) 8 s are over.
Wait(p) ==
  /\ send[p].at = "waiting"
  /\ IF phase[send[p].session] = "ready" THEN send' = [send EXCEPT ![p].at = "sending"]
     ELSE platform = "desktop" /\ send' = [send EXCEPT ![p] = Idle]
  /\ UNCHANGED <<envVars, relayVars, sessionVars, uiVars, offerVars>>

\* The next file is read, gets its row (rows of files sent are all 0 here) and is offered.
\* It may be unreadable; on the desktop sendFile then throws without an open channel.
SendFile(p) ==
  /\ send[p].at = "sending"
  /\ \/ send' = [send EXCEPT ![p] = Idle] /\ UNCHANGED uiVars
     \/ /\ SetState(<<[u |-> "row", id |-> 0]>>)
        /\ send' = IF platform = "mobile" \/ phase[send[p].session] = "ready"
                   THEN [send EXCEPT ![p].at = "flushing"] ELSE [send EXCEPT ![p] = Idle]
  /\ UNCHANGED <<envVars, relayVars, sessionVars, offerVars>>

\* applyBackpressure is over and the offer is sent, which throws if the channel is gone.
SendResumes(p) ==
  /\ send[p].at = "flushing"
  /\ send' = IF platform = "mobile" THEN [send EXCEPT ![p] = [Idle EXCEPT !.at = "picking"]]
             ELSE IF phase[send[p].session] = "ready" /\ send[p].files > 1
                  THEN [send EXCEPT ![p] = [send[p] EXCEPT !.at = "sending", !.files = @ - 1]]
             ELSE [send EXCEPT ![p] = Idle]
  /\ UNCHANGED <<envVars, relayVars, sessionVars, uiVars, offerVars>>

(***************************************************************************)
(* Specification                                                           *)
(***************************************************************************)

Signals == {"offer", "answer"}

Deliver == \E p \in Peers : \/ OnPeerJoined(p) \/ OnPeerLeft(p)
                            \/ \E kind \in Signals : OnSignal(p, kind)

Answer == \E accept \in BOOLEAN : AnswerIncoming(accept) \/ Respond(accept)

PeerStep(p) == \/ PeerMoves(p) \/ PickFiles(p) \/ Wait(p) \/ SendFile(p) \/ SendResumes(p)
               \/ \E kind \in Signals : PeerSignals(p, kind)
               \/ \E k \in 0..MaxFiles : Picked(p, k)

Next ==
  \/ \E b \in 1..2 : BootEnds(b)
  \/ LinkUp \/ LinkDown \/ Deliver \/ Render \/ Frame \/ Answer
  \/ \E p \in Peers : PeerStep(p)
  \/ \E n \in Sessions : \/ SasDerived(n) \/ ChannelChanges(n) \/ OnOfferFile(n)
                         \/ \E call \in Awaits : KeyPairMade(n, call)

Spec == Init /\ [][Next]_vars

\* applyBackpressure ends: an open channel drains, a closed session has none.  On a
\* channel that the far side closed it may poll for ever, and nothing is assumed.
Drains(p) ==
  /\ send[p].at = "flushing" /\ phase[send[p].session] \in {"ready", "closed"}
  /\ SendResumes(p)

\* The event loop and the renderer run, polls and timers fire, files are read, and the
\* user answers a prompt that stays on the screen.
Fairness ==
  /\ WF_vars(Render) /\ WF_vars(Frame) /\ WF_vars(Answer)
  /\ \A p \in Peers : WF_vars(Wait(p)) /\ WF_vars(SendFile(p)) /\ WF_vars(Drains(p))

FairSpec == Spec /\ Fairness

(***************************************************************************)
(* Properties                                                              *)
(***************************************************************************)

\* However often the effect is mounted, one relay client is connected: a boot()
\* cleaned up while it awaits the configuration must not connect when it resumes.
OneRelay == relays <= 1

\* A call of one of these was under way on session n when it was closed.
ClosedDuring(n, kinds) == \E call \in kinds : <<n, call>> \in abandoned

\* A session with a connection is the one in the map, over departures, returns, late
\* signals and sends in any order: no session is dropped without being closed or replaced
\* by another.  Excepted is a session closed while connect() or onOffer awaited its key
\* pair: they go on and make a connection on the session nobody holds (peer.ts:141-143,
\* 178-180).
NoSessionLeaks ==
  \A n \in 1..Len(peerOf) : phase[n] # "closed" =>
    sessions[peerOf[n]] = n \/ ClosedDuring(n, {"connect", "onOffer"})

\* Everything the relay reported has been applied.
CaughtUp == link = "up" /\ inbox = <<>> /\ queue = <<>>

\* Caught up with the relay, also after outages, a client lists every peer in the
\* room, and only those if its connection never broke.
RosterFollows ==
  CaughtUp => /\ room \subseteq base.peers
              /\ ~broken => base.peers = room

\* A fingerprint set for a peer is that of the session in the map: not of one the
\* peer left behind, unless that one was closed in the middle of onOffer or onAnswer.
FingerprintIsCurrent ==
  queue = <<>> => \A p \in Peers :
    \/ base.prints[p] \in {0, sessions[p]}
    \/ ClosedDuring(base.prints[p], {"onOffer", "establishKey"})

\* On the desktop the promise of the newest offer does not stay open: it is settled by an
\* answer to its own prompt, or by a click on an earlier prompt that React replays after
\* the newer one was queued and that answers it unseen (useLanTransfer.ts:205-209).  Which
\* of the two it was, the property does not say.
NewestIsSettled ==
  \A t \in Offers :
    (platform = "desktop" /\ promise[t] = "open") ~> (promise[t] # "open" \/ Len(offerOf) > t)

\* A desktop send that has got its files ends, over sessions that never get ready, close
\* or fail at any point of the call.  Excepted is one left in applyBackpressure on a
\* session whose channel was lost, or that an abandoned call gave a new connection.
SendEnds ==
  \A p \in Peers : (platform = "desktop" /\ UsesSession(p)) ~>
    \/ send[p].at = "idle"
    \/ send[p].at = "flushing" /\ phase[send[p].session] \in {"lost", "new"}

(***************************************************************************)
(* Claims of the repository that do not hold                               *)
(***************************************************************************)

\* README.md:95-96, 'the receiver confirms and the UI prompts the user': every
\* offer that reaches the client is answered.
EveryOfferIsAnswered ==
  \A t \in Offers : (promise[t] = "open") ~> (promise[t] # "open")
=============================================================================
