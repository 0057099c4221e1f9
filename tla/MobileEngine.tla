---------------------------- MODULE MobileEngine ----------------------------
(***************************************************************************)
(* File transfer between two mobile sessions: TransferEngine               *)
(* (mobile/lib/src/transfer_engine.dart) on the data channel of its        *)
(* PeerSession (peer_session.dart), from the moment the offering side has  *)
(* applied the answer.  The answering side made its engine before it sent  *)
(* the answer; the offering side is still deriving its cipher, and the     *)
(* channel opens meanwhile.  As in Transfer one side sends files and the   *)
(* other answers; which of the two offered the connection is a choice.     *)
(*                                                                         *)
(* Dart runs to completion between awaits.  A call is suspended while it   *)
(* seals a message (what it seals is in its program counter), while it     *)
(* waits for onReady ("waiting") or for the user ("asking").  There is no  *)
(* backpressure, no look at the channel's state, and the digests are       *)
(* computed without a suspension.  Messages are opened asynchronously:     *)
(* ordered says whether they come out in the order they went in.           *)
(***************************************************************************)
EXTENDS Integers, Sequences, SequencesExt

CONSTANTS Transfers,  \* transfer ids
          Block,      \* contents a chunk can have
          File,       \* the chunks of each file; <<>> is an empty file
          NotSaved,   \* no file has been handed to the application yet
          Opening,    \* messages a side opens at once when they may overtake each other
          Cancels     \* <<p, t>>: t may be cancelled by a desktop peer of p (bounds the model)

ASSUME FilesAreBlocks == File \in [Transfers -> Seq(Block)]

Sender == "sender"
Receiver == "receiver"
Sides == {Sender, Receiver}
Far(p) == IF p = Sender THEN Receiver ELSE Sender

VARIABLES
  offerer,    \* the side that called connect()
  ordered,    \* opened messages come out in order
  engine,     \* the sides that have an engine (and so a cipher)
  state,      \* state[p]: of the RTCDataChannel
  ready,      \* the sides whose _readyCompleter is completed
  frames,     \* frames[p]: messages on their way to p
  opening,    \* opening[p]: messages p has begun to open
  cancelled,  \* the cancellations that were sent, a subset of Cancels
  outgoing,   \* the sender's _outgoing: the ids in it
  outState,   \* info.state of each outgoing transfer
  offer,      \* offer[t]: the call of sendFileTo
  stream,     \* stream[t]: the call of _onAccept
  nextSeq,    \* chunks it has sent
  incoming,   \* the receiver's _incoming: the ids in it
  inState,    \* info.state of each incoming transfer
  answer,     \* answer[t]: the call of _onOfferFile
  chunks,     \* inc.chunks
  verdict,    \* how _onComplete's comparison of digests came out
  saved       \* what onComplete handed to the application

sessionVars == <<offerer, ordered, engine, state, ready>>
frameVars == <<frames, opening>>
sendVars == <<outgoing, outState, offer, stream, nextSeq>>
recvVars == <<incoming, inState, answer, chunks, verdict, saved>>
engineVars == <<sessionVars, frameVars, cancelled, sendVars, recvVars>>

States == {"none", "pending", "active", "completed", "rejected", "cancelled", "failed"}
Kinds == {"offer-file", "accept-file", "reject-file", "complete", "cancel"}
Control(kind, t) == [kind |-> kind, id |-> t]
Chunk(t, i) == [kind |-> "chunk", id |-> t, data |-> File[t][i]]
MobileMessage == [kind : Kinds, id : Transfers]
           \cup [kind : {"chunk"}, id : Transfers, data : Block]

MobileTypeOK ==
  /\ offerer \in Sides /\ ordered \in BOOLEAN
  /\ engine \in SUBSET Sides /\ ready \in SUBSET Sides
  /\ state \in [Sides -> {"connecting", "open", "closed"}]
  /\ frames \in [Sides -> Seq(MobileMessage)] /\ opening \in [Sides -> Seq(MobileMessage)]
  /\ cancelled \in SUBSET Cancels
  /\ outgoing \in SUBSET Transfers /\ incoming \in SUBSET Transfers
  /\ outState \in [Transfers -> States] /\ inState \in [Transfers -> States]
  /\ offer \in [Transfers -> {"idle", "waiting", "offering", "sent"}]
  /\ stream \in [Transfers -> {"idle", "chunk", "completing", "done", "stopped"}]
  /\ nextSeq \in [Transfers -> Nat]
  /\ answer \in [Transfers -> {"idle", "asking", "accepting", "accepted",
                               "rejecting", "rejected"}]
  /\ chunks \in [Transfers -> Seq(Block)]
  /\ verdict \in [Transfers -> {"none", "ok", "mismatch"}]
  /\ saved \in [Transfers -> Seq(Block) \cup {NotSaved}]

\* The answer is sent before the key is established.
EnginesAtAnswer_Late(p) == {}

\* _onOffer awaits _establishKey before it sends the answer.
EnginesAtAnswer(p) == {Far(p)}

MobileInit ==
  /\ offerer \in Sides
  /\ ordered \in BOOLEAN
  /\ engine = EnginesAtAnswer(offerer)
  /\ state = [p \in Sides |-> "connecting"]
  /\ ready = {}
  /\ frames = [p \in Sides |-> <<>>]
  /\ opening = [p \in Sides |-> <<>>]
  /\ cancelled = {}
  /\ outgoing = {} /\ incoming = {}
  /\ outState = [t \in Transfers |-> "none"]
  /\ inState = [t \in Transfers |-> "none"]
  /\ offer = [t \in Transfers |-> "idle"]
  /\ stream = [t \in Transfers |-> "idle"]
  /\ nextSeq = [t \in Transfers |-> 0]
  /\ answer = [t \in Transfers |-> "idle"]
  /\ chunks = [t \in Transfers |-> <<>>]
  /\ verdict = [t \in Transfers |-> "none"]
  /\ saved = [t \in Transfers |-> NotSaved]

(***************************************************************************)
(* The session                                                             *)
(***************************************************************************)

\* _maybeReady, with the engines and channel states of this moment.
MaybeReady(p, engines, states) ==
  ready' = IF p \in engines /\ states[p] = "open" THEN ready \cup {p} ELSE ready

\* _establishKey after the cipher is derived.
EstablishKey(p) ==
  /\ p \notin engine
  /\ engine' = engine \cup {p}
  /\ MaybeReady(p, engine', state)
  /\ UNCHANGED <<offerer, ordered, state, frameVars, cancelled, sendVars, recvVars>>

ChannelOpens(p) ==
  /\ state[p] = "connecting"
  /\ state' = [state EXCEPT ![p] = "open"]
  /\ MaybeReady(p, engine, state')
  /\ UNCHANGED <<offerer, ordered, engine, frameVars, cancelled, sendVars, recvVars>>

\* close() of either session, or the connection fails, as p sees it: k more messages
\* are delivered to p.  Nothing in the session or the engine is told.
ChannelCloses(p) ==
  /\ state[p] = "open"
  /\ state' = [state EXCEPT ![p] = "closed"]
  /\ \E k \in 0..Len(frames[p]) : frames' = [frames EXCEPT ![p] = SubSeq(@, 1, k)]
  /\ UNCHANGED <<offerer, ordered, engine, ready, opening, cancelled, sendVars, recvVars>>

\* _channel.send: nothing awaits it, and on a closed channel its message is lost.
Transmit(p, m) ==
  frames' = IF state[p] = "open" /\ state[Far(p)] # "closed"
            THEN [frames EXCEPT ![Far(p)] = Append(@, m)] ELSE frames

\* onMessage drops what comes before there is an engine.  What comes out in order
\* may as well go in one at a time.
Arrive(p) ==
  /\ state[p] # "connecting"
  /\ frames[p] # <<>>
  /\ Len(opening[p]) < IF ordered THEN 1 ELSE Opening
  /\ frames' = [frames EXCEPT ![p] = Tail(@)]
  /\ opening' = IF p \in engine THEN [opening EXCEPT ![p] = Append(@, Head(frames[p]))]
                ELSE opening
  /\ UNCHANGED <<sessionVars, cancelled, sendVars, recvVars>>

\* m is open and is dispatched.
Consume(p, m) ==
  \E i \in DOMAIN opening[p] :
    /\ opening[p][i] = m
    /\ opening' = [opening EXCEPT ![p] = RemoveAt(@, i)]

(***************************************************************************)
(* The sending side                                                        *)
(***************************************************************************)

\* AppController.sendFileTo awaits onReady, without a timeout.
SendFileTo(t) ==
  /\ offer[t] = "idle"
  /\ offer' = [offer EXCEPT ![t] = "waiting"]
  /\ UNCHANGED <<sessionVars, frameVars, cancelled, outgoing, outState, stream, nextSeq, recvVars>>

SendFile(t) ==
  /\ offer[t] = "waiting"
  /\ Sender \in ready
  /\ outgoing' = outgoing \cup {t}
  /\ outState' = [outState EXCEPT ![t] = "pending"]
  /\ offer' = [offer EXCEPT ![t] = "offering"]
  /\ UNCHANGED <<sessionVars, frameVars, cancelled, stream, nextSeq, recvVars>>

SendOffer(t) ==
  /\ offer[t] = "offering"
  /\ Transmit(Sender, Control("offer-file", t))
  /\ offer' = [offer EXCEPT ![t] = "sent"]
  /\ UNCHANGED <<sessionVars, opening, cancelled, outgoing, outState, stream, nextSeq, recvVars>>

\* The loop of _onAccept with n chunks sent and info.state = s.
LoopHead(t, n, s) ==
  CASE n = Len(File[t]) -> "completing"
    [] n < Len(File[t]) /\ s = "cancelled" -> "stopped"
    [] OTHER -> "chunk"

OnAccept(t) ==
  /\ Consume(Sender, Control("accept-file", t))
  /\ IF t \in outgoing
     THEN /\ outState' = [outState EXCEPT ![t] = "active"]
          /\ nextSeq' = [nextSeq EXCEPT ![t] = 0]
          /\ stream' = [stream EXCEPT ![t] = LoopHead(t, 0, "active")]
     ELSE UNCHANGED <<outState, nextSeq, stream>>
  /\ UNCHANGED <<sessionVars, frames, cancelled, outgoing, offer, recvVars>>

OnReject(t) ==
  /\ Consume(Sender, Control("reject-file", t))
  /\ outState' = IF t \in outgoing THEN [outState EXCEPT ![t] = "rejected"] ELSE outState
  /\ outgoing' = outgoing \ {t}
  /\ UNCHANGED <<sessionVars, frames, cancelled, offer, stream, nextSeq, recvVars>>

SendChunk(t) ==
  /\ stream[t] = "chunk"
  /\ Transmit(Sender, Chunk(t, nextSeq[t] + 1))
  /\ nextSeq' = [nextSeq EXCEPT ![t] = @ + 1]
  /\ stream' = [stream EXCEPT ![t] = LoopHead(t, nextSeq[t] + 1, outState[t])]
  /\ UNCHANGED <<sessionVars, opening, cancelled, outgoing, outState, offer, recvVars>>

\* A transfer that was cancelled, or whose channel is closed, is completed all the same.
SendComplete(t) ==
  /\ stream[t] = "completing"
  /\ Transmit(Sender, Control("complete", t))
  /\ stream' = [stream EXCEPT ![t] = "done"]
  /\ outState' = [outState EXCEPT ![t] = "completed"]
  /\ outgoing' = outgoing \ {t}
  /\ UNCHANGED <<sessionVars, opening, cancelled, offer, nextSeq, recvVars>>

(***************************************************************************)
(* The receiving side                                                      *)
(***************************************************************************)

OnOfferFile(t) ==
  /\ Consume(Receiver, Control("offer-file", t))
  /\ incoming' = incoming \cup {t}
  /\ inState' = [inState EXCEPT ![t] = "pending"]
  /\ answer' = [answer EXCEPT ![t] = "asking"]
  /\ chunks' = [chunks EXCEPT ![t] = <<>>]
  /\ UNCHANGED <<sessionVars, frames, cancelled, sendVars, verdict, saved>>

Accept(t) ==
  /\ answer[t] = "asking"
  /\ inState' = [inState EXCEPT ![t] = "active"]
  /\ answer' = [answer EXCEPT ![t] = "accepting"]
  /\ UNCHANGED <<sessionVars, frameVars, cancelled, sendVars, incoming, chunks, verdict, saved>>

Reject(t) ==
  /\ answer[t] = "asking"
  /\ incoming' = incoming \ {t}
  /\ inState' = [inState EXCEPT ![t] = "rejected"]
  /\ answer' = [answer EXCEPT ![t] = "rejecting"]
  /\ UNCHANGED <<sessionVars, frameVars, cancelled, sendVars, chunks, verdict, saved>>

SendAnswer(t, task, kind, end) ==
  /\ answer[t] = task
  /\ Transmit(Receiver, Control(kind, t))
  /\ answer' = [answer EXCEPT ![t] = end]
  /\ UNCHANGED <<sessionVars, opening, cancelled, sendVars, incoming, inState, chunks, verdict, saved>>

\* The frame's seq and last fields are not looked at.
OnChunkFrame(t) ==
  /\ \E i \in 1..Len(File[t]) : Consume(Receiver, Chunk(t, i))
                                /\ chunks' = IF t \in incoming
                                             THEN [chunks EXCEPT ![t] = Append(@, File[t][i])]
                                             ELSE chunks
  /\ UNCHANGED <<sessionVars, frames, cancelled, sendVars, incoming, inState, answer, verdict, saved>>

\* The digest is computed and never compared.
DigestMatches_Always(t) == TRUE

\* The digest of the received bytes equals the one in the complete message.
DigestMatches(t) == chunks[t] = File[t]

OnComplete(t) ==
  /\ Consume(Receiver, Control("complete", t))
  /\ incoming' = incoming \ {t}
  /\ CASE t \notin incoming -> UNCHANGED <<inState, verdict, saved>>
       [] t \in incoming /\ DigestMatches(t) ->
            /\ inState' = [inState EXCEPT ![t] = "completed"]
            /\ verdict' = [verdict EXCEPT ![t] = "ok"]
            /\ saved' = [saved EXCEPT ![t] = chunks[t]]
       [] OTHER ->
            /\ inState' = [inState EXCEPT ![t] = "failed"]
            /\ verdict' = [verdict EXCEPT ![t] = "mismatch"]
            /\ UNCHANGED saved
  /\ UNCHANGED <<sessionVars, frames, cancelled, sendVars, answer, chunks>>

(***************************************************************************)
(* Cancelling: no mobile client does, but its peer may be a desktop        *)
(***************************************************************************)

\* The far end of p is a desktop whose user cancels a transfer it knows of.  What
\* that desktop does besides is in Transfer: here the far end goes on.
PeerCancels(p, t) ==
  /\ <<p, t>> \in Cancels \ cancelled
  /\ IF p = Sender THEN answer[t] # "idle" ELSE offer[t] \in {"offering", "sent"}
  /\ cancelled' = cancelled \cup {<<p, t>>}
  /\ Transmit(Far(p), Control("cancel", t))
  /\ UNCHANGED <<sessionVars, opening, sendVars, recvVars>>

OnCancel(p, t) ==
  /\ Consume(p, Control("cancel", t))
  /\ outState' = IF p = Sender /\ t \in outgoing THEN [outState EXCEPT ![t] = "cancelled"] ELSE outState
  /\ inState' = IF p = Receiver /\ t \in incoming THEN [inState EXCEPT ![t] = "cancelled"] ELSE inState
  /\ outgoing' = IF p = Sender THEN outgoing \ {t} ELSE outgoing
  /\ incoming' = IF p = Receiver THEN incoming \ {t} ELSE incoming
  /\ UNCHANGED <<sessionVars, frames, cancelled, offer, stream, nextSeq, answer, chunks, verdict, saved>>

(***************************************************************************)
(* Specification                                                           *)
(***************************************************************************)

SendAccept(t) == SendAnswer(t, "accepting", "accept-file", "accepted")
SendReject(t) == SendAnswer(t, "rejecting", "reject-file", "rejected")

SessionStep(p) == EstablishKey(p) \/ ChannelOpens(p) \/ ChannelCloses(p) \/ Arrive(p)

SenderStep(t) == \/ SendFileTo(t) \/ SendFile(t) \/ SendOffer(t)
                 \/ OnAccept(t) \/ OnReject(t) \/ SendChunk(t) \/ SendComplete(t)

ReceiverStep(t) == \/ OnOfferFile(t) \/ Accept(t) \/ Reject(t) \/ SendAccept(t) \/ SendReject(t)
                   \/ OnChunkFrame(t) \/ OnComplete(t)

MobileNext ==
  \/ \E p \in Sides : SessionStep(p)
  \/ \E t \in Transfers : SenderStep(t) \/ ReceiverStep(t)
  \/ \E p \in Sides, t \in Transfers : PeerCancels(p, t) \/ OnCancel(p, t)

\* What happens by itself: keys are derived, the channel opens and delivers, messages
\* are sealed and opened, and the user answers.  Requests, cancellations and closing
\* may stay away.  A session makes finitely many such steps, so that it is enough to
\* be fair to them together.
Progress ==
  \/ \E p \in Sides : EstablishKey(p) \/ ChannelOpens(p) \/ Arrive(p)
  \/ \E t \in Transfers : \/ SendFile(t) \/ SendOffer(t) \/ OnAccept(t) \/ OnReject(t)
                          \/ SendChunk(t) \/ SendComplete(t) \/ ReceiverStep(t)
                          \/ \E p \in Sides : OnCancel(p, t)

MobileSpec == MobileInit /\ [][MobileNext]_engineVars
MobileFairSpec == MobileSpec /\ WF_engineVars(Progress)

(***************************************************************************)
(* Properties                                                              *)
(***************************************************************************)

Phase(t) == IF answer[t] \in {"accepted", "rejected"} THEN answer[t]
            ELSE IF offer[t] = "sent" THEN "offered" ELSE "idle"

\* The state of FileDelivery, read off the two engines.
Delivery == INSTANCE FileDelivery WITH
  Nothing <- NotSaved,
  phase <- [t \in Transfers |-> Phase(t)],
  streamed <- [t \in Transfers |-> stream[t] = "done"],
  verdict <- verdict,
  got <- saved

\* Mobile engines promise what the desktop's sessions promise: consent before the
\* bytes, the bytes before the one verdict, and the file as it is or nothing, with
\* engines that come late, channels that close, cancellations and messages opened
\* in any order.
MobileDelivers == Delivery!Spec

\* A file the user asks to send on a connection this side offered reaches the far
\* side's user and, unless refused, is saved there, in whatever order keys and
\* channel get ready, if messages are opened in order and nobody cancels or closes.
\* (On a connection the far side offered, the offer may come before the far side's
\* engine and is then dropped without a word.  That one prompt may displace another is in
\* Client.)
FilesArrive ==
  \A t \in Transfers :
    (offer[t] = "waiting" /\ offerer = Sender /\ ordered)
      ~> \/ saved[t] = File[t] \/ answer[t] = "rejected"
         \/ \E p \in Sides : state[p] = "closed" \/ <<p, t>> \in cancelled
=============================================================================
