------------------------------ MODULE Transfer ------------------------------
(***************************************************************************)
(* File transfer between two connected PeerSessions                        *)
(* (desktop/src/shared/peer.ts, shared verbatim by the desktop and web     *)
(* clients).  The data channel is open and both sides hold the session     *)
(* key; how they get there is the subject of another module.  One side     *)
(* offers the files in Transfers and the other side answers: transfers in  *)
(* the opposite direction run the same code on disjoint map entries.       *)
(*                                                                         *)
(* JavaScript runs to completion between awaits, so a step is what runs    *)
(* between two awaits.  A suspended async call is a task whose program     *)
(* counter names the await it is suspended on:                             *)
(*   "sealing"  AES-GCM encryption of a control message in sendChannel,    *)
(*              followed by the backpressure loop;                         *)
(*   "chunk"    the same for one chunk in sendChunkFrame;                  *)
(*   "digest", "hashing"   SHA-256 of the file at the sender / receiver;   *)
(*   "asking"   the user's answer to the incoming-file prompt;             *)
(*   "dead"     the call threw 'Data channel not ready' (or touched a null *)
(*              channel) and nothing awaits it.                            *)
(*                                                                         *)
(* A digest is the sequence of blocks it is taken of: SHA-256 is assumed   *)
(* free of collisions.  Messages are sealed with the right key, so         *)
(* decryption always succeeds; what is modelled of it is that the result   *)
(* comes later, and with Workers > 1 not in the order of arrival.          *)
(*                                                                         *)
(* An operator X_Bug is X with one plausible bug.  No specification uses   *)
(* it; in X's place it breaks a property, which shows what the property    *)
(* depends on (README, "Mutation").                                        *)
(***************************************************************************)
EXTENDS Integers, Sequences, FiniteSets

CONSTANTS Transfers,  \* transfer ids (newTransferId never repeats one)
          Block,      \* contents a 64 KiB chunk can have
          File,       \* the chunks of each file, in order; <<>> is an empty file
          NotSaved,   \* no file has been handed to the host yet
          Workers,    \* decryptions that may be in progress at once on one side
          HighWater,  \* frames the send buffer holds before senders wait (8 MiB)
          Cancels,    \* <<p, t>>: peer p's user may cancel t (bounds the model)
          Closers,    \* peers that may close their session (bounds the model)
          MaxLost     \* 'disconnected'/'failed' events per peer (bounds the model)

Sender == "sender"
Receiver == "receiver"
Peers == {Sender, Receiver}
Other(p) == IF p = Sender THEN Receiver ELSE Sender

ASSUME FileAssumption == File \in [Transfers -> Seq(Block)]
ASSUME NotSavedAssumption == NotSaved \notin Seq(Block)
ASSUME BoundsAssumption == /\ Workers \in Nat \ {0}
                           /\ HighWater \in Nat
                           /\ MaxLost \in Nat

VARIABLES
  chan,        \* chan[p]: "open"; "closed" by the far side; "gone" after close()
  wire,        \* wire[p]: messages sent to p and not yet handed to a decryption
  unsent,      \* unsent[p]: how many of them sit in p's own buffer (bufferedAmount)
  opening,     \* opening[p]: messages p is decrypting
  lost,        \* lost[p]: connection-loss events seen by p so far
  cancelTask,  \* cancelTask[p][t]: p's call of cancel(t)
  outgoing,    \* the sender's outgoing map: the ids in it
  outState,    \* info.state of each outgoing transfer ("none": not offered yet)
  offerTask,   \* the sendFile call
  stream,      \* the onAcceptFile -> streamChunks call
  nextSeq,     \* chunks that call has put on the channel
  incoming,    \* the receiver's incoming map: the ids in it
  inState,     \* info.state of each incoming transfer
  answer,      \* the onOfferFile call: prompt, then accept-file or reject-file
  chunks,      \* inc.chunks: the blocks received so far
  verify,      \* the onComplete call
  merged,      \* the bytes onComplete merged before it awaits their digest
  saved        \* what onFileComplete handed to the host

chanVars == <<chan, wire, unsent, opening, lost>>
sendVars == <<outgoing, outState, offerTask, stream, nextSeq>>
recvVars == <<incoming, inState, answer, chunks, verify, merged, saved>>
vars == <<chan, wire, unsent, opening, lost, cancelTask,
          outgoing, outState, offerTask, stream, nextSeq,
          incoming, inState, answer, chunks, verify, merged, saved>>

State == {"none", "pending", "active", "completed", "rejected", "cancelled", "failed"}

ControlKind == {"offer-file", "accept-file", "reject-file", "complete", "cancel"}
Control(kind, t) == [kind |-> kind, id |-> t]
Chunk(t, i) == [kind |-> "chunk", id |-> t, seq |-> i, data |-> File[t][i]]
Message == [kind : ControlKind, id : Transfers]
           \cup [kind : {"chunk"}, id : Transfers, seq : Nat, data : Block]

InFlight(p) == {wire[p][i] : i \in 1..Len(wire[p])} \cup opening[p]

TypeOK ==
  /\ chan \in [Peers -> {"open", "closed", "gone"}]
  /\ wire \in [Peers -> Seq(Message)]
  /\ unsent \in [Peers -> Nat]
  /\ opening \in [Peers -> SUBSET Message]
  /\ lost \in [Peers -> 0..MaxLost]
  /\ cancelTask \in [Peers -> [Transfers -> {"idle", "sealing", "sent", "dead"}]]
  /\ outgoing \in SUBSET Transfers
  /\ outState \in [Transfers -> State]
  /\ offerTask \in [Transfers -> {"idle", "sealing", "sent", "dead"}]
  /\ stream \in [Transfers -> {"idle", "chunk", "digest", "sealing", "done",
                               "stopped", "dead"}]
  /\ nextSeq \in [Transfers -> Nat]
  /\ incoming \in SUBSET Transfers
  /\ inState \in [Transfers -> State]
  /\ answer \in [Transfers -> {"idle", "asking", "accepting", "accepted",
                               "rejecting", "rejected", "dead"}]
  /\ chunks \in [Transfers -> Seq(Block)]
  /\ verify \in [Transfers -> {"idle", "hashing", "ok", "mismatch"}]
  /\ merged \in [Transfers -> Seq(Block)]
  /\ saved \in [Transfers -> Seq(Block) \cup {NotSaved}]

Init ==
  /\ chan = [p \in Peers |-> "open"]
  /\ wire = [p \in Peers |-> <<>>]
  /\ unsent = [p \in Peers |-> 0]
  /\ opening = [p \in Peers |-> {}]
  /\ lost = [p \in Peers |-> 0]
  /\ cancelTask = [p \in Peers |-> [t \in Transfers |-> "idle"]]
  /\ outgoing = {}
  /\ outState = [t \in Transfers |-> "none"]
  /\ offerTask = [t \in Transfers |-> "idle"]
  /\ stream = [t \in Transfers |-> "idle"]
  /\ nextSeq = [t \in Transfers |-> 0]
  /\ incoming = {}
  /\ inState = [t \in Transfers |-> "none"]
  /\ answer = [t \in Transfers |-> "idle"]
  /\ chunks = [t \in Transfers |-> <<>>]
  /\ verify = [t \in Transfers |-> "idle"]
  /\ merged = [t \in Transfers |-> <<>>]
  /\ saved = [t \in Transfers |-> NotSaved]

(***************************************************************************)
(* Sending on the channel                                                  *)
(***************************************************************************)

\* The check at the head of sendChannel and sendChunkFrame (the key is set).
Ready(p) == chan[p] = "open"

\* Where a call that reaches that check goes on: to pc, or it throws.
IfReady(p, pc) == IF Ready(p) THEN pc ELSE "dead"

\* applyBackpressure has returned: close() nulls the channel, which ends its
\* loop; a channel closed by the far side keeps its bufferedAmount.
Flushed(p) == chan[p] = "gone" \/ unsent[p] <= HighWater

\* channel.send after the awaits; on a channel no longer open it throws.
Transmit(p, m) ==
  IF Ready(p)
  THEN /\ wire' = IF chan[Other(p)] = "gone" THEN wire
                  ELSE [wire EXCEPT ![Other(p)] = Append(@, m)]
       /\ unsent' = [unsent EXCEPT ![p] = @ + 1]
  ELSE UNCHANGED <<wire, unsent>>

\* markState for the ids ts, on the map that peer p has them in.
MarkState(p, ts, s) ==
  /\ outState' = [t \in Transfers |-> IF p = Sender /\ t \in ts \cap outgoing
                                      THEN s ELSE outState[t]]
  /\ inState' = [t \in Transfers |-> IF p = Receiver /\ t \in ts \cap incoming
                                     THEN s ELSE inState[t]]

\* A message whose decryption is complete is dispatched.
Consume(p, m) ==
  /\ m \in opening[p]
  /\ opening' = [opening EXCEPT ![p] = @ \ {m}]

(***************************************************************************)
(* The channel itself                                                      *)
(***************************************************************************)

\* How many messages sent to p have left the far side's buffer.
Arrived(p) == IF chan[p] = "open" THEN Len(wire[p]) - unsent[Other(p)]
              ELSE Len(wire[p])

\* The transport takes a message out of p's send buffer.
Drain(p) ==
  /\ unsent[p] > 0
  /\ Ready(p)
  /\ unsent' = [unsent EXCEPT ![p] = @ - 1]
  /\ UNCHANGED <<chan, wire, opening, lost, cancelTask, sendVars, recvVars>>

\* onmessage -> onChannelData, up to the await of openBytes / openSealed.
Arrive(p) ==
  /\ Arrived(p) > 0
  /\ Cardinality(opening[p]) < Workers
  /\ opening' = [opening EXCEPT ![p] = @ \cup {Head(wire[p])}]
  /\ wire' = [wire EXCEPT ![p] = Tail(@)]
  /\ UNCHANGED <<chan, unsent, lost, cancelTask, sendVars, recvVars>>

\* onconnectionstatechange with 'failed' or 'disconnected'.  The channel stays
\* open ('disconnected' recovers) and running calls are not interrupted.
ConnectionLost(p) ==
  /\ chan[p] # "gone"
  /\ lost[p] < MaxLost
  /\ lost' = [lost EXCEPT ![p] = @ + 1]
  /\ MarkState(p, Transfers, "failed")
  /\ UNCHANGED <<chan, wire, unsent, opening, cancelTask,
                 outgoing, offerTask, stream, nextSeq,
                 incoming, answer, chunks, verify, merged, saved>>

\* close(): the far side gets what had left p's buffer; p itself still decrypts
\* the k messages onmessage was already called for.
Close(p) ==
  /\ p \in Closers
  /\ chan[p] # "gone"
  /\ chan' = [chan EXCEPT ![p] = "gone"]
  /\ \E k \in 0..Arrived(p) :
       wire' = [wire EXCEPT ![p] = SubSeq(@, 1, k),
                            ![Other(p)] = SubSeq(@, 1, Arrived(Other(p)))]
  /\ unsent' = [unsent EXCEPT ![p] = 0]
  /\ UNCHANGED <<opening, lost, cancelTask, sendVars, recvVars>>

\* channel.onclose after the far side closed: only outgoing transfers are marked.
OnClose(p) ==
  /\ chan[p] = "open"
  /\ chan[Other(p)] = "gone"
  /\ chan' = [chan EXCEPT ![p] = "closed"]
  /\ \E k \in 0..Arrived(p) : wire' = [wire EXCEPT ![p] = SubSeq(@, 1, k)]
  /\ MarkState(p, IF p = Sender THEN Transfers ELSE {}, "failed")
  /\ UNCHANGED <<unsent, opening, lost, cancelTask,
                 outgoing, offerTask, stream, nextSeq,
                 incoming, answer, chunks, verify, merged, saved>>

(***************************************************************************)
(* The sending side                                                        *)
(***************************************************************************)

\* sendFile up to its await: the map entry is made before the readiness check.
SendFile(t) ==
  /\ offerTask[t] = "idle"
  /\ outgoing' = outgoing \cup {t}
  /\ outState' = [outState EXCEPT ![t] = "pending"]
  /\ offerTask' = [offerTask EXCEPT ![t] = IfReady(Sender, "sealing")]
  /\ UNCHANGED <<chanVars, cancelTask, stream, nextSeq, recvVars>>

\* Streaming starts with the offer instead of with the acceptance.
SendOffer_Eager(t) ==
  /\ offerTask[t] = "sealing"
  /\ Flushed(Sender)
  /\ Transmit(Sender, Control("offer-file", t))
  /\ offerTask' = [offerTask EXCEPT ![t] = IfReady(Sender, "sent")]
  /\ stream' = [stream EXCEPT ![t] = IfReady(Sender, "chunk")]
  /\ UNCHANGED <<chan, opening, lost, cancelTask, outgoing, outState, nextSeq, recvVars>>

SendOffer(t) ==
  /\ offerTask[t] = "sealing"
  /\ Flushed(Sender)
  /\ Transmit(Sender, Control("offer-file", t))
  /\ offerTask' = [offerTask EXCEPT ![t] = IfReady(Sender, "sent")]
  /\ UNCHANGED <<chan, opening, lost, cancelTask,
                 outgoing, outState, stream, nextSeq, recvVars>>

\* The loop ends one chunk early.
LoopHead_Short(t, n, s) == IF n + 1 >= Len(File[t]) THEN "digest" ELSE IfReady(Sender, "chunk")

\* streamChunks, at the head of its loop with n chunks sent and info.state = s.
LoopHead(t, n, s) ==
  CASE n = Len(File[t]) -> "digest"
    [] n < Len(File[t]) /\ s = "cancelled" -> "stopped"
    [] OTHER -> IfReady(Sender, "chunk")

OnAcceptFile(t) ==
  /\ Consume(Sender, Control("accept-file", t))
  /\ IF t \in outgoing
     THEN /\ outState' = [outState EXCEPT ![t] = "active"]
          /\ nextSeq' = [nextSeq EXCEPT ![t] = 0]
          /\ stream' = [stream EXCEPT ![t] = LoopHead(t, 0, "active")]
     ELSE UNCHANGED <<outState, nextSeq, stream>>
  /\ UNCHANGED <<chan, wire, unsent, lost, cancelTask, outgoing, offerTask, recvVars>>

OnRejectFile(t) ==
  /\ Consume(Sender, Control("reject-file", t))
  /\ MarkState(Sender, {t}, "rejected")
  /\ outgoing' = outgoing \ {t}
  /\ UNCHANGED <<chan, wire, unsent, lost, cancelTask, offerTask, stream, nextSeq,
                 incoming, answer, chunks, verify, merged, saved>>

\* sendChunkFrame resumes, then the loop goes round once.
SendChunk(t) ==
  /\ stream[t] = "chunk"
  /\ Flushed(Sender)
  /\ Transmit(Sender, Chunk(t, nextSeq[t] + 1))
  /\ IF Ready(Sender)
     THEN /\ nextSeq' = [nextSeq EXCEPT ![t] = @ + 1]
          /\ stream' = [stream EXCEPT ![t] = LoopHead(t, nextSeq[t] + 1, outState[t])]
     ELSE /\ stream' = [stream EXCEPT ![t] = "dead"]
          /\ UNCHANGED nextSeq
  /\ UNCHANGED <<chan, opening, lost, cancelTask,
                 outgoing, outState, offerTask, recvVars>>

\* Only a transfer still 'active' goes on to its complete message.
DigestDone_IfActive(t) ==
  /\ stream[t] = "digest"
  /\ outState[t] = "active"
  /\ stream' = [stream EXCEPT ![t] = IfReady(Sender, "sealing")]
  /\ UNCHANGED <<chanVars, cancelTask, outgoing, outState, offerTask, nextSeq, recvVars>>

\* sha256Hex of the file is known; sendChannel is entered.
DigestDone(t) ==
  /\ stream[t] = "digest"
  /\ stream' = [stream EXCEPT ![t] = IfReady(Sender, "sealing")]
  /\ UNCHANGED <<chanVars, cancelTask, outgoing, outState, offerTask, nextSeq, recvVars>>

\* The complete message goes out and the transfer is 'completed' here.
SendComplete(t) ==
  /\ stream[t] = "sealing"
  /\ Flushed(Sender)
  /\ Transmit(Sender, Control("complete", t))
  /\ stream' = [stream EXCEPT ![t] = IfReady(Sender, "done")]
  /\ IF Ready(Sender)
     THEN /\ outState' = [outState EXCEPT ![t] = "completed"]
          /\ outgoing' = outgoing \ {t}
     ELSE UNCHANGED <<outState, outgoing>>
  /\ UNCHANGED <<chan, opening, lost, cancelTask, offerTask, nextSeq, recvVars>>

(***************************************************************************)
(* The receiving side                                                      *)
(***************************************************************************)

OnOfferFile(t) ==
  /\ Consume(Receiver, Control("offer-file", t))
  /\ incoming' = incoming \cup {t}
  /\ inState' = [inState EXCEPT ![t] = "pending"]
  /\ chunks' = [chunks EXCEPT ![t] = <<>>]
  /\ answer' = [answer EXCEPT ![t] = "asking"]
  /\ UNCHANGED <<chan, wire, unsent, lost, cancelTask, sendVars, verify, merged, saved>>

\* The user answers the prompt (onIncomingFile resolves), possibly never.
Accept(t) ==
  /\ answer[t] = "asking"
  /\ inState' = [inState EXCEPT ![t] = "active"]
  /\ answer' = [answer EXCEPT ![t] = IfReady(Receiver, "accepting")]
  /\ UNCHANGED <<chanVars, cancelTask, sendVars, incoming, chunks, verify, merged, saved>>

Reject(t) ==
  /\ answer[t] = "asking"
  /\ incoming' = incoming \ {t}
  /\ inState' = [inState EXCEPT ![t] = "rejected"]
  /\ answer' = [answer EXCEPT ![t] = IfReady(Receiver, "rejecting")]
  /\ UNCHANGED <<chanVars, cancelTask, sendVars, chunks, verify, merged, saved>>

SendAccept(t) ==
  /\ answer[t] = "accepting"
  /\ Flushed(Receiver)
  /\ Transmit(Receiver, Control("accept-file", t))
  /\ answer' = [answer EXCEPT ![t] = IfReady(Receiver, "accepted")]
  /\ UNCHANGED <<chan, opening, lost, cancelTask, sendVars,
                 incoming, inState, chunks, verify, merged, saved>>

SendReject(t) ==
  /\ answer[t] = "rejecting"
  /\ Flushed(Receiver)
  /\ Transmit(Receiver, Control("reject-file", t))
  /\ answer' = [answer EXCEPT ![t] = IfReady(Receiver, "rejected")]
  /\ UNCHANGED <<chan, opening, lost, cancelTask, sendVars,
                 incoming, inState, chunks, verify, merged, saved>>

\* Frames that do not come in seq order are dropped.
OnChunkFrame_Strict(t) ==
  /\ \E i \in 1..Len(File[t]) :
       /\ Consume(Receiver, Chunk(t, i))
       /\ chunks' = IF t \in incoming /\ i = Len(chunks[t]) + 1
                    THEN [chunks EXCEPT ![t] = Append(@, Chunk(t, i).data)]
                    ELSE chunks
  /\ UNCHANGED <<chan, wire, unsent, lost, cancelTask, sendVars,
                 incoming, inState, answer, verify, merged, saved>>

\* The frame is kept with its header.
OnChunkFrame_Headed(t) ==
  /\ \E i \in 1..Len(File[t]) :
       /\ Consume(Receiver, Chunk(t, i))
       /\ chunks' = IF t \in incoming
                    THEN [chunks EXCEPT ![t] = Append(@, Chunk(t, i))]
                    ELSE chunks
  /\ UNCHANGED <<chan, wire, unsent, lost, cancelTask, sendVars,
                 incoming, inState, answer, verify, merged, saved>>

\* The frame's seq and last fields are not looked at.
OnChunkFrame(t) ==
  /\ \E i \in 1..Len(File[t]) :
       /\ Consume(Receiver, Chunk(t, i))
       /\ chunks' = IF t \in incoming
                    THEN [chunks EXCEPT ![t] = Append(@, Chunk(t, i).data)]
                    ELSE chunks
  /\ UNCHANGED <<chan, wire, unsent, lost, cancelTask, sendVars,
                 incoming, inState, answer, verify, merged, saved>>

\* onComplete up to the await of sha256Hex.
OnComplete(t) ==
  /\ Consume(Receiver, Control("complete", t))
  /\ IF t \in incoming
     THEN /\ verify' = [verify EXCEPT ![t] = "hashing"]
          /\ merged' = [merged EXCEPT ![t] = chunks[t]]
     ELSE UNCHANGED <<verify, merged>>
  /\ UNCHANGED <<chan, wire, unsent, lost, cancelTask, sendVars,
                 incoming, inState, answer, chunks, saved>>

\* The digest is computed and never compared.
DigestMatches_Always(t) == TRUE

\* The digest of the received bytes equals the one in the complete message.
DigestMatches(t) == merged[t] = File[t]

Verify(t) ==
  /\ verify[t] = "hashing"
  /\ incoming' = incoming \ {t}
  /\ IF DigestMatches(t)
     THEN /\ verify' = [verify EXCEPT ![t] = "ok"]
          /\ inState' = [inState EXCEPT ![t] = "completed"]
          /\ saved' = [saved EXCEPT ![t] = merged[t]]
     ELSE /\ verify' = [verify EXCEPT ![t] = "mismatch"]
          /\ inState' = [inState EXCEPT ![t] = "failed"]
          /\ UNCHANGED saved
  /\ UNCHANGED <<chanVars, cancelTask, sendVars, answer, chunks, merged>>

(***************************************************************************)
(* Cancelling, from either side                                            *)
(***************************************************************************)

Known(p, t) == IF p = Sender THEN outState[t] # "none" ELSE inState[t] # "none"

Cancel(p, t) ==
  /\ <<p, t>> \in Cancels
  /\ cancelTask[p][t] = "idle"
  /\ Known(p, t)
  /\ cancelTask' = [cancelTask EXCEPT ![p][t] = IfReady(p, "sealing")]
  /\ UNCHANGED <<chanVars, sendVars, recvVars>>

SendCancel(p, t) ==
  /\ cancelTask[p][t] = "sealing"
  /\ Flushed(p)
  /\ Transmit(p, Control("cancel", t))
  /\ cancelTask' = [cancelTask EXCEPT ![p][t] = IfReady(p, "sent")]
  /\ MarkState(p, IF Ready(p) THEN {t} ELSE {}, "cancelled")
  /\ UNCHANGED <<chan, opening, lost, outgoing, offerTask, stream, nextSeq,
                 incoming, answer, chunks, verify, merged, saved>>

\* The cancel message marks the transfer and leaves it in the maps.
OnCancel_KeepsEntry(p, t) ==
  /\ Consume(p, Control("cancel", t))
  /\ MarkState(p, {t}, "cancelled")
  /\ UNCHANGED <<chan, wire, unsent, lost, cancelTask, outgoing, incoming,
                 offerTask, stream, nextSeq, answer, chunks, verify, merged, saved>>

OnCancel(p, t) ==
  /\ Consume(p, Control("cancel", t))
  /\ MarkState(p, {t}, "cancelled")
  /\ outgoing' = IF p = Sender THEN outgoing \ {t} ELSE outgoing
  /\ incoming' = IF p = Receiver THEN incoming \ {t} ELSE incoming
  /\ UNCHANGED <<chan, wire, unsent, lost, cancelTask, offerTask, stream, nextSeq,
                 answer, chunks, verify, merged, saved>>

(***************************************************************************)
(* Specification                                                           *)
(***************************************************************************)

ChannelStep(p) == \/ Drain(p) \/ Arrive(p)
                  \/ ConnectionLost(p) \/ Close(p) \/ OnClose(p)

SenderStep(t) == \/ SendFile(t) \/ SendOffer(t)
                 \/ OnAcceptFile(t) \/ OnRejectFile(t)
                 \/ SendChunk(t) \/ DigestDone(t) \/ SendComplete(t)

ReceiverStep(t) == \/ OnOfferFile(t)
                   \/ Accept(t) \/ Reject(t) \/ SendAccept(t) \/ SendReject(t)
                   \/ OnChunkFrame(t) \/ OnComplete(t) \/ Verify(t)

CancelStep(p, t) == Cancel(p, t) \/ SendCancel(p, t) \/ OnCancel(p, t)

Next == \/ \E p \in Peers : ChannelStep(p)
        \/ \E t \in Transfers : SenderStep(t) \/ ReceiverStep(t)
        \/ \E p \in Peers, t \in Transfers : CancelStep(p, t)

Spec == Init /\ [][Next]_vars

\* Awaited crypto completes, the transport drains and delivers, and the close
\* event is fired.  Users, close() and connection loss are free not to act.
Fairness ==
  /\ \A p \in Peers : /\ WF_vars(Drain(p))
                      /\ WF_vars(Arrive(p))
                      /\ WF_vars(OnClose(p))
  /\ \A t \in Transfers :
       /\ WF_vars(SendOffer(t))
       /\ WF_vars(OnAcceptFile(t) \/ OnRejectFile(t))
       /\ WF_vars(SendChunk(t) \/ DigestDone(t) \/ SendComplete(t))
       /\ WF_vars(SendAccept(t) \/ SendReject(t))
       /\ WF_vars(OnOfferFile(t))
       /\ WF_vars(OnChunkFrame(t))
       /\ WF_vars(OnComplete(t) \/ Verify(t))
  /\ \A p \in Peers, t \in Transfers : WF_vars(SendCancel(p, t)) /\ WF_vars(OnCancel(p, t))

FairSpec == Spec /\ Fairness

(***************************************************************************)
(* Safety                                                                  *)
(***************************************************************************)

\* Not one byte of a file, and not its complete message, leaves the sender
\* before the receiving user has accepted it and the accept-file was sent
\* (onOfferFile awaits the prompt, onAcceptFile starts streamChunks).
ConsentFirst ==
  \A t \in Transfers :
    (\/ stream[t] # "idle"
     \/ \E m \in InFlight(Receiver) : m.id = t /\ m.kind \in {"chunk", "complete"})
      => answer[t] = "accepted"

\* A file handed to the host (onFileComplete) is the offered file, whole and in
\* order, the user accepted it, and the sender had finished streaming it: also
\* when decryptions overtake each other, the channel closes or calls die.
SavedMeansSent ==
  \A t \in Transfers :
    saved[t] # NotSaved => /\ saved[t] = File[t]
                           /\ answer[t] = "accepted"
                           /\ stream[t] = "done"

ChunksInFlight(t) == Cardinality({i \in 1..Len(wire[Receiver]) :
                                    wire[Receiver][i].kind = "chunk"
                                    /\ wire[Receiver][i].id = t})
                     + Cardinality({m \in opening[Receiver] :
                                      m.kind = "chunk" /\ m.id = t})

\* While the channel is up and the receiver holds the transfer's entry, every
\* chunk sendChunkFrame put on the channel is in flight or in inc.chunks, once:
\* whatever the order decryptions end in, no chunk is lost or kept twice.
ChunkConservation ==
  \A t \in incoming :
    (\A p \in Peers : chan[p] = "open") =>
      nextSeq[t] = Len(chunks[t]) + ChunksInFlight(t)

\* A transfer between honest peers never ends in 'checksum mismatch', whatever
\* is cancelled, closed or lost: when complete is dispatched, all chunks have
\* been, in order.  Holds with one decryption at a time (Chromium's crypto
\* thread); with two, decryptions that overtake each other break it.
NoFalseMismatch == \A t \in Transfers : verify[t] # "mismatch"

\* Both ends of the channel are open, the receiving user's cancel() has sent its
\* message, and that message is no longer on its way: the sender dispatched it.
CancelDispatched(t) == /\ cancelTask[Receiver][t] = "sent"
                       /\ Control("cancel", t) \notin InFlight(Sender)
                       /\ \A p \in Peers : chan[p] = "open"

\* Once the sender has dispatched the receiver's cancel, at most the chunk it is
\* sealing still goes out, and nothing starts the stream again: not an
\* accept-file dispatched later, and not a 'disconnected', which overwrites the
\* state of the entries still in the map (onCancel deletes the entry).  The
\* sender's own cancel() keeps it, and promises no such thing: an accept-file on
\* its way sets the state back to 'active' and a 'disconnected' to 'failed'.
ReceiversCancelStops ==
  [][\A t \in Transfers :
       CancelDispatched(t) /\ stream'[t] = "chunk"
         => stream[t] = "chunk" /\ nextSeq'[t] = nextSeq[t]]_vars

\* The sender's cancel is on its way, ahead of the complete message, to a
\* receiver that has seen the offer.
CancelAhead(t) == /\ Control("cancel", t) \in InFlight(Receiver)
                  /\ t \in incoming
                  /\ stream[t] # "done"

\* With one decryption at a time, such a cancel keeps the file from ever being
\* saved: the receiver drops its entry on it and then ignores the rest.  (A
\* cancel that overtakes its own offer is forgotten: sendFile may still be
\* sealing when cancel() is called.)
CancelAheadOfCompleteWins ==
  \A t \in Transfers :
    [](CancelAhead(t) => [](saved[t] = NotSaved))

(***************************************************************************)
(* What the users are promised                                             *)
(***************************************************************************)

\* The state of FileDelivery, read off the two peers.
Phase(t) == IF answer[t] \in {"accepted", "rejected"} THEN answer[t]
            ELSE IF offerTask[t] = "sent" THEN "offered" ELSE "idle"

Delivery == INSTANCE FileDelivery WITH
  Nothing <- NotSaved,
  phase <- [t \in Transfers |-> Phase(t)],
  streamed <- [t \in Transfers |-> stream[t] = "done"],
  verdict <- [t \in Transfers |-> IF verify[t] \in {"ok", "mismatch"}
                                  THEN verify[t] ELSE "none"],
  got <- saved

\* The two peers implement FileDelivery: one consent, one complete message after
\* it, one comparison of digests after that and at most one file saved per offer,
\* with cancels, closed channels, dead calls and decryptions that overtake each
\* other (sendFile, onOfferFile, streamChunks, onComplete) all stuttering steps.
DeliverySpec == Delivery!Spec

(***************************************************************************)
(* Liveness                                                                *)
(***************************************************************************)

\* A running streamChunks ends: it completes, sees the cancellation or throws.
\* (Not when the receiver has closed its end: see Flushed.)
StreamEnds ==
  \A t \in Transfers :
    stream[t] \in {"chunk", "digest", "sealing"}
      ~> (stream[t] \in {"done", "stopped", "dead"} \/ chan[Receiver] = "gone")

Disturbed(t) == \/ \E p \in Peers : chan[p] # "open" \/ lost[p] > 0
                \/ \E p \in Peers : cancelTask[p][t] # "idle"

\* With one decryption at a time, a file the user accepted is saved, unless
\* somebody cancels it or the connection is closed or lost.
AcceptedIsSaved ==
  \A t \in Transfers :
    answer[t] = "accepted" ~> (saved[t] = File[t] \/ Disturbed(t))

(***************************************************************************)
(* Claims of the repository that do not hold                               *)
(***************************************************************************)

\* peer.ts:243, 'Cancel an in-flight transfer (either direction)': once the
\* receiving side's own cancel() has gone through, its file is not saved.
CancelledIsNotSaved ==
  [][\A t \in Transfers :
       cancelTask[Receiver][t] = "sent" /\ inState[t] = "cancelled"
         => saved'[t] = saved[t]]_vars
=============================================================================
