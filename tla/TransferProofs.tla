--------------------------- MODULE TransferProofs ---------------------------
(***************************************************************************)
(* Machine-checked facts about Transfer, for all transfers, files, numbers *)
(* of concurrent decryptions and bounds.                                   *)
(***************************************************************************)
EXTENDS Transfer, SequenceTheorems, FiniteSetTheorems, TLAPS

-----------------------------------------------------------------------------
(* Type correctness.                                                       *)

LEMMA PeerTypes == Sender \in Peers /\ Receiver \in Peers
BY DEF Peers

LEMMA OtherType == \A p \in Peers : Other(p) \in Peers
BY DEF Other, Peers

LEMMA ControlType ==
  \A kind \in ControlKind, t \in Transfers : Control(kind, t) \in Message
BY DEF Control, Message

LEMMA ChunkType ==
  \A t \in Transfers : \A i \in 1..Len(File[t]) : Chunk(t, i) \in Message
BY FileAssumption DEF Chunk, Message

\* A prefix of a sequence; k may be negative.
LEMMA PrefixProperties ==
  ASSUME NEW S, NEW s \in Seq(S), NEW k \in Int, k <= Len(s)
  PROVE  /\ SubSeq(s, 1, k) \in Seq(S)
         /\ Len(SubSeq(s, 1, k)) <= Len(s)
         /\ \A i \in 1..Len(SubSeq(s, 1, k)) : SubSeq(s, 1, k)[i] = s[i]
BY SubSeqProperties, ElementOfSeq

\* The operators the handlers share, one lemma each.
LEMMA TransmitType ==
  ASSUME TypeOK, NEW p \in Peers, NEW m \in Message, Transmit(p, m)
  PROVE  wire' \in [Peers -> Seq(Message)] /\ unsent' \in [Peers -> Nat]
<1>1. wire \in [Peers -> Seq(Message)] /\ unsent \in [Peers -> Nat]
  BY DEF TypeOK
<1>2. Other(p) \in Peers
  BY OtherType
<1>3. CASE ~Ready(p)
  BY <1>1, <1>3 DEF Transmit
<1>4. CASE Ready(p)
  <2>1. unsent' \in [Peers -> Nat]
    BY <1>1, <1>4 DEF Transmit
  <2>2. wire' \in [Peers -> Seq(Message)]
    <3>1. \/ wire' = wire
          \/ wire' = [wire EXCEPT ![Other(p)] = Append(@, m)]
      BY <1>4 DEF Transmit
    <3>2. wire[Other(p)] \in Seq(Message)
      BY <1>1, <1>2
    <3>3. Append(wire[Other(p)], m) \in Seq(Message)
      BY <3>2, AppendProperties
    <3> QED
      BY <1>1, <1>2, <3>1, <3>3
  <2> QED
    BY <2>1, <2>2
<1> QED
  BY <1>3, <1>4

LEMMA MarkStateType ==
  ASSUME TypeOK, NEW p, NEW ts, NEW s \in State, MarkState(p, ts, s)
  PROVE  outState' \in [Transfers -> State] /\ inState' \in [Transfers -> State]
BY DEF MarkState, TypeOK

LEMMA ConsumeType ==
  ASSUME TypeOK, NEW p \in Peers, NEW m, Consume(p, m)
  PROVE  opening' \in [Peers -> SUBSET Message]
BY DEF Consume, TypeOK

LEMMA LoopHeadType ==
  ASSUME NEW t \in Transfers, NEW n \in 0..Len(File[t]), NEW s
  PROVE  /\ LoopHead(t, n, s) \in {"chunk", "digest", "stopped", "dead"}
         /\ LoopHead(t, n, s) = "chunk" => n < Len(File[t])
BY FileAssumption DEF LoopHead, IfReady

\* sendChunkFrame is never called past the end of the file; this is what makes
\* the frames of SendChunk well formed, so type correctness rests on it.
InBounds ==
  \A t \in Transfers : stream[t] = "chunk" => nextSeq[t] < Len(File[t])

TypeInv == TypeOK /\ InBounds

LEMMA TypeInvInit == Init => TypeInv
BY FileAssumption, BoundsAssumption DEF Init, TypeInv, TypeOK, InBounds, State

LEMMA TypeInvChannel ==
  ASSUME TypeInv, NEW p \in Peers, ChannelStep(p)
  PROVE  TypeInv'
<1> USE DEF TypeInv
<1>1. CASE Drain(p)
  BY <1>1 DEF Drain, TypeOK, InBounds, sendVars, recvVars
<1>2. CASE Arrive(p)
  <2>1. wire[p] \in Seq(Message) /\ wire[p] # <<>>
    BY <1>2, OtherType DEF Arrive, Arrived, TypeOK
  <2>2. Head(wire[p]) \in Message /\ Tail(wire[p]) \in Seq(Message)
    BY <2>1
  <2>3. opening' \in [Peers -> SUBSET Message] /\ wire' \in [Peers -> Seq(Message)]
    BY <1>2, <2>2 DEF Arrive, TypeOK
  <2> QED
    BY <1>2, <2>3 DEF Arrive, TypeOK, InBounds, sendVars, recvVars
<1>3. CASE ConnectionLost(p)
  <2>1. outState' \in [Transfers -> State] /\ inState' \in [Transfers -> State]
    BY <1>3, MarkStateType DEF ConnectionLost, State
  <2>2. lost' \in [Peers -> 0..MaxLost]
    BY <1>3, BoundsAssumption DEF ConnectionLost, TypeOK
  <2> QED
    BY <1>3, <2>1, <2>2 DEF ConnectionLost, TypeOK, InBounds
<1>4. CASE Close(p)
  <2>1. PICK k \in 0..Arrived(p) :
          wire' = [wire EXCEPT ![p] = SubSeq(@, 1, k),
                               ![Other(p)] = SubSeq(@, 1, Arrived(Other(p)))]
    BY <1>4 DEF Close
  <2>2. /\ Arrived(p) \in Int /\ Arrived(p) <= Len(wire[p])
        /\ Arrived(Other(p)) \in Int /\ Arrived(Other(p)) <= Len(wire[Other(p)])
    BY OtherType DEF Arrived, TypeOK
  <2>3. /\ SubSeq(wire[p], 1, k) \in Seq(Message)
        /\ SubSeq(wire[Other(p)], 1, Arrived(Other(p))) \in Seq(Message)
    BY <2>2, OtherType, PrefixProperties DEF TypeOK
  <2>4. wire' \in [Peers -> Seq(Message)]
    BY <2>1, <2>3, OtherType DEF TypeOK, Other, Peers
  <2>5. chan' \in [Peers -> {"open", "closed", "gone"}] /\ unsent' \in [Peers -> Nat]
    BY <1>4 DEF Close, TypeOK
  <2> QED
    BY <1>4, <2>4, <2>5 DEF Close, TypeOK, InBounds, sendVars, recvVars
<1>5. CASE OnClose(p)
  <2>1. PICK k \in 0..Arrived(p) : wire' = [wire EXCEPT ![p] = SubSeq(@, 1, k)]
    BY <1>5 DEF OnClose
  <2>2. Arrived(p) \in Int /\ Arrived(p) <= Len(wire[p])
    BY OtherType DEF Arrived, TypeOK
  <2>3. wire' \in [Peers -> Seq(Message)]
    BY <2>1, <2>2, PrefixProperties DEF TypeOK
  <2>4. outState' \in [Transfers -> State] /\ inState' \in [Transfers -> State]
    BY <1>5, MarkStateType DEF OnClose, State
  <2>5. chan' \in [Peers -> {"open", "closed", "gone"}]
    BY <1>5 DEF OnClose, TypeOK
  <2> QED
    BY <1>5, <2>3, <2>4, <2>5 DEF OnClose, TypeOK, InBounds
<1> QED
  BY <1>1, <1>2, <1>3, <1>4, <1>5 DEF ChannelStep

LEMMA TypeInvSender ==
  ASSUME TypeInv, NEW t \in Transfers, SenderStep(t)
  PROVE  TypeInv'
<1> USE DEF TypeInv
<1>1. CASE SendFile(t)
  BY <1>1 DEF SendFile, IfReady, TypeOK, InBounds, State, chanVars, recvVars
<1>2. CASE SendOffer(t)
  <2>1. wire' \in [Peers -> Seq(Message)] /\ unsent' \in [Peers -> Nat]
    BY <1>2, PeerTypes, ControlType, TransmitType DEF SendOffer, ControlKind
  <2>2. offerTask' \in [Transfers -> {"idle", "sealing", "sent", "dead"}]
    BY <1>2 DEF SendOffer, IfReady, TypeOK
  <2> QED
    BY <1>2, <2>1, <2>2 DEF SendOffer, TypeOK, InBounds, recvVars
<1>3. CASE OnAcceptFile(t)
  <2>1. opening' \in [Peers -> SUBSET Message]
    BY <1>3, PeerTypes, ConsumeType DEF OnAcceptFile
  <2>2. /\ LoopHead(t, 0, "active") \in {"chunk", "digest", "stopped", "dead"}
        /\ LoopHead(t, 0, "active") = "chunk" => 0 < Len(File[t])
    BY FileAssumption, LoopHeadType
  <2>3. /\ outState' \in [Transfers -> State]
        /\ nextSeq' \in [Transfers -> Nat]
        /\ stream' \in [Transfers -> {"idle", "chunk", "digest", "sealing", "done",
                                      "stopped", "dead"}]
        /\ InBounds'
    <3>1. CASE t \in outgoing
      <4> DEFINE pc == LoopHead(t, 0, "active")
      <4>1. /\ outState' = [outState EXCEPT ![t] = "active"]
            /\ nextSeq' = [nextSeq EXCEPT ![t] = 0]
            /\ stream' = [stream EXCEPT ![t] = pc]
        BY <1>3, <3>1 DEF OnAcceptFile
      <4>2. pc \in {"chunk", "digest", "stopped", "dead"}
            /\ (pc = "chunk" => 0 < Len(File[t]))
        BY <2>2
      <4> HIDE DEF pc
      <4> QED
        BY <4>1, <4>2 DEF TypeOK, InBounds, State
    <3>2. CASE t \notin outgoing
      BY <1>3, <3>2 DEF OnAcceptFile, TypeOK, InBounds
    <3> QED
      BY <3>1, <3>2
  <2> QED
    BY <1>3, <2>1, <2>3 DEF OnAcceptFile, TypeOK, recvVars
<1>4. CASE OnRejectFile(t)
  <2>1. opening' \in [Peers -> SUBSET Message]
    BY <1>4, PeerTypes, ConsumeType DEF OnRejectFile
  <2>2. outState' \in [Transfers -> State] /\ inState' \in [Transfers -> State]
    BY <1>4, MarkStateType DEF OnRejectFile, State
  <2> QED
    BY <1>4, <2>1, <2>2 DEF OnRejectFile, TypeOK, InBounds
<1>5. CASE SendChunk(t)
  <2>1. nextSeq[t] + 1 \in 1..Len(File[t])
    BY <1>5, FileAssumption DEF SendChunk, TypeOK, InBounds
  <2>2. wire' \in [Peers -> Seq(Message)] /\ unsent' \in [Peers -> Nat]
    BY <1>5, <2>1, PeerTypes, ChunkType, TransmitType DEF SendChunk
  <2>3. /\ LoopHead(t, nextSeq[t] + 1, outState[t]) \in {"chunk", "digest", "stopped", "dead"}
        /\ LoopHead(t, nextSeq[t] + 1, outState[t]) = "chunk"
             => nextSeq[t] + 1 < Len(File[t])
    BY <2>1, LoopHeadType
  <2>4. /\ nextSeq' \in [Transfers -> Nat]
        /\ stream' \in [Transfers -> {"idle", "chunk", "digest", "sealing", "done",
                                      "stopped", "dead"}]
        /\ InBounds'
    <3>1. CASE Ready(Sender)
      <4> DEFINE pc == LoopHead(t, nextSeq[t] + 1, outState[t])
      <4>1. /\ nextSeq' = [nextSeq EXCEPT ![t] = @ + 1]
            /\ stream' = [stream EXCEPT ![t] = pc]
        BY <1>5, <3>1 DEF SendChunk
      <4>2. pc \in {"chunk", "digest", "stopped", "dead"}
            /\ (pc = "chunk" => nextSeq[t] + 1 < Len(File[t]))
        BY <2>3
      <4> HIDE DEF pc
      <4> QED
        BY <4>1, <4>2 DEF TypeOK, InBounds
    <3>2. CASE ~Ready(Sender)
      BY <1>5, <3>2 DEF SendChunk, TypeOK, InBounds
    <3> QED
      BY <3>1, <3>2
  <2> QED
    BY <1>5, <2>2, <2>4 DEF SendChunk, TypeOK, recvVars
<1>6. CASE DigestDone(t)
  BY <1>6 DEF DigestDone, IfReady, TypeOK, InBounds, chanVars, recvVars
<1>7. CASE SendComplete(t)
  <2>1. wire' \in [Peers -> Seq(Message)] /\ unsent' \in [Peers -> Nat]
    BY <1>7, PeerTypes, ControlType, TransmitType DEF SendComplete, ControlKind
  <2>2. /\ stream' \in [Transfers -> {"idle", "chunk", "digest", "sealing", "done",
                                      "stopped", "dead"}]
        /\ InBounds'
    BY <1>7 DEF SendComplete, IfReady, TypeOK, InBounds
  <2>3. outState' \in [Transfers -> State] /\ outgoing' \in SUBSET Transfers
    BY <1>7 DEF SendComplete, TypeOK, State
  <2> QED
    BY <1>7, <2>1, <2>2, <2>3 DEF SendComplete, TypeOK, recvVars
<1> QED
  BY <1>1, <1>2, <1>3, <1>4, <1>5, <1>6, <1>7 DEF SenderStep

LEMMA TypeInvReceiver ==
  ASSUME TypeInv, NEW t \in Transfers, ReceiverStep(t)
  PROVE  TypeInv'
<1> USE DEF TypeInv
<1>1. CASE OnOfferFile(t)
  <2>1. opening' \in [Peers -> SUBSET Message]
    BY <1>1, PeerTypes, ConsumeType DEF OnOfferFile
  <2>2. chunks' \in [Transfers -> Seq(Block)]
    BY <1>1 DEF OnOfferFile, TypeOK
  <2> QED
    BY <1>1, <2>1, <2>2 DEF OnOfferFile, TypeOK, InBounds, State, sendVars
<1>2. CASE Accept(t)
  BY <1>2 DEF Accept, IfReady, TypeOK, InBounds, State, chanVars, sendVars
<1>3. CASE Reject(t)
  BY <1>3 DEF Reject, IfReady, TypeOK, InBounds, State, chanVars, sendVars
<1>4. CASE SendAccept(t)
  <2>1. wire' \in [Peers -> Seq(Message)] /\ unsent' \in [Peers -> Nat]
    BY <1>4, PeerTypes, ControlType, TransmitType DEF SendAccept, ControlKind
  <2> QED
    BY <1>4, <2>1 DEF SendAccept, IfReady, TypeOK, InBounds, sendVars
<1>5. CASE SendReject(t)
  <2>1. wire' \in [Peers -> Seq(Message)] /\ unsent' \in [Peers -> Nat]
    BY <1>5, PeerTypes, ControlType, TransmitType DEF SendReject, ControlKind
  <2> QED
    BY <1>5, <2>1 DEF SendReject, IfReady, TypeOK, InBounds, sendVars
<1>6. CASE OnChunkFrame(t)
  <2>1. PICK i \in 1..Len(File[t]) :
          /\ Consume(Receiver, Chunk(t, i))
          /\ chunks' = IF t \in incoming
                       THEN [chunks EXCEPT ![t] = Append(@, Chunk(t, i).data)]
                       ELSE chunks
    BY <1>6 DEF OnChunkFrame
  <2>2. opening' \in [Peers -> SUBSET Message]
    BY <2>1, PeerTypes, ConsumeType
  <2>3. Chunk(t, i).data \in Block
    BY <2>1, FileAssumption DEF Chunk
  <2>4. chunks' \in [Transfers -> Seq(Block)]
    BY <2>1, <2>3 DEF TypeOK
  <2> QED
    BY <1>6, <2>2, <2>4 DEF OnChunkFrame, TypeOK, InBounds, sendVars
<1>7. CASE OnComplete(t)
  <2>1. opening' \in [Peers -> SUBSET Message]
    BY <1>7, PeerTypes, ConsumeType DEF OnComplete
  <2>2. /\ verify' \in [Transfers -> {"idle", "hashing", "ok", "mismatch"}]
        /\ merged' \in [Transfers -> Seq(Block)]
    <3>1. /\ verify \in [Transfers -> {"idle", "hashing", "ok", "mismatch"}]
          /\ merged \in [Transfers -> Seq(Block)]
          /\ chunks[t] \in Seq(Block)
      BY DEF TypeOK
    <3>2. \/ /\ verify' = [verify EXCEPT ![t] = "hashing"]
             /\ merged' = [merged EXCEPT ![t] = chunks[t]]
          \/ verify' = verify /\ merged' = merged
      BY <1>7 DEF OnComplete
    <3> QED
      BY <3>1, <3>2
  <2> QED
    BY <1>7, <2>1, <2>2 DEF OnComplete, TypeOK, InBounds, sendVars
<1>8. CASE Verify(t)
  <2>1. /\ verify' \in [Transfers -> {"idle", "hashing", "ok", "mismatch"}]
        /\ inState' \in [Transfers -> State]
    <3>1. \/ /\ verify' = [verify EXCEPT ![t] = "ok"]
             /\ inState' = [inState EXCEPT ![t] = "completed"]
          \/ /\ verify' = [verify EXCEPT ![t] = "mismatch"]
             /\ inState' = [inState EXCEPT ![t] = "failed"]
      BY <1>8 DEF Verify
    <3>2. /\ verify \in [Transfers -> {"idle", "hashing", "ok", "mismatch"}]
          /\ inState \in [Transfers -> State]
      BY DEF TypeOK
    <3> QED
      BY <3>1, <3>2 DEF State
  <2>2. saved' \in [Transfers -> Seq(Block) \cup {NotSaved}]
    <3>1. \/ saved' = [saved EXCEPT ![t] = merged[t]]
          \/ saved' = saved
      BY <1>8 DEF Verify
    <3>2. /\ saved \in [Transfers -> Seq(Block) \cup {NotSaved}]
          /\ merged[t] \in Seq(Block) \cup {NotSaved}
      BY DEF TypeOK
    <3> QED
      BY <3>1, <3>2
  <2> QED
    BY <1>8, <2>1, <2>2 DEF Verify, TypeOK, InBounds, chanVars, sendVars
<1> QED
  BY <1>1, <1>2, <1>3, <1>4, <1>5, <1>6, <1>7, <1>8 DEF ReceiverStep

LEMMA TypeInvCancel ==
  ASSUME TypeInv, NEW p \in Peers, NEW t \in Transfers, CancelStep(p, t)
  PROVE  TypeInv'
<1> USE DEF TypeInv
<1>1. CASE Cancel(p, t)
  BY <1>1 DEF Cancel, IfReady, TypeOK, InBounds, chanVars, sendVars, recvVars
<1>2. CASE SendCancel(p, t)
  <2>1. wire' \in [Peers -> Seq(Message)] /\ unsent' \in [Peers -> Nat]
    BY <1>2, ControlType, TransmitType DEF SendCancel, ControlKind
  <2>2. outState' \in [Transfers -> State] /\ inState' \in [Transfers -> State]
    BY <1>2, MarkStateType DEF SendCancel, State
  <2>3. cancelTask' \in [Peers -> [Transfers -> {"idle", "sealing", "sent", "dead"}]]
    BY <1>2 DEF SendCancel, IfReady, TypeOK
  <2> QED
    BY <1>2, <2>1, <2>2, <2>3 DEF SendCancel, TypeOK, InBounds
<1>3. CASE OnCancel(p, t)
  <2>1. opening' \in [Peers -> SUBSET Message]
    BY <1>3, ConsumeType DEF OnCancel
  <2>2. outState' \in [Transfers -> State] /\ inState' \in [Transfers -> State]
    BY <1>3, MarkStateType DEF OnCancel, State
  <2> QED
    BY <1>3, <2>1, <2>2 DEF OnCancel, TypeOK, InBounds
<1> QED
  BY <1>1, <1>2, <1>3 DEF CancelStep

LEMMA TypeInvStep == TypeInv /\ [Next]_vars => TypeInv'
<1> SUFFICES ASSUME TypeInv, [Next]_vars
             PROVE  TypeInv'
  OBVIOUS
<1>1. CASE Next
  BY <1>1, TypeInvChannel, TypeInvSender, TypeInvReceiver, TypeInvCancel DEF Next
<1>2. CASE UNCHANGED vars
  BY <1>2 DEF vars, TypeInv, TypeOK, InBounds
<1> QED
  BY <1>1, <1>2

\* Every reachable state is well typed, for all files and bounds.
THEOREM TypeCorrect == Spec => []TypeOK
<1>1. TypeInv => TypeOK
  BY DEF TypeInv
<1> QED
  BY <1>1, TypeInvInit, TypeInvStep, PTL DEF Spec

-----------------------------------------------------------------------------
(* What the operations on the channel do to the messages in flight.        *)

\* m is in flight to p at most once.
Once(p, m) ==
  /\ \A i, j \in 1..Len(wire[p]) : wire[p][i] = m /\ wire[p][j] = m => i = j
  /\ m \in opening[p] => \A i \in 1..Len(wire[p]) : wire[p][i] # m

\* Nothing comes into flight.
NothingNew == \A q \in Peers : InFlight(q)' \subseteq InFlight(q)
OnceKept == \A q \in Peers : \A m : Once(q, m) => Once(q, m)'

LEMMA WireType == TypeInv => \A p \in Peers : /\ wire[p] \in Seq(Message)
                                              /\ opening[p] \in SUBSET Message
BY DEF TypeInv, TypeOK

LEMMA ConsumeInFlight ==
  ASSUME TypeInv, NEW p \in Peers, NEW m, Consume(p, m), wire' = wire
  PROVE  NothingNew /\ OnceKept /\ m \in InFlight(p)
BY DEF TypeInv, TypeOK, Consume, NothingNew, OnceKept, Once, InFlight

\* Sequences that are cut to a prefix.
LEMMA CutInFlight ==
  ASSUME TypeInv, opening' = opening,
         \A q \in Peers : /\ Len(wire'[q]) \in Nat
                          /\ Len(wire'[q]) <= Len(wire[q])
                          /\ \A i \in 1..Len(wire'[q]) : wire'[q][i] = wire[q][i]
  PROVE  NothingNew /\ OnceKept
<1>1. \A q \in Peers : Len(wire[q]) \in Nat
  BY WireType
<1>2. \A q \in Peers : 1..Len(wire'[q]) \subseteq 1..Len(wire[q])
  BY <1>1
<1> QED
  BY <1>2 DEF NothingNew, OnceKept, Once, InFlight

LEMMA ArriveInFlight ==
  ASSUME TypeInv, NEW p \in Peers, Arrive(p)
  PROVE  NothingNew /\ OnceKept
<1>1. wire[p] \in Seq(Message) /\ wire[p] # <<>>
  BY OtherType DEF Arrive, Arrived, TypeInv, TypeOK
<1>2. /\ wire' = [wire EXCEPT ![p] = Tail(@)]
      /\ opening' = [opening EXCEPT ![p] = @ \cup {Head(wire[p])}]
  BY DEF Arrive
<1>3. wire'[p] = Tail(wire[p]) /\ opening'[p] = opening[p] \cup {wire[p][1]}
  BY <1>1, <1>2 DEF TypeInv, TypeOK
<1>4. /\ Len(wire[p]) \in Nat \ {0}
      /\ Len(wire'[p]) = Len(wire[p]) - 1
      /\ \A i \in 1..Len(wire'[p]) : wire'[p][i] = wire[p][i + 1]
  BY <1>1, <1>3
<1>5. \A q \in Peers \ {p} : wire'[q] = wire[q] /\ opening'[q] = opening[q]
  BY <1>2 DEF TypeInv, TypeOK
<1>6. InFlight(p)' \subseteq InFlight(p)
  BY <1>3, <1>4 DEF InFlight
<1>7. ASSUME NEW m, Once(p, m)
      PROVE  Once(p, m)'
  <2>1. ASSUME NEW i \in 1..Len(wire'[p]), NEW j \in 1..Len(wire'[p]),
               wire'[p][i] = m, wire'[p][j] = m
        PROVE  i = j
    <3>1. i + 1 \in 1..Len(wire[p]) /\ j + 1 \in 1..Len(wire[p])
      BY <1>4
    <3>2. i + 1 = j + 1
      BY <1>4, <1>7, <2>1, <3>1 DEF Once
    <3> QED
      BY <1>4, <3>2
  <2>2. ASSUME m \in opening'[p], NEW i \in 1..Len(wire'[p])
        PROVE  wire'[p][i] # m
    <3>1. i + 1 \in 1..Len(wire[p]) /\ 1 \in 1..Len(wire[p]) /\ i + 1 # 1
      BY <1>4
    <3> QED
      BY <1>3, <1>4, <1>7, <2>2, <3>1 DEF Once
  <2> QED
    BY <2>1, <2>2 DEF Once
<1>8. \A q \in Peers \ {p} : /\ InFlight(q)' \subseteq InFlight(q)
                             /\ \A m : Once(q, m) => Once(q, m)'
  BY <1>5 DEF InFlight, Once
<1> QED
  BY <1>6, <1>7, <1>8 DEF NothingNew, OnceKept

LEMMA TransmitInFlight ==
  ASSUME TypeInv, NEW p \in Peers, NEW m \in Message, Transmit(p, m), opening' = opening
  PROVE  /\ InFlight(Other(p))' \subseteq InFlight(Other(p)) \cup {m}
         /\ InFlight(p)' = InFlight(p)
         /\ \A q \in Peers : \A x : x # m /\ Once(q, x) => Once(q, x)'
         /\ m \notin InFlight(Other(p)) => Once(Other(p), m)'
         /\ ~Ready(p) => InFlight(Other(p))' = InFlight(Other(p))
<1> DEFINE o == Other(p)
<1>1. o \in Peers /\ o # p
  BY DEF Other, Peers, Sender, Receiver
<1>2. wire[o] \in Seq(Message)
  BY <1>1, WireType
<1>3. CASE wire' = wire
  <2>1. InFlight(o)' = InFlight(o) /\ InFlight(p)' = InFlight(p)
    BY <1>3 DEF InFlight
  <2>2. \A q \in Peers : \A x : Once(q, x)' <=> Once(q, x)
    BY <1>3 DEF Once
  <2>3. m \notin InFlight(o) => Once(o, m)
    BY DEF InFlight, Once
  <2> QED
    BY <1>1, <2>1, <2>2, <2>3
<1>4. CASE wire' = [wire EXCEPT ![o] = Append(@, m)] /\ Ready(p)
  <2>1. /\ wire'[o] = Append(wire[o], m)
        /\ \A q \in Peers \ {o} : wire'[q] = wire[q]
    BY <1>1, <1>4 DEF TypeInv, TypeOK
  <2>2. /\ Len(wire[o]) \in Nat
        /\ Len(wire'[o]) = Len(wire[o]) + 1
        /\ \A i \in 1..Len(wire[o]) : wire'[o][i] = wire[o][i]
        /\ wire'[o][Len(wire[o]) + 1] = m
    BY <1>2, <2>1, AppendProperties
  <2>3. 1..Len(wire'[o]) = 1..Len(wire[o]) \cup {Len(wire[o]) + 1}
    BY <2>2
  <2>4. InFlight(o)' \subseteq InFlight(o) \cup {m}
    BY <2>2, <2>3 DEF InFlight
  <2>5. InFlight(p)' = InFlight(p)
    BY <1>1, <2>1 DEF InFlight
  <2>6. \A x : x # m /\ Once(o, x) => Once(o, x)'
    BY <2>2, <2>3 DEF Once
  <2>7. m \notin InFlight(o) => Once(o, m)'
    BY <2>2, <2>3 DEF Once, InFlight
  <2>8. \A q \in Peers \ {o} : \A x : Once(q, x)' <=> Once(q, x)
    BY <2>1 DEF Once
  <2> QED
    BY <1>4, <2>4, <2>5, <2>6, <2>7, <2>8
<1> QED
  BY <1>3, <1>4 DEF Transmit

-----------------------------------------------------------------------------
(* Consent and whole files.  The inductive invariant follows the messages  *)
(* about one transfer: each of offer-file, accept-file and complete is in  *)
(* flight at most once, and only at its own stage of the protocol.         *)

Offer(t) == Control("offer-file", t)
Acceptance(t) == Control("accept-file", t)
Complete(t) == Control("complete", t)
Data(t, m) == m.id = t /\ m.kind \in {"chunk", "complete"}

OfferStage(t) ==
  /\ Once(Receiver, Offer(t))
  /\ offerTask[t] # "sent" => Offer(t) \notin InFlight(Receiver) /\ answer[t] = "idle"
  /\ Offer(t) \in InFlight(Receiver) => answer[t] = "idle"

AnswerStage(t) ==
  /\ Once(Sender, Acceptance(t))
  /\ answer[t] # "accepted" => Acceptance(t) \notin InFlight(Sender) /\ stream[t] = "idle"
  /\ Acceptance(t) \in InFlight(Sender) => stream[t] = "idle"

StreamStage(t) ==
  /\ stream[t] = "idle" => \A m \in InFlight(Receiver) : ~Data(t, m)
  /\ stream[t] # "done" => Complete(t) \notin InFlight(Receiver) /\ verify[t] = "idle"
  /\ saved[t] # NotSaved => saved[t] = File[t] /\ stream[t] = "done"

VerdictStage(t) ==
  /\ Once(Receiver, Complete(t))
  /\ Complete(t) \in InFlight(Receiver) => verify[t] = "idle"

Stages(t) == OfferStage(t) /\ AnswerStage(t) /\ StreamStage(t) /\ VerdictStage(t)

ConsentInv == TypeInv /\ \A t \in Transfers : Stages(t)

LEMMA StagesImply == ConsentInv => ConsentFirst /\ SavedMeansSent
<1> SUFFICES ASSUME ConsentInv, NEW t \in Transfers
             PROVE  /\ (\/ stream[t] # "idle"
                        \/ \E m \in InFlight(Receiver) :
                             m.id = t /\ m.kind \in {"chunk", "complete"})
                         => answer[t] = "accepted"
                    /\ saved[t] # NotSaved => /\ saved[t] = File[t]
                                              /\ answer[t] = "accepted"
                                              /\ stream[t] = "done"
  BY DEF ConsentFirst, SavedMeansSent
<1>1. Stages(t)
  BY DEF ConsentInv
<1>2. stream[t] # "idle" => answer[t] = "accepted"
  BY <1>1 DEF Stages, AnswerStage
<1>3. saved[t] # NotSaved => stream[t] = "done" /\ saved[t] = File[t]
  BY <1>1 DEF Stages, StreamStage
<1> QED
  BY <1>1, <1>2, <1>3 DEF Stages, StreamStage, Data

LEMMA ConsentInit == Init => ConsentInv
<1> SUFFICES ASSUME Init
             PROVE  ConsentInv
  OBVIOUS
<1>1. \A p \in Peers : InFlight(p) = {} /\ \A m : Once(p, m)
  BY DEF Init, InFlight, Once
<1> QED
  BY <1>1, PeerTypes, TypeInvInit
  DEF Init, ConsentInv, Stages, OfferStage, AnswerStage, StreamStage, VerdictStage

\* The messages a handler or task about t reads or writes are about t only.
LEMMA Distinct ==
  ASSUME NEW t, NEW u, NEW i, t # u
  PROVE  /\ Offer(t) # Offer(u)
         /\ Acceptance(t) # Acceptance(u)
         /\ Complete(t) # Complete(u)
         /\ \A k : ~Data(u, Control(k, t))
         /\ ~Data(u, Chunk(t, i))
BY DEF Offer, Acceptance, Complete, Data, Control, Chunk

LEMMA Kinds ==
  ASSUME NEW t, NEW u, NEW i, NEW k
  PROVE  /\ k # "offer-file" => Control(k, t) # Offer(u)
         /\ k # "accept-file" => Control(k, t) # Acceptance(u)
         /\ k # "complete" => Control(k, t) # Complete(u)
         /\ k # "complete" /\ k # "chunk" => ~Data(u, Control(k, t))
         /\ Chunk(t, i) # Offer(u)
         /\ Chunk(t, i) # Acceptance(u)
         /\ Chunk(t, i) # Complete(u)
BY DEF Offer, Acceptance, Complete, Data, Control, Chunk

\* A step that brings nothing about u into flight and leaves u's tasks alone.
LEMMA Quiet ==
  ASSUME NEW u \in Transfers, Stages(u),
         Once(Receiver, Offer(u))', Once(Sender, Acceptance(u))',
         Once(Receiver, Complete(u))',
         Offer(u) \in InFlight(Receiver)' => Offer(u) \in InFlight(Receiver),
         Acceptance(u) \in InFlight(Sender)' => Acceptance(u) \in InFlight(Sender),
         \A m \in InFlight(Receiver)' :
           Data(u, m) \/ m = Complete(u) => m \in InFlight(Receiver),
         offerTask'[u] = offerTask[u], answer'[u] = answer[u],
         stream'[u] = stream[u], verify'[u] = verify[u], saved'[u] = saved[u]
  PROVE  Stages(u)'
<1>1. OfferStage(u)'
  BY DEF Stages, OfferStage, Offer
<1>2. AnswerStage(u)'
  BY DEF Stages, AnswerStage, Acceptance
<1>3. StreamStage(u)'
  BY DEF Stages, StreamStage
<1>4. VerdictStage(u)'
  BY DEF Stages, VerdictStage, StreamStage, Complete
<1> QED
  BY <1>1, <1>2, <1>3, <1>4 DEF Stages

LEMMA QuietAll ==
  ASSUME ConsentInv, NothingNew, OnceKept, NEW u \in Transfers,
         offerTask'[u] = offerTask[u], answer'[u] = answer[u],
         stream'[u] = stream[u], verify'[u] = verify[u], saved'[u] = saved[u]
  PROVE  Stages(u)'
<1>1. Stages(u)
  BY DEF ConsentInv
<1>2. /\ Once(Receiver, Offer(u))' /\ Once(Sender, Acceptance(u))'
      /\ Once(Receiver, Complete(u))'
  BY <1>1, PeerTypes DEF Stages, OfferStage, AnswerStage, VerdictStage, OnceKept
<1>3. /\ InFlight(Receiver)' \subseteq InFlight(Receiver)
      /\ InFlight(Sender)' \subseteq InFlight(Sender)
  BY PeerTypes DEF NothingNew
<1> QED
  BY <1>1, <1>2, <1>3, Quiet

\* A Transmit, for the messages other than the one it sends.
LEMMA QuietTransmit ==
  ASSUME ConsentInv, NEW p \in Peers, NEW k \in ControlKind \cup {"chunk"},
         NEW t \in Transfers, NEW m \in Message, m.kind = k, m.id = t,
         Transmit(p, m), opening' = opening,
         NEW u \in Transfers, u # t \/ k = "cancel" \/ k = "reject-file",
         offerTask'[u] = offerTask[u], answer'[u] = answer[u],
         stream'[u] = stream[u], verify'[u] = verify[u], saved'[u] = saved[u]
  PROVE  Stages(u)'
<1>1. Stages(u) /\ TypeInv
  BY DEF ConsentInv
<1>2. m # Offer(u) /\ m # Acceptance(u) /\ m # Complete(u) /\ ~Data(u, m)
  BY DEF Offer, Acceptance, Complete, Data, Control
<1>3. /\ Once(Receiver, Offer(u))' /\ Once(Sender, Acceptance(u))'
      /\ Once(Receiver, Complete(u))'
  BY <1>1, <1>2, PeerTypes, TransmitInFlight DEF Stages, OfferStage, AnswerStage, VerdictStage
<1>4. \A q \in Peers : InFlight(q)' \subseteq InFlight(q) \cup {m}
  BY <1>1, TransmitInFlight DEF Other, Peers
<1> QED
  BY <1>1, <1>2, <1>3, <1>4, PeerTypes, Quiet

LEMMA ChannelInFlight ==
  ASSUME TypeInv, NEW p \in Peers, ChannelStep(p)
  PROVE  NothingNew /\ OnceKept
<1>1. CASE Drain(p) \/ ConnectionLost(p)
  <2>1. wire' = wire /\ opening' = opening
    BY <1>1 DEF Drain, ConnectionLost
  <2> QED
    BY <2>1 DEF NothingNew, OnceKept, InFlight, Once
<1>2. CASE Arrive(p)
  BY <1>2, ArriveInFlight
<1>3. CASE Close(p)
  <2>1. PICK k \in 0..Arrived(p) :
          wire' = [wire EXCEPT ![p] = SubSeq(@, 1, k),
                               ![Other(p)] = SubSeq(@, 1, Arrived(Other(p)))]
    BY <1>3 DEF Close
  <2>2. /\ Arrived(p) \in Int /\ Arrived(p) <= Len(wire[p])
        /\ Arrived(Other(p)) \in Int /\ Arrived(Other(p)) <= Len(wire[Other(p)])
    BY OtherType DEF Arrived, TypeInv, TypeOK
  <2>3. Peers = {p, Other(p)} /\ Other(p) # p
    BY DEF Other, Peers, Sender, Receiver
  <2>4. /\ wire'[p] = SubSeq(wire[p], 1, k)
        /\ wire'[Other(p)] = SubSeq(wire[Other(p)], 1, Arrived(Other(p)))
    BY <2>1, <2>3 DEF TypeInv, TypeOK
  <2>5. \A q \in Peers : \E n \in Int : /\ n <= Len(wire[q])
                                        /\ wire'[q] = SubSeq(wire[q], 1, n)
    <3>1. k \in Int /\ k <= Len(wire[p])
      BY <2>2, WireType
    <3> QED
      BY <2>2, <2>3, <2>4, <3>1
  <2>6. \A q \in Peers : /\ Len(wire'[q]) \in Nat
                         /\ Len(wire'[q]) <= Len(wire[q])
                         /\ \A i \in 1..Len(wire'[q]) : wire'[q][i] = wire[q][i]
    BY <2>5, WireType, PrefixProperties
  <2> QED
    BY <1>3, <2>6, CutInFlight DEF Close
<1>4. CASE OnClose(p)
  <2>1. PICK k \in 0..Arrived(p) : wire' = [wire EXCEPT ![p] = SubSeq(@, 1, k)]
    BY <1>4 DEF OnClose
  <2>2. Arrived(p) \in Int /\ Arrived(p) <= Len(wire[p])
    BY OtherType DEF Arrived, TypeInv, TypeOK
  <2>3. /\ wire'[p] = SubSeq(wire[p], 1, k)
        /\ \A q \in Peers \ {p} : wire'[q] = wire[q]
    BY <2>1 DEF TypeInv, TypeOK
  <2>4. \A q \in Peers : /\ Len(wire'[q]) \in Nat
                         /\ Len(wire'[q]) <= Len(wire[q])
                         /\ \A i \in 1..Len(wire'[q]) : wire'[q][i] = wire[q][i]
    BY <2>2, <2>3, WireType, PrefixProperties
  <2> QED
    BY <1>4, <2>4, CutInFlight DEF OnClose
<1> QED
  BY <1>1, <1>2, <1>3, <1>4 DEF ChannelStep

LEMMA ConsentChannel ==
  ASSUME ConsentInv, NEW p \in Peers, ChannelStep(p), NEW u \in Transfers
  PROVE  Stages(u)'
<1>1. TypeInv
  BY DEF ConsentInv
<1>2. /\ offerTask' = offerTask /\ answer' = answer /\ stream' = stream
      /\ verify' = verify /\ saved' = saved
  BY DEF ChannelStep, Drain, Arrive, ConnectionLost, Close, OnClose, sendVars, recvVars
<1>3. NothingNew /\ OnceKept
  BY <1>1, ChannelInFlight
<1> QED
  BY <1>2, <1>3, QuietAll

LEMMA ConsentCancel ==
  ASSUME ConsentInv, NEW p \in Peers, NEW t \in Transfers, CancelStep(p, t),
         NEW u \in Transfers
  PROVE  Stages(u)'
<1>1. TypeInv
  BY DEF ConsentInv
<1>2. /\ offerTask' = offerTask /\ answer' = answer /\ stream' = stream
      /\ verify' = verify /\ saved' = saved
  BY DEF CancelStep, Cancel, SendCancel, OnCancel, sendVars, recvVars
<1>3. CASE Cancel(p, t)
  <2>1. wire' = wire /\ opening' = opening
    BY <1>3 DEF Cancel, chanVars
  <2>2. NothingNew /\ OnceKept
    BY <2>1 DEF NothingNew, OnceKept, InFlight, Once
  <2> QED
    BY <1>2, <2>2, QuietAll
<1>4. CASE SendCancel(p, t)
  <2>1. Control("cancel", t) \in Message
    BY ControlType DEF ControlKind
  <2>2. Transmit(p, Control("cancel", t)) /\ opening' = opening
    BY <1>4 DEF SendCancel
  <2> QED
    BY <1>2, <2>1, <2>2, QuietTransmit DEF Control, ControlKind
<1>5. CASE OnCancel(p, t)
  <2>1. Consume(p, Control("cancel", t)) /\ wire' = wire
    BY <1>5 DEF OnCancel
  <2> QED
    BY <1>1, <1>2, <2>1, ConsumeInFlight, QuietAll
<1> QED
  BY <1>3, <1>4, <1>5 DEF CancelStep

LEMMA ConsentSender ==
  ASSUME ConsentInv, NEW t \in Transfers, SenderStep(t), NEW u \in Transfers
  PROVE  Stages(u)'
<1>1. TypeInv /\ Stages(u) /\ Stages(t)
  BY DEF ConsentInv
<1>2. answer' = answer /\ verify' = verify /\ saved' = saved
  BY DEF SenderStep, SendFile, SendOffer, OnAcceptFile, OnRejectFile,
         SendChunk, DigestDone, SendComplete, recvVars
<1>3. CASE SendFile(t)
  <2>1. wire' = wire /\ opening' = opening /\ stream' = stream
    BY <1>3 DEF SendFile, chanVars
  <2>2. InFlight(Receiver)' = InFlight(Receiver) /\ InFlight(Sender)' = InFlight(Sender)
    BY <2>1 DEF InFlight
  <2>3. \A q, m : Once(q, m)' <=> Once(q, m)
    BY <2>1 DEF Once
  <2>4. offerTask[t] = "idle" /\ \A x \in Transfers \ {t} : offerTask'[x] = offerTask[x]
    BY <1>1, <1>3 DEF SendFile, TypeInv, TypeOK
  <2>5. OfferStage(u)'
    BY <1>1, <1>2, <2>2, <2>3, <2>4 DEF Stages, OfferStage, Offer
  <2>6. AnswerStage(u)'
    BY <1>1, <1>2, <2>1, <2>2, <2>3 DEF Stages, AnswerStage, Acceptance
  <2>7. StreamStage(u)'
    BY <1>1, <1>2, <2>1, <2>2 DEF Stages, StreamStage
  <2>8. VerdictStage(u)'
    BY <1>1, <1>2, <2>2, <2>3 DEF Stages, VerdictStage, Complete
  <2> QED
    BY <2>5, <2>6, <2>7, <2>8 DEF Stages
<1>4. CASE SendOffer(t)
  <2>1. /\ Offer(t) \in Message /\ Transmit(Sender, Offer(t))
        /\ opening' = opening /\ stream' = stream
    BY <1>4, ControlType DEF SendOffer, ControlKind, Offer
  <2>2. \A x \in Transfers \ {t} : offerTask'[x] = offerTask[x]
    BY <1>1, <1>4 DEF SendOffer, TypeInv, TypeOK
  <2>3. CASE u # t
    BY <1>2, <2>1, <2>2, <2>3, PeerTypes, QuietTransmit DEF Offer, Control, ControlKind
  <2>4. CASE u = t
    <3>1. offerTask[t] = "sealing"
      BY <1>4 DEF SendOffer
    <3>2. Offer(t) \notin InFlight(Receiver) /\ answer[t] = "idle"
      BY <1>1, <3>1 DEF Stages, OfferStage
    <3>3. Other(Sender) = Receiver
      BY DEF Other
    <3>4. /\ InFlight(Receiver)' \subseteq InFlight(Receiver) \cup {Offer(t)}
          /\ InFlight(Sender)' = InFlight(Sender)
          /\ \A q \in Peers : \A x : x # Offer(t) /\ Once(q, x) => Once(q, x)'
          /\ Once(Receiver, Offer(t))'
          /\ ~Ready(Sender) => InFlight(Receiver)' = InFlight(Receiver)
      BY <1>1, <2>1, <3>2, <3>3, PeerTypes, TransmitInFlight
    <3>5. OfferStage(t)'
      <4>1. offerTask'[t] # "sent" => ~Ready(Sender)
        BY <1>1, <1>4 DEF SendOffer, IfReady, TypeInv, TypeOK
      <4> QED
        BY <1>2, <3>2, <3>4, <4>1 DEF OfferStage, Offer
    <3>6. Offer(t) # Acceptance(t) /\ Offer(t) # Complete(t) /\ ~Data(t, Offer(t))
      BY DEF Offer, Acceptance, Complete, Data, Control
    <3>7. AnswerStage(t)'
      BY <1>1, <1>2, <2>1, <3>4, <3>6, PeerTypes DEF Stages, AnswerStage, Acceptance
    <3>8. StreamStage(t)'
      <4>1. Stages(t)
        BY <1>1
      <4>2. stream[t] = "idle" => \A m \in InFlight(Receiver)' : ~Data(t, m)
        BY <4>1, <3>4, <3>6 DEF Stages, StreamStage
      <4>3. stream[t] # "done" => Complete(t) \notin InFlight(Receiver)' /\ verify[t] = "idle"
        BY <4>1, <3>4, <3>6 DEF Stages, StreamStage
      <4> QED
        BY <1>2, <2>1, <4>1, <4>2, <4>3 DEF Stages, StreamStage, Complete
    <3>9. VerdictStage(t)'
      BY <1>1, <1>2, <3>4, <3>6, PeerTypes DEF Stages, VerdictStage, Complete
    <3> QED
      BY <2>4, <3>5, <3>7, <3>8, <3>9 DEF Stages
  <2> QED
    BY <2>3, <2>4
<1>5. CASE OnAcceptFile(t)
  <2>1. Consume(Sender, Acceptance(t)) /\ wire' = wire /\ offerTask' = offerTask
    BY <1>5 DEF OnAcceptFile, Acceptance
  <2>2. NothingNew /\ OnceKept /\ Acceptance(t) \in InFlight(Sender)
    BY <1>1, <2>1, PeerTypes, ConsumeInFlight
  <2>3. CASE u # t
    <3>1. stream'[u] = stream[u]
      BY <1>1, <1>5, <2>3 DEF OnAcceptFile, TypeInv, TypeOK
    <3> QED
      BY <1>2, <2>1, <2>2, <3>1, QuietAll
  <2>4. CASE u = t
    <3>1. answer[t] = "accepted" /\ stream[t] = "idle"
      BY <1>1, <2>2 DEF Stages, AnswerStage
    <3>2. Acceptance(t) \notin InFlight(Sender)'
      <4>1. /\ Acceptance(t) \in opening[Sender]
            /\ opening'[Sender] = opening[Sender] \ {Acceptance(t)}
        BY <1>1, <2>1, PeerTypes DEF Consume, TypeInv, TypeOK
      <4>2. \A i \in 1..Len(wire[Sender]) : wire[Sender][i] # Acceptance(t)
        BY <1>1, <4>1 DEF Stages, AnswerStage, Once
      <4> QED
        BY <2>1, <4>1, <4>2 DEF InFlight
    <3>3. stream'[t] # "done"
      <4>1. LoopHead(t, 0, "active") \in {"chunk", "digest", "stopped", "dead"}
        BY FileAssumption, LoopHeadType
      <4> QED
        BY <1>1, <1>5, <3>1, <4>1 DEF OnAcceptFile, TypeInv, TypeOK
    <3>4. OfferStage(t)'
      BY <1>1, <1>2, <2>1, <2>2, PeerTypes
      DEF Stages, OfferStage, Offer, NothingNew, OnceKept
    <3>5. AnswerStage(t)'
      BY <1>1, <1>2, <2>2, <3>1, <3>2, PeerTypes
      DEF Stages, AnswerStage, Acceptance, OnceKept
    <3>6. StreamStage(t)'
      <4>1. /\ Complete(t) \notin InFlight(Receiver)' /\ verify[t] = "idle"
            /\ \A m \in InFlight(Receiver)' : ~Data(t, m)
            /\ saved[t] = NotSaved
        BY <1>1, <2>2, <3>1, PeerTypes DEF Stages, StreamStage, NothingNew
      <4> QED
        BY <1>2, <3>3, <4>1 DEF StreamStage, Complete
    <3>7. VerdictStage(t)'
      BY <1>1, <1>2, <2>2, PeerTypes DEF Stages, VerdictStage, Complete, NothingNew, OnceKept
    <3> QED
      BY <2>4, <3>4, <3>5, <3>6, <3>7 DEF Stages
  <2> QED
    BY <2>3, <2>4
<1>6. CASE OnRejectFile(t)
  <2>1. /\ Consume(Sender, Control("reject-file", t)) /\ wire' = wire
        /\ offerTask' = offerTask /\ stream' = stream
    BY <1>6 DEF OnRejectFile
  <2> QED
    BY <1>1, <1>2, <2>1, PeerTypes, ConsumeInFlight, QuietAll
<1>7. CASE SendChunk(t)
  <2>1. nextSeq[t] + 1 \in 1..Len(File[t])
    BY <1>1, <1>7, FileAssumption DEF SendChunk, TypeInv, TypeOK, InBounds
  <2> DEFINE m == Chunk(t, nextSeq[t] + 1)
  <2>2. m \in Message /\ m.kind = "chunk" /\ m.id = t
    BY <2>1, ChunkType DEF Chunk
  <2>3. /\ Transmit(Sender, m) /\ opening' = opening /\ offerTask' = offerTask
        /\ stream[t] = "chunk"
    BY <1>7 DEF SendChunk
  <2>4. \A x \in Transfers \ {t} : stream'[x] = stream[x]
    BY <1>1, <1>7 DEF SendChunk, TypeInv, TypeOK
  <2> HIDE DEF m
  <2>5. CASE u # t
    BY <1>2, <2>2, <2>3, <2>4, <2>5, PeerTypes, QuietTransmit
  <2>6. CASE u = t
    <3>1. stream'[t] \in {"chunk", "digest", "stopped", "dead"}
      <4>1. LoopHead(t, nextSeq[t] + 1, outState[t]) \in {"chunk", "digest", "stopped", "dead"}
        BY <2>1, LoopHeadType
      <4>2. \/ stream' = [stream EXCEPT ![t] = LoopHead(t, nextSeq[t] + 1, outState[t])]
            \/ stream' = [stream EXCEPT ![t] = "dead"]
        BY <1>7 DEF SendChunk
      <4> QED
        BY <1>1, <4>1, <4>2 DEF TypeInv, TypeOK
    <3>2. m # Offer(t) /\ m # Acceptance(t) /\ m # Complete(t)
      BY <2>2 DEF Offer, Acceptance, Complete, Control
    <3>3. Other(Sender) = Receiver
      BY DEF Other
    <3>4. /\ InFlight(Receiver)' \subseteq InFlight(Receiver) \cup {m}
          /\ InFlight(Sender)' = InFlight(Sender)
          /\ \A q \in Peers : \A x : x # m /\ Once(q, x) => Once(q, x)'
      BY <1>1, <2>2, <2>3, <3>3, PeerTypes, TransmitInFlight
    <3>5. OfferStage(t)'
      BY <1>1, <1>2, <2>3, <3>2, <3>4, PeerTypes DEF Stages, OfferStage, Offer
    <3>6. AnswerStage(t)'
      BY <1>1, <1>2, <2>3, <3>2, <3>4, PeerTypes DEF Stages, AnswerStage, Acceptance
    <3>7. StreamStage(t)'
      <4>1. /\ Complete(t) \notin InFlight(Receiver)' /\ verify[t] = "idle"
            /\ saved[t] = NotSaved
        BY <1>1, <2>3, <3>2, <3>4 DEF Stages, StreamStage
      <4> QED
        BY <1>2, <3>1, <4>1 DEF StreamStage, Complete
    <3>8. VerdictStage(t)'
      BY <1>1, <1>2, <3>2, <3>4, PeerTypes DEF Stages, VerdictStage, Complete
    <3> QED
      BY <2>6, <3>5, <3>6, <3>7, <3>8 DEF Stages
  <2> QED
    BY <2>5, <2>6
<1>8. CASE DigestDone(t)
  <2>1. wire' = wire /\ opening' = opening /\ offerTask' = offerTask
    BY <1>8 DEF DigestDone, chanVars
  <2>2. InFlight(Receiver)' = InFlight(Receiver) /\ InFlight(Sender)' = InFlight(Sender)
    BY <2>1 DEF InFlight
  <2>3. \A q, m : Once(q, m)' <=> Once(q, m)
    BY <2>1 DEF Once
  <2>4. /\ stream[t] = "digest" /\ stream'[t] \in {"sealing", "dead"}
        /\ \A x \in Transfers \ {t} : stream'[x] = stream[x]
    BY <1>1, <1>8 DEF DigestDone, IfReady, TypeInv, TypeOK
  <2>5. OfferStage(u)'
    BY <1>1, <1>2, <2>1, <2>2, <2>3 DEF Stages, OfferStage, Offer
  <2>6. AnswerStage(u)'
    BY <1>1, <1>2, <2>2, <2>3, <2>4 DEF Stages, AnswerStage, Acceptance
  <2>7. StreamStage(u)'
    BY <1>1, <1>2, <2>2, <2>4 DEF Stages, StreamStage
  <2>8. VerdictStage(u)'
    BY <1>1, <1>2, <2>2, <2>3 DEF Stages, VerdictStage, Complete
  <2> QED
    BY <2>5, <2>6, <2>7, <2>8 DEF Stages
<1>9. CASE SendComplete(t)
  <2>1. /\ Complete(t) \in Message /\ Transmit(Sender, Complete(t))
        /\ opening' = opening /\ offerTask' = offerTask /\ stream[t] = "sealing"
    BY <1>9, ControlType DEF SendComplete, ControlKind, Complete
  <2>2. /\ stream'[t] = IfReady(Sender, "done")
        /\ \A x \in Transfers \ {t} : stream'[x] = stream[x]
    BY <1>1, <1>9 DEF SendComplete, TypeInv, TypeOK
  <2>3. CASE u # t
    BY <1>2, <2>1, <2>2, <2>3, PeerTypes, QuietTransmit DEF Complete, Control, ControlKind
  <2>4. CASE u = t
    <3>1. Complete(t) # Offer(t) /\ Complete(t) # Acceptance(t)
      BY DEF Offer, Acceptance, Complete, Control
    <3>2. Other(Sender) = Receiver
      BY DEF Other
    <3>3. /\ InFlight(Receiver)' \subseteq InFlight(Receiver) \cup {Complete(t)}
          /\ InFlight(Sender)' = InFlight(Sender)
          /\ \A q \in Peers : \A x : x # Complete(t) /\ Once(q, x) => Once(q, x)'
          /\ ~Ready(Sender) => InFlight(Receiver)' = InFlight(Receiver)
      BY <1>1, <2>1, <3>2, PeerTypes, TransmitInFlight
    <3>4. /\ stream'[t] # "idle"
          /\ stream'[t] # "done" => ~Ready(Sender)
      BY <2>2 DEF IfReady
    <3>5. OfferStage(t)'
      BY <1>1, <1>2, <2>1, <3>1, <3>3, PeerTypes DEF Stages, OfferStage, Offer
    <3>6. AnswerStage(t)'
      BY <1>1, <1>2, <2>1, <3>1, <3>3, PeerTypes DEF Stages, AnswerStage, Acceptance
    <3>7. StreamStage(t)'
      BY <1>1, <1>2, <2>1, <3>3, <3>4 DEF Stages, StreamStage, Complete
    <3>8. VerdictStage(t)'
      <4>1. Complete(t) \notin InFlight(Receiver) /\ verify[t] = "idle"
        BY <1>1, <2>1 DEF Stages, StreamStage
      <4>2. Once(Receiver, Complete(t))'
        BY <1>1, <2>1, <3>2, <4>1, PeerTypes, TransmitInFlight
      <4> QED
        BY <1>2, <4>1, <4>2 DEF VerdictStage, Complete
    <3> QED
      BY <2>4, <3>5, <3>6, <3>7, <3>8 DEF Stages
  <2> QED
    BY <2>3, <2>4
<1> QED
  BY <1>3, <1>4, <1>5, <1>6, <1>7, <1>8, <1>9 DEF SenderStep

LEMMA ConsentReceiver ==
  ASSUME ConsentInv, NEW t \in Transfers, ReceiverStep(t), NEW u \in Transfers
  PROVE  Stages(u)'
<1>1. TypeInv /\ Stages(u) /\ Stages(t)
  BY DEF ConsentInv
<1>2. offerTask' = offerTask /\ stream' = stream
  BY DEF ReceiverStep, OnOfferFile, Accept, Reject, SendAccept, SendReject,
         OnChunkFrame, OnComplete, Verify, sendVars
<1>3. CASE OnOfferFile(t)
  <2>1. Consume(Receiver, Offer(t)) /\ wire' = wire /\ verify' = verify /\ saved' = saved
    BY <1>3 DEF OnOfferFile, Offer
  <2>2. NothingNew /\ OnceKept /\ Offer(t) \in InFlight(Receiver)
    BY <1>1, <2>1, PeerTypes, ConsumeInFlight
  <2>3. answer'[t] = "asking" /\ \A x \in Transfers \ {t} : answer'[x] = answer[x]
    BY <1>1, <1>3 DEF OnOfferFile, TypeInv, TypeOK
  <2>4. CASE u # t
    BY <1>2, <2>1, <2>2, <2>3, <2>4, QuietAll
  <2>5. CASE u = t
    <3>1. answer[t] = "idle" /\ offerTask[t] = "sent"
      BY <1>1, <2>2 DEF Stages, OfferStage
    <3>2. Offer(t) \notin InFlight(Receiver)'
      <4>1. /\ Offer(t) \in opening[Receiver]
            /\ opening'[Receiver] = opening[Receiver] \ {Offer(t)}
        BY <1>1, <2>1, PeerTypes DEF Consume, TypeInv, TypeOK
      <4>2. \A i \in 1..Len(wire[Receiver]) : wire[Receiver][i] # Offer(t)
        BY <1>1, <4>1 DEF Stages, OfferStage, Once
      <4> QED
        BY <2>1, <4>1, <4>2 DEF InFlight
    <3>3. OfferStage(t)'
      BY <1>1, <1>2, <2>2, <3>1, <3>2, PeerTypes DEF Stages, OfferStage, Offer, OnceKept
    <3>4. AnswerStage(t)'
      BY <1>1, <1>2, <2>2, <2>3, <3>1, PeerTypes
      DEF Stages, AnswerStage, Acceptance, NothingNew, OnceKept
    <3>5. StreamStage(t)'
      BY <1>1, <1>2, <2>1, <2>2, PeerTypes DEF Stages, StreamStage, Complete, NothingNew
    <3>6. VerdictStage(t)'
      BY <1>1, <2>1, <2>2, PeerTypes DEF Stages, VerdictStage, Complete, NothingNew, OnceKept
    <3> QED
      BY <2>5, <3>3, <3>4, <3>5, <3>6 DEF Stages
  <2> QED
    BY <2>4, <2>5
<1>4. CASE Accept(t) \/ Reject(t)
  <2>1. /\ wire' = wire /\ opening' = opening /\ verify' = verify /\ saved' = saved
        /\ answer[t] = "asking"
    BY <1>4 DEF Accept, Reject, chanVars
  <2>2. /\ answer'[t] \in {"accepting", "rejecting", "dead"}
        /\ \A x \in Transfers \ {t} : answer'[x] = answer[x]
    BY <1>1, <1>4 DEF Accept, Reject, IfReady, TypeInv, TypeOK
  <2>3. InFlight(Receiver)' = InFlight(Receiver) /\ InFlight(Sender)' = InFlight(Sender)
    BY <2>1 DEF InFlight
  <2>4. \A q, m : Once(q, m)' <=> Once(q, m)
    BY <2>1 DEF Once
  <2>5. OfferStage(u)'
    BY <1>1, <1>2, <2>1, <2>2, <2>3, <2>4 DEF Stages, OfferStage, Offer
  <2>6. AnswerStage(u)'
    BY <1>1, <1>2, <2>1, <2>2, <2>3, <2>4 DEF Stages, AnswerStage, Acceptance
  <2>7. StreamStage(u)'
    BY <1>1, <1>2, <2>1, <2>3 DEF Stages, StreamStage
  <2>8. VerdictStage(u)'
    BY <1>1, <2>1, <2>3, <2>4 DEF Stages, VerdictStage, Complete
  <2> QED
    BY <2>5, <2>6, <2>7, <2>8 DEF Stages
<1>5. CASE SendAccept(t)
  <2>1. /\ Acceptance(t) \in Message /\ Transmit(Receiver, Acceptance(t))
        /\ opening' = opening /\ verify' = verify /\ saved' = saved
        /\ answer[t] = "accepting"
    BY <1>5, ControlType DEF SendAccept, ControlKind, Acceptance
  <2>2. /\ answer'[t] = IfReady(Receiver, "accepted")
        /\ \A x \in Transfers \ {t} : answer'[x] = answer[x]
    BY <1>1, <1>5 DEF SendAccept, TypeInv, TypeOK
  <2>3. CASE u # t
    BY <1>2, <2>1, <2>2, <2>3, PeerTypes, QuietTransmit DEF Acceptance, Control, ControlKind
  <2>4. CASE u = t
    <3>1. /\ Acceptance(t) \notin InFlight(Sender) /\ stream[t] = "idle"
          /\ Offer(t) \notin InFlight(Receiver) /\ offerTask[t] = "sent"
      BY <1>1, <2>1 DEF Stages, OfferStage, AnswerStage
    <3>2. Acceptance(t) # Offer(t) /\ Acceptance(t) # Complete(t)
      BY DEF Offer, Acceptance, Complete, Control
    <3>3. Other(Receiver) = Sender
      BY DEF Other, Sender, Receiver
    <3>4. /\ InFlight(Sender)' \subseteq InFlight(Sender) \cup {Acceptance(t)}
          /\ InFlight(Receiver)' = InFlight(Receiver)
          /\ \A q \in Peers : \A x : x # Acceptance(t) /\ Once(q, x) => Once(q, x)'
          /\ Once(Sender, Acceptance(t))'
          /\ ~Ready(Receiver) => InFlight(Sender)' = InFlight(Sender)
      BY <1>1, <2>1, <3>1, <3>3, PeerTypes, TransmitInFlight
    <3>5. answer'[t] # "accepted" => ~Ready(Receiver)
      BY <2>2 DEF IfReady
    <3>6. OfferStage(t)'
      BY <1>1, <1>2, <3>1, <3>2, <3>4, PeerTypes DEF Stages, OfferStage, Offer
    <3>7. AnswerStage(t)'
      BY <1>2, <3>1, <3>4, <3>5 DEF AnswerStage, Acceptance
    <3>8. StreamStage(t)'
      BY <1>1, <1>2, <2>1, <3>4 DEF Stages, StreamStage, Complete
    <3>9. VerdictStage(t)'
      BY <1>1, <2>1, <3>2, <3>4, PeerTypes DEF Stages, VerdictStage, Complete
    <3> QED
      BY <2>4, <3>6, <3>7, <3>8, <3>9 DEF Stages
  <2> QED
    BY <2>3, <2>4
<1>6. CASE SendReject(t)
  <2>1. /\ Control("reject-file", t) \in Message
        /\ Transmit(Receiver, Control("reject-file", t))
        /\ opening' = opening /\ verify' = verify /\ saved' = saved
        /\ answer[t] = "rejecting"
    BY <1>6, ControlType DEF SendReject, ControlKind
  <2>2. /\ answer'[t] \in {"rejected", "dead"}
        /\ \A x \in Transfers \ {t} : answer'[x] = answer[x]
    BY <1>1, <1>6 DEF SendReject, IfReady, TypeInv, TypeOK
  <2>3. CASE u # t
    BY <1>2, <2>1, <2>2, <2>3, PeerTypes, QuietTransmit DEF Control, ControlKind
  <2>4. CASE u = t
    <3> DEFINE m == Control("reject-file", t)
    <3>1. /\ Acceptance(t) \notin InFlight(Sender) /\ stream[t] = "idle"
          /\ Offer(t) \notin InFlight(Receiver) /\ offerTask[t] = "sent"
      BY <1>1, <2>1 DEF Stages, OfferStage, AnswerStage
    <3>2. m # Offer(t) /\ m # Acceptance(t) /\ m # Complete(t)
      BY DEF Offer, Acceptance, Complete, Control
    <3>3. Other(Receiver) = Sender
      BY DEF Other, Sender, Receiver
    <3>4. /\ InFlight(Sender)' \subseteq InFlight(Sender) \cup {m}
          /\ InFlight(Receiver)' = InFlight(Receiver)
          /\ \A q \in Peers : \A x : x # m /\ Once(q, x) => Once(q, x)'
      BY <1>1, <2>1, <3>3, PeerTypes, TransmitInFlight
    <3> HIDE DEF m
    <3>5. OfferStage(t)'
      BY <1>1, <1>2, <3>1, <3>2, <3>4, PeerTypes DEF Stages, OfferStage, Offer
    <3>6. AnswerStage(t)'
      BY <1>1, <1>2, <3>1, <3>2, <3>4, PeerTypes DEF Stages, AnswerStage, Acceptance
    <3>7. StreamStage(t)'
      BY <1>1, <1>2, <2>1, <3>4 DEF Stages, StreamStage, Complete
    <3>8. VerdictStage(t)'
      BY <1>1, <2>1, <3>2, <3>4, PeerTypes DEF Stages, VerdictStage, Complete
    <3> QED
      BY <2>4, <3>5, <3>6, <3>7, <3>8 DEF Stages
  <2> QED
    BY <2>3, <2>4
<1>7. CASE OnChunkFrame(t)
  <2>1. PICK i \in 1..Len(File[t]) : Consume(Receiver, Chunk(t, i))
    BY <1>7 DEF OnChunkFrame
  <2>2. wire' = wire /\ answer' = answer /\ verify' = verify /\ saved' = saved
    BY <1>7 DEF OnChunkFrame
  <2> QED
    BY <1>1, <1>2, <2>1, <2>2, PeerTypes, ConsumeInFlight, QuietAll
<1>8. CASE OnComplete(t)
  <2>1. /\ Consume(Receiver, Complete(t)) /\ wire' = wire /\ answer' = answer
        /\ saved' = saved
    BY <1>8 DEF OnComplete, Complete
  <2>2. NothingNew /\ OnceKept /\ Complete(t) \in InFlight(Receiver)
    BY <1>1, <2>1, PeerTypes, ConsumeInFlight
  <2>3. \A x \in Transfers \ {t} : verify'[x] = verify[x]
    BY <1>1, <1>8 DEF OnComplete, TypeInv, TypeOK
  <2>4. CASE u # t
    BY <1>2, <2>1, <2>2, <2>3, <2>4, QuietAll
  <2>5. CASE u = t
    <3>1. stream[t] = "done"
      BY <1>1, <2>2 DEF Stages, StreamStage
    <3>2. OfferStage(t)'
      BY <1>1, <1>2, <2>1, <2>2, PeerTypes
      DEF Stages, OfferStage, Offer, NothingNew, OnceKept
    <3>3. AnswerStage(t)'
      BY <1>1, <1>2, <2>1, <2>2, PeerTypes
      DEF Stages, AnswerStage, Acceptance, NothingNew, OnceKept
    <3>4. StreamStage(t)'
      BY <1>1, <1>2, <2>1, <3>1 DEF Stages, StreamStage
    <3>5. VerdictStage(t)'
      <4>1. /\ Complete(t) \in opening[Receiver]
            /\ opening'[Receiver] = opening[Receiver] \ {Complete(t)}
        BY <1>1, <2>1, PeerTypes DEF Consume, TypeInv, TypeOK
      <4>2. \A i \in 1..Len(wire[Receiver]) : wire[Receiver][i] # Complete(t)
        BY <1>1, <4>1 DEF Stages, VerdictStage, Once
      <4>3. Complete(t) \notin InFlight(Receiver)'
        BY <2>1, <4>1, <4>2 DEF InFlight
      <4>4. Once(Receiver, Complete(t))'
        BY <1>1, <2>2, PeerTypes DEF Stages, VerdictStage, OnceKept
      <4> QED
        BY <4>3, <4>4 DEF VerdictStage, Complete
    <3> QED
      BY <2>5, <3>2, <3>3, <3>4, <3>5 DEF Stages
  <2> QED
    BY <2>4, <2>5
<1>9. CASE Verify(t)
  <2>1. /\ wire' = wire /\ opening' = opening /\ answer' = answer
        /\ verify[t] = "hashing"
    BY <1>9 DEF Verify, chanVars
  <2>2. NothingNew /\ OnceKept
    BY <2>1 DEF NothingNew, OnceKept, InFlight, Once
  <2>3. \A x \in Transfers \ {t} : verify'[x] = verify[x] /\ saved'[x] = saved[x]
    BY <1>1, <1>9 DEF Verify, TypeInv, TypeOK
  <2>4. CASE u # t
    BY <1>2, <2>1, <2>2, <2>3, <2>4, QuietAll
  <2>5. CASE u = t
    <3>1. /\ stream[t] = "done"
          /\ saved[t] # NotSaved => saved[t] = File[t]
      BY <1>1, <2>1 DEF Stages, StreamStage
    <3>2. saved'[t] # NotSaved => saved'[t] = File[t]
      BY <1>1, <1>9, <3>1 DEF Verify, DigestMatches, TypeInv, TypeOK
    <3>3. OfferStage(t)'
      BY <1>1, <1>2, <2>1, <2>2, PeerTypes
      DEF Stages, OfferStage, Offer, NothingNew, OnceKept
    <3>4. AnswerStage(t)'
      BY <1>1, <1>2, <2>1, <2>2, PeerTypes
      DEF Stages, AnswerStage, Acceptance, NothingNew, OnceKept
    <3>5. StreamStage(t)'
      BY <1>2, <3>1, <3>2 DEF StreamStage
    <3>6. VerdictStage(t)'
      <4>1. Complete(t) \notin InFlight(Receiver)
        BY <1>1, <2>1 DEF Stages, VerdictStage
      <4>2. Complete(t) \notin InFlight(Receiver)' /\ Once(Receiver, Complete(t))'
        BY <1>1, <2>2, <4>1, PeerTypes DEF Stages, VerdictStage, NothingNew, OnceKept
      <4> QED
        BY <4>2 DEF VerdictStage, Complete
    <3> QED
      BY <2>5, <3>3, <3>4, <3>5, <3>6 DEF Stages
  <2> QED
    BY <2>4, <2>5
<1> QED
  BY <1>3, <1>4, <1>5, <1>6, <1>7, <1>8, <1>9 DEF ReceiverStep

LEMMA ConsentStep == ConsentInv /\ [Next]_vars => ConsentInv'
<1> SUFFICES ASSUME ConsentInv, [Next]_vars
             PROVE  ConsentInv'
  OBVIOUS
<1>1. TypeInv'
  BY TypeInvStep DEF ConsentInv
<1>2. ASSUME NEW u \in Transfers
      PROVE  Stages(u)'
  <2>1. CASE Next
    BY <2>1, ConsentChannel, ConsentSender, ConsentReceiver, ConsentCancel DEF Next
  <2>2. CASE UNCHANGED vars
    BY <2>2 DEF vars, ConsentInv, Stages, OfferStage, AnswerStage, StreamStage, VerdictStage,
                Once, InFlight, Offer, Acceptance, Complete
  <2> QED
    BY <2>1, <2>2
<1> QED
  BY <1>1, <1>2 DEF ConsentInv

\* Nothing of a file leaves the sender before the receiving user accepted it.
THEOREM ConsentComesFirst == Spec => []ConsentFirst
BY ConsentInit, ConsentStep, StagesImply, PTL DEF Spec

\* A file is saved only whole, in order, accepted and completely streamed.
THEOREM SavedFilesAreWhole == Spec => []SavedMeansSent
BY ConsentInit, ConsentStep, StagesImply, PTL DEF Spec

-----------------------------------------------------------------------------
(* Transfer implements FileDelivery: given ConsentInv, every step is a step *)
(* of FileDelivery or leaves what FileDelivery sees of the state unchanged. *)

Streamed(t) == stream[t] = "done"
Verdict(t) == IF verify[t] \in {"ok", "mismatch"} THEN verify[t] ELSE "none"

\* The state of FileDelivery about t does not change.
Unseen(t) == /\ Phase(t)' = Phase(t)
             /\ Streamed(t)' = Streamed(t)
             /\ Verdict(t)' = Verdict(t)
             /\ saved'[t] = saved[t]

LEMMA UnseenIfUnchanged ==
  ASSUME NEW t, answer'[t] = answer[t], offerTask'[t] = offerTask[t],
         stream'[t] = stream[t], verify'[t] = verify[t], saved'[t] = saved[t]
  PROVE  Unseen(t)
BY DEF Unseen, Phase, Streamed, Verdict

LEMMA AllUnseen ==
  ASSUME TypeOK, TypeOK', \A t \in Transfers : Unseen(t)
  PROVE  UNCHANGED Delivery!vars
<1>1. [t \in Transfers |-> Phase(t)]' = [t \in Transfers |-> Phase(t)]
  BY DEF Unseen
<1>2. [t \in Transfers |-> stream[t] = "done"]' = [t \in Transfers |-> stream[t] = "done"]
  BY DEF Unseen, Streamed
<1>3. [t \in Transfers |-> IF verify[t] \in {"ok", "mismatch"} THEN verify[t] ELSE "none"]'
      = [t \in Transfers |-> IF verify[t] \in {"ok", "mismatch"} THEN verify[t] ELSE "none"]
  BY DEF Unseen, Verdict
<1>4. saved' = saved
  BY DEF Unseen, TypeOK
<1> QED
  BY <1>1, <1>2, <1>3, <1>4 DEF Delivery!vars

LEMMA DeliveryInit == Init => Delivery!Init
<1> SUFFICES ASSUME Init
             PROVE  Delivery!Init
  OBVIOUS
<1>1. \A t \in Transfers : /\ Phase(t) = "idle"
                           /\ (stream[t] = "done") = FALSE
                           /\ verify[t] \notin {"ok", "mismatch"}
  BY DEF Init, Phase
<1>2. saved = [t \in Transfers |-> NotSaved]
  BY DEF Init
<1> QED
  BY <1>1, <1>2 DEF Delivery!Init

LEMMA Elsewhere ==
  ASSUME TypeOK, NEW t \in Transfers, SenderStep(t) \/ ReceiverStep(t),
         NEW u \in Transfers, u # t
  PROVE  Unseen(u)
<1>1. /\ answer'[u] = answer[u] /\ offerTask'[u] = offerTask[u] /\ stream'[u] = stream[u]
      /\ verify'[u] = verify[u] /\ saved'[u] = saved[u]
  BY DEF TypeOK, SenderStep, SendFile, SendOffer, OnAcceptFile, OnRejectFile, SendChunk,
         DigestDone, SendComplete, ReceiverStep, OnOfferFile, Accept, Reject, SendAccept,
         SendReject, OnChunkFrame, OnComplete, Verify, sendVars, recvVars
<1> QED
  BY <1>1, UnseenIfUnchanged

\* A step about t that FileDelivery does not see.
LEMMA StepUnseen ==
  ASSUME TypeOK, TypeOK', NEW t \in Transfers, SenderStep(t) \/ ReceiverStep(t), Unseen(t)
  PROVE  UNCHANGED Delivery!vars
BY Elsewhere, AllUnseen

\* A step about t that changes the phase, the stream or the verdict: the abstract
\* functions are updated at t and nowhere else.
LEMMA StepSeen ==
  ASSUME TypeOK, TypeOK', NEW t \in Transfers, SenderStep(t) \/ ReceiverStep(t)
  PROVE  /\ [u \in Transfers |-> Phase(u)]'
              = [[u \in Transfers |-> Phase(u)] EXCEPT ![t] = Phase(t)']
         /\ [u \in Transfers |-> stream[u] = "done"]'
              = [[u \in Transfers |-> stream[u] = "done"] EXCEPT ![t] = Streamed(t)']
         /\ [u \in Transfers |-> IF verify[u] \in {"ok", "mismatch"} THEN verify[u] ELSE "none"]'
              = [[u \in Transfers |-> IF verify[u] \in {"ok", "mismatch"}
                                      THEN verify[u] ELSE "none"]
                   EXCEPT ![t] = Verdict(t)']
         /\ saved' = [saved EXCEPT ![t] = saved'[t]]
<1>1. \A u \in Transfers \ {t} : Unseen(u)
  BY Elsewhere
<1>2. \A u \in Transfers \ {t} : Phase(u)' = Phase(u)
  BY <1>1 DEF Unseen
<1>3. \A u \in Transfers \ {t} : (stream[u] = "done")' = (stream[u] = "done")
  BY <1>1 DEF Unseen, Streamed
<1>4. \A u \in Transfers \ {t} :
        (IF verify[u] \in {"ok", "mismatch"} THEN verify[u] ELSE "none")'
          = (IF verify[u] \in {"ok", "mismatch"} THEN verify[u] ELSE "none")
  BY <1>1 DEF Unseen, Verdict
<1>5. \A u \in Transfers \ {t} : saved'[u] = saved[u]
  BY <1>1 DEF Unseen
<1>6. saved' = [saved EXCEPT ![t] = saved'[t]]
  BY <1>5 DEF TypeOK
<1> QED
  BY <1>2, <1>3, <1>4, <1>6 DEF Streamed, Verdict

LEMMA SenderDelivers ==
  ASSUME TypeOK, TypeOK', InBounds, NEW t \in Transfers, Stages(t), SenderStep(t)
  PROVE  Delivery!Next \/ UNCHANGED Delivery!vars
<1>1. answer' = answer /\ verify' = verify /\ saved' = saved
  BY DEF SenderStep, SendFile, SendOffer, OnAcceptFile, OnRejectFile,
         SendChunk, DigestDone, SendComplete, recvVars
<1>2. CASE SendOffer(t) /\ Ready(Sender)
  <2>1. offerTask[t] = "sealing" /\ offerTask'[t] = "sent" /\ stream' = stream
    BY <1>2 DEF SendOffer, IfReady, TypeOK
  <2>2. answer[t] = "idle"
    BY <2>1 DEF Stages, OfferStage
  <2>3. Phase(t) = "idle" /\ Phase(t)' = "offered"
    BY <1>1, <2>1, <2>2 DEF Phase
  <2>4. Delivery!Offer(t)
    BY <1>1, <2>1, <2>3, StepSeen DEF Delivery!Offer
  <2> QED
    BY <2>4 DEF Delivery!Next
<1>3. CASE SendComplete(t) /\ Ready(Sender)
  <2>1. stream[t] = "sealing" /\ stream'[t] = "done" /\ offerTask' = offerTask
    BY <1>3 DEF SendComplete, IfReady, TypeOK
  <2>2. answer[t] = "accepted"
    BY <2>1 DEF Stages, AnswerStage
  <2>3. /\ Phase(t) = "accepted" /\ \A u \in Transfers : Phase(u)' = Phase(u)
        /\ ~Streamed(t) /\ Streamed(t)' = TRUE
    BY <1>1, <2>1, <2>2 DEF Phase, Streamed
  <2>4. Delivery!Stream(t)
    BY <1>1, <2>3, StepSeen DEF Delivery!Stream, Streamed
  <2> QED
    BY <2>4 DEF Delivery!Next
<1>4. CASE ~(SendOffer(t) /\ Ready(Sender)) /\ ~(SendComplete(t) /\ Ready(Sender))
  <2>1. Phase(t)' = Phase(t)
    <3>1. offerTask'[t] = offerTask[t] \/ (offerTask[t] # "sent" /\ offerTask'[t] # "sent")
      <4>1. CASE SendFile(t) \/ SendOffer(t)
        BY <1>4, <4>1 DEF SendFile, SendOffer, IfReady, TypeOK
      <4>2. CASE ~SendFile(t) /\ ~SendOffer(t)
        BY <4>2 DEF SenderStep, OnAcceptFile, OnRejectFile, SendChunk, DigestDone,
                    SendComplete
      <4> QED
        BY <4>1, <4>2
    <3> QED
      BY <1>1, <3>1 DEF Phase
  <2>2. Streamed(t)' = Streamed(t)
    <3>1. CASE SendFile(t) \/ SendOffer(t) \/ OnRejectFile(t)
      BY <3>1 DEF SendFile, SendOffer, OnRejectFile, Streamed
    <3>2. CASE OnAcceptFile(t)
      <4>1. Acceptance(t) \in InFlight(Sender)
        BY <3>2 DEF OnAcceptFile, Consume, Acceptance, InFlight
      <4>2. stream[t] = "idle"
        BY <4>1 DEF Stages, AnswerStage
      <4>3. LoopHead(t, 0, "active") # "done"
        BY FileAssumption, LoopHeadType
      <4>4. stream'[t] \in {stream[t], LoopHead(t, 0, "active")}
        BY <3>2 DEF OnAcceptFile, TypeOK
      <4> QED
        BY <4>2, <4>3, <4>4 DEF Streamed
    <3>3. CASE SendChunk(t)
      <4>1. stream[t] = "chunk" /\ nextSeq[t] + 1 \in 0..Len(File[t])
        <5>1. stream[t] = "chunk" /\ nextSeq[t] < Len(File[t])
          BY <3>3 DEF SendChunk, InBounds
        <5>2. nextSeq[t] \in Nat /\ Len(File[t]) \in Nat
          BY FileAssumption DEF TypeOK
        <5> QED
          BY <5>1, <5>2
      <4>2. LoopHead(t, nextSeq[t] + 1, outState[t]) # "done"
        BY <4>1, LoopHeadType
      <4>3. stream'[t] \in {"dead", LoopHead(t, nextSeq[t] + 1, outState[t])}
        BY <3>3 DEF SendChunk, TypeOK
      <4> QED
        BY <4>1, <4>2, <4>3 DEF Streamed
    <3>4. CASE DigestDone(t)
      BY <3>4 DEF DigestDone, IfReady, TypeOK, Streamed
    <3>5. CASE SendComplete(t)
      BY <1>4, <3>5 DEF SendComplete, IfReady, TypeOK, Streamed
    <3> QED
      BY <3>1, <3>2, <3>3, <3>4, <3>5 DEF SenderStep
  <2> QED
    BY <1>1, <2>1, <2>2, StepUnseen DEF Unseen, Verdict
<1> QED
  BY <1>2, <1>3, <1>4

LEMMA ReceiverDelivers ==
  ASSUME TypeOK, TypeOK', NEW t \in Transfers, Stages(t), ReceiverStep(t)
  PROVE  Delivery!Next \/ UNCHANGED Delivery!vars
<1>1. offerTask' = offerTask /\ stream' = stream
  BY DEF ReceiverStep, OnOfferFile, Accept, Reject, SendAccept, SendReject,
         OnChunkFrame, OnComplete, Verify, sendVars
<1>2. CASE SendAccept(t) \/ SendReject(t)
  <2>1. /\ verify' = verify /\ saved' = saved
        /\ answer[t] \in {"accepting", "rejecting"}
        /\ answer'[t] \in {"accepted", "rejected", "dead"}
    BY <1>2 DEF SendAccept, SendReject, IfReady, TypeOK
  <2>2. offerTask[t] = "sent"
    BY <2>1 DEF Stages, OfferStage
  <2>3. Phase(t) = "offered"
    BY <2>1, <2>2 DEF Phase
  <2>4. CASE answer'[t] = "dead"
    <3>1. Phase(t)' = "offered"
      BY <1>1, <2>2, <2>4 DEF Phase
    <3> QED
      BY <1>1, <2>1, <2>3, <3>1, StepUnseen DEF Unseen, Streamed, Verdict
  <2>5. CASE answer'[t] \in {"accepted", "rejected"}
    <3>1. Phase(t)' = answer'[t]
      BY <2>5 DEF Phase
    <3>2. Delivery!Answer(t, answer'[t])
      BY <1>1, <2>1, <2>3, <3>1, StepSeen DEF Delivery!Answer
    <3> QED
      BY <2>5, <3>2 DEF Delivery!Next
  <2> QED
    BY <2>1, <2>4, <2>5
<1>3. CASE OnOfferFile(t) \/ Accept(t) \/ Reject(t)
  <2>1. verify' = verify /\ saved' = saved
    BY <1>3 DEF OnOfferFile, Accept, Reject
  <2>2. answer[t] \notin {"accepted", "rejected"} /\ answer'[t] \notin {"accepted", "rejected"}
    <3>1. CASE OnOfferFile(t)
      <4>1. Offer(t) \in InFlight(Receiver)
        BY <3>1 DEF OnOfferFile, Consume, Offer, InFlight
      <4>2. answer[t] = "idle"
        BY <4>1 DEF Stages, OfferStage
      <4> QED
        BY <3>1, <4>2 DEF OnOfferFile, TypeOK
    <3>2. CASE Accept(t) \/ Reject(t)
      BY <3>2 DEF Accept, Reject, IfReady, TypeOK
    <3> QED
      BY <1>3, <3>1, <3>2
  <2>3. Phase(t)' = Phase(t)
    BY <1>1, <2>2 DEF Phase
  <2> QED
    BY <1>1, <2>1, <2>3, StepUnseen DEF Unseen, Streamed, Verdict
<1>4. CASE OnChunkFrame(t)
  <2>1. answer' = answer /\ verify' = verify /\ saved' = saved
    BY <1>4 DEF OnChunkFrame
  <2> QED
    BY <1>1, <2>1, UnseenIfUnchanged, StepUnseen
<1>5. CASE OnComplete(t)
  <2>1. answer' = answer /\ saved' = saved
    BY <1>5 DEF OnComplete
  <2>2. Complete(t) \in InFlight(Receiver)
    BY <1>5 DEF OnComplete, Consume, Complete, InFlight
  <2>3. verify[t] = "idle" /\ verify'[t] \in {"idle", "hashing"}
    BY <1>5, <2>2 DEF Stages, VerdictStage, OnComplete, TypeOK
  <2> QED
    BY <1>1, <2>1, <2>3, StepUnseen DEF Unseen, Phase, Streamed, Verdict
<1>6. CASE Verify(t)
  <2>1. verify[t] = "hashing" /\ answer' = answer
    BY <1>6 DEF Verify
  <2>2. Streamed(t) /\ Verdict(t) = "none"
    BY <2>1 DEF Stages, StreamStage, Streamed, Verdict
  <2>3. Phase(t)' = Phase(t) /\ \A u \in Transfers : Phase(u)' = Phase(u)
    BY <1>1, <2>1 DEF Phase
  <2>4. /\ [u \in Transfers |-> Phase(u)]' = [u \in Transfers |-> Phase(u)]
        /\ [u \in Transfers |-> stream[u] = "done"]' = [u \in Transfers |-> stream[u] = "done"]
    BY <1>1, <2>3
  <2>5. [u \in Transfers |-> IF verify[u] \in {"ok", "mismatch"} THEN verify[u] ELSE "none"]'
          = [[u \in Transfers |-> IF verify[u] \in {"ok", "mismatch"}
                                  THEN verify[u] ELSE "none"] EXCEPT ![t] = Verdict(t)']
    BY StepSeen
  <2>6. CASE DigestMatches(t)
    <3>1. Verdict(t)' = "ok" /\ saved' = [saved EXCEPT ![t] = File[t]]
      BY <1>6, <2>6 DEF Verify, DigestMatches, Verdict, TypeOK
    <3>2. Delivery!Deliver(t)
      BY <2>2, <2>4, <2>5, <3>1 DEF Delivery!Deliver, Streamed, Verdict
    <3> QED
      BY <3>2 DEF Delivery!Next
  <2>7. CASE ~DigestMatches(t)
    <3>1. Verdict(t)' = "mismatch" /\ saved' = saved
      BY <1>6, <2>7 DEF Verify, Verdict, TypeOK
    <3>2. Delivery!Fail(t)
      BY <2>2, <2>4, <2>5, <3>1 DEF Delivery!Fail, Streamed, Verdict
    <3> QED
      BY <3>2 DEF Delivery!Next
  <2> QED
    BY <2>6, <2>7
<1> QED
  BY <1>2, <1>3, <1>4, <1>5, <1>6 DEF ReceiverStep

LEMMA DeliveryStep == ConsentInv /\ ConsentInv' /\ [Next]_vars => [Delivery!Next]_(Delivery!vars)
<1> SUFFICES ASSUME ConsentInv, ConsentInv', [Next]_vars
             PROVE  Delivery!Next \/ UNCHANGED Delivery!vars
  OBVIOUS
<1>1. TypeOK /\ TypeOK' /\ InBounds /\ \A t \in Transfers : Stages(t)
  BY DEF ConsentInv, TypeInv
<1>2. ASSUME NEW p \in Peers, ChannelStep(p)
      PROVE  UNCHANGED Delivery!vars
  <2>1. UNCHANGED <<offerTask, answer, stream, verify, saved>>
    BY <1>2 DEF ChannelStep, Drain, Arrive, ConnectionLost, Close, OnClose,
                sendVars, recvVars
  <2> QED
    BY <1>1, <2>1, UnseenIfUnchanged, AllUnseen
<1>3. ASSUME NEW p \in Peers, NEW t \in Transfers, CancelStep(p, t)
      PROVE  UNCHANGED Delivery!vars
  <2>1. UNCHANGED <<offerTask, answer, stream, verify, saved>>
    BY <1>3 DEF CancelStep, Cancel, SendCancel, OnCancel, sendVars, recvVars
  <2> QED
    BY <1>1, <2>1, UnseenIfUnchanged, AllUnseen
<1>4. ASSUME NEW t \in Transfers, SenderStep(t)
      PROVE  Delivery!Next \/ UNCHANGED Delivery!vars
  BY <1>1, <1>4, SenderDelivers
<1>5. ASSUME NEW t \in Transfers, ReceiverStep(t)
      PROVE  Delivery!Next \/ UNCHANGED Delivery!vars
  BY <1>1, <1>5, ReceiverDelivers
<1>6. CASE UNCHANGED vars
  BY <1>1, <1>6, UnseenIfUnchanged, AllUnseen DEF vars
<1> QED
  BY <1>2, <1>3, <1>4, <1>5, <1>6 DEF Next

\* The two peers implement FileDelivery: what the users are promised about each
\* file holds of every run of sendFile, onOfferFile, streamChunks and onComplete.
THEOREM TransferDelivers == Spec => DeliverySpec
<1>1. Spec => []ConsentInv
  BY ConsentInit, ConsentStep, PTL DEF Spec
<1> QED
  BY <1>1, DeliveryInit, DeliveryStep, PTL DEF Spec, DeliverySpec, Delivery!Spec

(***************************************************************************)
(* What becomes of the chunks and the complete message of a transfer, for  *)
(* all transfers, files and bounds: with one decryption at a time, that    *)
(* the file is merged complete and in order and that a cancel which is     *)
(* ahead of the complete message wins; with any number, that no chunk is   *)
(* lost or kept twice and that the receiver's cancel stops the stream.     *)
(***************************************************************************)

-----------------------------------------------------------------------------
(* The head of streamChunks' loop.                                         *)

LEMMA LoopHeadDigest ==
  ASSUME NEW t \in Transfers, NEW n \in 0..Len(File[t]), NEW s,
         LoopHead(t, n, s) = "digest"
  PROVE  n = Len(File[t])
BY FileAssumption DEF LoopHead, IfReady

-----------------------------------------------------------------------------
(* One decryption at a time: frames are handled in the order they were     *)
(* sent.  What the receiver has yet to handle is then one sequence.        *)

Pipe == IF opening[Receiver] = {} THEN wire[Receiver]
        ELSE <<CHOOSE m \in opening[Receiver] : TRUE>> \o wire[Receiver]

IsChunk(m, t) == m.kind = "chunk" /\ m.id = t

\* The first k messages of q hold chunk s of t.
Holds(t, q, k, s) == \E i \in 1..k : q[i] = Chunk(t, s)

\* A receiver that has n chunks of t and handles q gets the others in order,
\* and all of them before the complete message.
InOrder(t, q, n) ==
  \A j \in 1..Len(q) :
    /\ IsChunk(q[j], t) =>
         /\ q[j].seq \in (n + 1)..Len(File[t])
         /\ q[j] = Chunk(t, q[j].seq)
         /\ \A s \in (n + 1)..(q[j].seq - 1) : Holds(t, q, j - 1, s)
         /\ \A i \in 1..(j - 1) : IsChunk(q[i], t) => q[i].seq < q[j].seq
    /\ q[j] = Complete(t) => \A s \in (n + 1)..Len(File[t]) : Holds(t, q, j - 1, s)

\* With q it gets all of the first k.
AllSent(t, q, n, k) ==
  /\ n <= k
  /\ \A s \in (n + 1)..k : Holds(t, q, Len(q), s)
  /\ \A j \in 1..Len(q) : IsChunk(q[j], t) => q[j].seq <= k

LEMMA ChunkFields ==
  ASSUME NEW t, NEW s
  PROVE  /\ Chunk(t, s).kind = "chunk" /\ Chunk(t, s).id = t /\ Chunk(t, s).seq = s
         /\ Chunk(t, s).data = File[t][s]
         /\ IsChunk(Chunk(t, s), t)
         /\ \A u : IsChunk(Chunk(t, s), u) => u = t
         /\ \A k, u : ~IsChunk(Control(k, u), t) \/ k = "chunk"
         /\ \A u : Chunk(t, s) # Complete(u)
         /\ ~IsChunk(Complete(t), t)
BY DEF Chunk, IsChunk, Control, Complete

\* The four ways q changes.
LEMMA PrefixInOrder ==
  ASSUME NEW t, NEW n \in Nat, NEW q \in Seq(Message), NEW r \in Seq(Message),
         InOrder(t, q, n), Len(r) <= Len(q), \A i \in 1..Len(r) : r[i] = q[i]
  PROVE  InOrder(t, r, n)
<1> SUFFICES ASSUME NEW j \in 1..Len(r)
             PROVE  /\ IsChunk(r[j], t) =>
                         /\ r[j].seq \in (n + 1)..Len(File[t])
                         /\ r[j] = Chunk(t, r[j].seq)
                         /\ \A s \in (n + 1)..(r[j].seq - 1) : Holds(t, r, j - 1, s)
                         /\ \A i \in 1..(j - 1) : IsChunk(r[i], t) => r[i].seq < r[j].seq
                    /\ r[j] = Complete(t) =>
                         \A s \in (n + 1)..Len(File[t]) : Holds(t, r, j - 1, s)
  BY DEF InOrder
<1>1. j \in 1..Len(q) /\ r[j] = q[j] /\ \A i \in 1..(j - 1) : r[i] = q[i]
  OBVIOUS
<1>2. \A s : Holds(t, q, j - 1, s) => Holds(t, r, j - 1, s)
  BY <1>1 DEF Holds
<1> QED
  BY <1>1, <1>2 DEF InOrder

LEMMA TailInOrder ==
  ASSUME NEW t, NEW n \in Nat, NEW q \in Seq(Message), q # <<>>,
         InOrder(t, q, n), Len(File[t]) \in Nat
  PROVE  /\ ~IsChunk(Head(q), t) => InOrder(t, Tail(q), n)
         /\ IsChunk(Head(q), t) => /\ Head(q) = Chunk(t, n + 1)
                                   /\ n + 1 <= Len(File[t])
                                   /\ InOrder(t, Tail(q), n + 1)
         /\ Head(q) = Complete(t) => n >= Len(File[t])
<1> DEFINE r == Tail(q)
<1>1. /\ Len(q) \in Nat \ {0} /\ r \in Seq(Message) /\ Len(r) = Len(q) - 1
      /\ \A i \in 1..Len(r) : r[i] = q[i + 1]
      /\ Head(q) = q[1] /\ 1 \in 1..Len(q)
  OBVIOUS
<1>2. Len(File[t]) \in Nat
  OBVIOUS
<1>3. \A s : ~Holds(t, q, 0, s)
  BY DEF Holds
<1>4. IsChunk(q[1], t) => /\ q[1] = Chunk(t, n + 1) /\ q[1].seq = n + 1
                          /\ n + 1 <= Len(File[t])
  <2> SUFFICES ASSUME IsChunk(q[1], t)
               PROVE  /\ q[1] = Chunk(t, n + 1) /\ q[1].seq = n + 1
                      /\ n + 1 <= Len(File[t])
    OBVIOUS
  <2>1. /\ q[1].seq \in (n + 1)..Len(File[t]) /\ q[1] = Chunk(t, q[1].seq)
        /\ \A s \in (n + 1)..(q[1].seq - 1) : Holds(t, q, 1 - 1, s)
    BY <1>1 DEF InOrder
  <2>2. ~(n + 1 \in (n + 1)..(q[1].seq - 1))
    BY <1>3, <2>1
  <2>3. q[1].seq = n + 1
    BY <1>2, <2>1, <2>2
  <2> QED
    BY <1>2, <2>1, <2>3
<1>5. q[1] = Complete(t) => n >= Len(File[t])
  <2> SUFFICES ASSUME q[1] = Complete(t)
               PROVE  n >= Len(File[t])
    OBVIOUS
  <2>1. \A s \in (n + 1)..Len(File[t]) : Holds(t, q, 1 - 1, s)
    BY <1>1 DEF InOrder
  <2>2. ~(n + 1 \in (n + 1)..Len(File[t]))
    BY <1>3, <2>1
  <2> QED
    BY <1>2, <2>2
<1>6. ASSUME NEW k \in {n, n + 1}, k = IF IsChunk(q[1], t) THEN n + 1 ELSE n
      PROVE  InOrder(t, r, k)
  <2> SUFFICES ASSUME NEW j \in 1..Len(r)
               PROVE  /\ IsChunk(r[j], t) =>
                           /\ r[j].seq \in (k + 1)..Len(File[t])
                           /\ r[j] = Chunk(t, r[j].seq)
                           /\ \A s \in (k + 1)..(r[j].seq - 1) : Holds(t, r, j - 1, s)
                           /\ \A i \in 1..(j - 1) : IsChunk(r[i], t) => r[i].seq < r[j].seq
                      /\ r[j] = Complete(t) =>
                           \A s \in (k + 1)..Len(File[t]) : Holds(t, r, j - 1, s)
    BY DEF InOrder
  <2>1. j + 1 \in 1..Len(q) /\ r[j] = q[j + 1] /\ k \in Nat /\ (j + 1) - 1 = j /\ k >= n
    BY <1>1
  <2>2. ASSUME NEW s \in Int, s >= k + 1, Holds(t, q, j, s)
        PROVE  Holds(t, r, j - 1, s)
    <3>1. PICK i \in 1..j : q[i] = Chunk(t, s)
      BY <2>2 DEF Holds
    <3>2. i # 1
      <4> SUFFICES ASSUME i = 1
                   PROVE  FALSE
        OBVIOUS
      <4>1. IsChunk(q[1], t) /\ q[1].seq = s
        BY <3>1, ChunkFields
      <4> QED
        BY <1>4, <1>6, <2>2, <4>1
    <3>3. i - 1 \in 1..(j - 1) /\ r[i - 1] = q[i]
      BY <1>1, <3>1, <3>2
    <3> QED
      BY <3>1, <3>3 DEF Holds
  <2>3. ASSUME IsChunk(r[j], t)
        PROVE  /\ r[j].seq \in (k + 1)..Len(File[t])
               /\ r[j] = Chunk(t, r[j].seq)
               /\ \A s \in (k + 1)..(r[j].seq - 1) : Holds(t, r, j - 1, s)
               /\ \A i \in 1..(j - 1) : IsChunk(r[i], t) => r[i].seq < r[j].seq
    <3>1. /\ q[j + 1].seq \in (n + 1)..Len(File[t])
          /\ q[j + 1] = Chunk(t, q[j + 1].seq)
          /\ \A s \in (n + 1)..(q[j + 1].seq - 1) : Holds(t, q, (j + 1) - 1, s)
          /\ \A i \in 1..((j + 1) - 1) : IsChunk(q[i], t) => q[i].seq < q[j + 1].seq
      BY <2>1, <2>3 DEF InOrder
    <3>2. r[j].seq \in (k + 1)..Len(File[t])
      <4>1. CASE IsChunk(q[1], t)
        <5>1. 1 \in 1..((j + 1) - 1)
          OBVIOUS
        <5>2. q[1].seq < q[j + 1].seq
          BY <3>1, <4>1, <5>1
        <5> QED
          BY <1>2, <1>4, <1>6, <2>1, <3>1, <4>1, <5>2
      <4>2. CASE ~IsChunk(q[1], t)
        BY <1>6, <2>1, <3>1, <4>2
      <4> QED
        BY <4>1, <4>2
    <3>3. ASSUME NEW s \in (k + 1)..(r[j].seq - 1)
          PROVE  Holds(t, r, j - 1, s)
      <4>1. s \in (n + 1)..(q[j + 1].seq - 1) /\ s \in Int /\ s >= k + 1
        BY <2>1, <3>2
      <4>2. Holds(t, q, j, s)
        BY <2>1, <3>1, <4>1
      <4> QED
        BY <2>2, <4>1, <4>2
    <3>4. ASSUME NEW i \in 1..(j - 1), IsChunk(r[i], t)
          PROVE  r[i].seq < r[j].seq
      <4>1. i + 1 \in 1..((j + 1) - 1) /\ r[i] = q[i + 1]
        BY <1>1
      <4> QED
        BY <2>1, <3>1, <3>4, <4>1
    <3> QED
      BY <2>1, <3>1, <3>2, <3>3, <3>4
  <2>4. ASSUME r[j] = Complete(t), NEW s \in (k + 1)..Len(File[t])
        PROVE  Holds(t, r, j - 1, s)
    <3>1. s \in (n + 1)..Len(File[t]) /\ s \in Int /\ s >= k + 1
      BY <1>2, <2>1
    <3>2. \A x \in (n + 1)..Len(File[t]) : Holds(t, q, (j + 1) - 1, x)
      BY <2>1, <2>4 DEF InOrder
    <3> QED
      BY <2>1, <2>2, <3>1, <3>2
  <2> QED
    BY <2>3, <2>4
<1>7. CASE IsChunk(q[1], t)
  BY <1>1, <1>4, <1>5, <1>6, <1>7
<1>8. CASE ~IsChunk(q[1], t)
  BY <1>1, <1>4, <1>5, <1>6, <1>8
<1> QED
  BY <1>7, <1>8

LEMMA TailAllSent ==
  ASSUME NEW t, NEW n \in Nat, NEW k \in Nat, NEW q \in Seq(Message), q # <<>>,
         InOrder(t, q, n), AllSent(t, q, n, k), Len(File[t]) \in Nat
  PROVE  /\ ~IsChunk(Head(q), t) => AllSent(t, Tail(q), n, k)
         /\ IsChunk(Head(q), t) => AllSent(t, Tail(q), n + 1, k)
<1> DEFINE r == Tail(q)
<1>1. /\ Len(q) \in Nat \ {0} /\ r \in Seq(Message) /\ Len(r) = Len(q) - 1
      /\ \A i \in 1..Len(r) : r[i] = q[i + 1]
      /\ Head(q) = q[1] /\ 1 \in 1..Len(q)
  OBVIOUS
<1>2. IsChunk(q[1], t) => q[1] = Chunk(t, n + 1) /\ q[1].seq = n + 1
  BY <1>1, TailInOrder, ChunkFields
<1>3. ASSUME NEW c \in {n, n + 1}, c = IF IsChunk(q[1], t) THEN n + 1 ELSE n
      PROVE  AllSent(t, r, c, k)
  <2>1. c <= k
    <3>1. CASE IsChunk(q[1], t)
      <4>1. q[1].seq <= k
        BY <1>1, <3>1 DEF AllSent
      <4> QED
        BY <1>2, <1>3, <3>1, <4>1
    <3>2. CASE ~IsChunk(q[1], t)
      BY <1>3, <3>2 DEF AllSent
    <3> QED
      BY <3>1, <3>2
  <2>2. ASSUME NEW s \in (c + 1)..k
        PROVE  Holds(t, r, Len(r), s)
    <3>1. s \in (n + 1)..k /\ s > c
      BY <1>3
    <3>2. PICK i \in 1..Len(q) : q[i] = Chunk(t, s)
      BY <3>1 DEF AllSent, Holds
    <3>3. i # 1
      <4> SUFFICES ASSUME i = 1
                   PROVE  FALSE
        OBVIOUS
      <4>1. IsChunk(q[1], t) /\ q[1].seq = s
        BY <3>2, ChunkFields
      <4> QED
        BY <1>2, <1>3, <3>1, <4>1
    <3>4. i - 1 \in 1..Len(r) /\ r[i - 1] = q[i]
      BY <1>1, <3>2, <3>3
    <3> QED
      BY <3>2, <3>4 DEF Holds
  <2>3. ASSUME NEW j \in 1..Len(r), IsChunk(r[j], t)
        PROVE  r[j].seq <= k
    <3>1. j + 1 \in 1..Len(q) /\ r[j] = q[j + 1]
      BY <1>1
    <3> QED
      BY <2>3, <3>1 DEF AllSent
  <2> QED
    BY <2>1, <2>2, <2>3 DEF AllSent
<1>4. CASE IsChunk(q[1], t)
  BY <1>1, <1>3, <1>4
<1>5. CASE ~IsChunk(q[1], t)
  BY <1>1, <1>3, <1>5
<1> QED
  BY <1>4, <1>5

LEMMA AppendInOrder ==
  ASSUME NEW t, NEW n \in Nat, NEW q \in Seq(Message), NEW m \in Message,
         InOrder(t, q, n), Len(File[t]) \in Nat,
         m = Complete(t) => AllSent(t, q, n, Len(File[t])),
         IsChunk(m, t) => \E k \in Nat : /\ m = Chunk(t, k + 1)
                                         /\ k + 1 <= Len(File[t])
                                         /\ AllSent(t, q, n, k)
  PROVE  InOrder(t, Append(q, m), n)
<1> DEFINE r == Append(q, m)
<1>1. /\ Len(q) \in Nat /\ r \in Seq(Message) /\ Len(r) = Len(q) + 1
      /\ \A i \in 1..Len(q) : r[i] = q[i]
      /\ r[Len(q) + 1] = m
  BY AppendProperties
<1>2. ASSUME NEW j \in 0..Len(q), NEW s, Holds(t, q, j, s)
      PROVE  Holds(t, r, j, s)
  BY <1>1, <1>2 DEF Holds
<1>3. ASSUME NEW j \in 1..Len(q)
      PROVE  /\ IsChunk(r[j], t) =>
                  /\ r[j].seq \in (n + 1)..Len(File[t])
                  /\ r[j] = Chunk(t, r[j].seq)
                  /\ \A s \in (n + 1)..(r[j].seq - 1) : Holds(t, r, j - 1, s)
                  /\ \A i \in 1..(j - 1) : IsChunk(r[i], t) => r[i].seq < r[j].seq
             /\ r[j] = Complete(t) =>
                  \A s \in (n + 1)..Len(File[t]) : Holds(t, r, j - 1, s)
  <2>1. r[j] = q[j] /\ j - 1 \in 0..Len(q) /\ \A i \in 1..(j - 1) : r[i] = q[i]
    BY <1>1
  <2>2. \A s : Holds(t, q, j - 1, s) => Holds(t, r, j - 1, s)
    BY <1>2, <2>1
  <2> QED
    BY <2>1, <2>2 DEF InOrder
<1>4. Len(q) + 1 - 1 = Len(q) /\ Len(q) \in 0..Len(q)
  BY <1>1
<1>5. ASSUME IsChunk(m, t)
      PROVE  /\ m.seq \in (n + 1)..Len(File[t])
             /\ m = Chunk(t, m.seq)
             /\ \A s \in (n + 1)..(m.seq - 1) : Holds(t, r, Len(q), s)
             /\ \A i \in 1..Len(q) : IsChunk(r[i], t) => r[i].seq < m.seq
  <2>1. PICK k \in Nat : /\ m = Chunk(t, k + 1) /\ k + 1 <= Len(File[t])
                         /\ AllSent(t, q, n, k)
    BY <1>5
  <2>2. m.seq = k + 1
    BY <2>1, ChunkFields
  <2>3. n <= k
    BY <2>1 DEF AllSent
  <2>4. ASSUME NEW s \in (n + 1)..(m.seq - 1)
        PROVE  Holds(t, r, Len(q), s)
    <3>1. s \in (n + 1)..k
      BY <2>2
    <3>2. Holds(t, q, Len(q), s)
      BY <2>1, <3>1 DEF AllSent
    <3> QED
      BY <1>2, <1>4, <3>2
  <2>5. ASSUME NEW i \in 1..Len(q), IsChunk(r[i], t)
        PROVE  r[i].seq < m.seq
    <3>1. IsChunk(q[i], t) /\ r[i] = q[i]
      BY <1>1, <2>5
    <3>2. q[i].seq <= k
      BY <2>1, <3>1 DEF AllSent
    <3>3. q[i].seq \in Int
      BY <1>1, <3>1 DEF InOrder
    <3> QED
      BY <2>2, <3>1, <3>2, <3>3
  <2> QED
    BY <2>1, <2>2, <2>3, <2>4, <2>5
<1>6. ASSUME m = Complete(t), NEW s \in (n + 1)..Len(File[t])
      PROVE  Holds(t, r, Len(q), s)
  <2>1. Holds(t, q, Len(q), s)
    BY <1>6 DEF AllSent
  <2> QED
    BY <1>2, <1>4, <2>1
<1>7. ASSUME NEW j \in 1..Len(r), j \notin 1..Len(q)
      PROVE  j = Len(q) + 1
  BY <1>1, <1>7
<1> HIDE DEF r
<1>8. ASSUME NEW j \in 1..Len(r)
      PROVE  /\ IsChunk(r[j], t) =>
                  /\ r[j].seq \in (n + 1)..Len(File[t])
                  /\ r[j] = Chunk(t, r[j].seq)
                  /\ \A s \in (n + 1)..(r[j].seq - 1) : Holds(t, r, j - 1, s)
                  /\ \A i \in 1..(j - 1) : IsChunk(r[i], t) => r[i].seq < r[j].seq
             /\ r[j] = Complete(t) =>
                  \A s \in (n + 1)..Len(File[t]) : Holds(t, r, j - 1, s)
  <2>1. CASE j \in 1..Len(q)
    BY <1>3, <2>1
  <2>2. CASE j \notin 1..Len(q)
    <3>1. j - 1 = Len(q) /\ r[j] = m
      BY <1>1, <1>4, <1>7, <2>2
    <3> QED
      BY <1>5, <1>6, <3>1
  <2> QED
    BY <2>1, <2>2
<1>9. InOrder(t, r, n)
  BY <1>8 DEF InOrder
<1> QED
  BY <1>9 DEF r

LEMMA AppendAllSent ==
  ASSUME NEW t, NEW n \in Nat, NEW k \in Nat, NEW q \in Seq(Message), NEW m \in Message,
         AllSent(t, q, n, k)
  PROVE  /\ ~IsChunk(m, t) => AllSent(t, Append(q, m), n, k)
         /\ m = Chunk(t, k + 1) => /\ AllSent(t, Append(q, m), n, k + 1)
                                   /\ \A j \in 1..Len(q) : q[j] # m
<1> DEFINE r == Append(q, m)
<1>1. /\ Len(q) \in Nat /\ r \in Seq(Message) /\ Len(r) = Len(q) + 1
      /\ \A i \in 1..Len(q) : r[i] = q[i]
      /\ r[Len(q) + 1] = m
  BY AppendProperties
<1>2. \A j \in 1..Len(r) : j \in 1..Len(q) \/ j = Len(q) + 1
  BY <1>1
<1>3. Len(q) + 1 \in 1..Len(r) /\ 1..Len(q) \subseteq 1..Len(r)
  BY <1>1
<1>4. \A s : Holds(t, q, Len(q), s) => Holds(t, r, Len(r), s)
  BY <1>1, <1>3 DEF Holds
<1>5. /\ n <= k /\ \A s \in (n + 1)..k : Holds(t, q, Len(q), s)
      /\ \A j \in 1..Len(q) : IsChunk(q[j], t) => q[j].seq <= k
  BY DEF AllSent
<1> HIDE DEF r
<1>6. ASSUME ~IsChunk(m, t)
      PROVE  AllSent(t, r, n, k)
  BY <1>1, <1>2, <1>4, <1>5, <1>6 DEF AllSent
<1>7. ASSUME m = Chunk(t, k + 1)
      PROVE  AllSent(t, r, n, k + 1) /\ \A j \in 1..Len(q) : q[j] # m
  <2>1. IsChunk(m, t) /\ m.seq = k + 1
    BY <1>7, ChunkFields
  <2>2. ASSUME NEW j \in 1..Len(q)
        PROVE  q[j] # m
    BY <1>5, <2>1
  <2>3. Holds(t, r, Len(r), k + 1)
    BY <1>1, <1>3, <1>7 DEF Holds
  <2>4. ASSUME NEW s \in (n + 1)..(k + 1)
        PROVE  Holds(t, r, Len(r), s)
    <3>1. s \in (n + 1)..k \/ s = k + 1
      OBVIOUS
    <3> QED
      BY <1>4, <1>5, <2>3, <3>1
  <2>5. ASSUME NEW j \in 1..Len(r), IsChunk(r[j], t)
        PROVE  r[j].seq <= k + 1
    <3>1. CASE j = Len(q) + 1
      BY <1>1, <2>1, <3>1
    <3>2. CASE j \in 1..Len(q)
      <4>1. r[j].seq <= k /\ r[j] = q[j]
        BY <1>1, <1>5, <2>5, <3>2
      <4>2. q[j].seq \in Nat
        <5>1. q[j] \in Message /\ q[j].kind = "chunk"
          BY <2>5, <3>2, <4>1 DEF IsChunk
        <5> QED
          BY <5>1 DEF Message, ControlKind
      <4> QED
        BY <4>1, <4>2
    <3> QED
      BY <1>2, <3>1, <3>2
  <2> QED
    BY <1>5, <2>2, <2>4, <2>5 DEF AllSent
<1> QED
  BY <1>6, <1>7 DEF r

-----------------------------------------------------------------------------
(* What nextSeq says of a stream, and the entry of its offer's answer.     *)

Counted(t) ==
  /\ stream[t] = "idle" => nextSeq[t] = 0
  /\ stream[t] \in {"digest", "sealing", "done"} => nextSeq[t] = Len(File[t])
  /\ t \in incoming => answer[t] # "idle"

CountInv == ConsentInv /\ \A t \in Transfers : Counted(t)

LEMMA CountInit == Init => CountInv
BY ConsentInit DEF Init, CountInv, Counted

LEMMA CountStep == CountInv /\ [Next]_vars => CountInv'
<1> SUFFICES ASSUME CountInv, [Next]_vars
             PROVE  CountInv'
  OBVIOUS
<1>1. ConsentInv /\ ConsentInv' /\ TypeInv
  BY ConsentStep DEF CountInv, ConsentInv
<1>2. ASSUME NEW u \in Transfers
      PROVE  Counted(u)'
  <2>1. Counted(u)
    BY DEF CountInv
  <2>2. CASE UNCHANGED vars
    BY <2>1, <2>2 DEF vars, Counted
  <2>3. ASSUME NEW p \in Peers, ChannelStep(p)
        PROVE  Counted(u)'
    <3>1. /\ stream' = stream /\ nextSeq' = nextSeq /\ incoming' = incoming
          /\ answer' = answer
      BY <2>3 DEF ChannelStep, Drain, Arrive, ConnectionLost, Close, OnClose, sendVars, recvVars
    <3> QED
      BY <2>1, <3>1 DEF Counted
  <2>4. ASSUME NEW p \in Peers, NEW t \in Transfers, CancelStep(p, t)
        PROVE  Counted(u)'
    <3>1. /\ stream' = stream /\ nextSeq' = nextSeq /\ incoming' \subseteq incoming
          /\ answer' = answer
      BY <2>4 DEF CancelStep, Cancel, SendCancel, OnCancel, sendVars, recvVars
    <3> QED
      BY <2>1, <3>1 DEF Counted
  <2>5. ASSUME NEW t \in Transfers, ReceiverStep(t)
        PROVE  Counted(u)'
    <3>1. /\ stream' = stream /\ nextSeq' = nextSeq
          /\ answer'[u] # answer[u] => answer'[u] # "idle"
          /\ u \in incoming' \ incoming => answer'[u] # "idle"
      BY <1>1, <2>5 DEF ReceiverStep, OnOfferFile, Accept, Reject, SendAccept, SendReject,
           OnChunkFrame, OnComplete, Verify, sendVars, IfReady, TypeInv, TypeOK
    <3> QED
      BY <2>1, <3>1 DEF Counted
  <2>6. ASSUME NEW t \in Transfers, SenderStep(t)
        PROVE  Counted(u)'
    <3>1. incoming' = incoming /\ answer' = answer
      BY <2>6 DEF SenderStep, SendFile, SendOffer, OnAcceptFile, OnRejectFile, SendChunk,
                  DigestDone, SendComplete, recvVars
    <3>2. CASE SendFile(t) \/ SendOffer(t) \/ OnRejectFile(t)
      <4>1. stream' = stream /\ nextSeq' = nextSeq
        BY <3>2 DEF SendFile, SendOffer, OnRejectFile
      <4> QED
        BY <2>1, <3>1, <4>1 DEF Counted
    <3>3. CASE DigestDone(t) \/ SendComplete(t)
      <4>1. /\ nextSeq' = nextSeq /\ stream[t] \in {"digest", "sealing"}
            /\ \E pc \in {"sealing", "done", "dead"} : stream' = [stream EXCEPT ![t] = pc]
        BY <3>3 DEF DigestDone, SendComplete, IfReady
      <4> QED
        BY <1>1, <2>1, <3>1, <4>1 DEF Counted, TypeInv, TypeOK
    <3>4. CASE OnAcceptFile(t)
      <4>1. CASE t \in outgoing
        <5>1. /\ nextSeq' = [nextSeq EXCEPT ![t] = 0]
              /\ stream' = [stream EXCEPT ![t] = LoopHead(t, 0, "active")]
          BY <3>4, <4>1 DEF OnAcceptFile
        <5>2. /\ LoopHead(t, 0, "active") \in {"chunk", "digest", "stopped", "dead"}
              /\ LoopHead(t, 0, "active") = "digest" => Len(File[t]) = 0
          BY FileAssumption, LoopHeadType, LoopHeadDigest
        <5> QED
          BY <1>1, <2>1, <3>1, <5>1, <5>2 DEF Counted, TypeInv, TypeOK
      <4>2. CASE t \notin outgoing
        BY <2>1, <3>1, <3>4, <4>2 DEF OnAcceptFile, Counted
      <4> QED
        BY <4>1, <4>2
    <3>5. CASE SendChunk(t)
      <4>1. CASE Ready(Sender)
        <5>1. /\ nextSeq' = [nextSeq EXCEPT ![t] = @ + 1]
              /\ stream' = [stream EXCEPT ![t] = LoopHead(t, nextSeq[t] + 1, outState[t])]
          BY <3>5, <4>1 DEF SendChunk
        <5>2. nextSeq[t] + 1 \in 0..Len(File[t])
          BY <1>1, <3>5, FileAssumption DEF SendChunk, TypeInv, TypeOK, InBounds
        <5>3. /\ LoopHead(t, nextSeq[t] + 1, outState[t]) \in
                   {"chunk", "digest", "stopped", "dead"}
              /\ LoopHead(t, nextSeq[t] + 1, outState[t]) = "digest"
                   => nextSeq[t] + 1 = Len(File[t])
          BY <5>2, LoopHeadType, LoopHeadDigest
        <5> QED
          BY <1>1, <2>1, <3>1, <5>1, <5>3 DEF Counted, TypeInv, TypeOK
      <4>2. CASE ~Ready(Sender)
        <5>1. nextSeq' = nextSeq /\ stream' = [stream EXCEPT ![t] = "dead"]
          BY <3>5, <4>2 DEF SendChunk
        <5> QED
          BY <1>1, <2>1, <3>1, <5>1 DEF Counted, TypeInv, TypeOK
      <4> QED
        BY <4>1, <4>2
    <3> QED
      BY <2>6, <3>2, <3>3, <3>4, <3>5 DEF SenderStep
  <2> QED
    BY <2>2, <2>3, <2>4, <2>5, <2>6 DEF Next
<1> QED
  BY <1>1, <1>2 DEF CountInv

-----------------------------------------------------------------------------
(* How a step changes what the receiver has yet to handle.                 *)

Up == Ready(Sender) /\ chan[Receiver] # "gone"

OneAtATime == \A p \in Peers : opening[p] = {} \/ \E m \in Message : opening[p] = {m}

\* Sequences with one element before them.
LEMMA SmallConcat ==
  ASSUME NEW S, NEW x \in S, NEW w \in Seq(S), NEW m \in S
  PROVE  /\ <<x>> \o w # <<>> /\ Head(<<x>> \o w) = x /\ Tail(<<x>> \o w) = w
         /\ <<x>> \o Append(w, m) = Append(<<x>> \o w, m)
OBVIOUS

LEMMA PipeType ==
  ASSUME TypeInv, OneAtATime
  PROVE  /\ Pipe \in Seq(Message)
         /\ \A j \in 1..Len(Pipe) : Pipe[j] \in InFlight(Receiver)
         /\ opening[Receiver] = {} => Pipe = wire[Receiver]
         /\ \A m : opening[Receiver] = {m} => Pipe = <<m>> \o wire[Receiver]
<1>1. wire[Receiver] \in Seq(Message) /\ opening[Receiver] \in SUBSET Message
  BY PeerTypes, WireType
<1>2. CASE opening[Receiver] = {}
  BY <1>1, <1>2 DEF Pipe, InFlight
<1>3. CASE opening[Receiver] # {}
  <2>1. PICK m \in Message : opening[Receiver] = {m}
    BY <1>3, PeerTypes DEF OneAtATime
  <2>2. Pipe = <<m>> \o wire[Receiver]
    BY <2>1 DEF Pipe
  <2>3. <<m>> \in Seq(Message)
    OBVIOUS
  <2>4. /\ Pipe \in Seq(Message) /\ Len(Pipe) = 1 + Len(wire[Receiver])
        /\ \A j \in 1..Len(Pipe) : Pipe[j] = IF j = 1 THEN m ELSE wire[Receiver][j - 1]
    BY <1>1, <2>2, <2>3, ConcatProperties
  <2>5. ASSUME NEW j \in 1..Len(Pipe)
        PROVE  Pipe[j] \in InFlight(Receiver)
    <3>1. CASE j = 1
      BY <2>1, <2>4, <3>1 DEF InFlight
    <3>2. CASE j # 1
      <4>1. j - 1 \in 1..Len(wire[Receiver]) /\ Pipe[j] = wire[Receiver][j - 1]
        BY <1>1, <2>4, <3>2
      <4> QED
        BY <4>1 DEF InFlight
    <3> QED
      BY <3>1, <3>2
  <2>6. \A x : opening[Receiver] = {x} => x = m
    BY <2>1
  <2> QED
    BY <1>3, <2>2, <2>4, <2>5, <2>6
<1> QED
  BY <1>2, <1>3

LEMMA SamePipe ==
  ASSUME wire'[Receiver] = wire[Receiver], opening'[Receiver] = opening[Receiver]
  PROVE  Pipe' = Pipe
BY DEF Pipe

\* A message taken off the wire for decryption stays where it is in the order.
LEMMA ArrivePipe ==
  ASSUME TypeInv, OneAtATime, Workers = 1, NEW p \in Peers, Arrive(p)
  PROVE  Pipe' = Pipe /\ OneAtATime'
<1>1. wire[p] \in Seq(Message) /\ wire[p] # <<>> /\ opening \in [Peers -> SUBSET Message]
  BY OtherType DEF Arrive, Arrived, TypeInv, TypeOK
<1>2. opening[p] = {}
  <2> SUFFICES ASSUME NEW m \in Message, opening[p] = {m}
               PROVE  FALSE
    BY DEF OneAtATime
  <2>1. Cardinality({m}) = 1
    BY FS_Singleton
  <2> QED
    BY <2>1 DEF Arrive
<1>3. /\ wire' = [wire EXCEPT ![p] = Tail(@)]
      /\ opening' = [opening EXCEPT ![p] = {Head(wire[p])}]
  BY <1>2 DEF Arrive
<1>4. Head(wire[p]) \in Message
  BY <1>1
<1>5. /\ wire'[p] = Tail(wire[p]) /\ opening'[p] = {Head(wire[p])}
      /\ \A q \in Peers \ {p} : wire'[q] = wire[q] /\ opening'[q] = opening[q]
  BY <1>1, <1>3 DEF TypeInv, TypeOK
<1>6. OneAtATime'
  BY <1>4, <1>5 DEF OneAtATime
<1>7. CASE p = Receiver
  <2>1. Pipe = wire[p]
    BY <1>2, <1>7, PipeType
  <2>2. (CHOOSE m \in {Head(wire[p])} : TRUE) = Head(wire[p])
    OBVIOUS
  <2>3. {Head(wire[p])} # {}
    OBVIOUS
  <2>4. Pipe' = <<Head(wire[p])>> \o Tail(wire[p])
    BY <1>5, <1>7, <2>2, <2>3 DEF Pipe
  <2>5. <<Head(wire[p])>> \o Tail(wire[p]) = wire[p]
    BY <1>1, HeadTailProperties
  <2> QED
    BY <1>6, <2>1, <2>4, <2>5
<1>8. CASE p # Receiver
  BY <1>5, <1>6, <1>8, PeerTypes, SamePipe
<1> QED
  BY <1>7, <1>8

LEMMA ConsumePipe ==
  ASSUME TypeInv, OneAtATime, NEW m, Consume(Receiver, m), wire' = wire
  PROVE  Pipe # <<>> /\ Head(Pipe) = m /\ Pipe' = Tail(Pipe) /\ OneAtATime'
<1>1. /\ m \in opening[Receiver]
      /\ opening' = [opening EXCEPT ![Receiver] = opening[Receiver] \ {m}]
      /\ opening \in [Peers -> SUBSET Message] /\ wire[Receiver] \in Seq(Message)
  BY PeerTypes DEF Consume, TypeInv, TypeOK
<1>2. opening[Receiver] = {m} /\ m \in Message
  BY <1>1, PeerTypes DEF OneAtATime
<1>3. /\ opening'[Receiver] = {}
      /\ \A q \in Peers \ {Receiver} : opening'[q] = opening[q]
  BY <1>1, <1>2, PeerTypes
<1>4. Pipe = <<m>> \o wire[Receiver] /\ Pipe' = wire[Receiver]
  BY <1>2, <1>3, PipeType DEF Pipe
<1>5. Pipe # <<>> /\ Head(Pipe) = m /\ Tail(Pipe) = wire[Receiver]
  BY <1>1, <1>2, <1>4, SmallConcat
<1> QED
  BY <1>3, <1>4, <1>5 DEF OneAtATime

LEMMA TransmitPipe ==
  ASSUME TypeInv, OneAtATime, NEW p \in Peers, NEW m \in Message, Transmit(p, m),
         opening' = opening, chan' = chan
  PROVE  /\ Pipe' = IF p = Sender /\ Up THEN Append(Pipe, m) ELSE Pipe
         /\ Up' <=> Up
<1>0. Up' <=> Up
  BY DEF Up, Ready
<1>1. wire \in [Peers -> Seq(Message)] /\ wire[Receiver] \in Seq(Message)
  BY PeerTypes DEF TypeInv, TypeOK
<1>2. CASE p = Sender /\ Up
  <2>1. wire' = [wire EXCEPT ![Receiver] = Append(@, m)]
    BY <1>2 DEF Transmit, Up, Other
  <2>2. wire'[Receiver] = Append(wire[Receiver], m)
    BY <1>1, <2>1, PeerTypes
  <2>3. CASE opening[Receiver] = {}
    BY <1>0, <1>2, <2>2, <2>3 DEF Pipe
  <2>4. CASE opening[Receiver] # {}
    <3>1. PICK x \in Message : opening[Receiver] = {x}
      BY <2>4, PeerTypes DEF OneAtATime
    <3>2. Pipe = <<x>> \o wire[Receiver] /\ Pipe' = <<x>> \o Append(wire[Receiver], m)
      BY <2>2, <3>1 DEF Pipe
    <3>3. <<x>> \o Append(wire[Receiver], m) = Append(<<x>> \o wire[Receiver], m)
      BY <1>1, <3>1, SmallConcat
    <3> QED
      BY <1>0, <1>2, <3>2, <3>3
  <2> QED
    BY <2>3, <2>4
<1>3. CASE ~(p = Sender /\ Up)
  <2>1. wire'[Receiver] = wire[Receiver]
    <3>1. CASE p = Sender
      BY <1>3, <3>1 DEF Transmit, Up, Other
    <3>2. CASE p # Sender
      <4>1. Other(p) = Sender /\ Sender # Receiver
        BY <3>2 DEF Other, Peers, Sender, Receiver
      <4> QED
        BY <1>1, <4>1, PeerTypes DEF Transmit
    <3> QED
      BY <3>1, <3>2
  <2> QED
    BY <1>0, <1>3, <2>1, SamePipe
<1> QED
  BY <1>2, <1>3

LEMMA CutPipe ==
  ASSUME TypeInv, OneAtATime, opening'[Receiver] = opening[Receiver], NEW k \in Int,
         k <= Len(wire[Receiver]), wire'[Receiver] = SubSeq(wire[Receiver], 1, k)
  PROVE  /\ Pipe' \in Seq(Message)
         /\ Len(Pipe') <= Len(Pipe)
         /\ \A j \in 1..Len(Pipe') : Pipe'[j] = Pipe[j]
<1>1. wire[Receiver] \in Seq(Message)
  BY PeerTypes, WireType
<1>2. /\ wire'[Receiver] \in Seq(Message)
      /\ Len(wire'[Receiver]) <= Len(wire[Receiver])
      /\ \A i \in 1..Len(wire'[Receiver]) : wire'[Receiver][i] = wire[Receiver][i]
  BY <1>1, PrefixProperties
<1>3. CASE opening[Receiver] = {}
  BY <1>2, <1>3 DEF Pipe
<1>4. CASE opening[Receiver] # {}
  <2>1. PICK m \in Message : opening[Receiver] = {m}
    BY <1>4, PeerTypes DEF OneAtATime
  <2>2. Pipe = <<m>> \o wire[Receiver] /\ Pipe' = <<m>> \o wire'[Receiver]
    BY <2>1 DEF Pipe
  <2>3. /\ Len(Pipe) = 1 + Len(wire[Receiver])
        /\ \A j \in 1..Len(Pipe) : Pipe[j] = IF j = 1 THEN m ELSE wire[Receiver][j - 1]
    BY <1>1, <2>1, <2>2, ConcatProperties
  <2>4. <<m>> \in Seq(Message)
    BY <2>1
  <2>5. ASSUME NEW w \in Seq(Message)
        PROVE  /\ <<m>> \o w \in Seq(Message) /\ Len(<<m>> \o w) = 1 + Len(w)
               /\ \A j \in 1..(1 + Len(w)) :
                    (<<m>> \o w)[j] = IF j = 1 THEN m ELSE w[j - 1]
    BY <2>4, ConcatProperties
  <2>6. /\ Pipe' \in Seq(Message) /\ Len(Pipe') = 1 + Len(wire'[Receiver])
        /\ \A j \in 1..Len(Pipe') :
             Pipe'[j] = IF j = 1 THEN m ELSE wire'[Receiver][j - 1]
    BY <1>2, <2>2, <2>5
  <2>7. ASSUME NEW j \in 1..Len(Pipe')
        PROVE  Pipe'[j] = Pipe[j]
    <3>1. j \in 1..Len(Pipe)
      BY <1>1, <1>2, <2>3, <2>6
    <3>2. j # 1 => j - 1 \in 1..Len(wire'[Receiver])
      BY <1>2, <2>6
    <3> QED
      BY <1>2, <2>3, <2>6, <3>1, <3>2
  <2> QED
    BY <1>1, <1>2, <2>3, <2>6, <2>7
<1> QED
  BY <1>3, <1>4

\* A channel that closes keeps a prefix, and nothing more is put on it.
LEMMA CloseCuts ==
  ASSUME TypeInv, NEW p \in Peers, Close(p) \/ OnClose(p)
  PROVE  /\ opening' = opening /\ ~Up'
         /\ \E k \in Int : /\ k <= Len(wire[Receiver])
                           /\ wire'[Receiver] = SubSeq(wire[Receiver], 1, k)
<1>1. Peers = {p, Other(p)} /\ Other(p) # p
  BY DEF Other, Peers, Sender, Receiver
<1>2. /\ Arrived(p) \in Int /\ Arrived(p) <= Len(wire[p])
      /\ Arrived(Other(p)) \in Int /\ Arrived(Other(p)) <= Len(wire[Other(p)])
  BY OtherType DEF Arrived, TypeInv, TypeOK
<1>3. \A q \in Peers : /\ Len(wire[q]) \in Int
                       /\ SubSeq(wire[q], 1, Len(wire[q])) = wire[q]
  BY WireType
<1>4. \A k \in 0..Arrived(p) : k \in Int /\ k <= Len(wire[p])
  BY <1>2, <1>3
<1>5. CASE Close(p)
  <2>1. PICK k \in 0..Arrived(p) :
          wire' = [wire EXCEPT ![p] = SubSeq(@, 1, k),
                               ![Other(p)] = SubSeq(@, 1, Arrived(Other(p)))]
    BY <1>5 DEF Close
  <2>2. /\ wire'[p] = SubSeq(wire[p], 1, k)
        /\ wire'[Other(p)] = SubSeq(wire[Other(p)], 1, Arrived(Other(p)))
    BY <1>1, <2>1 DEF TypeInv, TypeOK
  <2>3. \E n \in Int : n <= Len(wire[p]) /\ wire'[p] = SubSeq(wire[p], 1, n)
    BY <1>4, <2>2
  <2>4. \E n \in Int : /\ n <= Len(wire[Other(p)])
                       /\ wire'[Other(p)] = SubSeq(wire[Other(p)], 1, n)
    BY <1>2, <2>2
  <2>5. opening' = opening /\ chan'[p] = "gone"
    BY <1>5 DEF Close, TypeInv, TypeOK
  <2>6. ~Up'
    BY <2>5 DEF Up, Ready, Peers
  <2> QED
    BY <1>1, <2>3, <2>4, <2>5, <2>6, PeerTypes
<1>6. CASE OnClose(p)
  <2>1. PICK k \in 0..Arrived(p) : wire' = [wire EXCEPT ![p] = SubSeq(@, 1, k)]
    BY <1>6 DEF OnClose
  <2>2. wire'[p] = SubSeq(wire[p], 1, k) /\ wire'[Other(p)] = wire[Other(p)]
    BY <1>1, <2>1 DEF TypeInv, TypeOK
  <2>3. \E n \in Int : n <= Len(wire[p]) /\ wire'[p] = SubSeq(wire[p], 1, n)
    BY <1>4, <2>2
  <2>6. \E n \in Int : /\ n <= Len(wire[Other(p)])
                       /\ wire'[Other(p)] = SubSeq(wire[Other(p)], 1, n)
    BY <1>1, <1>3, <2>2
  <2>4. /\ opening' = opening /\ chan'[Other(p)] = "gone" /\ chan'[p] = "closed"
    BY <1>1, <1>6 DEF OnClose, TypeInv, TypeOK
  <2>5. ~Up'
    BY <2>4 DEF Up, Ready, Other, Peers
  <2> QED
    BY <1>1, <2>3, <2>4, <2>5, <2>6, PeerTypes
<1> QED
  BY <1>5, <1>6

-----------------------------------------------------------------------------
(* No false mismatch.                                                      *)

\* A receiver holding the blocks c of t is missing nothing.
Entry(t, q, c, k, up) ==
  /\ Len(c) <= Len(File[t])
  /\ \A i \in 1..Len(c) : c[i] = File[t][i]
  /\ InOrder(t, q, Len(c))
  /\ up => AllSent(t, q, Len(c), k)

OrderStage(t) ==
  /\ t \in incoming => Entry(t, Pipe, chunks[t], nextSeq[t], Up)
  /\ verify[t] = "hashing" => merged[t] = File[t]
  /\ verify[t] # "mismatch"

OrderInv == CountInv /\ OneAtATime /\ \A t \in Transfers : OrderStage(t)

LEMMA FileLength == \A t \in Transfers : File[t] \in Seq(Block) /\ Len(File[t]) \in Nat
BY FileAssumption

\* Nothing of t is on its way, and nothing has come.
LEMMA NoEntry ==
  ASSUME NEW t \in Transfers, NEW q \in Seq(Message), NEW up,
         \A j \in 1..Len(q) : ~Data(t, q[j])
  PROVE  Entry(t, q, <<>>, 0, up)
<1>1. \A j \in 1..Len(q) : ~IsChunk(q[j], t) /\ q[j] # Complete(t)
  BY DEF Data, IsChunk, Complete, Control
<1>2. /\ Len(<<>>) = 0 /\ Len(File[t]) \in Nat
      /\ \A s \in 1..0 : FALSE
  BY FileLength
<1>3. InOrder(t, q, 0)
  BY <1>1 DEF InOrder
<1>4. AllSent(t, q, 0, 0)
  BY <1>1 DEF AllSent
<1> QED
  BY <1>2, <1>3, <1>4 DEF Entry

LEMMA ConsumeEntry ==
  ASSUME NEW t \in Transfers, NEW q \in Seq(Message), NEW c \in Seq(Block), NEW k \in Nat,
         NEW up, Entry(t, q, c, k, up), q # <<>>
  PROVE  /\ ~IsChunk(Head(q), t) => Entry(t, Tail(q), c, k, up)
         /\ IsChunk(Head(q), t) => Entry(t, Tail(q), Append(c, Head(q).data), k, up)
         /\ Head(q) = Complete(t) => c = File[t]
<1>1. /\ Len(c) \in Nat /\ Len(File[t]) \in Nat /\ InOrder(t, q, Len(c))
      /\ Len(c) <= Len(File[t]) /\ \A i \in 1..Len(c) : c[i] = File[t][i]
      /\ up => AllSent(t, q, Len(c), k)
  BY FileLength DEF Entry
<1>2. ASSUME ~IsChunk(Head(q), t)
      PROVE  Entry(t, Tail(q), c, k, up)
  <2>1. InOrder(t, Tail(q), Len(c))
    BY <1>1, <1>2, TailInOrder
  <2>2. up => AllSent(t, Tail(q), Len(c), k)
    BY <1>1, <1>2, TailAllSent
  <2> QED
    BY <1>1, <2>1, <2>2 DEF Entry
<1>3. ASSUME IsChunk(Head(q), t)
      PROVE  Entry(t, Tail(q), Append(c, Head(q).data), k, up)
  <2>1. /\ Head(q) = Chunk(t, Len(c) + 1) /\ Len(c) + 1 <= Len(File[t])
        /\ InOrder(t, Tail(q), Len(c) + 1)
    BY <1>1, <1>3, TailInOrder
  <2>2. up => AllSent(t, Tail(q), Len(c) + 1, k)
    BY <1>1, <1>3, TailAllSent
  <2>3. Head(q).data = File[t][Len(c) + 1]
    BY <2>1, ChunkFields
  <2>4. File[t][Len(c) + 1] \in Block
    BY <1>1, <2>1, FileLength
  <2> DEFINE d == Append(c, File[t][Len(c) + 1])
  <2>5. /\ Len(d) = Len(c) + 1
        /\ \A i \in 1..Len(c) : d[i] = c[i]
        /\ d[Len(c) + 1] = File[t][Len(c) + 1]
    BY <2>4, AppendProperties
  <2>6. \A i \in 1..Len(d) : d[i] = File[t][i]
    <3> SUFFICES ASSUME NEW i \in 1..Len(d)
                 PROVE  d[i] = File[t][i]
      OBVIOUS
    <3>1. i \in 1..Len(c) \/ i = Len(c) + 1
      BY <1>1, <2>5
    <3> HIDE DEF d
    <3> QED
      BY <1>1, <2>5, <3>1
  <2> HIDE DEF d
  <2>7. Entry(t, Tail(q), d, k, up)
    BY <2>1, <2>2, <2>5, <2>6 DEF Entry
  <2> QED
    BY <2>3, <2>7 DEF d
<1>4. ASSUME Head(q) = Complete(t)
      PROVE  c = File[t]
  <2>1. Len(c) >= Len(File[t])
    BY <1>1, <1>4, TailInOrder
  <2>2. Len(c) = Len(File[t]) /\ File[t] \in Seq(Block)
    BY <1>1, <2>1, FileLength
  <2> QED
    BY <1>1, <2>2, SeqEqual
<1> QED
  BY <1>2, <1>3, <1>4

LEMMA AppendEntry ==
  ASSUME NEW t \in Transfers, NEW q \in Seq(Message), NEW c \in Seq(Block), NEW k \in Nat,
         NEW m \in Message, Entry(t, q, c, k, TRUE),
         m = Complete(t) => k = Len(File[t]),
         IsChunk(m, t) => m = Chunk(t, k + 1) /\ k + 1 <= Len(File[t])
  PROVE  Entry(t, Append(q, m), c, IF IsChunk(m, t) THEN k + 1 ELSE k, TRUE)
<1>1. /\ Len(c) \in Nat /\ Len(File[t]) \in Nat /\ InOrder(t, q, Len(c))
      /\ AllSent(t, q, Len(c), k)
  BY FileLength DEF Entry
<1>2. InOrder(t, Append(q, m), Len(c))
  <2>1. m = Complete(t) => AllSent(t, q, Len(c), Len(File[t]))
    BY <1>1
  <2>2. IsChunk(m, t) => \E x \in Nat : /\ m = Chunk(t, x + 1) /\ x + 1 <= Len(File[t])
                                        /\ AllSent(t, q, Len(c), x)
    BY <1>1
  <2> QED
    BY <1>1, <2>1, <2>2, AppendInOrder
<1>3. AllSent(t, Append(q, m), Len(c), IF IsChunk(m, t) THEN k + 1 ELSE k)
  BY <1>1, AppendAllSent
<1> QED
  BY <1>2, <1>3 DEF Entry

LEMMA PrefixEntry ==
  ASSUME NEW t \in Transfers, NEW q \in Seq(Message), NEW r \in Seq(Message),
         NEW c \in Seq(Block), NEW k, NEW l, NEW up, Entry(t, q, c, k, up),
         Len(r) <= Len(q), \A i \in 1..Len(r) : r[i] = q[i]
  PROVE  Entry(t, r, c, l, FALSE)
BY PrefixInOrder DEF Entry

LEMMA OrderInit == Init => OrderInv
<1> SUFFICES ASSUME Init
             PROVE  OrderInv
  OBVIOUS
<1>1. CountInv
  BY CountInit
<1>2. OneAtATime /\ \A t \in Transfers : OrderStage(t)
  BY DEF Init, OneAtATime, OrderStage
<1> QED
  BY <1>1, <1>2 DEF OrderInv

\* What the stages of u need of a step, by how the step touches the channel.
LEMMA OrderTypes ==
  ASSUME OrderInv, NEW u \in Transfers
  PROVE  /\ TypeInv /\ OneAtATime /\ OrderStage(u) /\ Stages(u) /\ Counted(u)
         /\ Pipe \in Seq(Message) /\ chunks[u] \in Seq(Block) /\ nextSeq[u] \in Nat
<1>1. TypeInv /\ OneAtATime
  BY DEF OrderInv, CountInv, ConsentInv
<1> QED
  BY <1>1, PipeType DEF OrderInv, CountInv, ConsentInv, TypeInv, TypeOK

LEMMA OrderStill ==
  ASSUME OrderInv, NEW u \in Transfers,
         Pipe' = Pipe, Up' => Up, nextSeq'[u] = nextSeq[u], chunks'[u] = chunks[u],
         u \in incoming' => u \in incoming,
         verify'[u] = verify[u], merged'[u] = merged[u]
  PROVE  OrderStage(u)'
<1>1. OrderStage(u)
  BY OrderTypes
<1>2. u \in incoming' => Entry(u, Pipe', chunks'[u], nextSeq'[u], Up')
  BY <1>1 DEF OrderStage, Entry
<1> QED
  BY <1>1, <1>2 DEF OrderStage

LEMMA OrderConsume ==
  ASSUME OrderInv, NEW p \in Peers, NEW m, Consume(p, m), wire' = wire, chan' = chan,
         NEW u \in Transfers, p = Receiver => ~IsChunk(m, u),
         nextSeq'[u] = nextSeq[u], chunks'[u] = chunks[u],
         u \in incoming' => u \in incoming,
         verify'[u] = verify[u], merged'[u] = merged[u]
  PROVE  OrderStage(u)'
<1>1. /\ TypeInv /\ OneAtATime /\ OrderStage(u) /\ Pipe \in Seq(Message)
      /\ chunks[u] \in Seq(Block) /\ nextSeq[u] \in Nat
  BY OrderTypes
<1>2. Up' = Up
  BY DEF Up, Ready
<1>3. CASE p = Receiver
  <2>1. Pipe # <<>> /\ Head(Pipe) = m /\ Pipe' = Tail(Pipe)
    BY <1>1, <1>3, ConsumePipe
  <2>2. u \in incoming => Entry(u, Tail(Pipe), chunks[u], nextSeq[u], Up)
    BY <1>1, <1>3, <2>1, ConsumeEntry DEF OrderStage
  <2>3. u \in incoming' => Entry(u, Pipe', chunks'[u], nextSeq'[u], Up')
    BY <1>2, <2>1, <2>2
  <2> QED
    BY <1>1, <2>3 DEF OrderStage
<1>4. CASE p # Receiver
  <2>1. opening'[Receiver] = opening[Receiver]
    BY <1>1, <1>4, PeerTypes DEF Consume, TypeInv, TypeOK
  <2>2. Pipe' = Pipe
    BY <2>1, SamePipe
  <2> QED
    BY <1>2, <2>2, OrderStill
<1> QED
  BY <1>3, <1>4

LEMMA OneConsumed ==
  ASSUME OrderInv, NEW p \in Peers, NEW m, Consume(p, m)
  PROVE  OneAtATime'
<1>1. TypeInv /\ OneAtATime
  BY DEF OrderInv, CountInv, ConsentInv
<1>2. /\ m \in opening[p] /\ opening'[p] = opening[p] \ {m}
      /\ \A q \in Peers \ {p} : opening'[q] = opening[q]
  BY <1>1 DEF Consume, TypeInv, TypeOK
<1>3. opening'[p] = {}
  BY <1>1, <1>2 DEF OneAtATime
<1> QED
  BY <1>1, <1>2, <1>3 DEF OneAtATime

LEMMA OrderTransmit ==
  ASSUME OrderInv, NEW p \in Peers, NEW m \in Message, Transmit(p, m),
         opening' = opening, chan' = chan, NEW u \in Transfers,
         m = Complete(u) => nextSeq[u] = Len(File[u]),
         IsChunk(m, u) => /\ p = Sender /\ m = Chunk(u, nextSeq[u] + 1)
                          /\ nextSeq[u] + 1 <= Len(File[u]),
         Up => nextSeq'[u] = IF IsChunk(m, u) THEN nextSeq[u] + 1 ELSE nextSeq[u],
         chunks'[u] = chunks[u], u \in incoming' => u \in incoming,
         verify'[u] = verify[u], merged'[u] = merged[u]
  PROVE  OrderStage(u)'
<1>1. /\ TypeInv /\ OneAtATime /\ OrderStage(u) /\ Pipe \in Seq(Message)
      /\ chunks[u] \in Seq(Block) /\ nextSeq[u] \in Nat
  BY OrderTypes
<1>2. /\ Pipe' = IF p = Sender /\ Up THEN Append(Pipe, m) ELSE Pipe
      /\ Up' <=> Up
  BY <1>1, TransmitPipe
<1>3. ASSUME u \in incoming'
      PROVE  Entry(u, Pipe', chunks'[u], nextSeq'[u], Up')
  <2>1. Entry(u, Pipe, chunks[u], nextSeq[u], Up)
    BY <1>1, <1>3 DEF OrderStage
  <2>2. CASE p = Sender /\ Up
    <3>1. Entry(u, Pipe, chunks[u], nextSeq[u], TRUE)
      BY <2>1, <2>2 DEF Entry
    <3>2. Entry(u, Append(Pipe, m), chunks[u],
                IF IsChunk(m, u) THEN nextSeq[u] + 1 ELSE nextSeq[u], TRUE)
      BY <1>1, <3>1, AppendEntry
    <3>3. Entry(u, Pipe', chunks'[u], nextSeq'[u], TRUE)
      BY <1>2, <2>2, <3>2
    <3> QED
      BY <3>3 DEF Entry
  <2>3. CASE p # Sender /\ Up
    <3>1. nextSeq'[u] = nextSeq[u] /\ Pipe' = Pipe
      BY <1>2, <2>3
    <3> QED
      BY <1>2, <2>1, <2>3, <3>1 DEF Entry
  <2>4. CASE ~Up
    <3>1. Pipe' = Pipe
      BY <1>2, <2>4
    <3> QED
      BY <1>2, <2>1, <2>4, <3>1 DEF Entry
  <2> QED
    BY <2>2, <2>3, <2>4
<1> QED
  BY <1>1, <1>3 DEF OrderStage

LEMMA OrderCut ==
  ASSUME OrderInv, opening' = opening, NEW k \in Int, k <= Len(wire[Receiver]),
         wire'[Receiver] = SubSeq(wire[Receiver], 1, k), ~Up', NEW u \in Transfers,
         chunks'[u] = chunks[u], incoming' = incoming,
         verify'[u] = verify[u], merged'[u] = merged[u]
  PROVE  OrderStage(u)'
<1>1. /\ TypeInv /\ OneAtATime /\ OrderStage(u) /\ Pipe \in Seq(Message)
      /\ chunks[u] \in Seq(Block) /\ nextSeq[u] \in Nat
  BY OrderTypes
<1>2. /\ Pipe' \in Seq(Message) /\ Len(Pipe') <= Len(Pipe)
      /\ \A j \in 1..Len(Pipe') : Pipe'[j] = Pipe[j]
  BY <1>1, CutPipe
<1>3. ASSUME u \in incoming
      PROVE  Entry(u, Pipe', chunks[u], nextSeq'[u], FALSE)
  <2>1. Entry(u, Pipe, chunks[u], nextSeq[u], Up)
    BY <1>1, <1>3 DEF OrderStage
  <2>2. PICK r \in Seq(Message) : r = Pipe'
    BY <1>2
  <2>3. PICK l : l = nextSeq'[u]
    OBVIOUS
  <2>4. Entry(u, r, chunks[u], l, FALSE)
    BY <1>1, <1>2, <2>1, <2>2, PrefixEntry
  <2> QED
    BY <2>2, <2>3, <2>4
<1>4. u \in incoming' => Entry(u, Pipe', chunks'[u], nextSeq'[u], Up')
  BY <1>3 DEF Entry
<1> QED
  BY <1>1, <1>4 DEF OrderStage

LEMMA OrderChannel ==
  ASSUME OrderInv, Workers = 1, NEW p \in Peers, ChannelStep(p)
  PROVE  OneAtATime' /\ \A u \in Transfers : OrderStage(u)'
<1>1. TypeInv /\ OneAtATime
  BY DEF OrderInv, CountInv, ConsentInv
<1>2. /\ nextSeq' = nextSeq /\ chunks' = chunks /\ incoming' = incoming
      /\ verify' = verify /\ merged' = merged
  BY DEF ChannelStep, Drain, Arrive, ConnectionLost, Close, OnClose, sendVars, recvVars
<1>3. CASE Drain(p) \/ ConnectionLost(p)
  <2>1. wire' = wire /\ opening' = opening /\ chan' = chan
    BY <1>3 DEF Drain, ConnectionLost
  <2>2. Pipe' = Pipe /\ Up' = Up
    BY <2>1 DEF Pipe, Up, Ready
  <2> QED
    BY <1>1, <1>2, <2>1, <2>2, OrderStill DEF OneAtATime
<1>4. CASE Arrive(p)
  <2>1. Pipe' = Pipe /\ OneAtATime'
    BY <1>1, <1>4, ArrivePipe
  <2>2. Up' = Up
    BY <1>4 DEF Arrive, Up, Ready
  <2> QED
    BY <1>2, <2>1, <2>2, OrderStill
<1>5. CASE Close(p) \/ OnClose(p)
  BY <1>1, <1>2, <1>5, CloseCuts, OrderCut DEF OneAtATime
<1> QED
  BY <1>3, <1>4, <1>5 DEF ChannelStep

LEMMA OrderCancel ==
  ASSUME OrderInv, NEW p \in Peers, NEW t \in Transfers, CancelStep(p, t)
  PROVE  OneAtATime' /\ \A u \in Transfers : OrderStage(u)'
<1>1. TypeInv /\ OneAtATime
  BY DEF OrderInv, CountInv, ConsentInv
<1>2. /\ nextSeq' = nextSeq /\ chunks' = chunks /\ incoming' \subseteq incoming
      /\ verify' = verify /\ merged' = merged /\ chan' = chan
  BY DEF CancelStep, Cancel, SendCancel, OnCancel, chanVars, sendVars, recvVars
<1>3. \A u \in Transfers : /\ ~IsChunk(Control("cancel", t), u)
                           /\ Control("cancel", t) # Complete(u)
  BY DEF IsChunk, Control, Complete
<1>4. CASE Cancel(p, t)
  <2>1. wire' = wire /\ opening' = opening
    BY <1>4 DEF Cancel, chanVars
  <2>2. Pipe' = Pipe /\ Up' = Up
    BY <1>2, <2>1 DEF Pipe, Up, Ready
  <2> QED
    BY <1>1, <1>2, <2>1, <2>2, OrderStill DEF OneAtATime
<1>5. CASE SendCancel(p, t)
  <2>1. /\ Control("cancel", t) \in Message /\ Transmit(p, Control("cancel", t))
        /\ opening' = opening
    BY <1>5, ControlType DEF SendCancel, ControlKind
  <2> QED
    BY <1>1, <1>2, <1>3, <2>1, OrderTransmit DEF OneAtATime
<1>6. CASE OnCancel(p, t)
  <2>1. Consume(p, Control("cancel", t)) /\ wire' = wire
    BY <1>6 DEF OnCancel
  <2> QED
    BY <1>2, <1>3, <2>1, OrderConsume, OneConsumed
<1> QED
  BY <1>4, <1>5, <1>6 DEF CancelStep

LEMMA OrderSender ==
  ASSUME OrderInv, NEW t \in Transfers, SenderStep(t)
  PROVE  OneAtATime' /\ \A u \in Transfers : OrderStage(u)'
<1>1. TypeInv /\ OneAtATime /\ Counted(t) /\ Stages(t)
  BY OrderTypes
<1>2. /\ chunks' = chunks /\ incoming' = incoming
      /\ verify' = verify /\ merged' = merged /\ chan' = chan
  BY DEF SenderStep, SendFile, SendOffer, OnAcceptFile, OnRejectFile, SendChunk,
         DigestDone, SendComplete, chanVars, recvVars
<1>3. CASE SendFile(t) \/ DigestDone(t)
  <2>1. wire' = wire /\ opening' = opening /\ nextSeq' = nextSeq
    BY <1>3 DEF SendFile, DigestDone, chanVars
  <2>2. Pipe' = Pipe /\ Up' = Up
    BY <1>2, <2>1 DEF Pipe, Up, Ready
  <2> QED
    BY <1>1, <1>2, <2>1, <2>2, OrderStill DEF OneAtATime
<1>4. CASE SendOffer(t)
  <2>1. /\ Offer(t) \in Message /\ Transmit(Sender, Offer(t))
        /\ opening' = opening /\ nextSeq' = nextSeq
    BY <1>4, ControlType DEF SendOffer, ControlKind, Offer
  <2>2. \A u \in Transfers : ~IsChunk(Offer(t), u) /\ Offer(t) # Complete(u)
    BY DEF IsChunk, Control, Offer, Complete
  <2> QED
    BY <1>1, <1>2, <2>1, <2>2, PeerTypes, OrderTransmit DEF OneAtATime
<1>5. CASE OnAcceptFile(t)
  <2>1. Consume(Sender, Acceptance(t)) /\ wire' = wire
    BY <1>5 DEF OnAcceptFile, Acceptance
  <2>2. Acceptance(t) \in InFlight(Sender)
    BY <2>1 DEF Consume, InFlight
  <2>3. nextSeq[t] = 0
    BY <1>1, <2>2 DEF Stages, AnswerStage, Counted
  <2>4. nextSeq' = nextSeq
    <3>1. nextSeq' = nextSeq \/ nextSeq' = [nextSeq EXCEPT ![t] = 0]
      BY <1>5 DEF OnAcceptFile
    <3> QED
      BY <1>1, <2>3, <3>1 DEF TypeInv, TypeOK
  <2>5. Sender # Receiver
    BY DEF Sender, Receiver
  <2> QED
    BY <1>2, <2>1, <2>4, <2>5, PeerTypes, OrderConsume, OneConsumed
<1>6. CASE OnRejectFile(t)
  <2>1. Consume(Sender, Control("reject-file", t)) /\ wire' = wire /\ nextSeq' = nextSeq
    BY <1>6 DEF OnRejectFile
  <2>2. Sender # Receiver
    BY DEF Sender, Receiver
  <2> QED
    BY <1>2, <2>1, <2>2, PeerTypes, OrderConsume, OneConsumed
<1>7. CASE SendChunk(t)
  <2>1. nextSeq[t] + 1 \in 1..Len(File[t]) /\ nextSeq[t] \in Nat
    BY <1>1, <1>7, FileAssumption DEF SendChunk, TypeInv, TypeOK, InBounds
  <2>2. PICK m \in Message : m = Chunk(t, nextSeq[t] + 1)
    BY <2>1, ChunkType
  <2>3. Transmit(Sender, m) /\ opening' = opening
    BY <1>7, <2>2 DEF SendChunk
  <2>4. /\ m # Complete(t) /\ IsChunk(m, t)
        /\ \A u \in Transfers \ {t} : ~IsChunk(m, u) /\ m # Complete(u)
    BY <2>2, ChunkFields
  <2>5. /\ Up => nextSeq'[t] = nextSeq[t] + 1
        /\ \A u \in Transfers \ {t} : nextSeq'[u] = nextSeq[u]
    <3>1. \/ ~Ready(Sender) /\ nextSeq' = nextSeq
          \/ Ready(Sender) /\ nextSeq' = [nextSeq EXCEPT ![t] = @ + 1]
      BY <1>7 DEF SendChunk
    <3> QED
      BY <1>1, <3>1 DEF Up, TypeInv, TypeOK
  <2>6. ASSUME NEW u \in Transfers
        PROVE  OrderStage(u)'
    <3>1. CASE u = t
      <4>1. IsChunk(m, t) /\ m # Complete(t) /\ nextSeq[t] + 1 <= Len(File[t])
        BY <2>1, <2>4
      <4>2. OrderStage(t)'
        BY <1>2, <2>2, <2>3, <2>5, <4>1, PeerTypes, OrderTransmit
      <4> QED
        BY <3>1, <4>2
    <3>2. CASE u # t
      BY <1>2, <2>3, <2>4, <2>5, <3>2, PeerTypes, OrderTransmit
    <3> QED
      BY <3>1, <3>2
  <2> QED
    BY <1>1, <2>3, <2>6 DEF OneAtATime
<1>8. CASE SendComplete(t)
  <2>1. /\ Complete(t) \in Message /\ Transmit(Sender, Complete(t))
        /\ opening' = opening /\ nextSeq' = nextSeq /\ stream[t] = "sealing"
    BY <1>8, ControlType DEF SendComplete, ControlKind, Complete
  <2>2. nextSeq[t] = Len(File[t])
    BY <1>1, <2>1 DEF Counted
  <2>3. /\ \A u \in Transfers : ~IsChunk(Complete(t), u)
        /\ \A u \in Transfers \ {t} : Complete(t) # Complete(u)
    BY DEF IsChunk, Control, Complete
  <2> QED
    BY <1>1, <1>2, <2>1, <2>2, <2>3, PeerTypes, OrderTransmit DEF OneAtATime
<1> QED
  BY <1>3, <1>4, <1>5, <1>6, <1>7, <1>8 DEF SenderStep

LEMMA OrderReceiver ==
  ASSUME OrderInv, NEW t \in Transfers, ReceiverStep(t)
  PROVE  OneAtATime' /\ \A u \in Transfers : OrderStage(u)'
<1>1. /\ TypeInv /\ OneAtATime /\ Counted(t) /\ Stages(t) /\ OrderStage(t)
      /\ Pipe \in Seq(Message) /\ chunks[t] \in Seq(Block) /\ nextSeq[t] \in Nat
  BY OrderTypes
<1>2. nextSeq' = nextSeq /\ stream' = stream /\ chan' = chan
  BY DEF ReceiverStep, OnOfferFile, Accept, Reject, SendAccept, SendReject,
         OnChunkFrame, OnComplete, Verify, chanVars, sendVars
<1>3. CASE OnOfferFile(t)
  <2>1. /\ Consume(Receiver, Offer(t)) /\ wire' = wire /\ verify' = verify
        /\ merged' = merged /\ incoming' = incoming \cup {t}
        /\ chunks' = [chunks EXCEPT ![t] = <<>>]
    BY <1>3 DEF OnOfferFile, Offer
  <2>2. \A u \in Transfers : ~IsChunk(Offer(t), u)
    BY DEF IsChunk, Control, Offer
  <2>3. OneAtATime'
    BY <2>1, PeerTypes, OneConsumed
  <2>4. ASSUME NEW u \in Transfers, u # t
        PROVE  OrderStage(u)'
    <3>1. chunks'[u] = chunks[u] /\ (u \in incoming' => u \in incoming)
      BY <1>1, <2>1, <2>4 DEF TypeInv, TypeOK
    <3> QED
      BY <1>2, <2>1, <2>2, <3>1, PeerTypes, OrderConsume
  <2>5. OrderStage(t)'
    <3>1. Offer(t) \in InFlight(Receiver)
      BY <2>1 DEF Consume, InFlight
    <3>2. stream[t] = "idle"
      BY <1>1, <3>1 DEF Stages, OfferStage, AnswerStage
    <3>3. nextSeq'[t] = 0 /\ \A m \in InFlight(Receiver) : ~Data(t, m)
      BY <1>1, <1>2, <3>2 DEF Stages, StreamStage, Counted
    <3>4. Pipe # <<>> /\ Pipe' = Tail(Pipe)
      BY <1>1, <2>1, ConsumePipe
    <3>5. PICK q \in Seq(Message) : q = Tail(Pipe)
      BY <1>1, <3>4
    <3>6. \A j \in 1..Len(q) : j + 1 \in 1..Len(Pipe) /\ q[j] = Pipe[j + 1]
      BY <1>1, <3>4, <3>5
    <3>7. \A j \in 1..Len(q) : ~Data(t, q[j])
      BY <1>1, <3>3, <3>6, PipeType
    <3>8. Entry(t, q, <<>>, 0, Up')
      BY <3>7, NoEntry
    <3>9. chunks'[t] = <<>>
      BY <1>1, <2>1 DEF TypeInv, TypeOK
    <3>10. Entry(t, Pipe', chunks'[t], nextSeq'[t], Up')
      BY <3>3, <3>4, <3>5, <3>8, <3>9
    <3> QED
      BY <1>1, <2>1, <3>10 DEF OrderStage
  <2> QED
    BY <2>3, <2>4, <2>5
<1>4. CASE Accept(t) \/ Reject(t)
  <2>1. /\ wire' = wire /\ opening' = opening /\ verify' = verify
        /\ merged' = merged /\ incoming' \subseteq incoming /\ chunks' = chunks
    BY <1>4 DEF Accept, Reject, chanVars
  <2>2. Pipe' = Pipe /\ Up' = Up
    BY <1>2, <2>1 DEF Pipe, Up, Ready
  <2> QED
    BY <1>1, <1>2, <2>1, <2>2, OrderStill DEF OneAtATime
<1>5. CASE SendAccept(t) \/ SendReject(t)
  <2>1. PICK k \in {"accept-file", "reject-file"} : Transmit(Receiver, Control(k, t))
    BY <1>5 DEF SendAccept, SendReject
  <2>2. /\ opening' = opening /\ verify' = verify /\ merged' = merged
        /\ incoming' = incoming /\ chunks' = chunks
    BY <1>5 DEF SendAccept, SendReject
  <2>3. /\ Control(k, t) \in Message
        /\ \A u \in Transfers : ~IsChunk(Control(k, t), u) /\ Control(k, t) # Complete(u)
    BY <2>1, ControlType DEF ControlKind, IsChunk, Control, Complete
  <2> QED
    BY <1>1, <1>2, <2>1, <2>2, <2>3, PeerTypes, OrderTransmit DEF OneAtATime
<1>6. CASE OnChunkFrame(t)
  <2>1. PICK i \in 1..Len(File[t]) :
          /\ Consume(Receiver, Chunk(t, i))
          /\ chunks' = IF t \in incoming
                       THEN [chunks EXCEPT ![t] = Append(@, Chunk(t, i).data)]
                       ELSE chunks
    BY <1>6 DEF OnChunkFrame
  <2>2. wire' = wire /\ verify' = verify /\ merged' = merged /\ incoming' = incoming
    BY <1>6 DEF OnChunkFrame
  <2>3. OneAtATime'
    BY <2>1, PeerTypes, OneConsumed
  <2>4. ASSUME NEW u \in Transfers, u # t
        PROVE  OrderStage(u)'
    <3>1. ~IsChunk(Chunk(t, i), u) /\ chunks'[u] = chunks[u]
      BY <1>1, <2>1, <2>4, ChunkFields DEF TypeInv, TypeOK
    <3> QED
      BY <1>2, <2>1, <2>2, <3>1, PeerTypes, OrderConsume
  <2>5. OrderStage(t)'
    <3>1. Pipe # <<>> /\ Head(Pipe) = Chunk(t, i) /\ Pipe' = Tail(Pipe)
      BY <1>1, <2>1, <2>2, ConsumePipe
    <3>2. Up' = Up
      BY <1>2 DEF Up, Ready
    <3>3. ASSUME t \in incoming
          PROVE  Entry(t, Pipe', chunks'[t], nextSeq'[t], Up')
      <4>1. Entry(t, Pipe, chunks[t], nextSeq[t], Up)
        BY <1>1, <3>3 DEF OrderStage
      <4>2. Entry(t, Tail(Pipe), Append(chunks[t], Head(Pipe).data), nextSeq[t], Up)
        BY <1>1, <3>1, <4>1, ChunkFields, ConsumeEntry
      <4>3. chunks'[t] = Append(chunks[t], Chunk(t, i).data)
        BY <1>1, <2>1, <3>3 DEF TypeInv, TypeOK
      <4> QED
        BY <1>2, <3>1, <3>2, <4>2, <4>3
    <3>4. t \in incoming' => Entry(t, Pipe', chunks'[t], nextSeq'[t], Up')
      BY <2>2, <3>3
    <3> QED
      BY <1>1, <2>2, <3>4 DEF OrderStage
  <2> QED
    BY <2>3, <2>4, <2>5
<1>7. CASE OnComplete(t)
  <2>1. /\ Consume(Receiver, Complete(t)) /\ wire' = wire
        /\ incoming' = incoming /\ chunks' = chunks
        /\ IF t \in incoming
           THEN /\ verify' = [verify EXCEPT ![t] = "hashing"]
                /\ merged' = [merged EXCEPT ![t] = chunks[t]]
           ELSE verify' = verify /\ merged' = merged
    BY <1>7 DEF OnComplete, Complete
  <2>2. \A u \in Transfers : ~IsChunk(Complete(t), u)
    BY DEF IsChunk, Control, Complete
  <2>3. OneAtATime'
    BY <2>1, PeerTypes, OneConsumed
  <2>4. ASSUME NEW u \in Transfers, u # t \/ t \notin incoming
        PROVE  OrderStage(u)'
    <3>1. verify'[u] = verify[u] /\ merged'[u] = merged[u]
      BY <1>1, <2>1, <2>4 DEF TypeInv, TypeOK
    <3> QED
      BY <1>2, <2>1, <2>2, <3>1, PeerTypes, OrderConsume
  <2>5. ASSUME t \in incoming
        PROVE  OrderStage(t)'
    <3>1. Pipe # <<>> /\ Head(Pipe) = Complete(t) /\ Pipe' = Tail(Pipe)
      BY <1>1, <2>1, ConsumePipe
    <3>2. Up' = Up
      BY <1>2 DEF Up, Ready
    <3>3. Entry(t, Pipe, chunks[t], nextSeq[t], Up)
      BY <1>1, <2>5 DEF OrderStage
    <3>4. /\ Entry(t, Tail(Pipe), chunks[t], nextSeq[t], Up)
          /\ chunks[t] = File[t]
      BY <1>1, <2>2, <3>1, <3>3, ConsumeEntry
    <3>5. Entry(t, Pipe', chunks'[t], nextSeq'[t], Up')
      BY <1>2, <2>1, <3>1, <3>2, <3>4
    <3>6. verify'[t] = "hashing" /\ merged'[t] = File[t]
      BY <1>1, <2>1, <2>5, <3>4 DEF TypeInv, TypeOK
    <3> QED
      BY <3>5, <3>6 DEF OrderStage
  <2> QED
    BY <2>3, <2>4, <2>5
<1>8. CASE Verify(t)
  <2>1. /\ wire' = wire /\ opening' = opening /\ chunks' = chunks /\ merged' = merged
        /\ incoming' = incoming \ {t} /\ verify[t] = "hashing"
    BY <1>8 DEF Verify, chanVars
  <2>2. Pipe' = Pipe /\ Up' = Up
    BY <1>2, <2>1 DEF Pipe, Up, Ready
  <2>3. DigestMatches(t)
    BY <1>1, <2>1 DEF OrderStage, DigestMatches
  <2>4. verify' = [verify EXCEPT ![t] = "ok"]
    BY <1>8, <2>3 DEF Verify
  <2>5. ASSUME NEW u \in Transfers, u # t
        PROVE  OrderStage(u)'
    <3>1. verify'[u] = verify[u]
      BY <1>1, <2>4, <2>5 DEF TypeInv, TypeOK
    <3> QED
      BY <1>2, <2>1, <2>2, <3>1, OrderStill
  <2>6. OrderStage(t)'
    <3>1. verify'[t] = "ok" /\ t \notin incoming'
      BY <1>1, <2>1, <2>4 DEF TypeInv, TypeOK
    <3> QED
      BY <3>1 DEF OrderStage
  <2> QED
    BY <1>1, <2>1, <2>5, <2>6 DEF OneAtATime
<1> QED
  BY <1>3, <1>4, <1>5, <1>6, <1>7, <1>8 DEF ReceiverStep

LEMMA OrderStep == Workers = 1 /\ OrderInv /\ [Next]_vars => OrderInv'
<1> SUFFICES ASSUME Workers = 1, OrderInv, [Next]_vars
             PROVE  OrderInv'
  OBVIOUS
<1>1. CountInv'
  BY CountStep DEF OrderInv
<1>2. OneAtATime' /\ \A u \in Transfers : OrderStage(u)'
  <2>1. CASE Next
    BY <2>1, OrderChannel, OrderSender, OrderReceiver, OrderCancel DEF Next
  <2>2. CASE UNCHANGED vars
    <3>1. /\ Pipe' = Pipe /\ Up' = Up /\ nextSeq' = nextSeq /\ chunks' = chunks
          /\ incoming' = incoming /\ verify' = verify /\ merged' = merged
          /\ opening' = opening
      BY <2>2 DEF vars, Pipe, Up, Ready
    <3> QED
      BY <3>1, OrderStill DEF OrderInv, OneAtATime
  <2> QED
    BY <2>1, <2>2
<1> QED
  BY <1>1, <1>2 DEF OrderInv

\* With one decryption at a time no transfer ends in a checksum mismatch,
\* whatever is cancelled, closed or lost on the way.
THEOREM NoFalseAlarm == ASSUME Workers = 1 PROVE Spec => []NoFalseMismatch
<1>1. OrderInv => NoFalseMismatch
  BY DEF OrderInv, OrderStage, NoFalseMismatch
<1>2. OrderInv /\ [Next]_vars => OrderInv'
  BY OrderStep
<1> QED
  BY <1>1, <1>2, OrderInit, PTL DEF Spec

-----------------------------------------------------------------------------
(* A cancel ahead of the complete message.                                 *)

CancelOf(t) == Control("cancel", t)

\* Pipe keeps its order: a step adds at its end while the channel is up, takes
\* its first message, or cuts it short when the channel closes.
PipeMoves ==
  /\ Up' => Up
  /\ \/ Pipe' = Pipe
     \/ Up /\ \E m \in Message : Pipe' = Append(Pipe, m)
     \/ Pipe # <<>> /\ Pipe' = Tail(Pipe) /\ Consume(Receiver, Head(Pipe))
     \/ /\ ~Up' /\ Pipe' \in Seq(Message) /\ Len(Pipe') <= Len(Pipe)
        /\ \A j \in 1..Len(Pipe') : Pipe'[j] = Pipe[j]

LEMMA ConsumeMoves ==
  ASSUME TypeInv, OneAtATime, NEW p \in Peers, NEW m, Consume(p, m), wire' = wire,
         chan' = chan
  PROVE  PipeMoves
<1>1. Up' = Up
  BY DEF Up, Ready
<1>2. CASE p = Receiver
  BY <1>1, <1>2, ConsumePipe DEF PipeMoves
<1>3. CASE p # Receiver
  <2>1. opening'[Receiver] = opening[Receiver]
    BY <1>3, PeerTypes DEF Consume, TypeInv, TypeOK
  <2> QED
    BY <1>1, <2>1, SamePipe DEF PipeMoves
<1> QED
  BY <1>2, <1>3

LEMMA TransmitMoves ==
  ASSUME TypeInv, OneAtATime, NEW p \in Peers, NEW m \in Message, Transmit(p, m),
         opening' = opening, chan' = chan
  PROVE  PipeMoves
BY TransmitPipe DEF PipeMoves

LEMMA CutMoves ==
  ASSUME TypeInv, OneAtATime, opening' = opening, ~Up', NEW k \in Int,
         k <= Len(wire[Receiver]), wire'[Receiver] = SubSeq(wire[Receiver], 1, k)
  PROVE  PipeMoves
BY CutPipe DEF PipeMoves

LEMMA StillMoves ==
  ASSUME wire' = wire, opening' = opening, chan' = chan
  PROVE  PipeMoves
BY DEF PipeMoves, Pipe, Up, Ready

LEMMA Moves ==
  ASSUME OrderInv, Workers = 1, [Next]_vars
  PROVE  PipeMoves
<1>1. TypeInv /\ OneAtATime
  BY DEF OrderInv, CountInv, ConsentInv
<1>2. CASE UNCHANGED vars
  BY <1>2, StillMoves DEF vars
<1>3. ASSUME NEW p \in Peers, ChannelStep(p)
      PROVE  PipeMoves
  <2>1. CASE Drain(p) \/ ConnectionLost(p)
    BY <2>1, StillMoves DEF Drain, ConnectionLost
  <2>2. CASE Arrive(p)
    <3>1. Pipe' = Pipe
      BY <1>1, <2>2, ArrivePipe
    <3>2. Up' = Up
      BY <2>2 DEF Arrive, Up, Ready
    <3> QED
      BY <3>1, <3>2 DEF PipeMoves
  <2>3. CASE Close(p) \/ OnClose(p)
    BY <1>1, <2>3, CloseCuts, CutMoves
  <2> QED
    BY <1>3, <2>1, <2>2, <2>3 DEF ChannelStep
<1>4. ASSUME NEW t \in Transfers, SenderStep(t)
      PROVE  PipeMoves
  <2>1. CASE SendFile(t) \/ DigestDone(t)
    BY <2>1, StillMoves DEF SendFile, DigestDone, chanVars
  <2>2. CASE SendOffer(t)
    <3>1. Control("offer-file", t) \in Message
      BY ControlType DEF ControlKind
    <3> QED
      BY <1>1, <2>2, <3>1, PeerTypes, TransmitMoves DEF SendOffer
  <2>3. CASE OnAcceptFile(t)
    BY <1>1, <2>3, PeerTypes, ConsumeMoves DEF OnAcceptFile
  <2>4. CASE OnRejectFile(t)
    BY <1>1, <2>4, PeerTypes, ConsumeMoves DEF OnRejectFile
  <2>5. CASE SendChunk(t)
    <3>1. nextSeq[t] + 1 \in 1..Len(File[t])
      BY <1>1, <2>5, FileAssumption DEF SendChunk, TypeInv, TypeOK, InBounds
    <3>2. Chunk(t, nextSeq[t] + 1) \in Message
      BY <3>1, ChunkType
    <3> QED
      BY <1>1, <2>5, <3>2, PeerTypes, TransmitMoves DEF SendChunk
  <2>6. CASE SendComplete(t)
    <3>1. Control("complete", t) \in Message
      BY ControlType DEF ControlKind
    <3> QED
      BY <1>1, <2>6, <3>1, PeerTypes, TransmitMoves DEF SendComplete
  <2> QED
    BY <1>4, <2>1, <2>2, <2>3, <2>4, <2>5, <2>6 DEF SenderStep
<1>5. ASSUME NEW t \in Transfers, ReceiverStep(t)
      PROVE  PipeMoves
  <2>1. CASE Accept(t) \/ Reject(t) \/ Verify(t)
    BY <2>1, StillMoves DEF Accept, Reject, Verify, chanVars
  <2>2. CASE OnOfferFile(t)
    BY <1>1, <2>2, PeerTypes, ConsumeMoves DEF OnOfferFile
  <2>3. CASE SendAccept(t) \/ SendReject(t)
    <3>1. PICK k \in ControlKind : Transmit(Receiver, Control(k, t))
      BY <2>3 DEF SendAccept, SendReject, ControlKind
    <3> QED
      BY <1>1, <2>3, <3>1, PeerTypes, ControlType, TransmitMoves DEF SendAccept, SendReject
  <2>4. CASE OnChunkFrame(t)
    <3>1. PICK m : Consume(Receiver, m)
      BY <2>4 DEF OnChunkFrame
    <3> QED
      BY <1>1, <2>4, <3>1, PeerTypes, ConsumeMoves DEF OnChunkFrame
  <2>5. CASE OnComplete(t)
    BY <1>1, <2>5, PeerTypes, ConsumeMoves DEF OnComplete
  <2> QED
    BY <1>5, <2>1, <2>2, <2>3, <2>4, <2>5 DEF ReceiverStep
<1>6. ASSUME NEW p \in Peers, NEW t \in Transfers, CancelStep(p, t)
      PROVE  PipeMoves
  <2>1. CASE Cancel(p, t)
    BY <2>1, StillMoves DEF Cancel, chanVars
  <2>2. CASE SendCancel(p, t)
    <3>1. Control("cancel", t) \in Message
      BY ControlType DEF ControlKind
    <3> QED
      BY <1>1, <2>2, <3>1, TransmitMoves DEF SendCancel
  <2>3. CASE OnCancel(p, t)
    BY <1>1, <2>3, ConsumeMoves DEF OnCancel
  <2> QED
    BY <1>6, <2>1, <2>2, <2>3 DEF CancelStep
<1> QED
  BY <1>2, <1>3, <1>4, <1>5, <1>6 DEF Next

\* t will not be saved: its entry is gone for good, or the first of cancel and
\* complete to be handled is the cancel, or no complete can come any more.
Doomed(t) ==
  /\ saved[t] = NotSaved /\ verify[t] = "idle" /\ answer[t] # "idle"
  /\ \/ t \notin incoming
     \/ \E j \in 1..Len(Pipe) : /\ Pipe[j] = CancelOf(t)
                                /\ \A i \in 1..(j - 1) : Pipe[i] # Complete(t)
     \/ ~Up /\ \A j \in 1..Len(Pipe) : Pipe[j] # Complete(t)

LEMMA AheadIsDoomed ==
  ASSUME OrderInv, NEW t \in Transfers, CancelAhead(t)
  PROVE  Doomed(t)
<1>1. /\ TypeInv /\ OneAtATime /\ Counted(t) /\ Stages(t) /\ Pipe \in Seq(Message)
  BY OrderTypes
<1>2. CancelOf(t) \in InFlight(Receiver) /\ t \in incoming /\ stream[t] # "done"
  BY DEF CancelAhead, CancelOf
<1>3. /\ Complete(t) \notin InFlight(Receiver) /\ verify[t] = "idle"
      /\ saved[t] = NotSaved /\ answer[t] # "idle"
  BY <1>1, <1>2 DEF Stages, StreamStage, Counted
<1>4. \E j \in 1..Len(Pipe) : Pipe[j] = CancelOf(t)
  <2>1. wire[Receiver] \in Seq(Message)
    BY <1>1, PeerTypes, WireType
  <2>2. CASE opening[Receiver] = {}
    BY <1>1, <1>2, <2>2, PipeType DEF InFlight
  <2>3. CASE opening[Receiver] # {}
    <3>1. PICK m \in Message : opening[Receiver] = {m}
      BY <1>1, <2>3, PeerTypes DEF OneAtATime
    <3>2. Pipe = <<m>> \o wire[Receiver]
      BY <1>1, <3>1, PipeType
    <3>3. /\ Len(Pipe) = 1 + Len(wire[Receiver]) /\ Pipe[1] = m
          /\ \A j \in 1..Len(wire[Receiver]) : Pipe[j + 1] = wire[Receiver][j]
      BY <2>1, <3>1, <3>2
    <3>4. CASE CancelOf(t) = m
      <4>1. 1 \in 1..Len(Pipe)
        BY <2>1, <3>3
      <4> QED
        BY <3>3, <3>4, <4>1
    <3>5. CASE CancelOf(t) # m
      <4>1. PICK j \in 1..Len(wire[Receiver]) : wire[Receiver][j] = CancelOf(t)
        BY <1>2, <3>1, <3>5 DEF InFlight
      <4>2. j + 1 \in 1..Len(Pipe) /\ Pipe[j + 1] = CancelOf(t)
        BY <2>1, <3>3, <4>1
      <4> QED
        BY <4>2
    <3> QED
      BY <3>4, <3>5
  <2> QED
    BY <2>2, <2>3
<1>5. \A j \in 1..Len(Pipe) : Pipe[j] # Complete(t)
  BY <1>1, <1>3, PipeType
<1>6. PICK j \in 1..Len(Pipe) : Pipe[j] = CancelOf(t)
  BY <1>4
<1>7. \A i \in 1..(j - 1) : i \in 1..Len(Pipe)
  BY <1>1
<1> QED
  BY <1>3, <1>5, <1>6, <1>7 DEF Doomed

\* What the steps that touch the receiver's tasks say.
LEMMA DoomedTasks ==
  ASSUME OrderInv, NEW t \in Transfers, Doomed(t), [Next]_vars
  PROVE  /\ answer'[t] # "idle"
         /\ saved'[t] = NotSaved
         /\ t \in incoming' => t \in incoming
         /\ verify'[t] # "idle" => t \in incoming /\ Consume(Receiver, Complete(t))
         /\ Consume(Receiver, CancelOf(t)) => t \notin incoming'
<1>1. /\ TypeInv /\ Stages(t) /\ verify[t] = "idle" /\ answer[t] # "idle"
      /\ saved[t] = NotSaved
  BY OrderTypes DEF Doomed
<1>2. \A m, x : Consume(Receiver, m) /\ Consume(Receiver, x) => m = x
  <2>1. \A m : Consume(Receiver, m) => opening[Receiver] = {m}
    BY <1>1, PeerTypes DEF OrderInv, OneAtATime, Consume
  <2> QED
    BY <2>1
<1>3. ASSUME opening'[Receiver] = opening[Receiver]
      PROVE  \A m : ~Consume(Receiver, m)
  BY <1>1, <1>3, PeerTypes DEF Consume, TypeInv, TypeOK
<1>4. CASE UNCHANGED vars
  BY <1>1, <1>3, <1>4 DEF vars
<1>5. ASSUME NEW p \in Peers, ChannelStep(p)
      PROVE  /\ answer' = answer /\ saved' = saved /\ incoming' = incoming
             /\ verify' = verify /\ ~Consume(Receiver, CancelOf(t))
  <2>1. answer' = answer /\ saved' = saved /\ incoming' = incoming /\ verify' = verify
    BY <1>5 DEF ChannelStep, Drain, Arrive, ConnectionLost, Close, OnClose, recvVars
  <2>2. opening[Receiver] \subseteq opening'[Receiver]
    <3>1. \/ opening' = opening
          \/ opening' = [opening EXCEPT ![p] = @ \cup {Head(wire[p])}]
      BY <1>5 DEF ChannelStep, Drain, Arrive, ConnectionLost, Close, OnClose
    <3>2. DOMAIN opening = Peers
      BY <1>1 DEF TypeInv, TypeOK
    <3> QED
      BY <3>1, <3>2, PeerTypes
  <2>3. ~Consume(Receiver, CancelOf(t))
    <3>1. DOMAIN opening = Peers
      BY <1>1 DEF TypeInv, TypeOK
    <3>2. Consume(Receiver, CancelOf(t)) =>
            /\ CancelOf(t) \in opening[Receiver]
            /\ opening'[Receiver] = opening[Receiver] \ {CancelOf(t)}
      BY <3>1, PeerTypes DEF Consume
    <3> QED
      BY <2>2, <3>2
  <2> QED
    BY <2>1, <2>3
<1>6. ASSUME NEW x \in Transfers, SenderStep(x)
      PROVE  /\ answer' = answer /\ saved' = saved /\ incoming' = incoming
             /\ verify' = verify /\ ~Consume(Receiver, CancelOf(t))
  <2>1. answer' = answer /\ saved' = saved /\ incoming' = incoming /\ verify' = verify
    BY <1>6 DEF SenderStep, SendFile, SendOffer, OnAcceptFile, OnRejectFile, SendChunk,
                DigestDone, SendComplete, recvVars
  <2>2. opening' = opening \/ \E m : Consume(Sender, m)
    BY <1>6 DEF SenderStep, SendFile, SendOffer, OnAcceptFile, OnRejectFile, SendChunk,
                DigestDone, SendComplete, chanVars
  <2>3. opening'[Receiver] = opening[Receiver]
    BY <1>1, <2>2, PeerTypes DEF Consume, Sender, Receiver, TypeInv, TypeOK
  <2> QED
    BY <1>3, <2>1, <2>3
<1>7. ASSUME NEW p \in Peers, NEW x \in Transfers, CancelStep(p, x)
      PROVE  /\ answer' = answer /\ saved' = saved /\ incoming' \subseteq incoming
             /\ verify' = verify
             /\ Consume(Receiver, CancelOf(t)) => t \notin incoming'
  <2>1. answer' = answer /\ saved' = saved /\ incoming' \subseteq incoming /\ verify' = verify
    BY <1>7 DEF CancelStep, Cancel, SendCancel, OnCancel, recvVars
  <2>2. ASSUME Consume(Receiver, CancelOf(t))
        PROVE  t \notin incoming'
    <3>1. OnCancel(p, x) /\ p = Receiver
      BY <1>1, <1>3, <1>7, <2>2, PeerTypes
      DEF CancelStep, Cancel, SendCancel, OnCancel, chanVars, Consume, TypeInv, TypeOK
    <3>2. x = t
      BY <1>2, <2>2, <3>1 DEF OnCancel, CancelOf, Control
    <3> QED
      BY <3>1, <3>2 DEF OnCancel
  <2> QED
    BY <2>1, <2>2
<1>8. ASSUME NEW x \in Transfers, ReceiverStep(x)
      PROVE  /\ answer'[t] # "idle" /\ saved'[t] = NotSaved
             /\ t \in incoming' => t \in incoming
             /\ verify'[t] # "idle" => t \in incoming /\ Consume(Receiver, Complete(t))
             /\ ~Consume(Receiver, CancelOf(t))
  <2>1. CASE OnOfferFile(x)
    <3>1. /\ Consume(Receiver, Offer(x)) /\ verify' = verify /\ saved' = saved
          /\ incoming' = incoming \cup {x} /\ answer' = [answer EXCEPT ![x] = "asking"]
      BY <2>1 DEF OnOfferFile, Offer
    <3>2. x # t
      BY <1>1, <3>1 DEF Consume, InFlight, Stages, OfferStage
    <3>3. CancelOf(t) # Offer(x)
      BY DEF CancelOf, Offer, Control
    <3> QED
      BY <1>1, <1>2, <3>1, <3>2, <3>3 DEF TypeInv, TypeOK
  <2>2. CASE Accept(x) \/ Reject(x) \/ SendAccept(x) \/ SendReject(x)
    <3>1. /\ opening' = opening /\ verify' = verify /\ saved' = saved
          /\ incoming' \subseteq incoming
          /\ \E pc : pc # "idle" /\ answer' = [answer EXCEPT ![x] = pc]
      BY <2>2 DEF Accept, Reject, SendAccept, SendReject, IfReady, chanVars
    <3> QED
      BY <1>1, <1>3, <3>1 DEF TypeInv, TypeOK
  <2>3. CASE OnChunkFrame(x)
    <3>1. /\ verify' = verify /\ saved' = saved /\ incoming' = incoming /\ answer' = answer
          /\ \E i : Consume(Receiver, Chunk(x, i))
      BY <2>3 DEF OnChunkFrame
    <3>2. \A i : CancelOf(t) # Chunk(x, i)
      BY DEF CancelOf, Control, Chunk
    <3> QED
      BY <1>1, <1>2, <3>1, <3>2
  <2>4. CASE OnComplete(x)
    <3>1. /\ Consume(Receiver, Complete(x)) /\ saved' = saved /\ incoming' = incoming
          /\ answer' = answer
          /\ IF x \in incoming THEN verify' = [verify EXCEPT ![x] = "hashing"]
             ELSE verify' = verify
      BY <2>4 DEF OnComplete, Complete
    <3>2. CancelOf(t) # Complete(x)
      BY DEF CancelOf, Complete, Control
    <3>3. verify'[t] # "idle" => x = t /\ t \in incoming
      BY <1>1, <3>1 DEF TypeInv, TypeOK
    <3> QED
      BY <1>1, <1>2, <3>1, <3>2, <3>3
  <2>5. CASE Verify(x)
    <3>1. /\ opening' = opening /\ answer' = answer /\ incoming' \subseteq incoming
          /\ verify[x] = "hashing"
          /\ \E v : verify' = [verify EXCEPT ![x] = v]
          /\ saved' = saved \/ saved' = [saved EXCEPT ![x] = merged[x]]
      BY <2>5 DEF Verify, chanVars
    <3>2. x # t
      BY <1>1, <3>1
    <3> QED
      BY <1>1, <1>3, <3>1, <3>2 DEF TypeInv, TypeOK
  <2> QED
    BY <1>8, <2>1, <2>2, <2>3, <2>4, <2>5 DEF ReceiverStep
<1> DEFINE Said == /\ answer'[t] # "idle"
                   /\ saved'[t] = NotSaved
                   /\ t \in incoming' => t \in incoming
                   /\ verify'[t] # "idle" => t \in incoming /\ Consume(Receiver, Complete(t))
                   /\ Consume(Receiver, CancelOf(t)) => t \notin incoming'
<1>9. ASSUME NEW p \in Peers, ChannelStep(p)
      PROVE  Said
  BY <1>1, <1>5, <1>9
<1>10. ASSUME NEW x \in Transfers, SenderStep(x) \/ ReceiverStep(x)
       PROVE  Said
  BY <1>1, <1>6, <1>8, <1>10
<1>11. ASSUME NEW p \in Peers, NEW x \in Transfers, CancelStep(p, x)
       PROVE  Said
  BY <1>1, <1>7, <1>11
<1>12. UNCHANGED vars => Said
  BY <1>4
<1> HIDE DEF Said
<1>13. Said
  BY <1>9, <1>10, <1>11, <1>12 DEF Next
<1> QED
  BY <1>13 DEF Said

LEMMA DoomedStays ==
  ASSUME OrderInv, Workers = 1, [Next]_vars, NEW t \in Transfers, Doomed(t)
  PROVE  Doomed(t)'
<1>1. TypeInv /\ OneAtATime /\ Pipe \in Seq(Message) /\ PipeMoves
  BY OrderTypes, Moves
<1>2. /\ answer'[t] # "idle" /\ saved'[t] = NotSaved
      /\ t \in incoming' => t \in incoming
      /\ verify'[t] # "idle" => t \in incoming /\ Consume(Receiver, Complete(t))
      /\ Consume(Receiver, CancelOf(t)) => t \notin incoming'
  BY DoomedTasks
<1>3. \A m : Consume(Receiver, m) => opening[Receiver] = {m}
  BY <1>1, PeerTypes DEF OneAtATime, Consume
<1>4. \A m : Consume(Receiver, m) => Pipe # <<>> /\ Pipe[1] = m
  <2> SUFFICES ASSUME NEW m, Consume(Receiver, m)
               PROVE  Pipe # <<>> /\ Pipe[1] = m
    OBVIOUS
  <2>1. Pipe = <<m>> \o wire[Receiver] /\ m \in Message /\ wire[Receiver] \in Seq(Message)
    BY <1>1, <1>3, PeerTypes, PipeType DEF Consume, TypeInv, TypeOK
  <2> QED
    BY <2>1
<1>5. CancelOf(t) # Complete(t)
  BY DEF CancelOf, Complete, Control
<1>6. /\ Len(Pipe) \in Nat
      /\ Pipe # <<>> => 1 \in 1..Len(Pipe)
  BY <1>1
<1>7. verify'[t] = "idle"
  <2> SUFFICES ASSUME t \in incoming, Consume(Receiver, Complete(t))
               PROVE  FALSE
    BY <1>2
  <2>1. Pipe # <<>> /\ Pipe[1] = Complete(t) /\ 1 \in 1..Len(Pipe)
    BY <1>4, <1>6
  <2>2. CASE ~Up /\ \A j \in 1..Len(Pipe) : Pipe[j] # Complete(t)
    BY <2>1, <2>2
  <2>3. ASSUME NEW j \in 1..Len(Pipe), Pipe[j] = CancelOf(t),
               \A i \in 1..(j - 1) : Pipe[i] # Complete(t)
        PROVE  FALSE
    <3>1. j # 1 => 1 \in 1..(j - 1)
      OBVIOUS
    <3> QED
      BY <1>5, <2>1, <2>3, <3>1
  <2> QED
    BY <2>2, <2>3 DEF Doomed
<1>8. ASSUME t \in incoming'
      PROVE  \/ \E j \in 1..Len(Pipe') : /\ Pipe'[j] = CancelOf(t)
                                         /\ \A i \in 1..(j - 1) : Pipe'[i] # Complete(t)
             \/ ~Up' /\ \A j \in 1..Len(Pipe') : Pipe'[j] # Complete(t)
  <2>1. CASE ~Up /\ \A j \in 1..Len(Pipe) : Pipe[j] # Complete(t)
    <3>1. ~Up'
      BY <1>1, <2>1 DEF PipeMoves
    <3>2. CASE Pipe' = Pipe
      BY <2>1, <3>1, <3>2
    <3>3. CASE Pipe # <<>> /\ Pipe' = Tail(Pipe)
      <4>1. \A j \in 1..Len(Pipe') : j + 1 \in 1..Len(Pipe) /\ Pipe'[j] = Pipe[j + 1]
        BY <1>1, <3>3
      <4> QED
        BY <2>1, <3>1, <4>1
    <3>4. CASE /\ Len(Pipe') <= Len(Pipe) /\ Pipe' \in Seq(Message)
               /\ \A j \in 1..Len(Pipe') : Pipe'[j] = Pipe[j]
      <4>1. \A j \in 1..Len(Pipe') : j \in 1..Len(Pipe)
        BY <1>6, <3>4
      <4> QED
        BY <2>1, <3>1, <3>4, <4>1
    <3> QED
      BY <1>1, <2>1, <3>2, <3>3, <3>4 DEF PipeMoves
  <2>2. ASSUME NEW j \in 1..Len(Pipe), Pipe[j] = CancelOf(t),
               \A i \in 1..(j - 1) : Pipe[i] # Complete(t)
        PROVE  \/ \E k \in 1..Len(Pipe') : /\ Pipe'[k] = CancelOf(t)
                                           /\ \A i \in 1..(k - 1) : Pipe'[i] # Complete(t)
               \/ ~Up' /\ \A k \in 1..Len(Pipe') : Pipe'[k] # Complete(t)
    <3>1. CASE Pipe' = Pipe
      BY <2>2, <3>1
    <3>2. ASSUME NEW m \in Message, Pipe' = Append(Pipe, m)
          PROVE  \E k \in 1..Len(Pipe') : /\ Pipe'[k] = CancelOf(t)
                                          /\ \A i \in 1..(k - 1) : Pipe'[i] # Complete(t)
      <4>1. j \in 1..Len(Pipe') /\ \A i \in 1..Len(Pipe) : Pipe'[i] = Pipe[i]
        BY <1>1, <1>6, <3>2
      <4>2. \A i \in 1..(j - 1) : i \in 1..Len(Pipe)
        BY <1>6
      <4> QED
        BY <2>2, <4>1, <4>2
    <3>3. CASE Pipe # <<>> /\ Pipe' = Tail(Pipe) /\ Consume(Receiver, Head(Pipe))
      <4>1. Head(Pipe) # CancelOf(t)
        BY <1>2, <1>8, <3>3
      <4>2. j # 1
        BY <1>1, <2>2, <3>3, <4>1
      <4>3. /\ j - 1 \in 1..Len(Pipe')
            /\ \A i \in 1..Len(Pipe') : Pipe'[i] = Pipe[i + 1]
        BY <1>1, <1>6, <3>3, <4>2
      <4>4. Pipe'[j - 1] = CancelOf(t)
        BY <2>2, <4>3
      <4>5. \A i \in 1..((j - 1) - 1) : Pipe'[i] # Complete(t)
        <5> SUFFICES ASSUME NEW i \in 1..((j - 1) - 1)
                     PROVE  Pipe'[i] # Complete(t)
          OBVIOUS
        <5>1. i + 1 \in 1..(j - 1) /\ i \in 1..(j - 1)
          OBVIOUS
        <5>2. i \in 1..Len(Pipe')
          BY <1>1, <1>6, <3>3
        <5> QED
          BY <2>2, <4>3, <5>1, <5>2
      <4> QED
        BY <4>3, <4>4, <4>5
    <3>4. CASE /\ ~Up' /\ Len(Pipe') <= Len(Pipe) /\ Pipe' \in Seq(Message)
               /\ \A i \in 1..Len(Pipe') : Pipe'[i] = Pipe[i]
      <4>1. CASE j \in 1..Len(Pipe')
        <5>1. \A i \in 1..(j - 1) : i \in 1..Len(Pipe')
          BY <3>4, <4>1
        <5> QED
          BY <2>2, <3>4, <4>1, <5>1
      <4>2. CASE j \notin 1..Len(Pipe')
        <5>1. \A i \in 1..Len(Pipe') : i \in 1..(j - 1)
          BY <3>4, <4>2
        <5> QED
          BY <2>2, <3>4, <5>1
      <4> QED
        BY <4>1, <4>2
    <3> QED
      BY <1>1, <3>1, <3>2, <3>3, <3>4 DEF PipeMoves
  <2> QED
    BY <1>2, <1>8, <2>1, <2>2 DEF Doomed
<1> QED
  BY <1>2, <1>7, <1>8 DEF Doomed

\* With one decryption at a time, a cancel that is on its way ahead of the
\* complete message keeps the file from being saved, for good.
THEOREM CancelWins == ASSUME Workers = 1 PROVE Spec => CancelAheadOfCompleteWins
<1> SUFFICES ASSUME NEW t \in Transfers
             PROVE  Spec => [](CancelAhead(t) => [](saved[t] = NotSaved))
  BY DEF CancelAheadOfCompleteWins
<1>1. OrderInv /\ [Next]_vars => OrderInv'
  BY OrderStep
<1>2. OrderInv /\ CancelAhead(t) => Doomed(t)
  BY AheadIsDoomed
<1>3. OrderInv /\ [Next]_vars /\ Doomed(t) => Doomed(t)'
  BY DoomedStays
<1>4. Doomed(t) => saved[t] = NotSaved
  BY DEF Doomed
<1> QED
  BY <1>1, <1>2, <1>3, <1>4, OrderInit, PTL DEF Spec

-----------------------------------------------------------------------------
(* No chunk is lost or kept twice, for any number of decryptions.          *)

ChunksAt(q, t) == {i \in 1..Len(q) : q[i].kind = "chunk" /\ q[i].id = t}
ChunksIn(S, t) == {m \in S : m.kind = "chunk" /\ m.id = t}

LEMMA ChunksInFlightSum ==
  \A t : ChunksInFlight(t) = Cardinality(ChunksAt(wire[Receiver], t))
                             + Cardinality(ChunksIn(opening[Receiver], t))
BY DEF ChunksInFlight, ChunksAt, ChunksIn

LEMMA ChunksAtFinite ==
  ASSUME NEW q \in Seq(Message), NEW t
  PROVE  IsFiniteSet(ChunksAt(q, t)) /\ Cardinality(ChunksAt(q, t)) \in Nat
<1>1. IsFiniteSet(1..Len(q)) /\ ChunksAt(q, t) \in SUBSET (1..Len(q))
  BY FS_Interval DEF ChunksAt
<1> QED
  BY <1>1, FS_Subset, FS_CardinalityType

LEMMA AppendChunksAt ==
  ASSUME NEW q \in Seq(Message), NEW m \in Message, NEW t
  PROVE  Cardinality(ChunksAt(Append(q, m), t)) =
           IF IsChunk(m, t) THEN Cardinality(ChunksAt(q, t)) + 1
           ELSE Cardinality(ChunksAt(q, t))
<1> DEFINE n == Len(q) + 1
<1>1. /\ Len(q) \in Nat /\ Len(Append(q, m)) = n /\ n \notin 1..Len(q)
      /\ \A i \in 1..Len(q) : Append(q, m)[i] = q[i]
      /\ Append(q, m)[n] = m
      /\ 1..n = 1..Len(q) \cup {n}
  BY AppendProperties
<1>2. ChunksAt(Append(q, m), t) = IF IsChunk(m, t) THEN ChunksAt(q, t) \cup {n}
                                  ELSE ChunksAt(q, t)
  BY <1>1 DEF ChunksAt, IsChunk
<1>3. n \notin ChunksAt(q, t)
  BY <1>1 DEF ChunksAt
<1> HIDE DEF n
<1> QED
  BY <1>2, <1>3, ChunksAtFinite, FS_AddElement

LEMMA TailChunksAt ==
  ASSUME NEW q \in Seq(Message), q # <<>>, NEW t
  PROVE  Cardinality(ChunksAt(q, t)) =
           IF IsChunk(Head(q), t) THEN Cardinality(ChunksAt(Tail(q), t)) + 1
           ELSE Cardinality(ChunksAt(Tail(q), t))
<1> DEFINE r == Tail(q)
<1>1. /\ Len(q) \in Nat \ {0} /\ r \in Seq(Message) /\ Len(r) = Len(q) - 1
      /\ \A i \in 1..Len(r) : r[i] = q[i + 1]
      /\ Head(q) = q[1] /\ 1 \in 1..Len(q)
  OBVIOUS
<1> DEFINE S == ChunksAt(r, t)
           T == ChunksAt(q, t) \ {1}
<1>2. ExistsBijection(S, T)
  <2> DEFINE f == [i \in S |-> i + 1]
  <2>1. \A i \in S : i \in Int /\ i + 1 \in T
    BY <1>1 DEF ChunksAt
  <2>2. f \in [S -> T]
    BY <2>1
  <2>3. \A i, j \in S : f[i] = f[j] => i = j
    BY <2>1
  <2>4. \A j \in T : \E i \in S : f[i] = j
    <3> SUFFICES ASSUME NEW j \in T
                 PROVE  \E i \in S : f[i] = j
      OBVIOUS
    <3>1. j - 1 \in S
      BY <1>1 DEF ChunksAt
    <3>2. f[j - 1] = j
      BY <3>1 DEF ChunksAt
    <3> QED
      BY <3>1, <3>2
  <2> HIDE DEF f, S, T
  <2>5. f \in Bijection(S, T)
    BY <2>2, <2>3, <2>4 DEF Bijection, Injection, Surjection, IsInjective
  <2> QED
    BY <2>5 DEF ExistsBijection
<1>3. IsFiniteSet(S) /\ Cardinality(T) = Cardinality(S) /\ Cardinality(S) \in Nat
  BY <1>1, <1>2, ChunksAtFinite, FS_Bijection
<1>4. IsFiniteSet(ChunksAt(q, t)) /\ Cardinality(ChunksAt(q, t)) \in Nat
  BY ChunksAtFinite
<1>5. 1 \in ChunksAt(q, t) <=> IsChunk(Head(q), t)
  BY <1>1 DEF ChunksAt, IsChunk
<1>6. Cardinality(T) = IF 1 \in ChunksAt(q, t) THEN Cardinality(ChunksAt(q, t)) - 1
                       ELSE Cardinality(ChunksAt(q, t))
  BY <1>4, FS_RemoveElement
<1> QED
  BY <1>3, <1>4, <1>5, <1>6

LEMMA AddChunksIn ==
  ASSUME NEW S, IsFiniteSet(S), NEW m, NEW t, IsChunk(m, t) => m \notin S
  PROVE  Cardinality(ChunksIn(S \cup {m}, t)) =
           IF IsChunk(m, t) THEN Cardinality(ChunksIn(S, t)) + 1
           ELSE Cardinality(ChunksIn(S, t))
<1>1. IsFiniteSet(ChunksIn(S, t))
  BY FS_Subset DEF ChunksIn
<1>2. ChunksIn(S \cup {m}, t) = IF IsChunk(m, t) THEN ChunksIn(S, t) \cup {m}
                                ELSE ChunksIn(S, t)
  BY DEF ChunksIn, IsChunk
<1>3. IsChunk(m, t) => m \notin ChunksIn(S, t)
  BY DEF ChunksIn
<1> QED
  BY <1>1, <1>2, <1>3, FS_AddElement

LEMMA RemoveChunksIn ==
  ASSUME NEW S, IsFiniteSet(S), NEW m \in S, NEW t
  PROVE  /\ Cardinality(ChunksIn(S, t)) \in Nat
         /\ Cardinality(ChunksIn(S \ {m}, t)) =
              IF IsChunk(m, t) THEN Cardinality(ChunksIn(S, t)) - 1
              ELSE Cardinality(ChunksIn(S, t))
<1>1. IsFiniteSet(ChunksIn(S, t))
  BY FS_Subset DEF ChunksIn
<1>2. ChunksIn(S \ {m}, t) = IF IsChunk(m, t) THEN ChunksIn(S, t) \ {m}
                             ELSE ChunksIn(S, t)
  BY DEF ChunksIn, IsChunk
<1>3. IsChunk(m, t) => m \in ChunksIn(S, t)
  BY DEF ChunksIn, IsChunk
<1> QED
  BY <1>1, <1>2, <1>3, FS_RemoveElement, FS_CardinalityType

AllOpen == \A p \in Peers : chan[p] = "open"

\* A chunk is in flight once, and is one of those the loop has counted.
ChunkStage(t) ==
  /\ \A m \in InFlight(Receiver) :
       IsChunk(m, t) => Once(Receiver, m) /\ m.seq <= nextSeq[t]
  /\ t \in incoming /\ AllOpen => nextSeq[t] = Len(chunks[t]) + ChunksInFlight(t)

ConserveInv == /\ CountInv
               /\ \A p \in Peers : IsFiniteSet(opening[p])
               /\ \A t \in Transfers : ChunkStage(t)

LEMMA ConserveTypes ==
  ASSUME ConserveInv, NEW u \in Transfers
  PROVE  /\ TypeInv /\ CountInv /\ Stages(u) /\ Counted(u) /\ ChunkStage(u)
         /\ wire[Receiver] \in Seq(Message) /\ IsFiniteSet(opening[Receiver])
         /\ chunks[u] \in Seq(Block) /\ nextSeq[u] \in Nat
         /\ Cardinality(ChunksAt(wire[Receiver], u)) \in Nat
         /\ Cardinality(ChunksIn(opening[Receiver], u)) \in Nat
         /\ ChunksInFlight(u) = Cardinality(ChunksAt(wire[Receiver], u))
                                + Cardinality(ChunksIn(opening[Receiver], u))
<1>1. TypeInv
  BY DEF ConserveInv, CountInv, ConsentInv
<1>2. wire[Receiver] \in Seq(Message)
  BY <1>1, PeerTypes, WireType
<1>3. IsFiniteSet(opening[Receiver])
  BY PeerTypes DEF ConserveInv
<1>4. Cardinality(ChunksAt(wire[Receiver], u)) \in Nat
  BY <1>2, ChunksAtFinite
<1>5. IsFiniteSet(ChunksIn(opening[Receiver], u))
  BY <1>3, FS_Subset DEF ChunksIn
<1>6. Cardinality(ChunksIn(opening[Receiver], u)) \in Nat
  BY <1>5, FS_CardinalityType
<1> QED
  BY <1>1, <1>2, <1>3, <1>4, <1>6, ChunksInFlightSum
  DEF ConserveInv, CountInv, ConsentInv, TypeInv, TypeOK

\* The sum after a step.
LEMMA SumAfter ==
  ASSUME NEW t
  PROVE  ChunksInFlight(t)' = Cardinality(ChunksAt(wire'[Receiver], t))
                              + Cardinality(ChunksIn(opening'[Receiver], t))
BY DEF ChunksInFlight, ChunksAt, ChunksIn

\* What is in flight, by how a step touches the channel.
LEMMA ConserveStill ==
  ASSUME ConserveInv, NEW u \in Transfers,
         wire'[Receiver] = wire[Receiver], opening'[Receiver] = opening[Receiver],
         AllOpen' => AllOpen, nextSeq'[u] = nextSeq[u], chunks'[u] = chunks[u],
         u \in incoming' => u \in incoming
  PROVE  ChunkStage(u)'
<1>1. ChunkStage(u)
  BY ConserveTypes
<1>2. InFlight(Receiver)' = InFlight(Receiver) /\ \A m : Once(Receiver, m)' <=> Once(Receiver, m)
  BY DEF InFlight, Once
<1>3. ChunksInFlight(u)' = ChunksInFlight(u)
  BY DEF ChunksInFlight
<1> QED
  BY <1>1, <1>2, <1>3 DEF ChunkStage

LEMMA ConserveArrive ==
  ASSUME ConserveInv, NEW p \in Peers, Arrive(p), NEW u \in Transfers
  PROVE  ChunkStage(u)'
<1>1. /\ TypeInv /\ ChunkStage(u) /\ wire[Receiver] \in Seq(Message)
      /\ IsFiniteSet(opening[Receiver])
      /\ ChunksInFlight(u) = Cardinality(ChunksAt(wire[Receiver], u))
                             + Cardinality(ChunksIn(opening[Receiver], u))
      /\ Cardinality(ChunksAt(wire[Receiver], u)) \in Nat
      /\ Cardinality(ChunksIn(opening[Receiver], u)) \in Nat
  BY ConserveTypes
<1>2. /\ wire' = [wire EXCEPT ![p] = Tail(@)]
      /\ opening' = [opening EXCEPT ![p] = @ \cup {Head(wire[p])}]
      /\ chan' = chan /\ nextSeq' = nextSeq /\ chunks' = chunks /\ incoming' = incoming
      /\ wire[p] # <<>>
  BY <1>1, WireType, OtherType
  DEF Arrive, Arrived, sendVars, recvVars, TypeInv, TypeOK
<1>3. AllOpen' = AllOpen
  BY <1>2 DEF AllOpen
<1>4. CASE p # Receiver
  <2>1. wire'[Receiver] = wire[Receiver] /\ opening'[Receiver] = opening[Receiver]
    BY <1>1, <1>2, <1>4, PeerTypes DEF TypeInv, TypeOK
  <2> QED
    BY <1>2, <1>3, <2>1, ConserveStill
<1>5. CASE p = Receiver
  <2>1. PICK m \in Message : m = Head(wire[Receiver])
    BY <1>1, <1>2, <1>5
  <2>2. /\ wire[Receiver] # <<>> /\ wire[Receiver][1] = m /\ 1 \in 1..Len(wire[Receiver])
        /\ wire'[Receiver] = Tail(wire[Receiver])
        /\ opening'[Receiver] = opening[Receiver] \cup {m}
    BY <1>1, <1>2, <1>5, <2>1, PeerTypes DEF TypeInv, TypeOK
  <2>3. IsChunk(m, u) => m \notin opening[Receiver]
    <3>1. m \in InFlight(Receiver)
      BY <2>2 DEF InFlight
    <3> QED
      BY <1>1, <2>2, <3>1 DEF ChunkStage, Once
  <2>4. /\ Cardinality(ChunksAt(wire[Receiver], u)) =
             IF IsChunk(m, u) THEN Cardinality(ChunksAt(wire'[Receiver], u)) + 1
             ELSE Cardinality(ChunksAt(wire'[Receiver], u))
        /\ Cardinality(ChunksAt(wire'[Receiver], u)) \in Nat
    <3>1. PICK q \in Seq(Message) : q = wire[Receiver]
      BY <1>1
    <3>2. /\ q # <<>> /\ Head(q) = m /\ Tail(q) \in Seq(Message)
          /\ wire'[Receiver] = Tail(q)
      BY <2>2, <3>1
    <3>3. Cardinality(ChunksAt(q, u)) =
            IF IsChunk(Head(q), u) THEN Cardinality(ChunksAt(Tail(q), u)) + 1
            ELSE Cardinality(ChunksAt(Tail(q), u))
      BY <3>2, TailChunksAt
    <3>4. Cardinality(ChunksAt(Tail(q), u)) \in Nat
      BY <3>2, ChunksAtFinite
    <3> QED
      BY <3>1, <3>2, <3>3, <3>4
  <2>5. Cardinality(ChunksIn(opening'[Receiver], u)) =
          IF IsChunk(m, u) THEN Cardinality(ChunksIn(opening[Receiver], u)) + 1
          ELSE Cardinality(ChunksIn(opening[Receiver], u))
    BY <1>1, <2>2, <2>3, AddChunksIn
  <2>6. ChunksInFlight(u)' = ChunksInFlight(u)
    BY <1>1, <2>4, <2>5, SumAfter
  <2>7. NothingNew /\ OnceKept
    BY <1>1, ArriveInFlight
  <2> QED
    BY <1>1, <1>2, <1>3, <2>6, <2>7, PeerTypes DEF ChunkStage, NothingNew, OnceKept
<1> QED
  BY <1>4, <1>5

LEMMA ConserveConsume ==
  ASSUME ConserveInv, NEW p \in Peers, NEW m, Consume(p, m), wire' = wire, chan' = chan,
         NEW u \in Transfers, nextSeq'[u] = nextSeq[u],
         u \in incoming' => /\ u \in incoming
                            /\ Len(chunks'[u]) = IF p = Receiver /\ IsChunk(m, u)
                                                 THEN Len(chunks[u]) + 1 ELSE Len(chunks[u])
  PROVE  ChunkStage(u)'
<1>1. /\ TypeInv /\ ChunkStage(u) /\ wire[Receiver] \in Seq(Message)
      /\ IsFiniteSet(opening[Receiver])
      /\ ChunksInFlight(u) = Cardinality(ChunksAt(wire[Receiver], u))
                             + Cardinality(ChunksIn(opening[Receiver], u))
      /\ Cardinality(ChunksAt(wire[Receiver], u)) \in Nat
      /\ Cardinality(ChunksIn(opening[Receiver], u)) \in Nat
      /\ chunks[u] \in Seq(Block) /\ nextSeq[u] \in Nat
  BY ConserveTypes
<1>2. AllOpen' = AllOpen
  BY DEF AllOpen
<1>3. NothingNew /\ OnceKept
  BY <1>1, ConsumeInFlight
<1>4. \A x \in InFlight(Receiver)' :
        IsChunk(x, u) => Once(Receiver, x)' /\ x.seq <= nextSeq'[u]
  BY <1>1, <1>3, PeerTypes DEF ChunkStage, NothingNew, OnceKept
<1>5. ChunksInFlight(u)' = IF p = Receiver /\ IsChunk(m, u) THEN ChunksInFlight(u) - 1
                           ELSE ChunksInFlight(u)
  <2>1. CASE p = Receiver
    <3>1. m \in opening[Receiver] /\ opening'[Receiver] = opening[Receiver] \ {m}
      BY <1>1, <2>1 DEF Consume, TypeInv, TypeOK
    <3>2. Cardinality(ChunksIn(opening'[Receiver], u)) =
            IF IsChunk(m, u) THEN Cardinality(ChunksIn(opening[Receiver], u)) - 1
            ELSE Cardinality(ChunksIn(opening[Receiver], u))
      BY <1>1, <3>1, RemoveChunksIn, SMTT(20)
    <3> QED
      BY <1>1, <2>1, <3>2, SumAfter, SMTT(20)
  <2>2. CASE p # Receiver
    <3>1. opening'[Receiver] = opening[Receiver]
      BY <1>1, <2>2, PeerTypes DEF Consume, TypeInv, TypeOK
    <3> QED
      BY <1>1, <2>2, <3>1, SumAfter
  <2> QED
    BY <2>1, <2>2
<1>6. ASSUME u \in incoming', AllOpen'
      PROVE  nextSeq'[u] = Len(chunks'[u]) + ChunksInFlight(u)'
  <2>1. nextSeq[u] = Len(chunks[u]) + ChunksInFlight(u)
    BY <1>1, <1>2, <1>6 DEF ChunkStage
  <2>2. Len(chunks[u]) \in Nat /\ ChunksInFlight(u) \in Nat
    BY <1>1
  <2> QED
    BY <1>5, <1>6, <2>1, <2>2
<1> QED
  BY <1>4, <1>6 DEF ChunkStage

LEMMA ConserveTransmit ==
  ASSUME ConserveInv, NEW p \in Peers, NEW m \in Message, Transmit(p, m),
         opening' = opening, chan' = chan, NEW u \in Transfers,
         IsChunk(m, u) => p = Sender /\ m.seq = nextSeq[u] + 1,
         nextSeq'[u] = IF IsChunk(m, u) /\ Ready(Sender) THEN nextSeq[u] + 1 ELSE nextSeq[u],
         chunks'[u] = chunks[u], u \in incoming' => u \in incoming
  PROVE  ChunkStage(u)'
<1>1. /\ TypeInv /\ ChunkStage(u) /\ wire[Receiver] \in Seq(Message)
      /\ IsFiniteSet(opening[Receiver])
      /\ ChunksInFlight(u) = Cardinality(ChunksAt(wire[Receiver], u))
                             + Cardinality(ChunksIn(opening[Receiver], u))
      /\ Cardinality(ChunksAt(wire[Receiver], u)) \in Nat
      /\ Cardinality(ChunksIn(opening[Receiver], u)) \in Nat
      /\ chunks[u] \in Seq(Block) /\ nextSeq[u] \in Nat
  BY ConserveTypes
<1>2. AllOpen' = AllOpen
  BY DEF AllOpen
<1>3. CASE p # Sender
  <2>1. Other(p) = Sender /\ Sender # Receiver
    BY <1>3 DEF Other, Peers, Sender, Receiver
  <2>2. wire'[Receiver] = wire[Receiver]
    BY <1>1, <2>1, PeerTypes DEF Transmit, TypeInv, TypeOK
  <2> QED
    BY <1>2, <1>3, <2>2, ConserveStill
<1>4. CASE p = Sender /\ ~Ready(Sender)
  <2>1. wire' = wire
    BY <1>4 DEF Transmit
  <2> QED
    BY <1>2, <1>4, <2>1, ConserveStill
<1>5. CASE p = Sender /\ Ready(Sender)
  <2>1. Other(Sender) = Receiver
    BY DEF Other
  <2>2. /\ InFlight(Receiver)' \subseteq InFlight(Receiver) \cup {m}
        /\ \A x : x # m /\ Once(Receiver, x) => Once(Receiver, x)'
        /\ m \notin InFlight(Receiver) => Once(Receiver, m)'
    BY <1>1, <1>5, <2>1, PeerTypes, TransmitInFlight
  <2>3. ASSUME NEW x \in InFlight(Receiver)', IsChunk(x, u)
        PROVE  Once(Receiver, x)' /\ x.seq <= nextSeq'[u]
    <3>1. CASE x = m
      <4>1. m.seq = nextSeq[u] + 1 /\ nextSeq'[u] = nextSeq[u] + 1
        BY <1>5, <2>3, <3>1
      <4>2. m \notin InFlight(Receiver)
        BY <1>1, <2>3, <3>1, <4>1 DEF ChunkStage
      <4> QED
        BY <1>1, <2>2, <3>1, <4>1, <4>2
    <3>2. CASE x # m
      <4>1. x \in InFlight(Receiver) /\ Once(Receiver, x) /\ x.seq <= nextSeq[u]
        BY <1>1, <2>2, <2>3, <3>2 DEF ChunkStage
      <4>2. x.seq \in Nat
        <5>1. x \in Message /\ x.kind = "chunk"
          BY <1>1, <2>3, <4>1, PeerTypes, WireType DEF InFlight, IsChunk
        <5> QED
          BY <5>1 DEF Message, ControlKind
      <4>3. nextSeq[u] <= nextSeq'[u]
        BY <1>1
      <4>4. nextSeq'[u] \in Nat
        BY <1>1
      <4> QED
        BY <1>1, <2>2, <3>2, <4>1, <4>2, <4>3, <4>4
    <3> QED
      BY <3>1, <3>2
  <2>4. ASSUME u \in incoming', AllOpen'
        PROVE  nextSeq'[u] = Len(chunks'[u]) + ChunksInFlight(u)'
    <3>1. nextSeq[u] = Len(chunks[u]) + ChunksInFlight(u)
      BY <1>1, <1>2, <2>4 DEF ChunkStage
    <3>2. chan[Receiver] # "gone"
      BY <1>2, <2>4, PeerTypes DEF AllOpen
    <3>3. wire'[Receiver] = Append(wire[Receiver], m)
      BY <1>1, <1>5, <2>1, <3>2, PeerTypes DEF Transmit, TypeInv, TypeOK
    <3>4. Cardinality(ChunksAt(wire'[Receiver], u)) =
            IF IsChunk(m, u) THEN Cardinality(ChunksAt(wire[Receiver], u)) + 1
            ELSE Cardinality(ChunksAt(wire[Receiver], u))
      BY <1>1, <3>3, AppendChunksAt
    <3>5. ChunksInFlight(u)' = IF IsChunk(m, u) THEN ChunksInFlight(u) + 1
                               ELSE ChunksInFlight(u)
      BY <1>1, <3>4, SumAfter, SMTT(20)
    <3>6. Len(chunks[u]) \in Nat /\ ChunksInFlight(u) \in Nat
      BY <1>1
    <3> QED
      BY <1>5, <3>1, <3>5, <3>6
  <2> QED
    BY <2>3, <2>4 DEF ChunkStage
<1> QED
  BY <1>3, <1>4, <1>5

LEMMA ConserveInit == Init => ConserveInv
<1> SUFFICES ASSUME Init
             PROVE  ConserveInv
  OBVIOUS
<1>1. InFlight(Receiver) = {}
  BY PeerTypes DEF Init, InFlight
<1>2. /\ \A p \in Peers : opening[p] = {}
      /\ incoming = {}
  BY DEF Init
<1>3. \A p \in Peers : IsFiniteSet(opening[p])
  BY <1>2, FS_EmptySet
<1>4. \A t \in Transfers : ChunkStage(t)
  BY <1>1, <1>2 DEF ChunkStage
<1> QED
  BY <1>3, <1>4, CountInit DEF ConserveInv

\* Decryptions in progress: one more, one fewer or the same.
LEMMA OpeningFinite ==
  ASSUME TypeInv, \A p \in Peers : IsFiniteSet(opening[p]), [Next]_vars
  PROVE  \A p \in Peers : IsFiniteSet(opening'[p])
<1>1. \/ opening' = opening
      \/ \E p \in Peers : \E m : opening' = [opening EXCEPT ![p] = @ \cup {m}]
      \/ \E p \in Peers : \E m : m \in opening[p] /\ opening' = [opening EXCEPT ![p] = @ \ {m}]
  <2>1. CASE UNCHANGED vars
    BY <2>1 DEF vars
  <2>2. ASSUME NEW p \in Peers, ChannelStep(p)
        PROVE  \/ opening' = opening
               \/ \E m : opening' = [opening EXCEPT ![p] = @ \cup {m}]
    BY <2>2 DEF ChannelStep, Drain, Arrive, ConnectionLost, Close, OnClose
  <2>3. ASSUME NEW p \in Peers, NEW t \in Transfers, CancelStep(p, t)
        PROVE  \/ opening' = opening
               \/ \E m : m \in opening[p] /\ opening' = [opening EXCEPT ![p] = @ \ {m}]
    BY <2>3 DEF CancelStep, Cancel, SendCancel, OnCancel, Consume, chanVars
  <2>4. ASSUME NEW t \in Transfers, SenderStep(t)
        PROVE  \/ opening' = opening
               \/ \E m : m \in opening[Sender]
                         /\ opening' = [opening EXCEPT ![Sender] = @ \ {m}]
    BY <2>4 DEF SenderStep, SendFile, SendOffer, OnAcceptFile, OnRejectFile, SendChunk,
                DigestDone, SendComplete, Consume, chanVars
  <2>5. ASSUME NEW t \in Transfers, ReceiverStep(t)
        PROVE  \/ opening' = opening
               \/ \E m : m \in opening[Receiver]
                         /\ opening' = [opening EXCEPT ![Receiver] = @ \ {m}]
    BY <2>5 DEF ReceiverStep, OnOfferFile, Accept, Reject, SendAccept, SendReject,
                OnChunkFrame, OnComplete, Verify, Consume, chanVars
  <2> QED
    BY <2>1, <2>2, <2>3, <2>4, <2>5, PeerTypes DEF Next
<1>2. ASSUME NEW p \in Peers
      PROVE  IsFiniteSet(opening'[p])
  <2>1. CASE opening' = opening
    BY <2>1
  <2>2. ASSUME NEW q \in Peers, NEW m, opening' = [opening EXCEPT ![q] = @ \cup {m}]
        PROVE  IsFiniteSet(opening'[p])
    <3>1. opening'[p] = opening[p] \/ opening'[p] = opening[p] \cup {m}
      BY <2>2 DEF TypeInv, TypeOK
    <3> QED
      BY <3>1, FS_AddElement
  <2>3. ASSUME NEW q \in Peers, NEW m, opening' = [opening EXCEPT ![q] = @ \ {m}]
        PROVE  IsFiniteSet(opening'[p])
    <3>1. opening'[p] = opening[p] \/ opening'[p] = opening[p] \ {m}
      BY <2>3 DEF TypeInv, TypeOK
    <3> QED
      BY <3>1, FS_RemoveElement
  <2> QED
    BY <1>1, <2>1, <2>2, <2>3
<1> QED
  BY <1>2

LEMMA ConserveCut ==
  ASSUME ConserveInv, NothingNew, OnceKept, ~AllOpen', nextSeq' = nextSeq, NEW u \in Transfers
  PROVE  ChunkStage(u)'
<1>1. ChunkStage(u)
  BY ConserveTypes
<1>2. \A x \in InFlight(Receiver)' :
        IsChunk(x, u) => Once(Receiver, x)' /\ x.seq <= nextSeq'[u]
  BY <1>1, PeerTypes DEF ChunkStage, NothingNew, OnceKept
<1> QED
  BY <1>2 DEF ChunkStage

LEMMA ConserveChannel ==
  ASSUME ConserveInv, NEW p \in Peers, ChannelStep(p), NEW u \in Transfers
  PROVE  ChunkStage(u)'
<1>1. TypeInv
  BY ConserveTypes
<1>2. nextSeq' = nextSeq /\ chunks' = chunks /\ incoming' = incoming
  BY DEF ChannelStep, Drain, Arrive, ConnectionLost, Close, OnClose, sendVars, recvVars
<1>3. CASE Drain(p) \/ ConnectionLost(p)
  <2>1. wire' = wire /\ opening' = opening /\ chan' = chan
    BY <1>3 DEF Drain, ConnectionLost
  <2>2. AllOpen' = AllOpen
    BY <2>1 DEF AllOpen
  <2> QED
    BY <1>2, <2>1, <2>2, ConserveStill
<1>4. CASE Arrive(p)
  BY <1>4, ConserveArrive
<1>5. CASE Close(p) \/ OnClose(p)
  <2>1. NothingNew /\ OnceKept
    BY <1>1, ChannelInFlight
  <2>2. chan'[p] # "open"
    BY <1>1, <1>5 DEF Close, OnClose, TypeInv, TypeOK
  <2> QED
    BY <1>2, <2>1, <2>2, ConserveCut DEF AllOpen
<1> QED
  BY <1>3, <1>4, <1>5 DEF ChannelStep

LEMMA ConserveCancel ==
  ASSUME ConserveInv, NEW p \in Peers, NEW t \in Transfers, CancelStep(p, t),
         NEW u \in Transfers
  PROVE  ChunkStage(u)'
<1>1. TypeInv
  BY ConserveTypes
<1>2. /\ nextSeq' = nextSeq /\ chunks' = chunks /\ incoming' \subseteq incoming
      /\ chan' = chan /\ AllOpen' = AllOpen
  BY DEF CancelStep, Cancel, SendCancel, OnCancel, chanVars, sendVars, recvVars, AllOpen
<1>3. ~IsChunk(Control("cancel", t), u)
  BY DEF IsChunk, Control
<1>4. CASE Cancel(p, t)
  BY <1>2, <1>4, ConserveStill DEF Cancel, chanVars
<1>5. CASE SendCancel(p, t)
  <2>1. /\ Control("cancel", t) \in Message /\ Transmit(p, Control("cancel", t))
        /\ opening' = opening
    BY <1>5, ControlType DEF SendCancel, ControlKind
  <2> QED
    BY <1>2, <1>3, <2>1, ConserveTransmit
<1>6. CASE OnCancel(p, t)
  <2>1. Consume(p, Control("cancel", t)) /\ wire' = wire
    BY <1>6 DEF OnCancel
  <2> QED
    BY <1>2, <1>3, <2>1, ConserveConsume
<1> QED
  BY <1>4, <1>5, <1>6 DEF CancelStep

LEMMA ConserveSender ==
  ASSUME ConserveInv, NEW t \in Transfers, SenderStep(t), NEW u \in Transfers
  PROVE  ChunkStage(u)'
<1>1. /\ TypeInv /\ Counted(t) /\ Stages(t) /\ nextSeq[t] \in Nat
  BY ConserveTypes
<1>2. chunks' = chunks /\ incoming' = incoming /\ chan' = chan /\ AllOpen' = AllOpen
  BY DEF SenderStep, SendFile, SendOffer, OnAcceptFile, OnRejectFile, SendChunk,
         DigestDone, SendComplete, chanVars, recvVars, AllOpen
<1>3. CASE SendFile(t) \/ DigestDone(t)
  BY <1>2, <1>3, ConserveStill DEF SendFile, DigestDone, chanVars
<1>4. CASE SendOffer(t) \/ SendComplete(t)
  <2>1. PICK k \in {"offer-file", "complete"} : Transmit(Sender, Control(k, t))
    BY <1>4 DEF SendOffer, SendComplete
  <2>2. opening' = opening /\ nextSeq' = nextSeq
    BY <1>4 DEF SendOffer, SendComplete
  <2>3. Control(k, t) \in Message /\ ~IsChunk(Control(k, t), u)
    BY <2>1, ControlType DEF ControlKind, IsChunk, Control
  <2> QED
    BY <1>2, <2>1, <2>2, <2>3, PeerTypes, ConserveTransmit
<1>5. CASE OnAcceptFile(t)
  <2>1. Consume(Sender, Acceptance(t)) /\ wire' = wire
    BY <1>5 DEF OnAcceptFile, Acceptance
  <2>2. Acceptance(t) \in InFlight(Sender)
    BY <2>1 DEF Consume, InFlight
  <2>3. nextSeq[t] = 0
    BY <1>1, <2>2 DEF Stages, AnswerStage, Counted
  <2>4. nextSeq' = nextSeq
    <3>1. nextSeq' = nextSeq \/ nextSeq' = [nextSeq EXCEPT ![t] = 0]
      BY <1>5 DEF OnAcceptFile
    <3> QED
      BY <1>1, <2>3, <3>1 DEF TypeInv, TypeOK
  <2>5. Sender # Receiver
    BY DEF Sender, Receiver
  <2> QED
    BY <1>2, <2>1, <2>4, <2>5, PeerTypes, ConserveConsume
<1>6. CASE OnRejectFile(t)
  <2>1. Consume(Sender, Control("reject-file", t)) /\ wire' = wire /\ nextSeq' = nextSeq
    BY <1>6 DEF OnRejectFile
  <2>2. Sender # Receiver
    BY DEF Sender, Receiver
  <2> QED
    BY <1>2, <2>1, <2>2, PeerTypes, ConserveConsume
<1>7. CASE SendChunk(t)
  <2>1. nextSeq[t] + 1 \in 1..Len(File[t])
    BY <1>1, <1>7, FileAssumption DEF SendChunk, TypeInv, TypeOK, InBounds
  <2>2. PICK m \in Message : m = Chunk(t, nextSeq[t] + 1)
    BY <2>1, ChunkType
  <2>3. Transmit(Sender, m) /\ opening' = opening
    BY <1>7, <2>2 DEF SendChunk
  <2>4. m.seq = nextSeq[t] + 1 /\ (IsChunk(m, u) <=> u = t)
    BY <2>2 DEF Chunk, IsChunk
  <2>5. nextSeq'[u] = IF IsChunk(m, u) /\ Ready(Sender) THEN nextSeq[u] + 1 ELSE nextSeq[u]
    <3>1. \/ ~Ready(Sender) /\ nextSeq' = nextSeq
          \/ Ready(Sender) /\ nextSeq' = [nextSeq EXCEPT ![t] = @ + 1]
      BY <1>7 DEF SendChunk
    <3> QED
      BY <1>1, <2>4, <3>1 DEF TypeInv, TypeOK
  <2>6. IsChunk(m, u) => m.seq = nextSeq[u] + 1
    BY <2>4
  <2> QED
    BY <1>2, <2>3, <2>5, <2>6, PeerTypes, ConserveTransmit
<1> QED
  BY <1>3, <1>4, <1>5, <1>6, <1>7 DEF SenderStep

LEMMA ConserveReceiver ==
  ASSUME ConserveInv, NEW t \in Transfers, ReceiverStep(t), NEW u \in Transfers
  PROVE  ChunkStage(u)'
<1>1. /\ TypeInv /\ Counted(t) /\ Stages(t) /\ ChunkStage(t)
      /\ wire[Receiver] \in Seq(Message) /\ chunks[u] \in Seq(Block) /\ nextSeq[u] \in Nat
  BY ConserveTypes
<1>2. nextSeq' = nextSeq /\ chan' = chan /\ AllOpen' = AllOpen
  BY DEF ReceiverStep, OnOfferFile, Accept, Reject, SendAccept, SendReject,
         OnChunkFrame, OnComplete, Verify, chanVars, sendVars, AllOpen
<1>3. CASE OnOfferFile(t)
  <2>1. /\ Consume(Receiver, Offer(t)) /\ wire' = wire
        /\ incoming' = incoming \cup {t} /\ chunks' = [chunks EXCEPT ![t] = <<>>]
    BY <1>3 DEF OnOfferFile, Offer
  <2>2. ~IsChunk(Offer(t), u)
    BY DEF IsChunk, Control, Offer
  <2>3. CASE u # t
    <3>1. chunks'[u] = chunks[u] /\ (u \in incoming' => u \in incoming)
      BY <1>1, <2>1, <2>3 DEF TypeInv, TypeOK
    <3> QED
      BY <1>2, <2>1, <2>2, <3>1, PeerTypes, ConserveConsume
  <2>4. CASE u = t
    <3>1. Offer(t) \in InFlight(Receiver) /\ NothingNew
      BY <1>1, <2>1, PeerTypes, ConsumeInFlight
    <3>2. stream[t] = "idle"
      BY <1>1, <3>1 DEF Stages, OfferStage, AnswerStage
    <3>3. nextSeq[t] = 0 /\ \A m \in InFlight(Receiver) : ~IsChunk(m, t)
      BY <1>1, <3>2 DEF Stages, StreamStage, Counted, Data, IsChunk
    <3>4. \A m \in InFlight(Receiver)' : ~IsChunk(m, t)
      BY <3>1, <3>3, PeerTypes DEF NothingNew
    <3>5. ChunksAt(wire'[Receiver], t) = {} /\ ChunksIn(opening'[Receiver], t) = {}
      BY <3>4 DEF InFlight, IsChunk, ChunksAt, ChunksIn
    <3>6. ChunksInFlight(t)' = 0
      BY <3>5, SumAfter, FS_EmptySet
    <3>7. chunks'[t] = <<>>
      BY <1>1, <2>1 DEF TypeInv, TypeOK
    <3>8. nextSeq'[t] = Len(chunks'[t]) + ChunksInFlight(t)'
      BY <1>2, <3>3, <3>6, <3>7
    <3> QED
      BY <2>4, <3>4, <3>8 DEF ChunkStage
  <2> QED
    BY <2>3, <2>4
<1>4. CASE Accept(t) \/ Reject(t) \/ Verify(t)
  <2>1. /\ wire' = wire /\ opening' = opening /\ incoming' \subseteq incoming
        /\ chunks' = chunks
    BY <1>4 DEF Accept, Reject, Verify, chanVars
  <2> QED
    BY <1>2, <2>1, ConserveStill
<1>5. CASE SendAccept(t) \/ SendReject(t)
  <2>1. PICK k \in {"accept-file", "reject-file"} : Transmit(Receiver, Control(k, t))
    BY <1>5 DEF SendAccept, SendReject
  <2>2. opening' = opening /\ incoming' = incoming /\ chunks' = chunks
    BY <1>5 DEF SendAccept, SendReject
  <2>3. Control(k, t) \in Message /\ ~IsChunk(Control(k, t), u)
    BY <2>1, ControlType DEF ControlKind, IsChunk, Control
  <2> QED
    BY <1>2, <2>1, <2>2, <2>3, PeerTypes, ConserveTransmit
<1>6. CASE OnChunkFrame(t)
  <2>1. PICK i \in 1..Len(File[t]) :
          /\ Consume(Receiver, Chunk(t, i))
          /\ chunks' = IF t \in incoming
                       THEN [chunks EXCEPT ![t] = Append(@, Chunk(t, i).data)]
                       ELSE chunks
    BY <1>6 DEF OnChunkFrame
  <2>2. wire' = wire /\ incoming' = incoming
    BY <1>6 DEF OnChunkFrame
  <2>3. IsChunk(Chunk(t, i), u) <=> u = t
    BY DEF Chunk, IsChunk
  <2>4. u \in incoming =>
          Len(chunks'[u]) = IF u = t THEN Len(chunks[u]) + 1 ELSE Len(chunks[u])
    <3>1. Chunk(t, i).data \in Block
      BY <2>1, FileAssumption DEF Chunk
    <3>2. CASE u # t
      BY <1>1, <2>1, <3>2 DEF TypeInv, TypeOK
    <3>3. CASE u = t /\ t \in incoming
      <4>1. chunks'[t] = Append(chunks[t], Chunk(t, i).data)
        BY <1>1, <2>1, <3>3 DEF TypeInv, TypeOK
      <4> QED
        BY <1>1, <3>1, <3>3, <4>1
    <3> QED
      BY <3>2, <3>3
  <2> QED
    BY <1>2, <2>1, <2>2, <2>3, <2>4, PeerTypes, ConserveConsume
<1>7. CASE OnComplete(t)
  <2>1. /\ Consume(Receiver, Complete(t)) /\ wire' = wire
        /\ incoming' = incoming /\ chunks' = chunks
    BY <1>7 DEF OnComplete, Complete
  <2>2. ~IsChunk(Complete(t), u)
    BY DEF IsChunk, Control, Complete
  <2> QED
    BY <1>2, <2>1, <2>2, PeerTypes, ConserveConsume
<1> QED
  BY <1>3, <1>4, <1>5, <1>6, <1>7 DEF ReceiverStep

LEMMA ConserveStep == ConserveInv /\ [Next]_vars => ConserveInv'
<1> SUFFICES ASSUME ConserveInv, [Next]_vars
             PROVE  ConserveInv'
  OBVIOUS
<1>1. CountInv' /\ \A p \in Peers : IsFiniteSet(opening'[p])
  BY CountStep, OpeningFinite DEF ConserveInv, CountInv, ConsentInv
<1>2. ASSUME NEW u \in Transfers
      PROVE  ChunkStage(u)'
  <2>1. CASE Next
    BY <2>1, ConserveChannel, ConserveSender, ConserveReceiver, ConserveCancel DEF Next
  <2>2. CASE UNCHANGED vars
    <3>1. /\ wire' = wire /\ opening' = opening /\ nextSeq' = nextSeq
          /\ chunks' = chunks /\ incoming' = incoming /\ AllOpen' = AllOpen
      BY <2>2 DEF vars, AllOpen
    <3> QED
      BY <3>1, ConserveStill
  <2> QED
    BY <2>1, <2>2
<1> QED
  BY <1>1, <1>2 DEF ConserveInv

\* Every chunk put on an open channel is in flight or kept, once, however many
\* decryptions run at a time and in whatever order they end.
THEOREM ChunksAreConserved == Spec => []ChunkConservation
<1>1. ConserveInv => ChunkConservation
  <2> SUFFICES ASSUME ConserveInv, NEW t \in incoming, AllOpen
               PROVE  nextSeq[t] = Len(chunks[t]) + ChunksInFlight(t)
    BY DEF ChunkConservation, AllOpen
  <2>1. t \in Transfers
    BY DEF ConserveInv, CountInv, ConsentInv, TypeInv, TypeOK
  <2> QED
    BY <2>1 DEF ConserveInv, ChunkStage
<1>2. ConserveInv /\ [Next]_vars => ConserveInv'
  BY ConserveStep
<1> QED
  BY <1>1, <1>2, ConserveInit, PTL DEF Spec

-----------------------------------------------------------------------------
(* The receiver's cancel stops the stream.  While both ends are open the   *)
(* cancel is in flight or dispatched; once it is dispatched the transfer   *)
(* is out of the sender's map, where nothing touches its state, and that   *)
(* state is 'cancelled' if a chunk is in hand.                             *)

Refusal(t) == Control("reject-file", t)

CancelStage(t) ==
  /\ inState[t] # "none" \/ cancelTask[Receiver][t] # "idle" => answer[t] # "idle"
  /\ Refusal(t) \in InFlight(Sender) => answer[t] = "rejected"
  /\ offerTask[t] # "idle" /\ t \notin outgoing /\ stream[t] = "chunk"
       => outState[t] = "cancelled"
  /\ AllOpen /\ cancelTask[Receiver][t] = "sent" /\ t \in outgoing
       => CancelOf(t) \in InFlight(Sender)

CancelInv == CountInv /\ \A t \in Transfers : CancelStage(t)

\* A message to the sender is in flight until it is dispatched or an end closes.
LEMMA KeptUntilDispatched ==
  ASSUME TypeInv, [Next]_vars, AllOpen', NEW m \in InFlight(Sender),
         m \notin InFlight(Sender)'
  PROVE  Consume(Sender, m)
<1>1. wire' # wire \/ opening' # opening
  BY DEF InFlight
<1>2. ASSUME NEW p \in Peers, NEW x, Consume(p, x), wire' = wire
      PROVE  Consume(Sender, m)
  <2>1. p = Sender /\ x = m
    BY <1>2, PeerTypes DEF InFlight, Consume, TypeInv, TypeOK
  <2> QED
    BY <1>2, <2>1
<1>3. ASSUME NEW p \in Peers, NEW x \in Message, Transmit(p, x), opening' = opening
      PROVE  FALSE
  <2>1. CASE wire' = wire
    BY <1>3, <2>1 DEF InFlight
  <2>2. CASE wire' = [wire EXCEPT ![Other(p)] = Append(@, x)]
    <3>1. wire'[Sender] = wire[Sender] \/ wire'[Sender] = Append(wire[Sender], x)
      BY <2>2, PeerTypes, OtherType DEF TypeInv, TypeOK
    <3>2. wire[Sender] \in Seq(Message)
      BY PeerTypes, WireType
    <3>3. /\ 1..Len(wire[Sender]) \subseteq 1..Len(wire'[Sender])
          /\ \A i \in 1..Len(wire[Sender]) : wire'[Sender][i] = wire[Sender][i]
      BY <3>1, <3>2
    <3>4. m \notin opening[Sender]
      BY <1>3 DEF InFlight
    <3>5. PICK i \in 1..Len(wire[Sender]) : wire[Sender][i] = m
      BY <3>4 DEF InFlight
    <3>6. i \in 1..Len(wire'[Sender]) /\ wire'[Sender][i] = m
      BY <3>3, <3>5
    <3> QED
      BY <3>6 DEF InFlight
  <2> QED
    BY <1>3, <2>1, <2>2 DEF Transmit
<1>4. ASSUME NEW p \in Peers, ChannelStep(p)
      PROVE  FALSE
  <2>1. CASE Drain(p) \/ ConnectionLost(p)
    BY <1>1, <2>1 DEF Drain, ConnectionLost
  <2>2. CASE Close(p) \/ OnClose(p)
    <3>1. chan'[p] # "open"
      BY <2>2 DEF Close, OnClose, TypeInv, TypeOK
    <3> QED
      BY <3>1 DEF AllOpen
  <2>3. CASE Arrive(p)
    <3>1. /\ wire[p] \in Seq(Message) /\ wire[p] # <<>>
          /\ wire' = [wire EXCEPT ![p] = Tail(@)]
          /\ opening' = [opening EXCEPT ![p] = @ \cup {Head(wire[p])}]
      BY <2>3, OtherType DEF Arrive, Arrived, TypeInv, TypeOK
    <3>2. p = Sender
      BY <3>1, PeerTypes DEF InFlight, TypeInv, TypeOK
    <3>3. wire'[Sender] = Tail(wire[Sender]) /\ opening'[Sender] = opening[Sender] \cup {wire[Sender][1]}
      BY <3>1, <3>2 DEF TypeInv, TypeOK
    <3>4. PICK i \in 1..Len(wire[Sender]) : wire[Sender][i] = m
      BY <3>3 DEF InFlight
    <3>5. i # 1
      BY <3>3, <3>4 DEF InFlight
    <3>6. /\ Len(wire[Sender]) \in Nat /\ Len(wire'[Sender]) = Len(wire[Sender]) - 1
          /\ \A j \in 1..Len(wire'[Sender]) : wire'[Sender][j] = wire[Sender][j + 1]
      <4>1. wire[Sender] \in Seq(Message) /\ wire[Sender] # <<>>
        BY <3>1, <3>2
      <4> QED
        BY <3>3, <4>1
    <3>7. i - 1 \in 1..Len(wire'[Sender]) /\ wire'[Sender][i - 1] = wire[Sender][i]
      BY <3>4, <3>5, <3>6
    <3> QED
      BY <3>4, <3>7 DEF InFlight
  <2> QED
    BY <1>4, <2>1, <2>2, <2>3 DEF ChannelStep
<1>5. ASSUME NEW t \in Transfers, SenderStep(t)
      PROVE  Consume(Sender, m)
  <2>1. CASE SendFile(t) \/ DigestDone(t)
    BY <1>1, <2>1 DEF SendFile, DigestDone, chanVars
  <2>2. CASE SendOffer(t) \/ SendComplete(t)
    <3>1. PICK k \in ControlKind : Transmit(Sender, Control(k, t)) /\ opening' = opening
      BY <2>2 DEF SendOffer, SendComplete, ControlKind
    <3> QED
      BY <1>3, <3>1, PeerTypes, ControlType
  <2>3. CASE SendChunk(t)
    <3>1. nextSeq[t] + 1 \in 1..Len(File[t])
      BY <2>3, FileAssumption DEF SendChunk, TypeInv, TypeOK, InBounds
    <3> QED
      BY <1>3, <2>3, <3>1, PeerTypes, ChunkType DEF SendChunk
  <2>4. CASE OnAcceptFile(t) \/ OnRejectFile(t)
    BY <1>2, <2>4, PeerTypes DEF OnAcceptFile, OnRejectFile
  <2> QED
    BY <1>5, <2>1, <2>2, <2>3, <2>4 DEF SenderStep
<1>6. ASSUME NEW t \in Transfers, ReceiverStep(t)
      PROVE  Consume(Sender, m)
  <2>1. CASE Accept(t) \/ Reject(t) \/ Verify(t)
    BY <1>1, <2>1 DEF Accept, Reject, Verify, chanVars
  <2>2. CASE SendAccept(t) \/ SendReject(t)
    <3>1. PICK k \in ControlKind : Transmit(Receiver, Control(k, t)) /\ opening' = opening
      BY <2>2 DEF SendAccept, SendReject, ControlKind
    <3> QED
      BY <1>3, <3>1, PeerTypes, ControlType
  <2>3. CASE OnOfferFile(t) \/ OnChunkFrame(t) \/ OnComplete(t)
    <3>1. (\E x : Consume(Receiver, x)) /\ wire' = wire
      BY <2>3 DEF OnOfferFile, OnChunkFrame, OnComplete
    <3> QED
      BY <1>2, <3>1, PeerTypes
  <2> QED
    BY <1>6, <2>1, <2>2, <2>3 DEF ReceiverStep
<1>7. ASSUME NEW p \in Peers, NEW t \in Transfers, CancelStep(p, t)
      PROVE  Consume(Sender, m)
  <2>1. CASE Cancel(p, t)
    BY <1>1, <2>1 DEF Cancel, chanVars
  <2>2. CASE SendCancel(p, t)
    <3>1. Control("cancel", t) \in Message
      BY ControlType DEF ControlKind
    <3> QED
      BY <1>3, <2>2, <3>1 DEF SendCancel
  <2>3. CASE OnCancel(p, t)
    BY <1>2, <2>3 DEF OnCancel
  <2> QED
    BY <1>7, <2>1, <2>2, <2>3 DEF CancelStep
<1> QED
  BY <1>1, <1>4, <1>5, <1>6, <1>7 DEF Next, vars

\* What a step of the receiver's or of the users does to answer, inState and
\* the receiver's cancel().
LEMMA AskedStep ==
  ASSUME CancelInv, [Next]_vars, NEW u \in Transfers
  PROVE  /\ answer[u] # "idle" => answer'[u] # "idle"
         /\ inState'[u] # "none" \/ cancelTask'[Receiver][u] # "idle" => answer'[u] # "idle"
<1>1. /\ CancelStage(u) /\ Counted(u) /\ Stages(u) /\ TypeInv
      /\ answer \in [Transfers -> {"idle", "asking", "accepting", "accepted",
                                   "rejecting", "rejected", "dead"}]
  BY DEF CancelInv, CountInv, ConsentInv, TypeInv, TypeOK
<1>2. ASSUME answer'[u] = answer[u], inState'[u] = inState[u] \/ u \in incoming,
             cancelTask'[Receiver][u] = cancelTask[Receiver][u] \/ inState[u] # "none"
      PROVE  /\ answer[u] # "idle" => answer'[u] # "idle"
             /\ inState'[u] # "none" \/ cancelTask'[Receiver][u] # "idle"
                  => answer'[u] # "idle"
  BY <1>1, <1>2 DEF CancelStage, Counted
<1>3. CASE UNCHANGED vars
  BY <1>2, <1>3 DEF vars
<1>4. ASSUME NEW p \in Peers, ChannelStep(p)
      PROVE  answer' = answer /\ cancelTask' = cancelTask
             /\ (inState'[u] = inState[u] \/ u \in incoming)
  BY <1>1, <1>4 DEF ChannelStep, Drain, Arrive, ConnectionLost, Close, OnClose,
       MarkState, sendVars, recvVars, TypeInv, TypeOK
<1>5. ASSUME NEW t \in Transfers, SenderStep(t)
      PROVE  answer' = answer /\ cancelTask' = cancelTask /\ inState' = inState
  <2>1. CASE OnRejectFile(t)
    <3>1. inState' = [v \in Transfers |-> inState[v]]
      BY <2>1 DEF OnRejectFile, MarkState, Sender, Receiver
    <3> QED
      BY <1>1, <2>1, <3>1 DEF OnRejectFile, TypeInv, TypeOK
  <2> QED
    BY <1>5, <2>1 DEF SenderStep, SendFile, SendOffer, OnAcceptFile, SendChunk,
       DigestDone, SendComplete, recvVars
<1>6. ASSUME NEW t \in Transfers, ReceiverStep(t)
      PROVE  /\ answer[u] # "idle" => answer'[u] # "idle"
             /\ inState'[u] # "none" \/ cancelTask'[Receiver][u] # "idle"
                  => answer'[u] # "idle"
  <2>1. cancelTask' = cancelTask
    BY <1>6 DEF ReceiverStep, OnOfferFile, Accept, Reject, SendAccept, SendReject,
                OnChunkFrame, OnComplete, Verify
  <2>2. CASE OnOfferFile(t) \/ Accept(t) \/ Reject(t) \/ SendAccept(t) \/ SendReject(t)
    <3>1. \/ u # t /\ answer'[u] = answer[u] /\ inState'[u] = inState[u]
          \/ u = t /\ answer'[u] # "idle"
      BY <1>1, <2>2 DEF OnOfferFile, Accept, Reject, SendAccept, SendReject, IfReady,
           TypeInv, TypeOK
    <3> QED
      BY <1>2, <2>1, <3>1
  <2>3. CASE OnChunkFrame(t) \/ OnComplete(t)
    BY <1>2, <2>1, <2>3 DEF OnChunkFrame, OnComplete
  <2>4. CASE Verify(t)
    <3>1. answer' = answer /\ (u # t => inState'[u] = inState[u])
      BY <1>1, <2>4 DEF Verify, TypeInv, TypeOK
    <3>2. u = t => answer[u] = "accepted"
      BY <1>1, <2>4 DEF Verify, Stages, StreamStage, AnswerStage
    <3> QED
      BY <1>2, <2>1, <3>1, <3>2
  <2> QED
    BY <1>6, <2>2, <2>3, <2>4 DEF ReceiverStep
<1>7. ASSUME NEW p \in Peers, NEW t \in Transfers, CancelStep(p, t)
      PROVE  /\ answer' = answer /\ (inState'[u] = inState[u] \/ u \in incoming)
             /\ cancelTask'[Receiver][u] = cancelTask[Receiver][u] \/ inState[u] # "none"
                  \/ cancelTask[Receiver][u] # "idle"
  <2>1. CASE Cancel(p, t)
    <3>1. answer' = answer /\ inState' = inState
      BY <2>1 DEF Cancel, recvVars
    <3>2. cancelTask'[Receiver][u] = cancelTask[Receiver][u] \/ (p = Receiver /\ t = u)
      BY <1>1, <2>1, PeerTypes DEF Cancel, TypeInv, TypeOK
    <3>3. p = Receiver /\ t = u => inState[u] # "none"
      BY <2>1 DEF Cancel, Known, Sender, Receiver
    <3> QED
      BY <3>1, <3>2, <3>3
  <2>2. CASE SendCancel(p, t)
    <3>1. answer' = answer /\ (inState'[u] = inState[u] \/ u \in incoming)
      BY <1>1, <2>2 DEF SendCancel, MarkState, TypeInv, TypeOK
    <3>2. \/ cancelTask'[Receiver][u] = cancelTask[Receiver][u]
          \/ p = Receiver /\ t = u
      BY <1>1, <2>2, PeerTypes DEF SendCancel, TypeInv, TypeOK
    <3>3. p = Receiver /\ t = u => cancelTask[Receiver][u] # "idle"
      BY <2>2 DEF SendCancel
    <3> QED
      BY <3>1, <3>2, <3>3
  <2>3. CASE OnCancel(p, t)
    BY <1>1, <2>3 DEF OnCancel, MarkState, TypeInv, TypeOK
  <2> QED
    BY <1>7, <2>1, <2>2, <2>3 DEF CancelStep
<1>8. cancelTask[Receiver][u] # "idle" => answer[u] # "idle"
  BY <1>1 DEF CancelStage
<1>9. ASSUME NEW p \in Peers, NEW t \in Transfers, CancelStep(p, t)
      PROVE  /\ answer[u] # "idle" => answer'[u] # "idle"
             /\ inState'[u] # "none" \/ cancelTask'[Receiver][u] # "idle"
                  => answer'[u] # "idle"
  BY <1>1, <1>2, <1>7, <1>8, <1>9
<1> QED
  BY <1>2, <1>3, <1>4, <1>5, <1>6, <1>9 DEF Next

\* A reject-file is in flight only after its transfer was rejected, for good.
LEMMA RefusalStep ==
  ASSUME CancelInv, [Next]_vars, NEW u \in Transfers, Refusal(u) \in InFlight(Sender)'
  PROVE  answer'[u] = "rejected"
<1>1. /\ CancelStage(u) /\ Stages(u) /\ TypeInv
      /\ answer \in [Transfers -> {"idle", "asking", "accepting", "accepted",
                                   "rejecting", "rejected", "dead"}]
  BY DEF CancelInv, CountInv, ConsentInv, TypeInv, TypeOK
<1>2. answer[u] = "rejected" => answer'[u] = "rejected"
  <2>1. CASE UNCHANGED vars
    BY <2>1 DEF vars
  <2>2. ASSUME NEW p \in Peers, ChannelStep(p)
        PROVE  answer' = answer
    BY <2>2 DEF ChannelStep, Drain, Arrive, ConnectionLost, Close, OnClose, recvVars
  <2>3. ASSUME NEW t \in Transfers, SenderStep(t)
        PROVE  answer' = answer
    BY <2>3 DEF SenderStep, SendFile, SendOffer, OnAcceptFile, OnRejectFile, SendChunk,
                DigestDone, SendComplete, recvVars
  <2>4. ASSUME NEW p \in Peers, NEW t \in Transfers, CancelStep(p, t)
        PROVE  answer' = answer
    BY <2>4 DEF CancelStep, Cancel, SendCancel, OnCancel, recvVars
  <2>5. ASSUME NEW t \in Transfers, OnOfferFile(t), answer[u] = "rejected"
        PROVE  answer'[u] = answer[u]
    <3>1. Offer(t) \in InFlight(Receiver) /\ answer' = [answer EXCEPT ![t] = "asking"]
      BY <2>5 DEF OnOfferFile, Consume, InFlight, Offer
    <3>2. t # u
      BY <1>1, <2>5, <3>1 DEF Stages, OfferStage
    <3> QED
      BY <1>1, <3>1, <3>2
  <2>6. ASSUME NEW t \in Transfers, ReceiverStep(t), ~OnOfferFile(t), answer[u] = "rejected"
        PROVE  answer'[u] = answer[u]
    BY <1>1, <2>6 DEF ReceiverStep, Accept, Reject, SendAccept, SendReject,
                      OnChunkFrame, OnComplete, Verify
  <2> QED
    BY <2>1, <2>2, <2>3, <2>4, <2>5, <2>6 DEF Next
<1>3. CASE Refusal(u) \in InFlight(Sender)
  BY <1>1, <1>2, <1>3 DEF CancelStage
<1>4. CASE Refusal(u) \notin InFlight(Sender)
  <2>1. Other(Sender) = Receiver /\ Other(Receiver) = Sender
    BY DEF Other, Sender, Receiver
  <2>2. wire' # wire \/ opening' # opening
    BY <1>4 DEF InFlight
  <2>3. ~NothingNew
    BY <1>4, PeerTypes DEF NothingNew
  <2>4. ASSUME NEW p \in Peers, ChannelStep(p)
        PROVE  FALSE
    BY <1>1, <2>3, <2>4, ChannelInFlight
  <2>5. ASSUME NEW p \in Peers, NEW x, Consume(p, x), wire' = wire
        PROVE  FALSE
    BY <1>1, <2>3, <2>5, ConsumeInFlight
  <2>6. ASSUME NEW p \in Peers, NEW x \in Message, Transmit(p, x), opening' = opening
        PROVE  x = Refusal(u) /\ Ready(p) /\ p = Receiver
    BY <1>1, <1>4, <2>1, <2>6, TransmitInFlight DEF Peers
  <2>7. ASSUME NEW t \in Transfers, SenderStep(t)
        PROVE  FALSE
    <3>1. CASE SendFile(t) \/ DigestDone(t)
      BY <2>2, <3>1 DEF SendFile, DigestDone, chanVars
    <3>2. CASE SendOffer(t) \/ SendComplete(t)
      <4>1. PICK k \in ControlKind : Transmit(Sender, Control(k, t)) /\ opening' = opening
        BY <3>2 DEF SendOffer, SendComplete, ControlKind
      <4> QED
        BY <2>6, <4>1, PeerTypes, ControlType DEF Sender, Receiver
    <3>3. CASE SendChunk(t)
      <4>1. nextSeq[t] + 1 \in 1..Len(File[t])
        BY <1>1, <3>3, FileAssumption DEF SendChunk, TypeInv, TypeOK, InBounds
      <4> QED
        BY <2>6, <3>3, <4>1, PeerTypes, ChunkType DEF SendChunk, Sender, Receiver
    <3>4. CASE OnAcceptFile(t) \/ OnRejectFile(t)
      BY <2>5, <3>4, PeerTypes DEF OnAcceptFile, OnRejectFile
    <3> QED
      BY <2>7, <3>1, <3>2, <3>3, <3>4 DEF SenderStep
  <2>8. ASSUME NEW p \in Peers, NEW t \in Transfers, CancelStep(p, t)
        PROVE  FALSE
    <3>1. CASE Cancel(p, t)
      BY <2>2, <3>1 DEF Cancel, chanVars
    <3>2. CASE SendCancel(p, t)
      <4>1. Control("cancel", t) \in Message /\ Control("cancel", t) # Refusal(u)
        BY ControlType DEF ControlKind, Control, Refusal
      <4> QED
        BY <2>6, <3>2, <4>1 DEF SendCancel
    <3>3. CASE OnCancel(p, t)
      BY <2>5, <3>3 DEF OnCancel
    <3> QED
      BY <2>8, <3>1, <3>2, <3>3 DEF CancelStep
  <2>9. ASSUME NEW t \in Transfers, ReceiverStep(t)
        PROVE  answer'[u] = "rejected"
    <3>1. CASE Accept(t) \/ Reject(t) \/ Verify(t)
      BY <2>2, <3>1 DEF Accept, Reject, Verify, chanVars
    <3>2. CASE SendAccept(t)
      <4>1. Control("accept-file", t) \in Message /\ Control("accept-file", t) # Refusal(u)
        BY ControlType DEF ControlKind, Control, Refusal
      <4> QED
        BY <2>6, <3>2, <4>1, PeerTypes DEF SendAccept
    <3>3. CASE SendReject(t)
      <4>1. Control("reject-file", t) \in Message
        BY ControlType DEF ControlKind
      <4>2. Control("reject-file", t) = Refusal(u) /\ Ready(Receiver)
        BY <2>6, <3>3, <4>1, PeerTypes DEF SendReject
      <4>3. t = u
        BY <4>2 DEF Control, Refusal
      <4> QED
        BY <1>1, <3>3, <4>2, <4>3 DEF SendReject, IfReady
    <3>4. CASE OnOfferFile(t) \/ OnChunkFrame(t) \/ OnComplete(t)
      <4>1. (\E x : Consume(Receiver, x)) /\ wire' = wire
        BY <3>4 DEF OnOfferFile, OnChunkFrame, OnComplete
      <4> QED
        BY <2>5, <4>1, PeerTypes
    <3> QED
      BY <2>9, <3>1, <3>2, <3>3, <3>4 DEF ReceiverStep
  <2> QED
    BY <2>2, <2>4, <2>7, <2>8, <2>9 DEF Next, vars
<1> QED
  BY <1>3, <1>4

\* An offered transfer that left the sender's map with a chunk in hand is
\* 'cancelled' there, and stays so.
LEMMA InHandStep ==
  ASSUME CancelInv, [Next]_vars, NEW u \in Transfers,
         offerTask'[u] # "idle", u \notin outgoing', stream'[u] = "chunk"
  PROVE  outState'[u] = "cancelled"
<1>1. /\ CancelStage(u) /\ Stages(u) /\ TypeInv
      /\ stream \in [Transfers -> {"idle", "chunk", "digest", "sealing", "done",
                                   "stopped", "dead"}]
      /\ offerTask \in [Transfers -> {"idle", "sealing", "sent", "dead"}]
      /\ outState \in [Transfers -> State] /\ outgoing \in SUBSET Transfers
  BY DEF CancelInv, CountInv, ConsentInv, TypeInv, TypeOK
<1>2. ASSUME offerTask'[u] = offerTask[u], outgoing' = outgoing, stream'[u] = stream[u],
             outState'[u] = outState[u] \/ u \in outgoing
      PROVE  outState'[u] = "cancelled"
  BY <1>1, <1>2 DEF CancelStage
<1>3. CASE UNCHANGED vars
  BY <1>2, <1>3 DEF vars
<1>4. ASSUME NEW p \in Peers, ChannelStep(p)
      PROVE  outState'[u] = "cancelled"
  <2>1. /\ offerTask' = offerTask /\ outgoing' = outgoing /\ stream' = stream
        /\ outState'[u] = outState[u] \/ u \in outgoing
    BY <1>1, <1>4 DEF ChannelStep, Drain, Arrive, ConnectionLost, Close, OnClose,
                      MarkState, sendVars
  <2> QED
    BY <1>2, <2>1
<1>5. ASSUME NEW t \in Transfers, ReceiverStep(t)
      PROVE  outState'[u] = "cancelled"
  <2>1. offerTask' = offerTask /\ outgoing' = outgoing /\ stream' = stream
        /\ outState' = outState
    BY <1>5 DEF ReceiverStep, OnOfferFile, Accept, Reject, SendAccept, SendReject,
                OnChunkFrame, OnComplete, Verify, sendVars
  <2> QED
    BY <1>2, <2>1
<1>6. ASSUME NEW p \in Peers, NEW t \in Transfers, CancelStep(p, t)
      PROVE  outState'[u] = "cancelled"
  <2>1. offerTask' = offerTask /\ stream' = stream
    BY <1>6 DEF CancelStep, Cancel, SendCancel, OnCancel, sendVars
  <2>2. CASE Cancel(p, t) \/ SendCancel(p, t)
    <3>1. outgoing' = outgoing /\ (outState'[u] = outState[u] \/ u \in outgoing)
      BY <1>1, <2>2 DEF Cancel, SendCancel, MarkState, sendVars
    <3> QED
      BY <1>2, <2>1, <3>1
  <2>3. CASE OnCancel(p, t)
    <3>1. CASE u \in outgoing
      <4>1. p = Sender /\ t = u
        BY <2>3, <3>1 DEF OnCancel
      <4> QED
        BY <1>1, <2>3, <3>1, <4>1 DEF OnCancel, MarkState
    <3>2. CASE u \notin outgoing
      <4>1. outState'[u] = outState[u]
        BY <1>1, <2>3, <3>2 DEF OnCancel, MarkState
      <4> QED
        BY <1>1, <2>1, <3>2, <4>1 DEF CancelStage
    <3> QED
      BY <3>1, <3>2
  <2> QED
    BY <1>6, <2>2, <2>3 DEF CancelStep
<1>7. ASSUME NEW t \in Transfers, SenderStep(t)
      PROVE  outState'[u] = "cancelled"
  <2>1. ASSUME t # u
        PROVE  /\ offerTask'[u] = offerTask[u] /\ stream'[u] = stream[u]
               /\ outState'[u] = outState[u] /\ (u \in outgoing' <=> u \in outgoing)
    BY <1>1, <1>7, <2>1 DEF SenderStep, SendFile, SendOffer, OnAcceptFile, OnRejectFile,
         SendChunk, DigestDone, SendComplete, MarkState
  <2>2. CASE t # u
    BY <1>1, <2>1, <2>2 DEF CancelStage
  <2>3. CASE SendFile(u)
    BY <2>3 DEF SendFile
  <2>4. CASE SendOffer(u)
    <3>1. offerTask[u] # "idle" /\ UNCHANGED <<outgoing, outState, stream>>
      BY <2>4 DEF SendOffer
    <3> QED
      BY <1>1, <3>1 DEF CancelStage
  <2>5. CASE OnAcceptFile(u)
    <3>1. u \notin outgoing /\ UNCHANGED <<outgoing, offerTask, outState, stream>>
      BY <2>5 DEF OnAcceptFile
    <3> QED
      BY <1>1, <3>1 DEF CancelStage
  <2>6. CASE OnRejectFile(u)
    <3>1. Refusal(u) \in InFlight(Sender) /\ stream' = stream
      BY <2>6 DEF OnRejectFile, Consume, InFlight, Refusal
    <3>2. stream[u] = "idle"
      BY <1>1, <3>1 DEF CancelStage, Stages, AnswerStage
    <3> QED
      BY <3>1, <3>2
  <2>7. CASE SendChunk(u)
    <3>1. stream[u] = "chunk" /\ UNCHANGED <<outgoing, offerTask, outState>>
      BY <2>7 DEF SendChunk
    <3> QED
      BY <1>1, <3>1 DEF CancelStage
  <2>8. CASE DigestDone(u) \/ SendComplete(u)
    BY <1>1, <2>8 DEF DigestDone, SendComplete, IfReady
  <2> QED
    BY <1>7, <2>2, <2>3, <2>4, <2>5, <2>6, <2>7, <2>8 DEF SenderStep
<1> QED
  BY <1>3, <1>4, <1>5, <1>6, <1>7 DEF Next

\* Only OnCancel dispatches a cancel, and it deletes the transfer's entry.
LEMMA DispatchDeletes ==
  ASSUME TypeInv, [Next]_vars, NEW u \in Transfers, Consume(Sender, CancelOf(u))
  PROVE  u \notin outgoing'
<1>1. /\ CancelOf(u) \in opening[Sender] /\ CancelOf(u) \notin opening'[Sender]
      /\ opening' # opening
  BY PeerTypes DEF Consume, TypeInv, TypeOK
<1>2. ASSUME NEW p \in Peers, NEW x, Consume(p, x)
      PROVE  p = Sender /\ x = CancelOf(u)
  BY <1>1, <1>2, PeerTypes DEF Consume, TypeInv, TypeOK
<1>3. ASSUME NEW p \in Peers, ChannelStep(p)
      PROVE  FALSE
  <2>1. CASE Arrive(p)
    <3>1. opening' = [opening EXCEPT ![p] = @ \cup {Head(wire[p])}]
      BY <2>1 DEF Arrive
    <3>2. opening[Sender] \subseteq opening'[Sender]
      BY <3>1, PeerTypes DEF TypeInv, TypeOK
    <3> QED
      BY <1>1, <3>2
  <2> QED
    BY <1>1, <1>3, <2>1 DEF ChannelStep, Drain, ConnectionLost, Close, OnClose
<1>4. ASSUME NEW t \in Transfers, SenderStep(t)
      PROVE  FALSE
  <2>1. Control("accept-file", t) # CancelOf(u) /\ Control("reject-file", t) # CancelOf(u)
    BY DEF Control, CancelOf
  <2>2. CASE OnAcceptFile(t) \/ OnRejectFile(t)
    BY <1>2, <2>1, <2>2, PeerTypes DEF OnAcceptFile, OnRejectFile
  <2> QED
    BY <1>1, <1>4, <2>2 DEF SenderStep, SendFile, SendOffer, SendChunk, DigestDone,
         SendComplete, chanVars
<1>5. ASSUME NEW t \in Transfers, ReceiverStep(t)
      PROVE  FALSE
  <2>1. CASE OnOfferFile(t) \/ OnChunkFrame(t) \/ OnComplete(t)
    <3>1. \E x : Consume(Receiver, x)
      BY <2>1 DEF OnOfferFile, OnChunkFrame, OnComplete
    <3> QED
      BY <1>2, <3>1, PeerTypes DEF Sender, Receiver
  <2> QED
    BY <1>1, <1>5, <2>1 DEF ReceiverStep, Accept, Reject, SendAccept, SendReject, Verify,
         chanVars
<1>6. ASSUME NEW p \in Peers, NEW t \in Transfers, CancelStep(p, t)
      PROVE  u \notin outgoing'
  <2>1. CASE OnCancel(p, t)
    <3>1. p = Sender /\ Control("cancel", t) = CancelOf(u)
      BY <1>2, <2>1 DEF OnCancel
    <3>2. t = u
      BY <3>1 DEF Control, CancelOf
    <3> QED
      BY <2>1, <3>1, <3>2 DEF OnCancel
  <2> QED
    BY <1>1, <1>6, <2>1 DEF CancelStep, Cancel, SendCancel, chanVars
<1> QED
  BY <1>1, <1>3, <1>4, <1>5, <1>6 DEF Next, vars

\* While both ends are open, the receiver's cancel is on its way to a sender that
\* still has the transfer's entry.
LEMMA OnItsWayStep ==
  ASSUME CancelInv, [Next]_vars, NEW u \in Transfers,
         AllOpen', cancelTask'[Receiver][u] = "sent", u \in outgoing'
  PROVE  CancelOf(u) \in InFlight(Sender)'
<1>1. /\ CancelStage(u) /\ Stages(u) /\ TypeInv
      /\ outgoing \in SUBSET Transfers
      /\ cancelTask \in [Peers -> [Transfers -> {"idle", "sealing", "sent", "dead"}]]
  BY DEF CancelInv, CountInv, ConsentInv, TypeInv, TypeOK
<1>2. AllOpen
  <2>1. ASSUME NEW p \in Peers, Close(p) \/ OnClose(p)
        PROVE  FALSE
    BY <1>1, <2>1 DEF Close, OnClose, AllOpen, TypeInv, TypeOK
  <2>2. chan' = chan
    BY <2>1 DEF Next, vars, ChannelStep, SenderStep, ReceiverStep, CancelStep,
       Drain, Arrive, ConnectionLost,
       SendFile, SendOffer, OnAcceptFile, OnRejectFile, SendChunk, DigestDone, SendComplete,
       OnOfferFile, Accept, Reject, SendAccept, SendReject, OnChunkFrame, OnComplete, Verify,
       Cancel, SendCancel, OnCancel, chanVars
  <2> QED
    BY <2>2 DEF AllOpen
<1>3. CASE cancelTask[Receiver][u] # "sent"
  <2>1. PICK p \in Peers, t \in Transfers : Cancel(p, t) \/ SendCancel(p, t)
    <3>1. cancelTask' # cancelTask
      BY <1>3
    <3> QED
      BY <3>1 DEF Next, vars, ChannelStep, SenderStep, ReceiverStep, CancelStep,
         Drain, Arrive, ConnectionLost, Close, OnClose,
         SendFile, SendOffer, OnAcceptFile, OnRejectFile, SendChunk, DigestDone, SendComplete,
         OnOfferFile, Accept, Reject, SendAccept, SendReject, OnChunkFrame, OnComplete, Verify,
         OnCancel
  <2>2. SendCancel(Receiver, u)
    <3>1. CASE Cancel(p, t)
      BY <1>1, <1>3, <3>1, PeerTypes DEF Cancel, IfReady
    <3>2. CASE SendCancel(p, t)
      <4>1. p = Receiver /\ t = u
        BY <1>1, <1>3, <3>2, PeerTypes DEF SendCancel
      <4> QED
        BY <3>2, <4>1
    <3> QED
      BY <2>1, <3>1, <3>2
  <2>3. Other(Receiver) = Sender
    BY DEF Other, Sender, Receiver
  <2>4. wire' = [wire EXCEPT ![Sender] = Append(@, CancelOf(u))]
    BY <1>2, <2>2, <2>3, PeerTypes DEF SendCancel, Transmit, Ready, AllOpen, CancelOf
  <2>5. wire[Sender] \in Seq(Message) /\ wire'[Sender] = Append(wire[Sender], CancelOf(u))
    BY <1>1, <2>4, PeerTypes, WireType DEF TypeInv, TypeOK
  <2>6. /\ Len(wire[Sender]) + 1 \in 1..Len(wire'[Sender])
        /\ wire'[Sender][Len(wire[Sender]) + 1] = CancelOf(u)
    BY <2>5
  <2> QED
    BY <2>6 DEF InFlight
<1>4. CASE cancelTask[Receiver][u] = "sent"
  <2>1. offerTask[u] = "sent"
    BY <1>1, <1>4 DEF CancelStage, Stages, OfferStage
  <2>2. u \in outgoing
    BY <1>1, <2>1 DEF Next, vars, ChannelStep, SenderStep, ReceiverStep, CancelStep,
       Drain, Arrive, ConnectionLost, Close, OnClose, sendVars,
       SendFile, SendOffer, OnAcceptFile, OnRejectFile, SendChunk, DigestDone, SendComplete,
       OnOfferFile, Accept, Reject, SendAccept, SendReject, OnChunkFrame, OnComplete, Verify,
       Cancel, SendCancel, OnCancel
  <2>3. CancelOf(u) \in InFlight(Sender)
    BY <1>1, <1>2, <1>4, <2>2 DEF CancelStage
  <2> QED
    BY <1>1, <2>3, KeptUntilDispatched, DispatchDeletes
<1> QED
  BY <1>3, <1>4

LEMMA CancelInit == Init => CancelInv
BY CountInit DEF Init, CancelInv, CancelStage, InFlight, Peers, AllOpen

LEMMA CancelInvStep == CancelInv /\ [Next]_vars => CancelInv'
<1> SUFFICES ASSUME CancelInv, [Next]_vars
             PROVE  CancelInv'
  OBVIOUS
<1>1. CountInv'
  BY CountStep DEF CancelInv
<1>2. ASSUME NEW u \in Transfers
      PROVE  CancelStage(u)'
  BY AskedStep, RefusalStep, InHandStep, OnItsWayStep DEF CancelStage
<1> QED
  BY <1>1, <1>2 DEF CancelInv

\* Once the sender has dispatched the receiver's cancel, at most the chunk being
\* sealed goes out, and no accept-file, 'disconnected' or 'failed' that comes later
\* starts the stream again: for any files, bounds and number of decryptions.
THEOREM ReceiverStopsStream == Spec => ReceiversCancelStops
<1>1. CancelInv /\ [Next]_vars =>
        [\A t \in Transfers : CancelDispatched(t) /\ stream'[t] = "chunk"
           => stream[t] = "chunk" /\ nextSeq'[t] = nextSeq[t]]_vars
  <2> SUFFICES ASSUME CancelInv, [Next]_vars, NEW t \in Transfers,
                      CancelDispatched(t), stream'[t] = "chunk"
               PROVE  stream[t] = "chunk" /\ nextSeq'[t] = nextSeq[t]
    OBVIOUS
  <2>1. /\ CancelStage(t) /\ Stages(t) /\ TypeInv
        /\ stream \in [Transfers -> {"idle", "chunk", "digest", "sealing", "done",
                                     "stopped", "dead"}]
        /\ nextSeq \in [Transfers -> Nat]
    BY DEF CancelInv, CountInv, ConsentInv, TypeInv, TypeOK
  <2>2. t \notin outgoing
    BY <2>1 DEF CancelStage, CancelDispatched, AllOpen, CancelOf
  <2>3. offerTask[t] = "sent"
    BY <2>1 DEF CancelStage, CancelDispatched, Stages, OfferStage
  <2>4. stream[t] = "chunk" => outState[t] = "cancelled"
    BY <2>1, <2>2, <2>3 DEF CancelStage
  <2>5. ASSUME NEW u \in Transfers, SenderStep(u)
        PROVE  stream[t] = "chunk" /\ nextSeq'[t] = nextSeq[t]
    <3>1. CASE u # t
      BY <2>1, <2>5, <3>1 DEF SenderStep, SendFile, SendOffer, OnAcceptFile, OnRejectFile,
         SendChunk, DigestDone, SendComplete
    <3>2. CASE SendFile(t) \/ SendOffer(t) \/ OnRejectFile(t)
      BY <3>2 DEF SendFile, SendOffer, OnRejectFile
    <3>3. CASE OnAcceptFile(t)
      BY <2>2, <3>3 DEF OnAcceptFile
    <3>4. CASE DigestDone(t) \/ SendComplete(t)
      BY <2>1, <3>4 DEF DigestDone, SendComplete, IfReady
    <3>5. CASE SendChunk(t)
      <4>1. nextSeq[t] + 1 \in 0..Len(File[t])
        BY <2>1, <3>5, FileAssumption DEF SendChunk, TypeInv, TypeOK, InBounds
      <4>2. LoopHead(t, nextSeq[t] + 1, outState[t]) # "chunk"
        BY <2>4, <3>5, <4>1, FileAssumption DEF SendChunk, LoopHead
      <4> QED
        BY <2>1, <3>5, <4>2 DEF SendChunk
    <3> QED
      BY <2>5, <3>1, <3>2, <3>3, <3>4, <3>5 DEF SenderStep
  <2>6. ~(\E u \in Transfers : SenderStep(u)) => stream' = stream /\ nextSeq' = nextSeq
    BY DEF Next, vars, ChannelStep, ReceiverStep, CancelStep,
       Drain, Arrive, ConnectionLost, Close, OnClose, sendVars,
       OnOfferFile, Accept, Reject, SendAccept, SendReject, OnChunkFrame, OnComplete, Verify,
       Cancel, SendCancel, OnCancel
  <2> QED
    BY <2>5, <2>6
<1> QED
  BY <1>1, CancelInit, CancelInvStep, PTL DEF Spec, ReceiversCancelStops

=============================================================================
