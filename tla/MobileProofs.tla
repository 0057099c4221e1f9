---------------------------- MODULE MobileProofs ----------------------------
(***************************************************************************)
(* Machine-checked facts about MobileEngine, for all transfers and files,  *)
(* any number of messages opened at once and any cancellations: its states *)
(* are well typed and it implements FileDelivery.                          *)
(***************************************************************************)
EXTENDS MobileEngine, SequenceTheorems, TLAPS

-----------------------------------------------------------------------------
(* Type correctness.                                                       *)

LEMMA SideTypes == /\ Sender \in Sides /\ Receiver \in Sides
                   /\ Far(Sender) = Receiver /\ Far(Receiver) = Sender
                   /\ \A p \in Sides : Far(p) \in Sides /\ Far(p) # p
BY DEF Sides, Far, Sender, Receiver

LEMMA ControlType ==
  \A kind \in Kinds, t \in Transfers : Control(kind, t) \in MobileMessage
BY DEF Control, MobileMessage

LEMMA ChunkType ==
  ASSUME NEW t \in Transfers, NEW i \in 1..Len(File[t])
  PROVE  Chunk(t, i) \in MobileMessage /\ File[t][i] \in Block
BY FilesAreBlocks DEF Chunk, MobileMessage

\* A sequence without its i-th element.
LEMMA RemoveAtProperties ==
  ASSUME NEW S, NEW s \in Seq(S), NEW i \in 1..Len(s)
  PROVE  /\ RemoveAt(s, i) \in Seq(S)
         /\ Len(RemoveAt(s, i)) = Len(s) - 1
         /\ \A j \in 1..(Len(s) - 1) :
              RemoveAt(s, i)[j] = IF j < i THEN s[j] ELSE s[j + 1]
<1>1. Len(s) \in Nat /\ \A j \in 1..Len(s) : s[j] \in S
  BY ElementOfSeq
<1> DEFINE a == SubSeq(s, 1, i - 1)
           b == SubSeq(s, i + 1, Len(s))
<1>2. a \in Seq(S) /\ Len(a) = i - 1 /\ \A j \in 1..(i - 1) : a[j] = s[j]
  <2>1. i - 1 \in Int /\ \A j \in 1..(i - 1) : s[j] \in S
    BY <1>1
  <2>2. /\ a \in Seq(S) /\ Len(a) = IF 1 <= i - 1 THEN (i - 1) - 1 + 1 ELSE 0
        /\ \A j \in 1..((i - 1) - 1 + 1) : a[j] = s[1 + j - 1]
    BY <2>1, SubSeqProperties
  <2> HIDE DEF a
  <2> QED
    BY <2>2
<1>3. b \in Seq(S) /\ Len(b) = Len(s) - i /\ \A j \in 1..(Len(s) - i) : b[j] = s[i + j]
  <2>1. i + 1 \in Int /\ Len(s) \in Int /\ \A j \in (i + 1)..Len(s) : s[j] \in S
    BY <1>1
  <2>2. /\ b \in Seq(S) /\ Len(b) = IF i + 1 <= Len(s) THEN Len(s) - (i + 1) + 1 ELSE 0
        /\ \A j \in 1..(Len(s) - (i + 1) + 1) : b[j] = s[(i + 1) + j - 1]
    BY <2>1, SubSeqProperties
  <2> HIDE DEF b
  <2> QED
    BY <1>1, <2>2
<1>4. RemoveAt(s, i) = a \o b
  BY DEF RemoveAt
<1> HIDE DEF a, b
<1>5. /\ a \o b \in Seq(S) /\ Len(a \o b) = Len(a) + Len(b)
      /\ \A j \in 1..(Len(a) + Len(b)) :
           (a \o b)[j] = IF j <= Len(a) THEN a[j] ELSE b[j - Len(a)]
  BY <1>2, <1>3, ConcatProperties
<1>6. Len(a \o b) = Len(s) - 1
  BY <1>1, <1>2, <1>3, <1>5
<1>7. ASSUME NEW j \in 1..(Len(s) - 1)
      PROVE  (a \o b)[j] = IF j < i THEN s[j] ELSE s[j + 1]
  <2>1. (a \o b)[j] = IF j <= i - 1 THEN a[j] ELSE b[j - (i - 1)]
    BY <1>1, <1>2, <1>3, <1>5
  <2>2. CASE j < i
    BY <1>2, <2>1, <2>2
  <2>3. CASE ~(j < i)
    <3>1. j - (i - 1) \in 1..(Len(s) - i)
      BY <1>1, <2>3
    <3>2. b[j - (i - 1)] = s[i + (j - (i - 1))]
      BY <1>3, <3>1
    <3>3. i + (j - (i - 1)) = j + 1
      OBVIOUS
    <3> QED
      BY <2>1, <2>3, <3>2, <3>3
  <2> QED
    BY <2>2, <2>3
<1> QED
  BY <1>4, <1>5, <1>6, <1>7

InBounds ==
  \A t \in Transfers : stream[t] = "chunk" => nextSeq[t] < Len(File[t])

MobileInv == MobileTypeOK /\ InBounds

\* The operators the handlers share, one lemma each.
LEMMA TransmitType ==
  ASSUME MobileTypeOK, NEW p \in Sides, NEW m \in MobileMessage, Transmit(p, m)
  PROVE  frames' \in [Sides -> Seq(MobileMessage)]
BY SideTypes DEF MobileTypeOK, Transmit

LEMMA ConsumeType ==
  ASSUME MobileTypeOK, NEW p \in Sides, NEW m, Consume(p, m)
  PROVE  opening' \in [Sides -> Seq(MobileMessage)]
<1>1. DOMAIN opening[p] = 1..Len(opening[p])
  BY DEF MobileTypeOK
<1>2. PICK i \in 1..Len(opening[p]) : opening' = [opening EXCEPT ![p] = RemoveAt(@, i)]
  BY <1>1 DEF Consume
<1>3. RemoveAt(opening[p], i) \in Seq(MobileMessage)
  BY RemoveAtProperties DEF MobileTypeOK
<1> QED
  BY <1>2, <1>3 DEF MobileTypeOK

LEMMA LoopHeadType ==
  ASSUME NEW t \in Transfers, NEW n \in 0..Len(File[t]), NEW s
  PROVE  /\ LoopHead(t, n, s) \in {"completing", "stopped", "chunk"}
         /\ LoopHead(t, n, s) = "chunk" => n < Len(File[t])
BY FilesAreBlocks DEF LoopHead

LEMMA TypeInvInit == MobileInit => MobileInv
BY DEF MobileInit, MobileInv, MobileTypeOK, InBounds, EnginesAtAnswer, States, Far, Sides

LEMMA TypeInvSession ==
  ASSUME MobileInv, NEW p \in Sides, SessionStep(p)
  PROVE  MobileInv'
<1>1. MobileTypeOK
  BY DEF MobileInv
<1>2. InBounds'
  BY DEF MobileInv, InBounds, SessionStep, EstablishKey, ChannelOpens, ChannelCloses,
         Arrive, sendVars
<1>3. CASE EstablishKey(p)
  <2>1. engine' \in SUBSET Sides /\ ready' \in SUBSET Sides
    BY <1>1, <1>3 DEF EstablishKey, MaybeReady, MobileTypeOK
  <2>2. UNCHANGED <<offerer, ordered, state, frameVars, cancelled, sendVars, recvVars>>
    BY <1>3 DEF EstablishKey
  <2> QED
    BY <1>1, <1>2, <2>1, <2>2 DEF MobileInv, MobileTypeOK, frameVars, sendVars, recvVars
<1>4. CASE ChannelOpens(p)
  <2>1. state' \in [Sides -> {"connecting", "open", "closed"}] /\ ready' \in SUBSET Sides
    BY <1>1, <1>4 DEF ChannelOpens, MaybeReady, MobileTypeOK
  <2>2. UNCHANGED <<offerer, ordered, engine, frameVars, cancelled, sendVars, recvVars>>
    BY <1>4 DEF ChannelOpens
  <2> QED
    BY <1>1, <1>2, <2>1, <2>2 DEF MobileInv, MobileTypeOK, frameVars, sendVars, recvVars
<1>5. CASE ChannelCloses(p)
  <2>1. PICK k \in 0..Len(frames[p]) : frames' = [frames EXCEPT ![p] = SubSeq(@, 1, k)]
    BY <1>5 DEF ChannelCloses
  <2>2. SubSeq(frames[p], 1, k) \in Seq(MobileMessage)
    BY <1>1 DEF MobileTypeOK
  <2>3. frames' \in [Sides -> Seq(MobileMessage)]
    BY <1>1, <2>1, <2>2 DEF MobileTypeOK
  <2>4. /\ state' \in [Sides -> {"connecting", "open", "closed"}]
        /\ UNCHANGED <<offerer, ordered, engine, ready, opening, cancelled, sendVars, recvVars>>
    BY <1>1, <1>5 DEF ChannelCloses, MobileTypeOK
  <2> QED
    BY <1>1, <1>2, <2>3, <2>4 DEF MobileInv, MobileTypeOK, sendVars, recvVars
<1>6. CASE Arrive(p)
  <2>1. frames[p] \in Seq(MobileMessage) /\ frames[p] # <<>> /\ opening[p] \in Seq(MobileMessage)
    BY <1>1, <1>6 DEF Arrive, MobileTypeOK
  <2>2. Tail(frames[p]) \in Seq(MobileMessage) /\ Append(opening[p], Head(frames[p])) \in Seq(MobileMessage)
    BY <2>1
  <2>3. frames' \in [Sides -> Seq(MobileMessage)] /\ opening' \in [Sides -> Seq(MobileMessage)]
    BY <1>1, <1>6, <2>2 DEF Arrive, MobileTypeOK
  <2>4. UNCHANGED <<sessionVars, cancelled, sendVars, recvVars>>
    BY <1>6 DEF Arrive
  <2> QED
    BY <1>1, <1>2, <2>3, <2>4 DEF MobileInv, MobileTypeOK, sessionVars, sendVars, recvVars
<1> QED
  BY <1>2, <1>3, <1>4, <1>5, <1>6 DEF SessionStep, MobileInv

LEMMA TypeInvSender ==
  ASSUME MobileInv, NEW t \in Transfers, SenderStep(t)
  PROVE  MobileInv'
<1>1. MobileTypeOK
  BY DEF MobileInv
<1>2. CASE SendFileTo(t)
  BY <1>1, <1>2 DEF MobileInv, InBounds, SendFileTo, MobileTypeOK, sessionVars, frameVars, recvVars
<1>3. CASE SendFile(t)
  BY <1>1, <1>3 DEF MobileInv, InBounds, SendFile, MobileTypeOK, States, sessionVars, frameVars, recvVars
<1>4. CASE SendOffer(t)
  <2>1. frames' \in [Sides -> Seq(MobileMessage)]
    BY <1>1, <1>4, SideTypes, ControlType, TransmitType DEF SendOffer, Kinds
  <2> QED
    BY <1>1, <1>4, <2>1 DEF MobileInv, InBounds, SendOffer, MobileTypeOK, sessionVars, recvVars
<1>5. CASE OnAccept(t)
  <2>1. opening' \in [Sides -> Seq(MobileMessage)]
    BY <1>1, <1>5, SideTypes, ConsumeType DEF OnAccept
  <2>2. /\ LoopHead(t, 0, "active") \in {"completing", "stopped", "chunk"}
        /\ LoopHead(t, 0, "active") = "chunk" => 0 < Len(File[t])
    BY LoopHeadType, FilesAreBlocks
  <2>3. MobileTypeOK'
    <3>1. /\ outState' \in [Transfers -> States] /\ nextSeq' \in [Transfers -> Nat]
          /\ stream' \in [Transfers -> {"idle", "chunk", "completing", "done", "stopped"}]
      <4>1. \/ outState' = [outState EXCEPT ![t] = "active"]
               /\ nextSeq' = [nextSeq EXCEPT ![t] = 0]
               /\ stream' = [stream EXCEPT ![t] = LoopHead(t, 0, "active")]
            \/ outState' = outState /\ nextSeq' = nextSeq /\ stream' = stream
        BY <1>5 DEF OnAccept
      <4>2. LoopHead(t, 0, "active") \in {"idle", "chunk", "completing", "done", "stopped"}
        BY <2>2
      <4>3. "active" \in States
        BY DEF States
      <4>4. /\ outState \in [Transfers -> States] /\ nextSeq \in [Transfers -> Nat]
            /\ stream \in [Transfers -> {"idle", "chunk", "completing", "done", "stopped"}]
        BY <1>1 DEF MobileTypeOK
      <4>5. /\ outState' = outState \/ outState' = [outState EXCEPT ![t] = "active"]
            /\ nextSeq' = nextSeq \/ nextSeq' = [nextSeq EXCEPT ![t] = 0]
            /\ stream' = stream \/ stream' = [stream EXCEPT ![t] = LoopHead(t, 0, "active")]
        BY <4>1
      <4> QED
        BY <4>2, <4>3, <4>4, <4>5
    <3>2. UNCHANGED <<sessionVars, frames, cancelled, outgoing, offer, recvVars>>
      BY <1>5 DEF OnAccept
    <3> QED
      BY <1>1, <2>1, <3>1, <3>2 DEF MobileTypeOK, sessionVars, recvVars
  <2>4. InBounds'
    BY <1>1, <1>5, <2>2 DEF MobileInv, InBounds, OnAccept, MobileTypeOK
  <2> QED
    BY <2>3, <2>4 DEF MobileInv
<1>6. CASE OnReject(t)
  <2>1. opening' \in [Sides -> Seq(MobileMessage)]
    BY <1>1, <1>6, SideTypes, ConsumeType DEF OnReject
  <2> QED
    BY <1>1, <1>6, <2>1 DEF MobileInv, InBounds, OnReject, MobileTypeOK, States, sessionVars, recvVars
<1>7. CASE SendChunk(t)
  <2>1. nextSeq[t] + 1 \in 1..Len(File[t]) /\ nextSeq[t] \in Nat
    BY <1>1, <1>7, FilesAreBlocks DEF MobileInv, InBounds, SendChunk, MobileTypeOK
  <2>2. frames' \in [Sides -> Seq(MobileMessage)]
    BY <1>1, <1>7, <2>1, SideTypes, ChunkType, TransmitType DEF SendChunk
  <2>3. /\ LoopHead(t, nextSeq[t] + 1, outState[t]) \in {"completing", "stopped", "chunk"}
        /\ LoopHead(t, nextSeq[t] + 1, outState[t]) = "chunk" => nextSeq[t] + 1 < Len(File[t])
    BY <2>1, LoopHeadType
  <2>4. MobileTypeOK'
    BY <1>1, <1>7, <2>1, <2>2, <2>3 DEF SendChunk, MobileTypeOK, sessionVars, recvVars
  <2>5. InBounds'
    BY <1>1, <1>7, <2>1, <2>3 DEF MobileInv, InBounds, SendChunk, MobileTypeOK
  <2> QED
    BY <2>4, <2>5 DEF MobileInv
<1>8. CASE SendComplete(t)
  <2>1. frames' \in [Sides -> Seq(MobileMessage)]
    BY <1>1, <1>8, SideTypes, ControlType, TransmitType DEF SendComplete, Kinds
  <2> QED
    BY <1>1, <1>8, <2>1 DEF MobileInv, InBounds, SendComplete, MobileTypeOK, States, sessionVars, recvVars
<1> QED
  BY <1>2, <1>3, <1>4, <1>5, <1>6, <1>7, <1>8 DEF SenderStep

LEMMA TypeInvReceiver ==
  ASSUME MobileInv, NEW t \in Transfers, ReceiverStep(t)
  PROVE  MobileInv'
<1>1. MobileTypeOK
  BY DEF MobileInv
<1>2. InBounds'
  BY DEF MobileInv, InBounds, ReceiverStep, OnOfferFile, Accept, Reject, SendAccept,
         SendReject, SendAnswer, OnChunkFrame, OnComplete, sendVars
<1>3. CASE OnOfferFile(t)
  <2>1. opening' \in [Sides -> Seq(MobileMessage)]
    BY <1>1, <1>3, SideTypes, ConsumeType DEF OnOfferFile
  <2>2. /\ incoming' \in SUBSET Transfers /\ inState' \in [Transfers -> States]
        /\ answer' \in [Transfers -> {"idle", "asking", "accepting", "accepted",
                                      "rejecting", "rejected"}]
        /\ chunks' \in [Transfers -> Seq(Block)]
    BY <1>1, <1>3 DEF OnOfferFile, MobileTypeOK, States
  <2>3. UNCHANGED <<sessionVars, frames, cancelled, sendVars, verdict, saved>>
    BY <1>3 DEF OnOfferFile
  <2> QED
    BY <1>1, <1>2, <2>1, <2>2, <2>3 DEF MobileInv, MobileTypeOK, sessionVars, sendVars
<1>4. CASE Accept(t) \/ Reject(t)
  <2>1. /\ incoming' \in SUBSET Transfers /\ inState' \in [Transfers -> States]
        /\ answer' \in [Transfers -> {"idle", "asking", "accepting", "accepted",
                                      "rejecting", "rejected"}]
    <3>1. CASE Accept(t)
      BY <1>1, <3>1 DEF Accept, MobileTypeOK, States
    <3>2. CASE Reject(t)
      BY <1>1, <3>2 DEF Reject, MobileTypeOK, States
    <3> QED
      BY <1>4, <3>1, <3>2
  <2>2. UNCHANGED <<sessionVars, frameVars, cancelled, sendVars, chunks, verdict, saved>>
    BY <1>4 DEF Accept, Reject
  <2> QED
    BY <1>1, <1>2, <2>1, <2>2 DEF MobileInv, MobileTypeOK, sessionVars, frameVars, sendVars
<1>5. CASE SendAccept(t) \/ SendReject(t)
  <2>1. frames' \in [Sides -> Seq(MobileMessage)]
    BY <1>1, <1>5, SideTypes, ControlType, TransmitType DEF SendAccept, SendReject, SendAnswer, Kinds
  <2> QED
    BY <1>1, <1>2, <1>5, <2>1
    DEF MobileInv, SendAccept, SendReject, SendAnswer, MobileTypeOK, sessionVars, sendVars
<1>6. CASE OnChunkFrame(t)
  <2>1. PICK i \in 1..Len(File[t]) :
          /\ Consume(Receiver, Chunk(t, i))
          /\ chunks' = IF t \in incoming
                       THEN [chunks EXCEPT ![t] = Append(@, File[t][i])] ELSE chunks
    BY <1>6 DEF OnChunkFrame
  <2>2. opening' \in [Sides -> Seq(MobileMessage)]
    BY <1>1, <2>1, SideTypes, ConsumeType
  <2>3. Append(chunks[t], File[t][i]) \in Seq(Block)
    BY <1>1, ChunkType DEF MobileTypeOK
  <2>4. chunks' \in [Transfers -> Seq(Block)]
    BY <1>1, <2>1, <2>3 DEF MobileTypeOK
  <2> QED
    BY <1>1, <1>2, <1>6, <2>2, <2>4 DEF MobileInv, OnChunkFrame, MobileTypeOK, sessionVars, sendVars
<1>7. CASE OnComplete(t)
  <2>1. opening' \in [Sides -> Seq(MobileMessage)]
    BY <1>1, <1>7, SideTypes, ConsumeType DEF OnComplete
  <2>2. /\ incoming' \in SUBSET Transfers /\ inState' \in [Transfers -> States]
        /\ verdict' \in [Transfers -> {"none", "ok", "mismatch"}]
        /\ saved' \in [Transfers -> Seq(Block) \cup {NotSaved}]
    <3>1. CASE t \notin incoming
      <4>1. /\ incoming' = incoming \ {t} /\ inState' = inState
            /\ verdict' = verdict /\ saved' = saved
        BY <1>7, <3>1 DEF OnComplete
      <4> QED
        BY <1>1, <4>1 DEF MobileTypeOK
    <3>2. CASE t \in incoming /\ DigestMatches(t)
      <4>1. /\ incoming' = incoming \ {t} /\ inState' = [inState EXCEPT ![t] = "completed"]
            /\ verdict' = [verdict EXCEPT ![t] = "ok"]
            /\ saved' = [saved EXCEPT ![t] = chunks[t]]
        BY <1>7, <3>2 DEF OnComplete
      <4> QED
        BY <1>1, <4>1 DEF MobileTypeOK, States
    <3>3. CASE t \in incoming /\ ~DigestMatches(t)
      <4>1. /\ incoming' = incoming \ {t} /\ inState' = [inState EXCEPT ![t] = "failed"]
            /\ verdict' = [verdict EXCEPT ![t] = "mismatch"] /\ saved' = saved
        BY <1>7, <3>3 DEF OnComplete
      <4> QED
        BY <1>1, <4>1 DEF MobileTypeOK, States
    <3> QED
      BY <3>1, <3>2, <3>3
  <2>3. UNCHANGED <<sessionVars, frames, cancelled, sendVars, answer, chunks>>
    BY <1>7 DEF OnComplete
  <2> QED
    BY <1>1, <1>2, <2>1, <2>2, <2>3 DEF MobileInv, MobileTypeOK, sessionVars, sendVars
<1> QED
  BY <1>3, <1>4, <1>5, <1>6, <1>7 DEF ReceiverStep

LEMMA TypeInvCancel ==
  ASSUME MobileInv, NEW p \in Sides, NEW t \in Transfers, PeerCancels(p, t) \/ OnCancel(p, t)
  PROVE  MobileInv'
<1>1. MobileTypeOK
  BY DEF MobileInv
<1>2. InBounds'
  BY DEF MobileInv, InBounds, PeerCancels, OnCancel, sendVars
<1>3. CASE PeerCancels(p, t)
  <2>1. frames' \in [Sides -> Seq(MobileMessage)]
    BY <1>1, <1>3, SideTypes, ControlType, TransmitType DEF PeerCancels, Kinds
  <2> QED
    BY <1>1, <1>2, <1>3, <2>1 DEF MobileInv, PeerCancels, MobileTypeOK, sessionVars, sendVars, recvVars
<1>4. CASE OnCancel(p, t)
  <2>1. opening' \in [Sides -> Seq(MobileMessage)]
    BY <1>1, <1>4, ConsumeType DEF OnCancel
  <2> QED
    BY <1>1, <1>2, <1>4, <2>1 DEF MobileInv, OnCancel, MobileTypeOK, States, sessionVars
<1> QED
  BY <1>3, <1>4

LEMMA TypeInvStep == MobileInv /\ [MobileNext]_engineVars => MobileInv'
<1> SUFFICES ASSUME MobileInv, [MobileNext]_engineVars
             PROVE  MobileInv'
  OBVIOUS
<1>1. CASE MobileNext
  BY <1>1, TypeInvSession, TypeInvSender, TypeInvReceiver, TypeInvCancel DEF MobileNext
<1>2. CASE UNCHANGED engineVars
  BY <1>2 DEF MobileInv, MobileTypeOK, InBounds, engineVars, sessionVars, frameVars, sendVars, recvVars
<1> QED
  BY <1>1, <1>2

\* The states of two mobile engines are well typed.
THEOREM TypesHold == MobileSpec => []MobileTypeOK
<1>1. MobileInit => MobileInv
  BY TypeInvInit
<1>2. MobileInv /\ [MobileNext]_engineVars => MobileInv'
  BY TypeInvStep
<1>3. MobileInv => MobileTypeOK
  BY DEF MobileInv
<1> QED
  BY <1>1, <1>2, <1>3, PTL DEF MobileSpec

-----------------------------------------------------------------------------
(* What is on its way to a side: being opened, then still on the channel.  *)

Pipe(p) == opening[p] \o frames[p]

Within(m, s) == \E i \in 1..Len(s) : s[i] = m
Single(m, s) == \A i, j \in 1..Len(s) : s[i] = m /\ s[j] = m => i = j

\* r holds nothing that s does not, and nothing more often.
Thinner(r, s) == /\ \A m : Within(m, r) => Within(m, s)
                 /\ \A m : Single(m, s) => Single(m, r)

LEMMA RemoveThins ==
  ASSUME NEW s \in Seq(MobileMessage), NEW i \in 1..Len(s)
  PROVE  /\ Thinner(RemoveAt(s, i), s)
         /\ Single(s[i], s) => ~Within(s[i], RemoveAt(s, i))
<1>1. PICK r \in Seq(MobileMessage) :
        /\ r = RemoveAt(s, i) /\ Len(r) = Len(s) - 1
        /\ \A j \in 1..(Len(s) - 1) : r[j] = IF j < i THEN s[j] ELSE s[j + 1]
  BY RemoveAtProperties
<1>2. /\ Len(s) \in Nat /\ Len(r) = Len(s) - 1
      /\ \A j \in 1..(Len(s) - 1) : r[j] = IF j < i THEN s[j] ELSE s[j + 1]
  BY <1>1
<1>3. \A j \in 1..Len(r) : \E k \in 1..Len(s) :
        /\ r[j] = s[k] /\ k # i
        /\ k = IF j < i THEN j ELSE j + 1
  <2> SUFFICES ASSUME NEW j \in 1..Len(r)
               PROVE  \E k \in 1..Len(s) : /\ r[j] = s[k] /\ k # i
                                           /\ k = IF j < i THEN j ELSE j + 1
    OBVIOUS
  <2>1. CASE j < i
    BY <1>2, <2>1
  <2>2. CASE ~(j < i)
    <3>1. r[j] = s[j + 1] /\ j + 1 \in 1..Len(s) /\ j + 1 # i
      BY <1>2, <2>2
    <3> QED
      BY <2>2, <3>1
  <2> QED
    BY <2>1, <2>2
<1>4. ASSUME NEW m, Within(m, r)
      PROVE  Within(m, s)
  BY <1>3, <1>4 DEF Within
<1>5. ASSUME NEW m, Single(m, s)
      PROVE  Single(m, r)
  <2> SUFFICES ASSUME NEW j \in 1..Len(r), NEW l \in 1..Len(r), r[j] = m, r[l] = m
               PROVE  j = l
    BY DEF Single
  <2>1. PICK k \in 1..Len(s) : s[k] = m /\ k = IF j < i THEN j ELSE j + 1
    BY <1>3
  <2>2. PICK n \in 1..Len(s) : s[n] = m /\ n = IF l < i THEN l ELSE l + 1
    BY <1>3
  <2>3. k = n
    BY <1>5, <2>1, <2>2 DEF Single
  <2> QED
    BY <2>1, <2>2, <2>3
<1>6. ASSUME Single(s[i], s), Within(s[i], r)
      PROVE  FALSE
  BY <1>3, <1>6 DEF Single, Within
<1> QED
  BY <1>1, <1>4, <1>5, <1>6 DEF Thinner

LEMMA PrefixThins ==
  ASSUME NEW s, NEW r, Len(s) \in Nat, Len(r) \in Nat, Len(r) <= Len(s),
         \A i \in 1..Len(r) : r[i] = s[i]
  PROVE  Thinner(r, s)
<1>1. \A i \in 1..Len(r) : i \in 1..Len(s)
  OBVIOUS
<1> QED
  BY <1>1 DEF Thinner, Within, Single

LEMMA AppendWithin ==
  ASSUME NEW s \in Seq(MobileMessage), NEW m \in MobileMessage
  PROVE  /\ \A x : Within(x, Append(s, m)) => Within(x, s) \/ x = m
         /\ \A x : x # m /\ Single(x, s) => Single(x, Append(s, m))
         /\ ~Within(m, s) => Single(m, Append(s, m))
<1> DEFINE r == Append(s, m)
<1>1. /\ Len(s) \in Nat /\ Len(r) = Len(s) + 1
      /\ \A i \in 1..Len(s) : r[i] = s[i]
  BY AppendProperties
<1>2. r[Len(s) + 1] = m
  BY AppendProperties
<1> HIDE DEF r
<1>3. \A i \in 1..Len(r) : i \in 1..Len(s) \/ i = Len(s) + 1
  BY <1>1
<1>4. /\ \A x : Within(x, r) => Within(x, s) \/ x = m
      /\ \A x : x # m /\ Single(x, s) => Single(x, r)
      /\ ~Within(m, s) => Single(m, r)
  BY <1>1, <1>2, <1>3 DEF Within, Single
<1> QED
  BY <1>4 DEF r

\* How the steps move what is on its way.
LEMMA PipeType == MobileTypeOK => \A p \in Sides : Pipe(p) \in Seq(MobileMessage)
BY DEF MobileTypeOK, Pipe

Thins == \A p \in Sides : Thinner(Pipe(p)', Pipe(p))

LEMMA SamePipes ==
  ASSUME frames' = frames, opening' = opening
  PROVE  Thins
BY DEF Thins, Thinner, Pipe

LEMMA ConsumeThins ==
  ASSUME MobileTypeOK, NEW p \in Sides, NEW m, Consume(p, m), frames' = frames
  PROVE  /\ Thins /\ Within(m, Pipe(p))
         /\ Single(m, Pipe(p)) => ~Within(m, Pipe(p)')
<1>1. /\ opening \in [Sides -> Seq(MobileMessage)] /\ opening[p] \in Seq(MobileMessage)
      /\ frames[p] \in Seq(MobileMessage) /\ DOMAIN opening[p] = 1..Len(opening[p])
  BY DEF MobileTypeOK
<1>2. PICK i \in 1..Len(opening[p]) :
        opening[p][i] = m /\ opening' = [opening EXCEPT ![p] = RemoveAt(@, i)]
  BY <1>1 DEF Consume
<1>3. opening'[p] = RemoveAt(opening[p], i) /\ \A q \in Sides \ {p} : opening'[q] = opening[q]
  BY <1>1, <1>2
<1>4. PICK a \in Seq(MobileMessage) : a = opening[p]
  BY <1>1
<1>5. PICK b \in Seq(MobileMessage) : b = frames[p]
  BY <1>1
<1>6. /\ a \o b \in Seq(MobileMessage) /\ i \in 1..Len(a \o b) /\ (a \o b)[i] = m
      /\ RemoveAt(a \o b, i) = RemoveAt(a, i) \o b
  <2>1. /\ a \o b \in Seq(MobileMessage) /\ Len(a) \in Nat /\ Len(b) \in Nat
        /\ Len(a \o b) = Len(a) + Len(b)
        /\ \A j \in 1..(Len(a) + Len(b)) :
             (a \o b)[j] = IF j <= Len(a) THEN a[j] ELSE b[j - Len(a)]
    BY ConcatProperties
  <2>2. i \in 1..Len(a) /\ i \in 1..Len(a \o b)
    BY <1>4, <2>1
  <2>3. PICK r \in Seq(MobileMessage) : r = RemoveAt(a, i)
    BY <2>2, RemoveAtProperties
  <2>4. /\ Len(r) = Len(a) - 1
        /\ \A j \in 1..(Len(a) - 1) : r[j] = IF j < i THEN a[j] ELSE a[j + 1]
    BY <2>2, <2>3, RemoveAtProperties
  <2>5. PICK q \in Seq(MobileMessage) : q = RemoveAt(a \o b, i)
    BY <2>1, <2>2, RemoveAtProperties
  <2>6. /\ Len(q) = Len(a) + Len(b) - 1
        /\ \A j \in 1..(Len(a) + Len(b) - 1) :
             q[j] = IF j < i THEN (a \o b)[j] ELSE (a \o b)[j + 1]
    <3>1. /\ Len(q) = Len(a \o b) - 1
          /\ \A j \in 1..(Len(a \o b) - 1) :
               q[j] = IF j < i THEN (a \o b)[j] ELSE (a \o b)[j + 1]
      BY <2>1, <2>2, <2>5, RemoveAtProperties
    <3> QED
      BY <2>1, <3>1
  <2>7. /\ r \o b \in Seq(MobileMessage) /\ Len(r \o b) = Len(r) + Len(b)
        /\ \A j \in 1..(Len(r) + Len(b)) :
             (r \o b)[j] = IF j <= Len(r) THEN r[j] ELSE b[j - Len(r)]
    BY ConcatProperties
  <2>8. ASSUME NEW j \in 1..Len(q)
        PROVE  q[j] = (r \o b)[j]
    <3>1. j \in 1..(Len(r) + Len(b)) /\ j + 1 \in 1..(Len(a) + Len(b))
      BY <2>1, <2>4, <2>6
    <3>2. CASE j < i
      <4>1. j <= Len(r) /\ j <= Len(a) /\ j \in 1..(Len(a) - 1)
        BY <2>1, <2>2, <2>4, <3>2
      <4>2. q[j] = a[j]
        BY <2>1, <2>6, <3>1, <3>2, <4>1
      <4>3. (r \o b)[j] = a[j]
        BY <2>4, <2>7, <3>1, <3>2, <4>1
      <4> QED
        BY <4>2, <4>3
    <3>3. CASE ~(j < i) /\ j <= Len(r)
      <4>1. j + 1 <= Len(a) /\ j \in 1..(Len(a) - 1)
        BY <2>1, <2>4, <3>3
      <4>2. q[j] = a[j + 1]
        BY <2>1, <2>6, <3>1, <3>3, <4>1
      <4>3. (r \o b)[j] = a[j + 1]
        BY <2>4, <2>7, <3>1, <3>3, <4>1
      <4> QED
        BY <4>2, <4>3
    <3>4. CASE ~(j <= Len(r))
      <4>1. ~(j < i) /\ ~(j + 1 <= Len(a))
        BY <2>1, <2>2, <2>4, <3>4
      <4>2. q[j] = b[(j + 1) - Len(a)]
        BY <2>1, <2>6, <3>1, <4>1
      <4>3. (r \o b)[j] = b[j - Len(r)]
        BY <2>7, <3>1, <3>4
      <4>4. (j + 1) - Len(a) = j - Len(r)
        BY <2>1, <2>4
      <4> QED
        BY <4>2, <4>3, <4>4
    <3> QED
      BY <3>2, <3>3, <3>4
  <2>9. Len(q) = Len(r \o b)
    BY <2>1, <2>4, <2>6, <2>7
  <2>10. q = r \o b
    BY <2>7, <2>8, <2>9, SeqEqual
  <2>11. (a \o b)[i] = m
    BY <1>2, <1>4, <2>1, <2>2
  <2> QED
    BY <2>1, <2>2, <2>3, <2>5, <2>10, <2>11
<1>7. Pipe(p) = a \o b /\ Pipe(p)' = RemoveAt(a \o b, i)
  BY <1>3, <1>4, <1>5, <1>6 DEF Pipe
<1>8. /\ Thinner(Pipe(p)', Pipe(p)) /\ Within(m, Pipe(p))
      /\ Single(m, Pipe(p)) => ~Within(m, Pipe(p)')
  BY <1>6, <1>7, RemoveThins DEF Within
<1>9. \A q \in Sides \ {p} : Thinner(Pipe(q)', Pipe(q))
  BY <1>3 DEF Thinner, Pipe
<1> QED
  BY <1>8, <1>9 DEF Thins

\* Two ways to write the same sequence.
LEMMA ConcatAppend ==
  ASSUME NEW s \in Seq(MobileMessage), NEW r \in Seq(MobileMessage), NEW m \in MobileMessage
  PROVE  s \o Append(r, m) = Append(s \o r, m)
<1>1. <<m>> \in Seq(MobileMessage) /\ s \o r \in Seq(MobileMessage)
  BY ConcatProperties
<1>2. Append(r, m) = r \o <<m>> /\ Append(s \o r, m) = (s \o r) \o <<m>>
  BY <1>1, AppendIsConcat
<1> QED
  BY <1>1, <1>2, ConcatAssociative

LEMMA MoveHead ==
  ASSUME NEW s \in Seq(MobileMessage), NEW r \in Seq(MobileMessage), r # <<>>
  PROVE  Append(s, Head(r)) \o Tail(r) = s \o r
<1>1. Head(r) \in MobileMessage /\ Tail(r) \in Seq(MobileMessage) /\ <<Head(r)>> \in Seq(MobileMessage)
  BY HeadTailProperties
<1>2. r = <<Head(r)>> \o Tail(r)
  <2>1. Len(r) \in 1..Len(r) /\ 1 \in 1..Len(r) /\ r[1] = Head(r)
    OBVIOUS
  <2>2. SubSeq(r, 1, Len(r)) = <<r[1]>> \o SubSeq(r, 1 + 1, Len(r))
    BY <2>1, SubSeqRecursiveFirst
  <2> QED
    BY <2>1, <2>2, SubSeqFull, TailIsSubSeq
<1>3. Append(s, Head(r)) = s \o <<Head(r)>>
  BY <1>1, AppendIsConcat
<1> QED
  BY <1>1, <1>2, <1>3, ConcatAssociative

LEMMA TransmitPipe ==
  ASSUME MobileTypeOK, NEW p \in Sides, NEW m \in MobileMessage, Transmit(p, m), opening' = opening
  PROVE  /\ Pipe(p)' = Pipe(p)
         /\ \A x : Within(x, Pipe(Far(p))') => Within(x, Pipe(Far(p))) \/ x = m
         /\ \A x : x # m /\ Single(x, Pipe(Far(p))) => Single(x, Pipe(Far(p))')
         /\ ~Within(m, Pipe(Far(p))) => Single(m, Pipe(Far(p))')
<1>1. Far(p) \in Sides /\ Far(p) # p /\ Pipe(Far(p)) \in Seq(MobileMessage)
  BY SideTypes, PipeType
<1>2. Pipe(p)' = Pipe(p)
  BY <1>1 DEF Transmit, Pipe, MobileTypeOK
<1>3. CASE frames' = frames
  <2>1. Pipe(Far(p))' = Pipe(Far(p))
    BY <1>3 DEF Pipe
  <2>2. ~Within(m, Pipe(Far(p))) => Single(m, Pipe(Far(p)))
    BY DEF Within, Single
  <2> QED
    BY <1>2, <2>1, <2>2
<1>4. CASE frames' = [frames EXCEPT ![Far(p)] = Append(@, m)]
  <2>1. opening[Far(p)] \in Seq(MobileMessage) /\ frames[Far(p)] \in Seq(MobileMessage)
    BY <1>1 DEF MobileTypeOK
  <2>2. frames'[Far(p)] = Append(frames[Far(p)], m)
    BY <1>1, <1>4 DEF MobileTypeOK
  <2>3. opening[Far(p)] \o Append(frames[Far(p)], m) = Append(opening[Far(p)] \o frames[Far(p)], m)
    BY <2>1, ConcatAppend
  <2>4. Pipe(Far(p))' = Append(Pipe(Far(p)), m)
    BY <2>2, <2>3 DEF Pipe
  <2> QED
    BY <1>1, <1>2, <2>4, AppendWithin
<1> QED
  BY <1>3, <1>4 DEF Transmit

LEMMA ArriveThins ==
  ASSUME MobileTypeOK, NEW p \in Sides, Arrive(p)
  PROVE  Thins
<1>1. /\ frames \in [Sides -> Seq(MobileMessage)] /\ opening \in [Sides -> Seq(MobileMessage)]
      /\ frames[p] # <<>>
  BY DEF Arrive, MobileTypeOK
<1>2. PICK a \in Seq(MobileMessage) : a = opening[p]
  BY <1>1
<1>3. PICK b \in Seq(MobileMessage) : b = frames[p] /\ b # <<>>
  BY <1>1
<1>4. frames'[p] = Tail(b) /\ \A q \in Sides \ {p} : frames'[q] = frames[q]
  BY <1>1, <1>3 DEF Arrive
<1>5. /\ Head(b) \in MobileMessage /\ Tail(b) \in Seq(MobileMessage) /\ Head(b) = b[1]
      /\ Len(Tail(b)) = Len(b) - 1 /\ \A j \in 1..Len(Tail(b)) : Tail(b)[j] = b[j + 1]
      /\ Len(a) \in Nat /\ Len(b) \in Nat
  BY <1>3
<1>6. /\ \A j \in 1..(Len(a) + Len(b)) :
           (a \o b)[j] = IF j <= Len(a) THEN a[j] ELSE b[j - Len(a)]
      /\ a \o b \in Seq(MobileMessage) /\ Len(a \o b) = Len(a) + Len(b)
  BY ConcatProperties
<1>7. CASE opening' = opening
  <2>1. PICK r \in Seq(MobileMessage) : r = a \o Tail(b)
    BY <1>5, ConcatProperties
  <2>2. /\ Len(r) = Len(a) + (Len(b) - 1)
        /\ \A j \in 1..(Len(a) + (Len(b) - 1)) :
             r[j] = IF j <= Len(a) THEN a[j] ELSE b[(j - Len(a)) + 1]
    <3>1. /\ Len(r) = Len(a) + Len(Tail(b))
          /\ \A j \in 1..(Len(a) + Len(Tail(b))) :
               r[j] = IF j <= Len(a) THEN a[j] ELSE Tail(b)[j - Len(a)]
      BY <1>5, <2>1, ConcatProperties
    <3>2. \A j \in 1..(Len(a) + (Len(b) - 1)) :
            ~(j <= Len(a)) => Tail(b)[j - Len(a)] = b[(j - Len(a)) + 1]
      BY <1>5
    <3> QED
      BY <1>5, <3>1, <3>2
  <2>3. PICK s \in Seq(MobileMessage) : s = a \o b
    BY <1>6
  <2>4. \A j \in 1..Len(r) : \E k \in 1..Len(s) :
          r[j] = s[k] /\ k = IF j <= Len(a) THEN j ELSE j + 1
    <3> SUFFICES ASSUME NEW j \in 1..Len(r)
                 PROVE  \E k \in 1..Len(s) : r[j] = s[k] /\ k = IF j <= Len(a) THEN j ELSE j + 1
      OBVIOUS
    <3>1. CASE j <= Len(a)
      BY <1>5, <1>6, <2>2, <2>3, <3>1
    <3>2. CASE ~(j <= Len(a))
      <4>1. j + 1 \in 1..Len(s) /\ ~(j + 1 <= Len(a))
        BY <1>5, <1>6, <2>2, <2>3, <3>2
      <4>2. s[j + 1] = b[(j + 1) - Len(a)]
        BY <1>5, <1>6, <2>3, <4>1
      <4>3. r[j] = b[(j - Len(a)) + 1] /\ (j - Len(a)) + 1 = (j + 1) - Len(a)
        BY <1>5, <2>2, <3>2
      <4> QED
        BY <3>2, <4>1, <4>2, <4>3
    <3> QED
      BY <3>1, <3>2
  <2>5. Thinner(r, s)
    <3>1. ASSUME NEW m, Within(m, r)
          PROVE  Within(m, s)
      BY <2>4, <3>1 DEF Within
    <3>2. ASSUME NEW m, Single(m, s)
          PROVE  Single(m, r)
      <4> SUFFICES ASSUME NEW j \in 1..Len(r), NEW l \in 1..Len(r), r[j] = m, r[l] = m
                   PROVE  j = l
        BY DEF Single
      <4>1. PICK k \in 1..Len(s) : s[k] = m /\ k = IF j <= Len(a) THEN j ELSE j + 1
        BY <2>4
      <4>2. PICK n \in 1..Len(s) : s[n] = m /\ n = IF l <= Len(a) THEN l ELSE l + 1
        BY <2>4
      <4>3. k = n
        BY <3>2, <4>1, <4>2 DEF Single
      <4> QED
        BY <1>5, <4>1, <4>2, <4>3
    <3> QED
      BY <3>1, <3>2 DEF Thinner
  <2>6. Pipe(p)' = r /\ Pipe(p) = s
    BY <1>2, <1>3, <1>4, <1>7, <2>1, <2>3 DEF Pipe
  <2>7. \A q \in Sides \ {p} : Thinner(Pipe(q)', Pipe(q))
    BY <1>4, <1>7 DEF Thinner, Pipe
  <2> QED
    BY <2>5, <2>6, <2>7 DEF Thins
<1>8. CASE opening' = [opening EXCEPT ![p] = Append(@, Head(frames[p]))]
  <2>1. /\ opening'[p] = Append(a, Head(b))
        /\ \A q \in Sides \ {p} : opening'[q] = opening[q]
    BY <1>1, <1>2, <1>3, <1>8
  <2>2. Append(a, Head(b)) \o Tail(b) = a \o b
    BY <1>3, MoveHead
  <2>3. Pipe(p)' = Pipe(p)
    BY <1>2, <1>3, <1>4, <2>1, <2>2 DEF Pipe
  <2>4. \A q \in Sides : Pipe(q)' = Pipe(q)
    BY <1>4, <2>1, <2>3 DEF Pipe
  <2> QED
    BY <2>4 DEF Thins, Thinner
<1> QED
  BY <1>7, <1>8 DEF Arrive

LEMMA CloseThins ==
  ASSUME MobileTypeOK, NEW p \in Sides, ChannelCloses(p)
  PROVE  Thins
<1>1. PICK k \in 0..Len(frames[p]) :
        frames' = [frames EXCEPT ![p] = SubSeq(@, 1, k)] /\ opening' = opening
  BY DEF ChannelCloses
<1>2. PICK a \in Seq(MobileMessage) : a = opening[p]
  BY DEF MobileTypeOK
<1>3. PICK b \in Seq(MobileMessage) : b = frames[p]
  BY DEF MobileTypeOK
<1>4. SubSeq(b, 1, k) \in Seq(MobileMessage) /\ Len(SubSeq(b, 1, k)) = k
      /\ \A j \in 1..k : SubSeq(b, 1, k)[j] = b[j]
  <2>1. 1 \in Int /\ k \in Int /\ k \in Nat /\ \A j \in 1..k : b[j] \in MobileMessage
    BY <1>1, <1>3, ElementOfSeq
  <2>2. /\ SubSeq(b, 1, k) \in Seq(MobileMessage)
        /\ Len(SubSeq(b, 1, k)) = IF 1 <= k THEN k - 1 + 1 ELSE 0
        /\ \A j \in 1..(k - 1 + 1) : SubSeq(b, 1, k)[j] = b[1 + j - 1]
    BY <2>1, SubSeqProperties
  <2>3. PICK d \in Seq(MobileMessage) : d = SubSeq(b, 1, k)
    BY <2>2
  <2> QED
    BY <2>1, <2>2, <2>3
<1>5. PICK c \in Seq(MobileMessage) : /\ c = SubSeq(b, 1, k) /\ Len(c) = k
                                      /\ \A j \in 1..k : c[j] = b[j]
  BY <1>4
<1>6. frames'[p] = c /\ \A q \in Sides \ {p} : frames'[q] = frames[q]
  BY <1>1, <1>3, <1>5 DEF MobileTypeOK
<1> DEFINE s == a \o b
           r == a \o c
<1>7. /\ s \in Seq(MobileMessage) /\ Len(s) = Len(a) + Len(b)
      /\ \A j \in 1..(Len(a) + Len(b)) : s[j] = IF j <= Len(a) THEN a[j] ELSE b[j - Len(a)]
  BY ConcatProperties
<1>8. /\ r \in Seq(MobileMessage) /\ Len(r) = Len(a) + Len(c)
      /\ \A j \in 1..(Len(a) + Len(c)) : r[j] = IF j <= Len(a) THEN a[j] ELSE c[j - Len(a)]
  BY ConcatProperties
<1>9. Pipe(p)' = r /\ Pipe(p) = s
  BY <1>1, <1>2, <1>3, <1>6 DEF Pipe
<1> HIDE DEF s, r
<1>10. Len(a) \in Nat /\ Len(b) \in Nat /\ k <= Len(b) /\ k \in Nat
  BY <1>1, <1>3
<1>11. ASSUME NEW j \in 1..Len(r)
       PROVE  r[j] = s[j]
  <2>1. CASE j <= Len(a)
    <3>1. j \in 1..(Len(a) + Len(b)) /\ j \in 1..(Len(a) + Len(c))
      BY <1>5, <1>8, <1>10
    <3>2. s[j] = a[j]
      BY <1>7, <2>1, <3>1
    <3>3. r[j] = a[j]
      BY <1>8, <2>1, <3>1
    <3> QED
      BY <3>2, <3>3
  <2>2. CASE ~(j <= Len(a))
    <3>1. j - Len(a) \in 1..k
      BY <1>5, <1>8, <1>10, <2>2
    <3>2. s[j] = b[j - Len(a)] /\ r[j] = c[j - Len(a)]
      BY <1>5, <1>7, <1>8, <1>10, <2>2
    <3> QED
      BY <1>5, <3>1, <3>2
  <2> QED
    BY <2>1, <2>2
<1>12. Len(s) \in Nat /\ Len(r) \in Nat /\ Len(r) <= Len(s)
  BY <1>5, <1>7, <1>8, <1>10
<1>13. Thinner(r, s)
  BY <1>11, <1>12, PrefixThins
<1>14. \A q \in Sides \ {p} : Thinner(Pipe(q)', Pipe(q))
  BY <1>1, <1>6 DEF Thinner, Pipe
<1> QED
  BY <1>9, <1>13, <1>14 DEF Thins

-----------------------------------------------------------------------------
(* The stages of a transfer: what is on its way and how far each call is.  *)

OfferOf(t) == Control("offer-file", t)
AcceptanceOf(t) == Control("accept-file", t)
CompleteOf(t) == Control("complete", t)

\* The offer is on its way once, after sendFile and before the prompt.
OfferStage(t) ==
  /\ Single(OfferOf(t), Pipe(Receiver))
  /\ offer[t] # "sent" => ~Within(OfferOf(t), Pipe(Receiver)) /\ answer[t] = "idle"
  /\ Within(OfferOf(t), Pipe(Receiver)) => answer[t] = "idle"

\* The acceptance is on its way once, after the prompt and before the stream.
AnswerStage(t) ==
  /\ Single(AcceptanceOf(t), Pipe(Sender))
  /\ answer[t] # "accepted" => ~Within(AcceptanceOf(t), Pipe(Sender)) /\ stream[t] = "idle"
  /\ Within(AcceptanceOf(t), Pipe(Sender)) => stream[t] = "idle"

\* The complete message is on its way once, after the stream and before the verdict.
VerdictStage(t) ==
  /\ Single(CompleteOf(t), Pipe(Receiver))
  /\ stream[t] # "done" => ~Within(CompleteOf(t), Pipe(Receiver)) /\ verdict[t] = "none"
  /\ Within(CompleteOf(t), Pipe(Receiver)) => verdict[t] = "none"

Stages(t) == OfferStage(t) /\ AnswerStage(t) /\ VerdictStage(t)

DeliveryInv == MobileInv /\ \A t \in Transfers : Stages(t)

LEMMA DeliveryInvInit == MobileInit => DeliveryInv
<1> SUFFICES ASSUME MobileInit
             PROVE  DeliveryInv
  OBVIOUS
<1>1. \A p \in Sides : frames[p] = <<>> /\ opening[p] = <<>>
  BY DEF MobileInit
<1>2. \A p \in Sides : Pipe(p) = <<>>
  BY <1>1 DEF Pipe
<1>3. \A m : Single(m, <<>>) /\ ~Within(m, <<>>)
  BY DEF Single, Within
<1>4. /\ answer = [t \in Transfers |-> "idle"] /\ stream = [t \in Transfers |-> "idle"]
      /\ verdict = [t \in Transfers |-> "none"]
  BY DEF MobileInit
<1>5. \A t \in Transfers : Stages(t)
  BY <1>2, <1>3, <1>4, SideTypes DEF Stages, OfferStage, AnswerStage, VerdictStage
<1> QED
  BY <1>5, TypeInvInit DEF DeliveryInv

\* A stage is kept if its message does not multiply and its calls do not go back.
LEMMA KeepOffer ==
  ASSUME NEW u, OfferStage(u),
         Within(OfferOf(u), Pipe(Receiver)') => Within(OfferOf(u), Pipe(Receiver)),
         Single(OfferOf(u), Pipe(Receiver)) => Single(OfferOf(u), Pipe(Receiver)'),
         offer'[u] # "sent" => offer[u] # "sent",
         answer[u] = "idle" => answer'[u] = "idle"
  PROVE  OfferStage(u)'
BY DEF OfferStage, OfferOf, Control

LEMMA KeepAnswer ==
  ASSUME NEW u, AnswerStage(u),
         Within(AcceptanceOf(u), Pipe(Sender)') => Within(AcceptanceOf(u), Pipe(Sender)),
         Single(AcceptanceOf(u), Pipe(Sender)) => Single(AcceptanceOf(u), Pipe(Sender)'),
         answer'[u] # "accepted" => answer[u] # "accepted",
         stream[u] = "idle" => stream'[u] = "idle"
  PROVE  AnswerStage(u)'
BY DEF AnswerStage, AcceptanceOf, Control

LEMMA KeepVerdict ==
  ASSUME NEW u, VerdictStage(u),
         Within(CompleteOf(u), Pipe(Receiver)') => Within(CompleteOf(u), Pipe(Receiver)),
         Single(CompleteOf(u), Pipe(Receiver)) => Single(CompleteOf(u), Pipe(Receiver)'),
         stream'[u] # "done" => stream[u] # "done",
         verdict[u] = "none" => verdict'[u] = "none"
  PROVE  VerdictStage(u)'
BY DEF VerdictStage, CompleteOf, Control

\* Messages only leave.
LEMMA StagesThin ==
  ASSUME Thins, NEW u, Stages(u),
         offer'[u] # "sent" => offer[u] # "sent",
         answer[u] = "idle" => answer'[u] = "idle",
         answer'[u] # "accepted" => answer[u] # "accepted",
         stream[u] = "idle" => stream'[u] = "idle",
         stream'[u] # "done" => stream[u] # "done",
         verdict[u] = "none" => verdict'[u] = "none"
  PROVE  Stages(u)'
<1>1. Thinner(Pipe(Sender)', Pipe(Sender)) /\ Thinner(Pipe(Receiver)', Pipe(Receiver))
  BY SideTypes DEF Thins
<1>2. OfferStage(u)'
  BY <1>1, KeepOffer DEF Stages, Thinner
<1>3. AnswerStage(u)'
  BY <1>1, KeepAnswer DEF Stages, Thinner
<1>4. VerdictStage(u)'
  BY <1>1, KeepVerdict DEF Stages, Thinner
<1> QED
  BY <1>2, <1>3, <1>4 DEF Stages

\* A message is sent, m, and each stage that m is not of is kept.
LEMMA StagesSend ==
  ASSUME MobileTypeOK, NEW p \in Sides, NEW m \in MobileMessage, Transmit(p, m), opening' = opening,
         NEW u, Stages(u)
  PROVE  /\ /\ m # OfferOf(u) \/ p = Receiver
            /\ offer'[u] # "sent" => offer[u] # "sent"
            /\ answer[u] = "idle" => answer'[u] = "idle"
            => OfferStage(u)'
         /\ /\ m # AcceptanceOf(u) \/ p = Sender
            /\ answer'[u] # "accepted" => answer[u] # "accepted"
            /\ stream[u] = "idle" => stream'[u] = "idle"
            => AnswerStage(u)'
         /\ /\ m # CompleteOf(u) \/ p = Receiver
            /\ stream'[u] # "done" => stream[u] # "done"
            /\ verdict[u] = "none" => verdict'[u] = "none"
            => VerdictStage(u)'
<1>1. /\ Pipe(p)' = Pipe(p)
      /\ \A x : x # m => (Within(x, Pipe(Far(p))') => Within(x, Pipe(Far(p))))
      /\ \A x : x # m /\ Single(x, Pipe(Far(p))) => Single(x, Pipe(Far(p))')
  BY TransmitPipe
<1>2. CASE p = Sender
  <2>1. /\ Pipe(Sender)' = Pipe(Sender)
        /\ \A x : x # m => (Within(x, Pipe(Receiver)') => Within(x, Pipe(Receiver)))
        /\ \A x : x # m /\ Single(x, Pipe(Receiver)) => Single(x, Pipe(Receiver)')
        /\ Sender # Receiver
    BY <1>1, <1>2, SideTypes
  <2>2. /\ m # OfferOf(u)
        /\ offer'[u] # "sent" => offer[u] # "sent"
        /\ answer[u] = "idle" => answer'[u] = "idle"
        => OfferStage(u)'
    BY <2>1, KeepOffer DEF Stages
  <2>3. /\ answer'[u] # "accepted" => answer[u] # "accepted"
        /\ stream[u] = "idle" => stream'[u] = "idle"
        => AnswerStage(u)'
    BY <2>1, KeepAnswer DEF Stages
  <2>4. /\ m # CompleteOf(u)
        /\ stream'[u] # "done" => stream[u] # "done"
        /\ verdict[u] = "none" => verdict'[u] = "none"
        => VerdictStage(u)'
    BY <2>1, KeepVerdict DEF Stages
  <2> QED
    BY <1>2, <2>1, <2>2, <2>3, <2>4
<1>3. CASE p = Receiver
  <2>1. /\ Pipe(Receiver)' = Pipe(Receiver)
        /\ \A x : x # m => (Within(x, Pipe(Sender)') => Within(x, Pipe(Sender)))
        /\ \A x : x # m /\ Single(x, Pipe(Sender)) => Single(x, Pipe(Sender)')
        /\ Sender # Receiver
    BY <1>1, <1>3, SideTypes
  <2>2. /\ offer'[u] # "sent" => offer[u] # "sent"
        /\ answer[u] = "idle" => answer'[u] = "idle"
        => OfferStage(u)'
    BY <2>1, KeepOffer DEF Stages
  <2>3. /\ m # AcceptanceOf(u)
        /\ answer'[u] # "accepted" => answer[u] # "accepted"
        /\ stream[u] = "idle" => stream'[u] = "idle"
        => AnswerStage(u)'
    BY <2>1, KeepAnswer DEF Stages
  <2>4. /\ stream'[u] # "done" => stream[u] # "done"
        /\ verdict[u] = "none" => verdict'[u] = "none"
        => VerdictStage(u)'
    BY <2>1, KeepVerdict DEF Stages
  <2> QED
    BY <1>3, <2>1, <2>2, <2>3, <2>4
<1> QED
  BY <1>2, <1>3 DEF Sides

\* The messages of t are not those of another transfer.
LEMMA Distinct ==
  ASSUME NEW t, NEW u
  PROVE  /\ t # u => /\ OfferOf(t) # OfferOf(u) /\ AcceptanceOf(t) # AcceptanceOf(u)
                     /\ CompleteOf(t) # CompleteOf(u)
         /\ OfferOf(t) # AcceptanceOf(u) /\ OfferOf(t) # CompleteOf(u)
         /\ AcceptanceOf(t) # CompleteOf(u)
         /\ \A i : Chunk(t, i) \notin {OfferOf(u), AcceptanceOf(u), CompleteOf(u)}
         /\ \A k \in {"reject-file", "cancel"} :
              Control(k, t) \notin {OfferOf(u), AcceptanceOf(u), CompleteOf(u)}
BY DEF OfferOf, AcceptanceOf, CompleteOf, Control, Chunk

LEMMA MessageTypes ==
  ASSUME NEW t \in Transfers
  PROVE  /\ OfferOf(t) \in MobileMessage /\ AcceptanceOf(t) \in MobileMessage /\ CompleteOf(t) \in MobileMessage
         /\ Control("reject-file", t) \in MobileMessage /\ Control("cancel", t) \in MobileMessage
BY ControlType DEF OfferOf, AcceptanceOf, CompleteOf, Kinds

LEMMA StagesSession ==
  ASSUME MobileTypeOK, NEW p \in Sides, SessionStep(p), NEW u \in Transfers, Stages(u)
  PROVE  Stages(u)'
<1>1. offer' = offer /\ answer' = answer /\ stream' = stream /\ verdict' = verdict
  BY DEF SessionStep, EstablishKey, ChannelOpens, ChannelCloses, Arrive, sendVars, recvVars
<1>2. Thins
  <2>1. CASE EstablishKey(p) \/ ChannelOpens(p)
    BY <2>1, SamePipes DEF EstablishKey, ChannelOpens, frameVars
  <2> QED
    BY <2>1, ArriveThins, CloseThins DEF SessionStep
<1> QED
  BY <1>1, <1>2, StagesThin

LEMMA StagesCancel ==
  ASSUME MobileTypeOK, NEW p \in Sides, NEW t \in Transfers, PeerCancels(p, t) \/ OnCancel(p, t),
         NEW u \in Transfers, Stages(u)
  PROVE  Stages(u)'
<1>1. offer' = offer /\ answer' = answer /\ stream' = stream /\ verdict' = verdict
  BY DEF PeerCancels, OnCancel, sendVars, recvVars
<1>2. CASE PeerCancels(p, t)
  <2>1. /\ Transmit(Far(p), Control("cancel", t)) /\ opening' = opening
        /\ Control("cancel", t) \in MobileMessage /\ Far(p) \in Sides
        /\ Control("cancel", t) \notin {OfferOf(u), AcceptanceOf(u), CompleteOf(u)}
    BY <1>2, SideTypes, MessageTypes, Distinct DEF PeerCancels
  <2> QED
    BY <1>1, <2>1, StagesSend DEF Stages
<1>3. CASE OnCancel(p, t)
  <2>1. Consume(p, Control("cancel", t)) /\ frames' = frames
    BY <1>3 DEF OnCancel
  <2>2. Thins
    BY <2>1, ConsumeThins
  <2> QED
    BY <1>1, <2>2, StagesThin
<1> QED
  BY <1>2, <1>3

LEMMA StagesSender ==
  ASSUME MobileInv, NEW t \in Transfers, SenderStep(t), Stages(t),
         NEW u \in Transfers, Stages(u)
  PROVE  Stages(u)'
<1>1. /\ MobileTypeOK /\ offer \in [Transfers -> {"idle", "waiting", "offering", "sent"}]
      /\ stream \in [Transfers -> {"idle", "chunk", "completing", "done", "stopped"}]
  BY DEF MobileInv, MobileTypeOK
<1>2. answer' = answer /\ verdict' = verdict
  BY DEF SenderStep, SendFileTo, SendFile, SendOffer, OnAccept, OnReject, SendChunk,
         SendComplete, recvVars
<1>3. CASE SendFileTo(t) \/ SendFile(t)
  <2>1. /\ stream' = stream /\ frames' = frames /\ opening' = opening
        /\ offer'[u] # "sent" => offer[u] # "sent"
    BY <1>1, <1>3 DEF SendFileTo, SendFile, frameVars
  <2> QED
    BY <1>2, <2>1, SamePipes, StagesThin
<1>4. CASE SendOffer(t)
  <2>1. /\ Transmit(Sender, OfferOf(t)) /\ opening' = opening /\ stream' = stream
        /\ offer[t] = "offering" /\ offer' = [offer EXCEPT ![t] = "sent"]
    BY <1>4 DEF SendOffer, OfferOf
  <2>2. /\ OfferOf(t) \in MobileMessage
        /\ OfferOf(t) # AcceptanceOf(u) /\ OfferOf(t) # CompleteOf(u)
        /\ u # t => OfferOf(t) # OfferOf(u)
    BY MessageTypes, Distinct
  <2>3. offer'[u] # "sent" => offer[u] # "sent"
    BY <1>1, <2>1
  <2>4. AnswerStage(u)' /\ VerdictStage(u)'
    BY <1>1, <1>2, <2>1, <2>2, SideTypes, StagesSend
  <2>5. CASE u # t
    BY <1>1, <1>2, <2>1, <2>2, <2>3, <2>4, <2>5, SideTypes, StagesSend DEF Stages
  <2>6. CASE u = t
    <3>1. ~Within(OfferOf(t), Pipe(Receiver)) /\ answer[t] = "idle"
      BY <2>1 DEF Stages, OfferStage
    <3>2. Single(OfferOf(t), Pipe(Receiver)')
      BY <1>1, <2>1, <2>2, <3>1, SideTypes, TransmitPipe
    <3>3. offer'[t] = "sent" /\ answer'[t] = "idle"
      BY <1>1, <1>2, <2>1, <3>1
    <3>4. OfferStage(t)'
      BY <3>2, <3>3 DEF OfferStage, OfferOf, Control
    <3> QED
      BY <2>4, <2>6, <3>4 DEF Stages
  <2> QED
    BY <2>5, <2>6
<1>5. CASE OnAccept(t)
  <2>1. /\ Consume(Sender, AcceptanceOf(t)) /\ frames' = frames /\ offer' = offer
        /\ stream' = stream \/ stream' = [stream EXCEPT ![t] = LoopHead(t, 0, "active")]
    BY <1>5 DEF OnAccept, AcceptanceOf
  <2>2. /\ Thins /\ Within(AcceptanceOf(t), Pipe(Sender))
        /\ Single(AcceptanceOf(t), Pipe(Sender)) => ~Within(AcceptanceOf(t), Pipe(Sender)')
    BY <1>1, <2>1, SideTypes, ConsumeThins
  <2>3. CASE u # t
    <3>1. stream'[u] = stream[u]
      BY <1>1, <2>1, <2>3
    <3> QED
      BY <1>2, <2>1, <2>2, <3>1, StagesThin
  <2>4. CASE u = t
    <3>1. stream[t] = "idle" /\ answer[t] = "accepted"
      BY <2>2 DEF Stages, AnswerStage
    <3>2. LoopHead(t, 0, "active") \in {"completing", "stopped", "chunk"}
      BY LoopHeadType, FilesAreBlocks
    <3>3. stream'[t] # "done"
      BY <1>1, <2>1, <3>1, <3>2
    <3>4. /\ Thinner(Pipe(Sender)', Pipe(Sender)) /\ Thinner(Pipe(Receiver)', Pipe(Receiver))
      BY <2>2, SideTypes DEF Thins
    <3>5. OfferStage(t)'
      BY <1>2, <2>1, <3>4, KeepOffer DEF Stages, Thinner
    <3>6. VerdictStage(t)'
      BY <1>2, <3>1, <3>4, KeepVerdict DEF Stages, Thinner
    <3>7. AnswerStage(t)'
      <4>1. /\ Single(AcceptanceOf(t), Pipe(Sender)') /\ ~Within(AcceptanceOf(t), Pipe(Sender)')
        BY <2>2, <3>4 DEF Stages, AnswerStage, Thinner
      <4> QED
        BY <1>2, <3>1, <4>1 DEF AnswerStage, AcceptanceOf, Control
    <3> QED
      BY <2>4, <3>5, <3>6, <3>7 DEF Stages
  <2> QED
    BY <2>3, <2>4
<1>6. CASE OnReject(t)
  <2>1. /\ Consume(Sender, Control("reject-file", t)) /\ frames' = frames
        /\ offer' = offer /\ stream' = stream
    BY <1>6 DEF OnReject
  <2>2. Thins
    BY <1>1, <2>1, SideTypes, ConsumeThins
  <2> QED
    BY <1>2, <2>1, <2>2, StagesThin
<1>7. CASE SendChunk(t)
  <2>1. nextSeq[t] + 1 \in 1..Len(File[t])
    BY <1>7, FilesAreBlocks DEF MobileInv, MobileTypeOK, InBounds, SendChunk
  <2>2. PICK m \in MobileMessage : m = Chunk(t, nextSeq[t] + 1)
    BY <2>1, ChunkType
  <2>3. /\ Transmit(Sender, m) /\ opening' = opening /\ offer' = offer
        /\ m \notin {OfferOf(u), AcceptanceOf(u), CompleteOf(u)}
    BY <1>7, <2>2, Distinct DEF SendChunk
  <2>4. stream[u] = "idle" => stream'[u] = "idle"
    BY <1>1, <1>7 DEF SendChunk
  <2>5. stream'[u] # "done" => stream[u] # "done"
    BY <1>1, <1>7 DEF SendChunk
  <2> QED
    BY <1>1, <1>2, <2>3, <2>4, <2>5, SideTypes, StagesSend DEF Stages
<1>8. CASE SendComplete(t)
  <2>1. /\ Transmit(Sender, CompleteOf(t)) /\ opening' = opening /\ offer' = offer
        /\ stream[t] = "completing" /\ stream' = [stream EXCEPT ![t] = "done"]
    BY <1>8 DEF SendComplete, CompleteOf
  <2>2. /\ CompleteOf(t) \in MobileMessage
        /\ OfferOf(u) # CompleteOf(t) /\ AcceptanceOf(u) # CompleteOf(t)
        /\ u # t => CompleteOf(t) # CompleteOf(u)
    BY MessageTypes, Distinct
  <2>3. /\ stream[u] = "idle" => stream'[u] = "idle"
        /\ stream'[u] # "done" => stream[u] # "done"
    BY <1>1, <2>1
  <2>4. OfferStage(u)' /\ AnswerStage(u)'
    BY <1>1, <1>2, <2>1, <2>2, <2>3, SideTypes, StagesSend
  <2>5. CASE u # t
    BY <1>1, <1>2, <2>1, <2>2, <2>3, <2>4, <2>5, SideTypes, StagesSend DEF Stages
  <2>6. CASE u = t
    <3>1. ~Within(CompleteOf(t), Pipe(Receiver)) /\ verdict[t] = "none"
      BY <2>1 DEF Stages, VerdictStage
    <3>2. Single(CompleteOf(t), Pipe(Receiver)')
      BY <1>1, <2>1, <2>2, <3>1, SideTypes, TransmitPipe
    <3>3. stream'[t] = "done" /\ verdict'[t] = "none"
      BY <1>1, <1>2, <2>1, <3>1
    <3>4. VerdictStage(t)'
      BY <3>2, <3>3 DEF VerdictStage, CompleteOf, Control
    <3> QED
      BY <2>4, <2>6, <3>4 DEF Stages
  <2> QED
    BY <2>5, <2>6
<1> QED
  BY <1>3, <1>4, <1>5, <1>6, <1>7, <1>8 DEF SenderStep

LEMMA StagesReceiver ==
  ASSUME MobileInv, NEW t \in Transfers, ReceiverStep(t), Stages(t),
         NEW u \in Transfers, Stages(u)
  PROVE  Stages(u)'
<1>1. /\ MobileTypeOK
      /\ answer \in [Transfers -> {"idle", "asking", "accepting", "accepted",
                                   "rejecting", "rejected"}]
      /\ verdict \in [Transfers -> {"none", "ok", "mismatch"}]
  BY DEF MobileInv, MobileTypeOK
<1>2. offer' = offer /\ stream' = stream
  BY DEF ReceiverStep, OnOfferFile, Accept, Reject, SendAccept, SendReject, SendAnswer,
         OnChunkFrame, OnComplete, sendVars
<1>3. CASE OnOfferFile(t)
  <2>1. /\ Consume(Receiver, OfferOf(t)) /\ frames' = frames /\ verdict' = verdict
        /\ answer' = [answer EXCEPT ![t] = "asking"]
    BY <1>3 DEF OnOfferFile, OfferOf
  <2>2. /\ Thins /\ Within(OfferOf(t), Pipe(Receiver))
        /\ Single(OfferOf(t), Pipe(Receiver)) => ~Within(OfferOf(t), Pipe(Receiver)')
    BY <1>1, <2>1, SideTypes, ConsumeThins
  <2>3. CASE u # t
    <3>1. answer'[u] = answer[u]
      BY <1>1, <2>1, <2>3
    <3> QED
      BY <1>2, <2>1, <2>2, <3>1, StagesThin
  <2>4. CASE u = t
    <3>1. offer[t] = "sent" /\ answer[t] = "idle"
      BY <2>2 DEF Stages, OfferStage
    <3>2. answer'[t] = "asking"
      BY <1>1, <2>1
    <3>3. Thinner(Pipe(Sender)', Pipe(Sender)) /\ Thinner(Pipe(Receiver)', Pipe(Receiver))
      BY <2>2, SideTypes DEF Thins
    <3>4. AnswerStage(t)'
      BY <1>2, <3>1, <3>2, <3>3, KeepAnswer DEF Stages, Thinner
    <3>5. VerdictStage(t)'
      BY <1>2, <2>1, <3>3, KeepVerdict DEF Stages, Thinner
    <3>6. Single(OfferOf(t), Pipe(Receiver)') /\ ~Within(OfferOf(t), Pipe(Receiver)')
      BY <2>2, <3>3 DEF Stages, OfferStage, Thinner
    <3>7. OfferStage(t)'
      BY <1>2, <3>1, <3>6 DEF OfferStage, OfferOf, Control
    <3> QED
      BY <2>4, <3>4, <3>5, <3>7 DEF Stages
  <2> QED
    BY <2>3, <2>4
<1>4. CASE Accept(t) \/ Reject(t)
  <2>1. /\ frames' = frames /\ opening' = opening /\ verdict' = verdict
        /\ answer[u] = "idle" => answer'[u] = "idle"
        /\ answer'[u] # "accepted" => answer[u] # "accepted"
    BY <1>1, <1>4 DEF Accept, Reject, frameVars
  <2> QED
    BY <1>2, <2>1, SamePipes, StagesThin
<1>5. CASE SendAccept(t)
  <2>1. /\ Transmit(Receiver, AcceptanceOf(t)) /\ opening' = opening /\ verdict' = verdict
        /\ answer[t] = "accepting" /\ answer' = [answer EXCEPT ![t] = "accepted"]
    BY <1>5 DEF SendAccept, SendAnswer, AcceptanceOf
  <2>2. /\ AcceptanceOf(t) \in MobileMessage
        /\ AcceptanceOf(t) # OfferOf(u) /\ AcceptanceOf(t) # CompleteOf(u)
        /\ u # t => AcceptanceOf(t) # AcceptanceOf(u)
    BY MessageTypes, Distinct
  <2>3. /\ answer[u] = "idle" => answer'[u] = "idle"
        /\ answer'[u] # "accepted" => answer[u] # "accepted"
    BY <1>1, <2>1
  <2>4. OfferStage(u)' /\ VerdictStage(u)'
    BY <1>1, <1>2, <2>1, <2>2, <2>3, SideTypes, StagesSend
  <2>5. CASE u # t
    BY <1>1, <1>2, <2>1, <2>2, <2>3, <2>4, <2>5, SideTypes, StagesSend DEF Stages
  <2>6. CASE u = t
    <3>1. ~Within(AcceptanceOf(t), Pipe(Sender)) /\ stream[t] = "idle"
      BY <2>1 DEF Stages, AnswerStage
    <3>2. Single(AcceptanceOf(t), Pipe(Sender)')
      BY <1>1, <2>1, <2>2, <3>1, SideTypes, TransmitPipe
    <3>3. answer'[t] = "accepted" /\ stream'[t] = "idle"
      BY <1>1, <1>2, <2>1, <3>1
    <3>4. AnswerStage(t)'
      BY <3>2, <3>3 DEF AnswerStage, AcceptanceOf, Control
    <3> QED
      BY <2>4, <2>6, <3>4 DEF Stages
  <2> QED
    BY <2>5, <2>6
<1>6. CASE SendReject(t)
  <2>1. /\ Transmit(Receiver, Control("reject-file", t)) /\ opening' = opening
        /\ verdict' = verdict
        /\ answer[t] = "rejecting" /\ answer' = [answer EXCEPT ![t] = "rejected"]
    BY <1>6 DEF SendReject, SendAnswer
  <2>2. /\ Control("reject-file", t) \in MobileMessage
        /\ Control("reject-file", t) \notin {OfferOf(u), AcceptanceOf(u), CompleteOf(u)}
    BY MessageTypes, Distinct
  <2>3. /\ answer[u] = "idle" => answer'[u] = "idle"
        /\ answer'[u] # "accepted" => answer[u] # "accepted"
    BY <1>1, <2>1
  <2> QED
    BY <1>1, <1>2, <2>1, <2>2, <2>3, SideTypes, StagesSend DEF Stages
<1>7. CASE OnChunkFrame(t)
  <2>1. PICK i \in 1..Len(File[t]) : Consume(Receiver, Chunk(t, i))
    BY <1>7 DEF OnChunkFrame
  <2>2. frames' = frames /\ answer' = answer /\ verdict' = verdict
    BY <1>7 DEF OnChunkFrame
  <2>3. Thins
    BY <1>1, <2>1, <2>2, SideTypes, ConsumeThins
  <2> QED
    BY <1>2, <2>2, <2>3, StagesThin
<1>8. CASE OnComplete(t)
  <2>1. /\ Consume(Receiver, CompleteOf(t)) /\ frames' = frames /\ answer' = answer
        /\ \/ verdict' = verdict
           \/ verdict' = [verdict EXCEPT ![t] = "ok"]
           \/ verdict' = [verdict EXCEPT ![t] = "mismatch"]
    BY <1>8 DEF OnComplete, CompleteOf
  <2>2. /\ Thins /\ Within(CompleteOf(t), Pipe(Receiver))
        /\ Single(CompleteOf(t), Pipe(Receiver)) => ~Within(CompleteOf(t), Pipe(Receiver)')
    BY <1>1, <2>1, SideTypes, ConsumeThins
  <2>3. CASE u # t
    <3>1. verdict'[u] = verdict[u]
      BY <1>1, <2>1, <2>3
    <3> QED
      BY <1>2, <2>1, <2>2, <3>1, StagesThin
  <2>4. CASE u = t
    <3>1. stream[t] = "done"
      BY <2>2 DEF Stages, VerdictStage
    <3>2. Thinner(Pipe(Sender)', Pipe(Sender)) /\ Thinner(Pipe(Receiver)', Pipe(Receiver))
      BY <2>2, SideTypes DEF Thins
    <3>3. OfferStage(t)'
      BY <1>2, <2>1, <3>2, KeepOffer DEF Stages, Thinner
    <3>4. AnswerStage(t)'
      BY <1>2, <2>1, <3>2, KeepAnswer DEF Stages, Thinner
    <3>5. Single(CompleteOf(t), Pipe(Receiver)') /\ ~Within(CompleteOf(t), Pipe(Receiver)')
      BY <2>2, <3>2 DEF Stages, VerdictStage, Thinner
    <3>6. VerdictStage(t)'
      BY <1>2, <3>1, <3>5 DEF VerdictStage, CompleteOf, Control
    <3> QED
      BY <2>4, <3>3, <3>4, <3>6 DEF Stages
  <2> QED
    BY <2>3, <2>4
<1> QED
  BY <1>3, <1>4, <1>5, <1>6, <1>7, <1>8 DEF ReceiverStep

LEMMA DeliveryInvStep == DeliveryInv /\ [MobileNext]_engineVars => DeliveryInv'
<1> SUFFICES ASSUME DeliveryInv, [MobileNext]_engineVars
             PROVE  DeliveryInv'
  OBVIOUS
<1>1. MobileInv /\ MobileInv' /\ MobileTypeOK
  BY TypeInvStep DEF DeliveryInv, MobileInv
<1> SUFFICES ASSUME NEW u \in Transfers
             PROVE  Stages(u)'
  BY <1>1 DEF DeliveryInv
<1>2. \A t \in Transfers : Stages(t)
  BY DEF DeliveryInv
<1>3. ASSUME NEW p \in Sides, SessionStep(p)
      PROVE  Stages(u)'
  BY <1>1, <1>2, <1>3, StagesSession
<1>4. ASSUME NEW t \in Transfers, SenderStep(t)
      PROVE  Stages(u)'
  BY <1>1, <1>2, <1>4, StagesSender
<1>5. ASSUME NEW t \in Transfers, ReceiverStep(t)
      PROVE  Stages(u)'
  BY <1>1, <1>2, <1>5, StagesReceiver
<1>6. ASSUME NEW p \in Sides, NEW t \in Transfers, PeerCancels(p, t) \/ OnCancel(p, t)
      PROVE  Stages(u)'
  BY <1>1, <1>2, <1>6, StagesCancel
<1>7. CASE UNCHANGED engineVars
  <2>1. /\ frames' = frames /\ opening' = opening /\ offer' = offer /\ answer' = answer
        /\ stream' = stream /\ verdict' = verdict
    BY <1>7 DEF engineVars, frameVars, sendVars, recvVars
  <2> QED
    BY <1>2, <2>1, SamePipes, StagesThin
<1> QED
  BY <1>3, <1>4, <1>5, <1>6, <1>7 DEF MobileNext

-----------------------------------------------------------------------------
(* The two engines implement FileDelivery.                                 *)

PhaseOf == [t \in Transfers |-> Phase(t)]
StreamedOf == [t \in Transfers |-> stream[t] = "done"]

\* A step FileDelivery does not see.
LEMMA Unseen ==
  ASSUME verdict' = verdict, saved' = saved,
         \A t \in Transfers : Phase(t)' = Phase(t),
         \A t \in Transfers : (stream'[t] = "done") <=> (stream[t] = "done")
  PROVE  UNCHANGED Delivery!vars
<1>1. UNCHANGED PhaseOf
  BY DEF PhaseOf
<1>2. UNCHANGED StreamedOf
  BY DEF StreamedOf
<1> QED
  BY <1>1, <1>2 DEF Delivery!vars, PhaseOf, StreamedOf

\* The phase of t alone changes.
LEMMA PhaseMoves ==
  ASSUME NEW t \in Transfers, stream' = stream, verdict' = verdict, saved' = saved,
         \A u \in Transfers : u # t => Phase(u)' = Phase(u)
  PROVE  /\ Phase(t) = "idle" /\ Phase(t)' = "offered" => Delivery!Offer(t)
         /\ \A reply \in {"accepted", "rejected"} :
              Phase(t) = "offered" /\ Phase(t)' = reply => Delivery!Answer(t, reply)
<1>1. UNCHANGED StreamedOf
  BY DEF StreamedOf
<1>2. ASSUME NEW ph, Phase(t)' = ph
      PROVE  PhaseOf' = [PhaseOf EXCEPT ![t] = ph]
  BY <1>2 DEF PhaseOf
<1>3. PhaseOf[t] = Phase(t)
  BY DEF PhaseOf
<1> QED
  BY <1>1, <1>2, <1>3 DEF Delivery!Offer, Delivery!Answer, PhaseOf, StreamedOf

LEMMA DeliveryStarts == MobileInit => Delivery!Init
<1> SUFFICES ASSUME MobileInit
             PROVE  Delivery!Init
  OBVIOUS
<1>1. /\ answer = [t \in Transfers |-> "idle"] /\ offer = [t \in Transfers |-> "idle"]
      /\ stream = [t \in Transfers |-> "idle"] /\ verdict = [t \in Transfers |-> "none"]
      /\ saved = [t \in Transfers |-> NotSaved]
  BY DEF MobileInit
<1>2. \A t \in Transfers : Phase(t) = "idle" /\ stream[t] # "done"
  BY <1>1 DEF Phase
<1> QED
  BY <1>1, <1>2 DEF Delivery!Init

LEMMA SenderDelivers ==
  ASSUME DeliveryInv, NEW t \in Transfers, SenderStep(t)
  PROVE  Delivery!Next \/ UNCHANGED Delivery!vars
<1>1. /\ offer \in [Transfers -> {"idle", "waiting", "offering", "sent"}]
      /\ stream \in [Transfers -> {"idle", "chunk", "completing", "done", "stopped"}]
      /\ MobileTypeOK /\ MobileInv /\ Stages(t)
  BY DEF DeliveryInv, MobileInv, MobileTypeOK
<1>2. answer' = answer /\ verdict' = verdict /\ saved' = saved
  BY DEF SenderStep, SendFileTo, SendFile, SendOffer, OnAccept, OnReject, SendChunk,
         SendComplete, recvVars
<1>3. CASE SendFileTo(t) \/ SendFile(t)
  <2>1. /\ stream' = stream
        /\ \A u \in Transfers : offer'[u] = "sent" <=> offer[u] = "sent"
    BY <1>1, <1>3 DEF SendFileTo, SendFile
  <2> QED
    BY <1>2, <2>1, Unseen DEF Phase
<1>4. CASE SendOffer(t)
  <2>1. /\ stream' = stream /\ offer[t] = "offering"
        /\ offer' = [offer EXCEPT ![t] = "sent"]
    BY <1>4 DEF SendOffer
  <2>2. answer[t] = "idle"
    BY <1>1, <2>1 DEF Stages, OfferStage
  <2>3. \A u \in Transfers : u # t => Phase(u)' = Phase(u)
    BY <1>1, <1>2, <2>1 DEF Phase
  <2>4. Phase(t) = "idle" /\ Phase(t)' = "offered"
    BY <1>1, <1>2, <2>1, <2>2 DEF Phase
  <2> QED
    BY <1>2, <2>1, <2>3, <2>4, PhaseMoves DEF Delivery!Next
<1>5. CASE OnAccept(t)
  <2>1. /\ Consume(Sender, AcceptanceOf(t)) /\ frames' = frames /\ offer' = offer
        /\ stream' = stream \/ stream' = [stream EXCEPT ![t] = LoopHead(t, 0, "active")]
    BY <1>5 DEF OnAccept, AcceptanceOf
  <2>2. Within(AcceptanceOf(t), Pipe(Sender))
    BY <1>1, <2>1, SideTypes, ConsumeThins
  <2>3. stream[t] = "idle"
    BY <1>1, <2>2 DEF Stages, AnswerStage
  <2>4. LoopHead(t, 0, "active") \in {"completing", "stopped", "chunk"}
    BY LoopHeadType, FilesAreBlocks
  <2>5. \A u \in Transfers : (stream'[u] = "done") <=> (stream[u] = "done")
    BY <1>1, <2>1, <2>3, <2>4
  <2> QED
    BY <1>2, <2>1, <2>5, Unseen DEF Phase
<1>6. CASE OnReject(t)
  BY <1>2, <1>6, Unseen DEF OnReject, Phase
<1>7. CASE SendChunk(t)
  <2>1. nextSeq[t] + 1 \in 0..Len(File[t])
    BY <1>1, <1>7, FilesAreBlocks DEF MobileInv, MobileTypeOK, InBounds, SendChunk
  <2>2. LoopHead(t, nextSeq[t] + 1, outState[t]) \in {"completing", "stopped", "chunk"}
    BY <2>1, LoopHeadType
  <2>3. /\ offer' = offer /\ stream[t] = "chunk"
        /\ stream' = [stream EXCEPT ![t] = LoopHead(t, nextSeq[t] + 1, outState[t])]
    BY <1>7 DEF SendChunk
  <2>4. \A u \in Transfers : (stream'[u] = "done") <=> (stream[u] = "done")
    BY <1>1, <2>2, <2>3
  <2> QED
    BY <1>2, <2>3, <2>4, Unseen DEF Phase
<1>8. CASE SendComplete(t)
  <2>1. /\ offer' = offer /\ stream[t] = "completing"
        /\ stream' = [stream EXCEPT ![t] = "done"]
    BY <1>8 DEF SendComplete
  <2>2. Phase(t) = "accepted"
    BY <1>1, <2>1 DEF Stages, AnswerStage, Phase
  <2>3. UNCHANGED PhaseOf
    BY <1>2, <2>1 DEF PhaseOf, Phase
  <2>4. StreamedOf' = [StreamedOf EXCEPT ![t] = TRUE] /\ ~StreamedOf[t]
    BY <1>1, <2>1 DEF StreamedOf
  <2>5. PhaseOf[t] = "accepted"
    BY <2>2 DEF PhaseOf
  <2>6. Delivery!Stream(t)
    BY <1>2, <2>3, <2>4, <2>5 DEF Delivery!Stream, PhaseOf, StreamedOf
  <2> QED
    BY <2>6 DEF Delivery!Next
<1> QED
  BY <1>3, <1>4, <1>5, <1>6, <1>7, <1>8 DEF SenderStep

LEMMA ReceiverDelivers ==
  ASSUME DeliveryInv, NEW t \in Transfers, ReceiverStep(t)
  PROVE  Delivery!Next \/ UNCHANGED Delivery!vars
<1>1. /\ answer \in [Transfers -> {"idle", "asking", "accepting", "accepted",
                                   "rejecting", "rejected"}]
      /\ MobileTypeOK /\ Stages(t)
  BY DEF DeliveryInv, MobileInv, MobileTypeOK
<1>2. offer' = offer /\ stream' = stream
  BY DEF ReceiverStep, OnOfferFile, Accept, Reject, SendAccept, SendReject, SendAnswer,
         OnChunkFrame, OnComplete, sendVars
<1>3. CASE OnOfferFile(t)
  <2>1. /\ Consume(Receiver, OfferOf(t)) /\ frames' = frames
        /\ verdict' = verdict /\ saved' = saved
        /\ answer' = [answer EXCEPT ![t] = "asking"]
    BY <1>3 DEF OnOfferFile, OfferOf
  <2>2. Within(OfferOf(t), Pipe(Receiver))
    BY <1>1, <2>1, SideTypes, ConsumeThins
  <2>3. answer[t] = "idle"
    BY <1>1, <2>2 DEF Stages, OfferStage
  <2>4. \A u \in Transfers : Phase(u)' = Phase(u)
    BY <1>1, <1>2, <2>1, <2>3 DEF Phase
  <2> QED
    BY <1>2, <2>1, <2>4, Unseen
<1>4. CASE Accept(t) \/ Reject(t)
  <2>1. \A u \in Transfers : Phase(u)' = Phase(u)
    BY <1>1, <1>2, <1>4 DEF Accept, Reject, Phase
  <2> QED
    BY <1>2, <1>4, <2>1, Unseen DEF Accept, Reject
<1>5. CASE SendAccept(t) \/ SendReject(t)
  <2>1. /\ verdict' = verdict /\ saved' = saved
        /\ \/ answer[t] = "accepting" /\ answer' = [answer EXCEPT ![t] = "accepted"]
           \/ answer[t] = "rejecting" /\ answer' = [answer EXCEPT ![t] = "rejected"]
    BY <1>5 DEF SendAccept, SendReject, SendAnswer
  <2>2. offer[t] = "sent"
    BY <1>1, <2>1 DEF Stages, OfferStage
  <2>3. Phase(t) = "offered" /\ (Phase(t)' = "accepted" \/ Phase(t)' = "rejected")
    BY <1>1, <1>2, <2>1, <2>2 DEF Phase
  <2>4. \A u \in Transfers : u # t => Phase(u)' = Phase(u)
    BY <1>1, <1>2, <2>1 DEF Phase
  <2> QED
    BY <1>2, <2>1, <2>3, <2>4, PhaseMoves DEF Delivery!Next
<1>6. CASE OnChunkFrame(t)
  BY <1>2, <1>6, Unseen DEF OnChunkFrame, Phase
<1>7. CASE OnComplete(t)
  <2>1. /\ Consume(Receiver, CompleteOf(t)) /\ frames' = frames /\ answer' = answer
        /\ \/ verdict' = verdict /\ saved' = saved
           \/ /\ chunks[t] = File[t]
              /\ verdict' = [verdict EXCEPT ![t] = "ok"]
              /\ saved' = [saved EXCEPT ![t] = chunks[t]]
           \/ verdict' = [verdict EXCEPT ![t] = "mismatch"] /\ saved' = saved
    BY <1>7 DEF OnComplete, CompleteOf, DigestMatches
  <2>2. Within(CompleteOf(t), Pipe(Receiver))
    BY <1>1, <2>1, SideTypes, ConsumeThins
  <2>3. stream[t] = "done" /\ verdict[t] = "none"
    BY <1>1, <2>2 DEF Stages, VerdictStage
  <2>4. UNCHANGED PhaseOf /\ UNCHANGED StreamedOf /\ StreamedOf[t]
    BY <1>2, <2>1, <2>3 DEF PhaseOf, StreamedOf, Phase
  <2>5. CASE verdict' = verdict /\ saved' = saved
    BY <1>2, <2>1, <2>5, Unseen DEF Phase
  <2>6. CASE /\ chunks[t] = File[t]
             /\ verdict' = [verdict EXCEPT ![t] = "ok"]
             /\ saved' = [saved EXCEPT ![t] = chunks[t]]
    <3>1. Delivery!Deliver(t)
      BY <2>3, <2>4, <2>6 DEF Delivery!Deliver, PhaseOf, StreamedOf
    <3> QED
      BY <3>1 DEF Delivery!Next
  <2>7. CASE verdict' = [verdict EXCEPT ![t] = "mismatch"] /\ saved' = saved
    <3>1. Delivery!Fail(t)
      BY <2>3, <2>4, <2>7 DEF Delivery!Fail, PhaseOf, StreamedOf
    <3> QED
      BY <3>1 DEF Delivery!Next
  <2> QED
    BY <2>1, <2>5, <2>6, <2>7
<1> QED
  BY <1>3, <1>4, <1>5, <1>6, <1>7 DEF ReceiverStep

LEMMA EngineStepDelivers ==
  DeliveryInv /\ [MobileNext]_engineVars => [Delivery!Next]_(Delivery!vars)
<1> SUFFICES ASSUME DeliveryInv, [MobileNext]_engineVars
             PROVE  Delivery!Next \/ UNCHANGED Delivery!vars
  OBVIOUS
<1>1. ASSUME NEW p \in Sides, SessionStep(p)
      PROVE  UNCHANGED Delivery!vars
  <2>1. UNCHANGED <<sendVars, recvVars>>
    BY <1>1 DEF SessionStep, EstablishKey, ChannelOpens, ChannelCloses, Arrive
  <2> QED
    BY <2>1, Unseen DEF Phase, sendVars, recvVars
<1>2. ASSUME NEW p \in Sides, NEW t \in Transfers, PeerCancels(p, t) \/ OnCancel(p, t)
      PROVE  UNCHANGED Delivery!vars
  <2>1. UNCHANGED <<offer, stream, answer, verdict, saved>>
    BY <1>2 DEF PeerCancels, OnCancel, sendVars, recvVars
  <2> QED
    BY <2>1, Unseen DEF Phase
<1>3. CASE UNCHANGED engineVars
  BY <1>3, Unseen DEF Phase, engineVars, sendVars, recvVars
<1> QED
  BY <1>1, <1>2, <1>3, SenderDelivers, ReceiverDelivers DEF MobileNext

\* Two mobile engines implement FileDelivery: an offer is answered once, only an accepted
\* file is streamed and only once, and its one verdict comes after the stream and
\* hands over the file as it is or nothing; whichever side offered the connection,
\* whenever its engine comes, and in whatever order messages are opened.
THEOREM MobilesDeliver == MobileSpec => MobileDelivers
<1>1. MobileInit => DeliveryInv
  BY DeliveryInvInit
<1>2. DeliveryInv /\ [MobileNext]_engineVars => DeliveryInv'
  BY DeliveryInvStep
<1>3. DeliveryInv /\ [MobileNext]_engineVars => [Delivery!Next]_(Delivery!vars)
  BY EngineStepDelivers
<1>4. MobileInit => Delivery!Init
  BY DeliveryStarts
<1> QED
  BY <1>1, <1>2, <1>3, <1>4, PTL DEF MobileSpec, MobileDelivers, Delivery!Spec

=============================================================================
