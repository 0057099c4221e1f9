------------------------------- MODULE WebTabs -------------------------------
(***************************************************************************)
(* Tabs of the web demo: the hook useLanTransferWeb.ts over LoopbackSignal *)
(* (loopbackSignal.ts), whose tabs meet on one BroadcastChannel.  All tabs *)
(* are in one room: another room is another channel.                       *)
(*                                                                         *)
(* External: the BroadcastChannel, which brings each message to the        *)
(* channels that are open when it is posted, in order for each pair of     *)
(* tabs; and PeerSession, of which a session's stage is kept (Handshake    *)
(* has the rest: here offers that cross just leave both sides waiting).    *)
(* X_Bug is X with one plausible bug (README, "Mutation").                 *)
(***************************************************************************)
EXTENDS Integers, Sequences, FiniteSets

CONSTANTS N,            \* tabs, numbered in the order they open
          Mounts,       \* of 1 and 2 (see mounts)
          MaxCloses,    \* tabs that close (bounds the model, as the next)
          MaxSends      \* sendFileTo calls

Tabs == 1..N
NoTab == 0

VARIABLES
  mounts,    \* how often React runs the effect: once, or twice in development
  tab,       \* tab[t]: "unopened", "open" or "gone"
  wire,      \* wire[s][t]: posted by s and not yet heard by t
  seen,      \* seenPeers
  peers,     \* state.peers
  session,   \* session[t][p]: t's session with p, see Stages
  caller,    \* <<t, p>> if t's session with p called connect()
  sending,   \* sending[t]: the peer t's sendFileTo waits for
  sends      \* sendFileTo calls made

tabVars == <<mounts, tab, wire, seen, peers, session, caller, sending, sends>>

Stages == {"none", "new", "calling", "answered", "ready"}
Hello == [t |-> "hello", to |-> NoTab]
Signal(kind, to) == [t |-> kind, to |-> to]
Envelope == {Hello} \cup {Signal(kind, p) : kind \in {"offer", "answer"}, p \in Tabs}

TypeOK ==
  /\ mounts \in Mounts
  /\ tab \in [Tabs -> {"unopened", "open", "gone"}]
  /\ wire \in [Tabs -> [Tabs -> Seq(Envelope)]]
  /\ seen \in [Tabs -> SUBSET Tabs] /\ peers \in [Tabs -> SUBSET Tabs]
  /\ session \in [Tabs -> [Tabs -> Stages]]
  /\ caller \in SUBSET (Tabs \X Tabs)
  /\ sending \in [Tabs -> Tabs \cup {NoTab}]
  /\ sends \in 0..MaxSends

Init ==
  /\ mounts \in Mounts
  /\ tab = [t \in Tabs |-> "unopened"]
  /\ wire = [s \in Tabs |-> [t \in Tabs |-> <<>>]]
  /\ seen = [t \in Tabs |-> {}] /\ peers = [t \in Tabs |-> {}]
  /\ session = [t \in Tabs |-> [p \in Tabs |-> "none"]] /\ caller = {}
  /\ sending = [t \in Tabs |-> NoTab] /\ sends = 0

(***************************************************************************)
(* The channel                                                             *)
(***************************************************************************)

\* w after t has posted ms.
Posted(w, t, ms) ==
  [w EXCEPT ![t] = [d \in Tabs |-> IF d # t /\ tab[d] = "open" THEN @[d] \o ms ELSE @[d]]]

\* t's next message from s.
Front(s, t) == Head(wire[s][t])
Heard(s, t) == [wire EXCEPT ![s][t] = Tail(@)]

\* The effect runs: a channel is opened and the tab announces itself.  Run again,
\* after a cleanup, it opens a second channel with the same id.
Open(t) ==
  /\ tab[t] = "unopened" /\ \A p \in 1..t - 1 : tab[p] # "unopened"
  /\ tab' = [tab EXCEPT ![t] = "open"]
  /\ wire' = Posted(wire, t, [i \in 1..mounts |-> Hello])
  /\ UNCHANGED <<mounts, seen, peers, session, caller, sending, sends>>

\* The tab closes (cleanup).  Nothing is posted, and nobody notices.
Close(t) ==
  /\ tab[t] = "open" /\ Cardinality({p \in Tabs : tab[p] = "gone"}) < MaxCloses
  /\ tab' = [tab EXCEPT ![t] = "gone"]
  /\ wire' = [s \in Tabs |-> [wire[s] EXCEPT ![t] = <<>>]]
  /\ sending' = [sending EXCEPT ![t] = NoTab]
  /\ UNCHANGED <<mounts, seen, peers, session, caller, sends>>

(***************************************************************************)
(* Presence                                                                *)
(***************************************************************************)

\* The tab does not announce itself back.
OnHello_Silent(s, t) ==
  /\ wire[s][t] # <<>> /\ Front(s, t) = Hello
  /\ seen' = [seen EXCEPT ![t] = @ \cup {s}]
  /\ peers' = [peers EXCEPT ![t] = @ \cup {s}]
  /\ wire' = Heard(s, t)
  /\ UNCHANGED <<mounts, tab, session, caller, sending, sends>>

\* The first hello of s surfaces as peer-joined and is announced back.
OnHello(s, t) ==
  /\ wire[s][t] # <<>> /\ Front(s, t) = Hello
  /\ IF s \in seen[t]
     THEN wire' = Heard(s, t) /\ UNCHANGED <<seen, peers>>
     ELSE /\ seen' = [seen EXCEPT ![t] = @ \cup {s}]
          /\ peers' = [peers EXCEPT ![t] = @ \cup {s}]
          /\ wire' = Posted(Heard(s, t), t, <<Hello>>)
  /\ UNCHANGED <<mounts, tab, session, caller, sending, sends>>

(***************************************************************************)
(* Sessions                                                                *)
(***************************************************************************)

\* Whatever is heard is for this tab.
ForMe_Any(s, t) == Front(s, t) # Hello

ForMe(s, t) == Front(s, t).to = t

\* Another tab's offer or answer.
OnOthers(s, t) ==
  /\ wire[s][t] # <<>> /\ Front(s, t) # Hello /\ ~ForMe(s, t)
  /\ wire' = Heard(s, t)
  /\ UNCHANGED <<mounts, tab, seen, peers, session, caller, sending, sends>>

\* An offer makes a session if there is none, and is answered.
OnOffer(s, t) ==
  /\ wire[s][t] # <<>> /\ Front(s, t).t = "offer" /\ ForMe(s, t)
  /\ session' = [session EXCEPT ![t][s] = "answered"]
  /\ wire' = Posted(Heard(s, t), t, <<Signal("answer", s)>>)
  /\ UNCHANGED <<mounts, tab, seen, peers, caller, sending, sends>>

\* So does an answer, which nobody may have waited for.
OnAnswer(s, t) ==
  /\ wire[s][t] # <<>> /\ Front(s, t).t = "answer" /\ ForMe(s, t)
  /\ session' = [session EXCEPT ![t][s] =
                   CASE @ = "calling" -> "ready" [] @ = "none" -> "new" [] OTHER -> @]
  /\ wire' = Heard(s, t)
  /\ UNCHANGED <<mounts, tab, seen, peers, caller, sending, sends>>

\* The channel opens at the answering end too.
ChannelOpens(t, p) ==
  /\ session[t][p] = "answered" /\ session[p][t] = "ready"
  /\ tab[t] = "open" /\ tab[p] = "open"
  /\ session' = [session EXCEPT ![t][p] = "ready"]
  /\ UNCHANGED <<mounts, tab, wire, seen, peers, caller, sending, sends>>

\* The user picks a file for a listed peer; a first session with it is offered.
SendFileTo(t, p) ==
  /\ tab[t] = "open" /\ p \in peers[t]
  /\ sending[t] = NoTab /\ sends < MaxSends
  /\ sending' = [sending EXCEPT ![t] = p]
  /\ sends' = sends + 1
  /\ IF session[t][p] = "none"
     THEN /\ session' = [session EXCEPT ![t][p] = "calling"]
          /\ caller' = caller \cup {<<t, p>>}
          /\ wire' = Posted(wire, t, <<Signal("offer", p)>>)
     ELSE UNCHANGED <<session, caller, wire>>
  /\ UNCHANGED <<mounts, tab, seen, peers>>

\* waitUntil finds the session ready and the file is sent, or 10 s are over.
WaitUntil(t) ==
  /\ sending[t] # NoTab
  /\ sending' = [sending EXCEPT ![t] = NoTab]
  /\ UNCHANGED <<mounts, tab, wire, seen, peers, session, caller, sends>>

(***************************************************************************)
(* Specification                                                           *)
(***************************************************************************)

Hear(s, t) == OnHello(s, t) \/ OnOthers(s, t) \/ OnOffer(s, t) \/ OnAnswer(s, t)

Next == \/ \E t \in Tabs : Open(t) \/ Close(t) \/ WaitUntil(t)
        \/ \E s, t \in Tabs : Hear(s, t) \/ ChannelOpens(s, t) \/ SendFileTo(s, t)

Spec == Init /\ [][Next]_tabVars

(***************************************************************************)
(* Properties                                                              *)
(***************************************************************************)

Hellos(s, t) == {i \in DOMAIN wire[s][t] : wire[s][t][i] = Hello}

\* Whichever tab opens first and however their announcements cross, two open tabs
\* list each other as soon as there is no announcement left between them; and
\* announcing back does not feed on itself: from one tab to another there is never
\* more than an announcement for each mount and one for each tab heard of.
Discovered ==
  /\ \A t, p \in {q \in Tabs : tab[q] = "open"} :
       t # p /\ Hellos(t, p) = {} /\ Hellos(p, t) = {} => p \in peers[t] /\ t \in peers[p]
  /\ \A s, t \in Tabs : Cardinality(Hellos(s, t)) <= mounts + Cardinality(seen[s])

\* Signals broadcast to every tab concern two of them: a tab has a session with
\* another only if one of the two called the other, and one that is ready at t has
\* its other end at p and not at a third tab.
SessionsPaired ==
  \A t, p \in Tabs :
    /\ session[t][p] # "none" => <<t, p>> \in caller \/ <<p, t>> \in caller
    /\ session[t][p] = "ready" => session[p][t] \in {"answered", "ready"}
==============================================================================
