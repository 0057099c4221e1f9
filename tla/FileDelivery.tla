---------------------------- MODULE FileDelivery ----------------------------
(***************************************************************************)
(* What a pair of connected peers promises about each file one of them     *)
(* offers, whatever the network, the users and close() do: the receiving   *)
(* user's consent comes before the bytes, the bytes come before the        *)
(* verdict, and there is one verdict, which hands over the file as it is   *)
(* or nothing at all.  Transfer implements it (DeliverySpec there).        *)
(***************************************************************************)
CONSTANTS Transfers,  \* transfer ids
          File,       \* the content offered under each id
          Nothing     \* no content

VARIABLES phase,      \* how far the offer has come
          streamed,   \* the sender has handed over everything, digest included
          verdict,    \* the receiver's comparison of the digests
          got         \* the content handed to the receiving host

vars == <<phase, streamed, verdict, got>>

Init ==
  /\ phase = [t \in Transfers |-> "idle"]
  /\ streamed = [t \in Transfers |-> FALSE]
  /\ verdict = [t \in Transfers |-> "none"]
  /\ got = [t \in Transfers |-> Nothing]

Offer(t) ==
  /\ phase[t] = "idle"
  /\ phase' = [phase EXCEPT ![t] = "offered"]
  /\ UNCHANGED <<streamed, verdict, got>>

Answer(t, reply) ==
  /\ phase[t] = "offered"
  /\ phase' = [phase EXCEPT ![t] = reply]
  /\ UNCHANGED <<streamed, verdict, got>>

\* Only an accepted file is streamed to its end, and only once.
Stream(t) ==
  /\ phase[t] = "accepted"
  /\ ~streamed[t]
  /\ streamed' = [streamed EXCEPT ![t] = TRUE]
  /\ UNCHANGED <<phase, verdict, got>>

Deliver(t) ==
  /\ streamed[t]
  /\ verdict[t] = "none"
  /\ verdict' = [verdict EXCEPT ![t] = "ok"]
  /\ got' = [got EXCEPT ![t] = File[t]]
  /\ UNCHANGED <<phase, streamed>>

Fail(t) ==
  /\ streamed[t]
  /\ verdict[t] = "none"
  /\ verdict' = [verdict EXCEPT ![t] = "mismatch"]
  /\ UNCHANGED <<phase, streamed, got>>

Next == \E t \in Transfers : \/ Offer(t)
                             \/ Answer(t, "accepted") \/ Answer(t, "rejected")
                             \/ Stream(t)
                             \/ Deliver(t) \/ Fail(t)

Spec == Init /\ [][Next]_vars
=============================================================================
