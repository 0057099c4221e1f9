----------------------------- MODULE RelayClient -----------------------------
(***************************************************************************)
(* The reconnecting signaling client: relayClient.ts (desktop and web) and *)
(* relay_client.dart (mobile).  flavor says which one a behaviour is       *)
(* about.                                                                  *)
(*                                                                         *)
(* External: sockets, each of which is connecting, open, closing (closed   *)
(* by this end, its close event still to come) or unused; and the relay,   *)
(* which accepts connections while it is up.  A slot of Slots is one       *)
(* socket with the timer its close event sets, and is used again after     *)
(* that.  Delays are in units of 500 ms.  X_Bug is X with one plausible    *)
(* bug (README, "Mutation").                                               *)
(***************************************************************************)
EXTENDS Integers, Sequences

CONSTANTS Flavors,      \* of "ts" and "dart"
          Slots,        \* sockets that exist at one time
          NoSlot,
          MaxConnects   \* calls of connect() (bounds the model)

VARIABLES
  flavor,
  sock,          \* sock[i]: "none", "connecting", "open" or "closing"
  timer,         \* timer[i]: the delay of the timer socket i's end has set, or 0
  got,           \* got[i]: what the relay received on socket i (the first three)
  ws,            \* this.ws, _channel
  closedByUser,
  delay,         \* reconnectDelay, _backoff
  up,            \* the relay accepts connections
  connects,      \* calls of connect()
  failures       \* sockets that ended since one was last open, at most 5 (history)

relayVars == <<flavor, sock, timer, got, ws, closedByUser, delay, up, connects, failures>>

RelayTypeOK ==
  /\ flavor \in Flavors
  /\ sock \in [Slots -> {"none", "connecting", "open", "closing"}]
  /\ timer \in [Slots -> {0, 1, 2, 4, 8, 16}]
  /\ got \in [Slots -> Seq({"hello", "join", "signal"})]
  /\ ws \in Slots \cup {NoSlot}
  /\ closedByUser \in BOOLEAN
  /\ delay \in {1, 2, 4, 8, 16}
  /\ up \in BOOLEAN
  /\ connects \in 0..MaxConnects
  /\ failures \in 0..5

RelayInit ==
  /\ flavor \in Flavors
  /\ sock = [i \in Slots |-> "none"] /\ timer = [i \in Slots |-> 0]
  /\ got = [i \in Slots |-> <<>>] /\ ws = NoSlot
  /\ closedByUser = FALSE /\ delay = 1
  /\ up \in BOOLEAN /\ connects = 0 /\ failures = 0

(***************************************************************************)
(* Sending                                                                 *)
(***************************************************************************)

\* The relay receives ms on socket i (only the first three are kept).
UpTo(k, s) == SubSeq(s, 1, IF Len(s) < k THEN Len(s) ELSE k)
Received(i, ms) == [got EXCEPT ![i] = UpTo(3, @ \o ms)]

Greeting == <<"hello", "join">>

\* RelayClient.send sends on the current socket if it is open, or nothing; a
\* mobile channel keeps what is added while it connects.
CanSend(i) == i # NoSlot /\ (sock[i] = "open" \/ (flavor = "dart" /\ sock[i] = "connecting"))

SendSignal ==
  /\ connects > 0
  /\ got' = IF CanSend(ws) THEN Received(ws, <<"signal">>) ELSE got
  /\ UNCHANGED <<flavor, sock, timer, ws, closedByUser, delay, up, connects, failures>>

(***************************************************************************)
(* Opening and closing                                                     *)
(***************************************************************************)

Free(i) == sock[i] = "none" /\ timer[i] = 0

\* openSocket, with socket i.
OpenTs(i) ==
  /\ sock' = [sock EXCEPT ![i] = "connecting"]
  /\ got' = [got EXCEPT ![i] = <<>>]
  /\ ws' = i
  /\ UNCHANGED delay

\* _open: greets at once and takes the backoff back.
OpenDart(i) ==
  /\ sock' = [sock EXCEPT ![i] = "connecting"]
  /\ got' = [got EXCEPT ![i] = Greeting]
  /\ ws' = i
  /\ delay' = 1

Open(i) == IF flavor = "ts" THEN OpenTs(i) ELSE OpenDart(i)

Connect ==
  /\ connects < MaxConnects
  /\ connects' = connects + 1
  /\ closedByUser' = FALSE
  /\ \E i \in Slots : Free(i) /\ Open(i)
  /\ UNCHANGED <<flavor, timer, up, failures>>

\* onopen does not reset the delay.
OnOpen_KeepsDelay(i) ==
  /\ sock[i] = "connecting" /\ up
  /\ sock' = [sock EXCEPT ![i] = "open"]
  /\ failures' = 0
  /\ got' = IF flavor = "ts" THEN Received(i, Greeting) ELSE got
  /\ UNCHANGED <<flavor, timer, ws, closedByUser, up, connects, delay>>

\* onopen resets the delay and greets on this.ws, whichever socket that is.
OnOpen(i) ==
  /\ sock[i] = "connecting" /\ up
  /\ sock' = [sock EXCEPT ![i] = "open"]
  /\ failures' = 0
  /\ IF flavor = "ts"
     THEN /\ delay' = 1
          /\ got' = IF ws = i \/ CanSend(ws) THEN Received(ws, Greeting) ELSE got
     ELSE UNCHANGED <<delay, got>>
  /\ UNCHANGED <<flavor, timer, ws, closedByUser, up, connects>>

\* The delay is doubled without a cap.
Doubled_Uncapped(d) == 2 * d

Doubled(d) == IF 2 * d > 16 THEN 16 ELSE 2 * d

\* onclose gives up.
Ended_GivesUp(i) ==
  /\ sock' = [sock EXCEPT ![i] = "none"]
  /\ failures' = IF failures < 5 THEN failures + 1 ELSE 5
  /\ UNCHANGED <<flavor, timer, delay, got, ws, closedByUser, up, connects>>

\* onclose (onDone, onError): a reconnect is scheduled unless the user closed.
Ended(i) ==
  /\ sock' = [sock EXCEPT ![i] = "none"]
  /\ failures' = IF failures < 5 THEN failures + 1 ELSE 5
  /\ IF closedByUser THEN UNCHANGED <<timer, delay>>
     ELSE /\ timer' = [timer EXCEPT ![i] = delay]
          /\ delay' = Doubled(delay)
  /\ UNCHANGED <<flavor, got, ws, closedByUser, up, connects>>

\* The connection fails while the relay is down (onerror closes the socket,
\* which then reports its end like any other), or breaks.
Fails(i) == ~up /\ sock[i] = "connecting" /\ Ended(i)
Breaks(i) == sock[i] = "open" /\ Ended(i)

\* The close event of a socket closed from here.  The mobile client has given
\* up listening by then.
Closes(i) ==
  /\ sock[i] = "closing"
  /\ IF flavor = "ts" THEN Ended(i)
     ELSE /\ sock' = [sock EXCEPT ![i] = "none"]
          /\ UNCHANGED <<flavor, timer, got, ws, closedByUser, delay, up, connects, failures>>

\* The timer reconnects although the user closed meanwhile.
TimerFires_Blind(i) ==
  /\ timer[i] # 0
  /\ timer' = [timer EXCEPT ![i] = 0]
  /\ Open(i)
  /\ UNCHANGED <<flavor, closedByUser, up, connects, failures>>

TimerFires(i) ==
  /\ timer[i] # 0
  /\ timer' = [timer EXCEPT ![i] = 0]
  /\ IF closedByUser THEN UNCHANGED <<sock, got, ws, delay>> ELSE Open(i)
  /\ UNCHANGED <<flavor, closedByUser, up, connects, failures>>

Close ==
  /\ connects > 0 /\ ~closedByUser
  /\ closedByUser' = TRUE
  /\ sock' = IF ws # NoSlot /\ sock[ws] # "none" THEN [sock EXCEPT ![ws] = "closing"] ELSE sock
  /\ ws' = IF flavor = "ts" THEN NoSlot ELSE ws
  /\ UNCHANGED <<flavor, timer, got, delay, up, connects, failures>>

RelayTurns ==
  /\ up' = ~up
  /\ UNCHANGED <<flavor, sock, timer, got, ws, closedByUser, delay, connects, failures>>

(***************************************************************************)
(* Specification                                                           *)
(***************************************************************************)

RelayNext ==
  \/ Connect \/ Close \/ SendSignal \/ RelayTurns
  \/ \E i \in Slots : OnOpen(i) \/ Fails(i) \/ Breaks(i) \/ Closes(i) \/ TimerFires(i)

RelaySpec == RelayInit /\ [][RelayNext]_relayVars

\* Connection attempts come to an end one way or the other, timers fire.
RelayFairness ==
  \A i \in Slots : /\ WF_relayVars(OnOpen(i) \/ Fails(i))
                   /\ WF_relayVars(Closes(i))
                   /\ WF_relayVars(TimerFires(i))

RelayFairSpec == RelaySpec /\ RelayFairness

(***************************************************************************)
(* Properties (of clients that are connected once, as all in the repository) *)
(***************************************************************************)

Live(i) == sock[i] \in {"connecting", "open"} \/ timer[i] # 0

\* However connections fail, break and come back, there is one socket or one
\* timer at a time, and no socket is live once the user closed: one peer id never
\* greets the relay on two connections.
SingleSocket ==
  /\ \A i, j \in Slots : Live(i) /\ Live(j) => i = j
  /\ closedByUser => \A i \in Slots : sock[i] \notin {"connecting", "open"}

\* The desktop and web client waits 0.5, 1, 2, 4 and then 8 s after failures in
\* a row, and starts over once a connection was open.
BacksOff ==
  flavor = "ts" => \A i \in Slots :
    timer[i] # 0 => timer[i] = <<1, 2, 4, 8, 16>>[failures]

\* A client that is connected and not closed gets into its room, with its hello ahead
\* of its join also when signals are sent while the socket opens, if the relay
\* stays up for long enough.
Registered == ws # NoSlot /\ sock[ws] = "open" /\ UpTo(2, got[ws]) = <<"hello", "join">>
Rejoins == (connects > 0 /\ ~closedByUser) ~> (Registered \/ closedByUser \/ ~up)
==============================================================================
