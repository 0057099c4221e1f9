----------------------------- MODULE PartsProofs -----------------------------
(***************************************************************************)
(* The parts that work by themselves: the relay client's sockets, the       *)
(* relay's rate limiter, the configuration store and the web demo; and      *)
(* Parts, where these and the relay, the wire and the mobile engine are     *)
(* side by side.                                                            *)
(***************************************************************************)
EXTENDS Parts, HubProofs, MobileProofs, CodecProofs

(***************************************************************************)
(* RelayClient: a client that is connected once never has two sockets, for *)
(* any number of sockets that could exist and any relay.                   *)
(***************************************************************************)

\* What the steps below need to know of the values.
SocketTypes ==
  /\ sock \in [Slots -> {"none", "connecting", "open", "closing"}]
  /\ timer \in [Slots -> Nat]
  /\ delay \in Nat
  /\ connects \in Nat
  /\ closedByUser \in BOOLEAN

\* One socket or timer at a time, a timer only where its socket has ended, and
\* this.ws is the socket in use, so that close() does not miss it.
OneInUse ==
  /\ SocketTypes
  /\ \A i, j \in Slots : ~Free(i) /\ ~Free(j) => i = j
  /\ \A i \in Slots : sock[i] = "none" \/ timer[i] = 0
  /\ \A i \in Slots : sock[i] \in {"connecting", "open"} => ws = i /\ ~closedByUser
  /\ connects = 0 => \A i \in Slots : Free(i)

\* openSocket keeps OneInUse when no other socket or timer is in use.
LEMMA SocketOpens ==
  ASSUME OneInUse, NEW i \in Slots, \A j \in Slots \ {i} : Free(j),
         Open(i), timer' \in [Slots -> Nat], timer'[i] = 0,
         \A j \in Slots \ {i} : timer'[j] = timer[j],
         closedByUser' = FALSE, connects' \in Nat, connects' # 0
  PROVE  OneInUse'
<1>1. sock' = [sock EXCEPT ![i] = "connecting"] /\ ws' = i /\ delay' \in Nat
  BY DEF Open, OpenTs, OpenDart, OneInUse, SocketTypes
<1>2. \A j \in Slots \ {i} : Free(j)' /\ sock'[j] = "none"
  BY <1>1 DEF Free, OneInUse, SocketTypes
<1>3. sock'[i] = "connecting"
  BY <1>1 DEF OneInUse, SocketTypes
<1> QED
  BY <1>1, <1>2, <1>3 DEF OneInUse, SocketTypes, Free

\* The end of socket i keeps it: at most its own timer takes its place.
LEMMA Ending ==
  ASSUME OneInUse, NEW i \in Slots, sock[i] # "none", Ended(i)
  PROVE  OneInUse'
<1>1. /\ sock' = [sock EXCEPT ![i] = "none"]
      /\ ws' = ws /\ closedByUser' = closedByUser /\ connects' = connects
  BY DEF Ended
<1>2. timer' \in [Slots -> Nat] /\ \A j \in Slots \ {i} : timer'[j] = timer[j]
  BY DEF Ended, OneInUse, SocketTypes
<1>3. delay' \in Nat
  BY DEF Ended, Doubled, OneInUse, SocketTypes
<1>4. \A j \in Slots \ {i} : Free(j)' <=> Free(j)
  BY <1>1, <1>2 DEF Free, OneInUse, SocketTypes
<1>5. ~Free(i) /\ connects # 0
  BY DEF Free, OneInUse
<1> QED
  BY <1>1, <1>2, <1>3, <1>4, <1>5 DEF OneInUse, SocketTypes, Free

LEMMA OneInUseInit ==
  ASSUME RelayInit
  PROVE  OneInUse
<1>1. SocketTypes
  BY DEF RelayInit, SocketTypes
<1>2. \A i \in Slots : sock[i] = "none" /\ timer[i] = 0
  BY DEF RelayInit
<1> QED
  BY <1>1, <1>2 DEF OneInUse, Free

LEMMA OneInUseStep ==
  ASSUME MaxConnects \in {0, 1}, NoSlot \notin Slots, OneInUse, [RelayNext]_relayVars
  PROVE  OneInUse'
<1>1. CASE Connect
  <2>1. PICK i \in Slots : Free(i) /\ Open(i)
    BY <1>1 DEF Connect
  <2>2. connects = 0 /\ connects' = 1 /\ timer' = timer /\ closedByUser' = FALSE
    BY <1>1 DEF Connect, OneInUse, SocketTypes
  <2>3. timer[i] = 0 /\ timer \in [Slots -> Nat] /\ \A j \in Slots : Free(j)
    BY <2>1, <2>2 DEF Free, OneInUse, SocketTypes
  <2>4. timer' \in [Slots -> Nat] /\ timer'[i] = 0 /\ connects' \in Nat /\ connects' # 0
    BY <2>2, <2>3
  <2>5. (\A j \in Slots \ {i} : Free(j)) /\ (\A j \in Slots \ {i} : timer'[j] = timer[j])
    BY <2>2, <2>3
  <2> QED
    BY <2>1, <2>2, <2>4, <2>5, SocketOpens
<1>2. CASE Close
  <2>1. /\ timer' = timer /\ delay' = delay /\ connects' = connects /\ closedByUser' = TRUE
        /\ sock' \in [Slots -> {"none", "connecting", "open", "closing"}]
    BY <1>2 DEF Close, OneInUse, SocketTypes
  <2>2. \A j \in Slots : Free(j)' <=> Free(j)
    BY <1>2, <2>1 DEF Close, Free, OneInUse, SocketTypes
  <2>3. \A j \in Slots : sock'[j] = "none" <=> sock[j] = "none"
    BY <1>2, <2>1 DEF Close, OneInUse, SocketTypes
  <2>4. \A j \in Slots : sock'[j] \notin {"connecting", "open"}
    BY <1>2, <2>1 DEF Close, OneInUse, SocketTypes
  <2> QED
    BY <2>1, <2>2, <2>3, <2>4 DEF OneInUse, SocketTypes
<1>3. CASE SendSignal \/ RelayTurns
  BY <1>3 DEF SendSignal, RelayTurns, OneInUse, SocketTypes, Free
<1>4. CASE \E i \in Slots : OnOpen(i)
  <2>1. PICK i \in Slots : OnOpen(i)
    BY <1>4
  <2>2. /\ sock' = [sock EXCEPT ![i] = "open"] /\ sock[i] = "connecting"
        /\ timer' = timer /\ ws' = ws /\ closedByUser' = closedByUser
        /\ connects' = connects /\ delay' \in Nat
    BY <2>1 DEF OnOpen, OneInUse, SocketTypes
  <2>3. \A j \in Slots : Free(j)' <=> Free(j)
    BY <2>2 DEF Free, OneInUse, SocketTypes
  <2> QED
    BY <2>2, <2>3 DEF OneInUse, SocketTypes
<1>5. CASE \E i \in Slots : Fails(i) \/ Breaks(i)
  BY <1>5, Ending DEF Fails, Breaks
<1>6. CASE \E i \in Slots : Closes(i)
  <2>1. PICK i \in Slots : Closes(i)
    BY <1>6
  <2>2. CASE flavor = "ts"
    BY <2>1, <2>2, Ending DEF Closes
  <2>3. CASE flavor # "ts"
    <3>1. /\ sock' = [sock EXCEPT ![i] = "none"] /\ sock[i] = "closing"
          /\ timer' = timer /\ ws' = ws /\ closedByUser' = closedByUser
          /\ connects' = connects /\ delay' = delay
      BY <2>1, <2>3 DEF Closes
    <3>2. \A j \in Slots : Free(j)' => Free(j) \/ j = i
      BY <3>1 DEF Free, OneInUse, SocketTypes
    <3>3. \A j \in Slots : Free(j) => Free(j)'
      BY <3>1 DEF Free, OneInUse, SocketTypes
    <3> QED
      BY <3>1, <3>2, <3>3 DEF OneInUse, SocketTypes, Free
  <2> QED
    BY <2>2, <2>3
<1>7. CASE \E i \in Slots : TimerFires(i)
  <2>1. PICK i \in Slots : TimerFires(i)
    BY <1>7
  <2>2. /\ timer[i] # 0 /\ timer' = [timer EXCEPT ![i] = 0]
        /\ closedByUser' = closedByUser /\ connects' = connects
    BY <2>1 DEF TimerFires
  <2>3. ~Free(i) /\ connects \in Nat /\ connects # 0
    BY <2>2 DEF Free, OneInUse, SocketTypes
  <2>4. \A j \in Slots \ {i} : Free(j)
    BY <2>3 DEF OneInUse
  <2>5. timer' \in [Slots -> Nat] /\ timer'[i] = 0 /\ \A j \in Slots \ {i} : timer'[j] = timer[j]
    BY <2>2 DEF OneInUse, SocketTypes
  <2>6. CASE ~closedByUser
    <3>1. Open(i)
      BY <2>1, <2>6 DEF TimerFires
    <3>2. closedByUser' = FALSE /\ connects' \in Nat /\ connects' # 0
      BY <2>2, <2>3, <2>6 DEF OneInUse, SocketTypes
    <3> QED
      BY <3>1, <3>2, <2>4, <2>5, SocketOpens
  <2>7. CASE closedByUser
    <3>1. sock' = sock /\ ws' = ws /\ delay' = delay
      BY <2>1, <2>7 DEF TimerFires
    <3>2. \A j \in Slots \ {i} : Free(j)' <=> Free(j)
      BY <3>1, <2>5 DEF Free
    <3> QED
      BY <3>1, <3>2, <2>2, <2>3, <2>5 DEF OneInUse, SocketTypes, Free
  <2> QED
    BY <2>6, <2>7
<1>8. CASE UNCHANGED relayVars
  BY <1>8 DEF relayVars, OneInUse, SocketTypes, Free
<1> QED
  BY <1>1, <1>2, <1>3, <1>4, <1>5, <1>6, <1>7, <1>8 DEF RelayNext

\* However connections fail and come back (relayClient.ts, relay_client.dart), a client
\* that is connected once has one socket or one timer, and no live socket after close().
THEOREM NeverTwoSockets ==
  ASSUME MaxConnects \in {0, 1}, NoSlot \notin Slots
  PROVE  RelaySpec => []SingleSocket
<1>1. RelayInit => OneInUse
  BY OneInUseInit
<1>2. OneInUse /\ [RelayNext]_relayVars => OneInUse'
  BY OneInUseStep
<1>3. OneInUse => SingleSocket
  BY DEF OneInUse, SingleSocket, Live, Free
<1> QED
  BY <1>1, <1>2, <1>3, PTL DEF RelaySpec

\* The delay is the one that comes after the failures so far, while there will be a
\* next attempt, and a timer was set with the one before it.  That no socket ends
\* while a timer runs, which would count a failure, is OneInUse.
Delays == <<1, 2, 4, 8, 16>>
Paced ==
  /\ failures \in 0..5 /\ (closedByUser => connects # 0)
  /\ flavor = "ts" =>
       /\ ~closedByUser => delay = IF failures = 5 THEN 16 ELSE Delays[failures + 1]
       /\ \A i \in Slots : timer[i] # 0 => failures # 0 /\ timer[i] = Delays[failures]

LEMMA PacedStep ==
  ASSUME MaxConnects \in {0, 1}, NoSlot \notin Slots, OneInUse, Paced, [RelayNext]_relayVars
  PROVE  Paced'
<1>1. flavor' = flavor
  BY DEF RelayNext, Connect, Close, SendSignal, RelayTurns, OnOpen, Fails, Breaks, Closes,
         Ended, TimerFires, relayVars
<1>2. CASE Connect
  <2>1. PICK i \in Slots : Free(i) /\ Open(i)
    BY <1>2 DEF Connect
  <2>2. /\ connects = 0 /\ timer' = timer /\ failures' = failures
        /\ closedByUser' = FALSE
    BY <1>2 DEF Connect, OneInUse, SocketTypes
  <2>3. flavor = "ts" => delay' = delay
    BY <2>1 DEF Open, OpenTs
  <2>4. ~closedByUser
    BY <2>2 DEF Paced
  <2> QED
    BY <1>1, <2>2, <2>3, <2>4 DEF Paced
<1>3. CASE Close \/ SendSignal \/ RelayTurns \/ UNCHANGED relayVars
  BY <1>1, <1>3 DEF Close, SendSignal, RelayTurns, relayVars, Paced
<1>4. ASSUME NEW i \in Slots, OnOpen(i)
      PROVE  Paced'
  <2>1. /\ failures' = 0 /\ timer' = timer /\ (flavor = "ts" => delay' = 1)
        /\ closedByUser' = closedByUser /\ connects' = connects
    BY <1>4 DEF OnOpen
  <2>2. ~Free(i)
    BY <1>4 DEF OnOpen, Free
  <2>3. \A j \in Slots : timer[j] = 0
    BY <1>4, <2>2 DEF OnOpen, OneInUse, Free
  <2> QED
    BY <1>1, <2>1, <2>3 DEF Paced, Delays
<1>5. ASSUME NEW i \in Slots, sock[i] # "none", Ended(i)
      PROVE  Paced'
  <2>1. ~Free(i) /\ \A j \in Slots : timer[j] = 0
    BY <1>5 DEF Free, OneInUse
  <2>2. /\ failures' = IF failures < 5 THEN failures + 1 ELSE 5
        /\ closedByUser' = closedByUser /\ connects' = connects
    BY <1>5 DEF Ended
  <2>3. CASE closedByUser
    BY <1>1, <1>5, <2>1, <2>2, <2>3 DEF Ended, Paced
  <2>4. CASE ~closedByUser
    <3>1. timer' = [timer EXCEPT ![i] = delay] /\ delay' = Doubled(delay)
      BY <1>5, <2>4 DEF Ended
    <3>2. \A j \in Slots : timer'[j] # 0 => timer'[j] = delay
      BY <2>1, <3>1 DEF OneInUse, SocketTypes
    <3>3. CASE flavor = "ts"
      <4>1. failures \in 0..5 /\ delay = IF failures = 5 THEN 16 ELSE Delays[failures + 1]
        BY <2>4, <3>3 DEF Paced
      <4>2. failures' \in 1..5 /\ delay = Delays[failures']
        BY <2>2, <4>1 DEF Delays
      <4>3. delay' = IF failures' = 5 THEN 16 ELSE Delays[failures' + 1]
        BY <2>2, <3>1, <4>1 DEF Delays, Doubled
      <4> QED
        BY <2>2, <2>4, <3>2, <4>2, <4>3 DEF Paced, Delays
    <3> QED
      BY <1>1, <2>2, <3>3 DEF Paced
  <2> QED
    BY <2>3, <2>4
<1>6. ASSUME NEW i \in Slots, Closes(i)
      PROVE  Paced'
  <2>1. CASE flavor = "ts"
    BY <1>5, <1>6, <2>1 DEF Closes
  <2> QED
    BY <1>1, <1>6, <2>1 DEF Closes, Paced
<1>7. ASSUME NEW i \in Slots, TimerFires(i)
      PROVE  Paced'
  <2>1. /\ timer' = [timer EXCEPT ![i] = 0] /\ closedByUser' = closedByUser
        /\ failures' = failures /\ connects' = connects
    BY <1>7 DEF TimerFires
  <2>2. flavor = "ts" => delay' = delay
    BY <1>7 DEF TimerFires, Open, OpenTs
  <2>3. \A j \in Slots : timer'[j] # 0 => timer'[j] = timer[j]
    BY <2>1 DEF OneInUse, SocketTypes
  <2> QED
    BY <1>1, <2>1, <2>2, <2>3 DEF Paced
<1> QED
  BY <1>2, <1>3, <1>4, <1>5, <1>6, <1>7 DEF RelayNext, Fails, Breaks

\* The desktop and web client (relayClient.ts) waits longer after each failure in a row, up
\* to 8 s, and starts over once a connection was open, however often it fails.
THEOREM WaitsLonger ==
  ASSUME MaxConnects \in {0, 1}, NoSlot \notin Slots
  PROVE  RelaySpec => []BacksOff
<1>1. RelayInit => OneInUse /\ Paced
  <2>1. RelayInit => OneInUse
    BY OneInUseInit
  <2>2. RelayInit => Paced
    BY DEF RelayInit, Paced, Delays
  <2> QED
    BY <2>1, <2>2
<1>2. OneInUse /\ Paced /\ [RelayNext]_relayVars => (OneInUse /\ Paced)'
  BY OneInUseStep, PacedStep
<1>3. Paced => BacksOff
  BY DEF Paced, BacksOff, Delays
<1> QED
  BY <1>1, <1>2, <1>3, PTL DEF RelaySpec

(***************************************************************************)
(* RateLimiter: the bound, for every rate and resolution of the clock.     *)
(***************************************************************************)

\* What has passed and what could pass at once is covered by a burst and the rate:
\* the tokens a message takes were in the bucket at the start or came since.
Credit ==
  /\ LimiterTypeOK
  /\ tokens <= Burst
  /\ rate > 0 => passed * Second + Refilled <= Burst + rate * (now - start)

\* In no stretch of time do more messages pass than a burst and what the rate
\* gives for its length (ratelimit.go), for any positive rate and any clock.
THEOREM LimitHolds ==
  ASSUME Rates \subseteq Nat, Second \in Nat \ {0}
  PROVE  LimiterSpec => []WindowBound
<1>1. LimiterInit => Credit
  BY DEF LimiterInit, Credit, LimiterTypeOK, Burst, Refilled
<1>2. Credit /\ [LimiterNext]_limiterVars => Credit'
  <2> SUFFICES ASSUME Credit, [LimiterNext]_limiterVars PROVE Credit'
    OBVIOUS
  <2> USE DEF Credit, LimiterTypeOK
  <2>t. /\ rate \in Nat /\ Burst \in Nat /\ tokens \in Nat /\ now \in Nat /\ last \in Nat
        /\ start \in Nat /\ (now - last) * rate \in Nat /\ Second \in Nat
    BY DEF Burst
  <2>1. CASE Allow
    <3>1. CASE rate <= 0
      BY <2>1, <2>t, <3>1 DEF Allow, Burst
    <3>2. CASE rate > 0
      <4>1. Refilled \in 0..Burst
        BY <2>t DEF Refilled
      <4>2. last' = now /\ now' = now /\ rate' = rate /\ start' = start /\ Burst' = Burst
        BY <2>1, <3>2 DEF Allow, Burst
      <4>3. (now' - last') * rate' = 0
        BY <4>2, <2>t
      <4>4. CASE Refilled < Second
        <5>1. tokens' = Refilled /\ passed' = passed
          BY <2>1, <3>2, <4>4 DEF Allow
        <5>2. Refilled' = Refilled
          BY <5>1, <4>1, <4>2, <4>3, <2>t DEF Refilled
        <5> QED
          BY <5>1, <5>2, <4>1, <4>2, <2>t, <3>2
      <4>5. CASE ~(Refilled < Second)
        <5>1. tokens' = Refilled - Second /\ passed' = passed + 1
          BY <2>1, <3>2, <4>5 DEF Allow
        <5>2. tokens' \in 0..Burst /\ Refilled' = tokens'
          BY <5>1, <4>1, <4>2, <4>3, <4>5, <2>t DEF Refilled
        <5>3. passed' * Second = passed * Second + Second
          BY <5>1, <2>t
        <5> QED
          BY <5>1, <5>2, <5>3, <4>1, <4>2, <2>t, <3>2
      <4> QED BY <4>4, <4>5
    <3> QED BY <3>1, <3>2, <2>t
  <2>2. CASE Tick
    <3>1. /\ now' = now + 1 /\ last' = last /\ rate' = rate /\ start' = start
          /\ tokens' = tokens /\ passed' = passed /\ Burst' = Burst
      BY <2>2 DEF Tick, Burst
    <3>2. (now' - last') * rate' = (now - last) * rate + rate
      BY <3>1, <2>t
    <3>3. rate' * (now' - start') = rate * (now - start) + rate
      BY <3>1, <2>t
    <3>4. Refilled' <= Refilled + rate
      BY <3>1, <3>2, <2>t DEF Refilled
    <3> QED
      BY <3>1, <3>3, <3>4, <2>t DEF Refilled
  <2>3. CASE Watch
    <3>1. start' = now /\ now' = now /\ passed' = 0 /\ rate' = rate /\ tokens' = tokens /\ last' = last
      BY <2>3 DEF Watch
    <3>2. rate' * (now' - start') = 0 /\ passed' * Second = 0
      BY <3>1, <2>t
    <3>3. Refilled' <= Burst'
      BY <3>1, <2>t DEF Refilled, Burst
    <3>4. LimiterTypeOK' /\ tokens' <= Burst'
      BY <3>1, <2>t DEF Burst
    <3>5. Refilled' \in Int /\ Burst' \in Int
      BY <3>1, <2>t DEF Refilled, Burst
    <3>6. passed' * Second + Refilled' <= Burst' + rate' * (now' - start')
      BY <3>2, <3>3, <3>5
    <3> QED
      BY <3>4, <3>6
  <2>4. CASE UNCHANGED limiterVars
    BY <2>4 DEF limiterVars, Burst, Refilled
  <2> QED BY <2>1, <2>2, <2>3, <2>4 DEF LimiterNext
<1>3. Credit => WindowBound
  <2> SUFFICES ASSUME Credit, rate > 0 PROVE passed * Second <= Burst + rate * (now - start)
    BY DEF WindowBound
  <2>1. /\ rate \in Nat /\ Burst \in Nat /\ (now - last) * rate \in Nat
        /\ passed * Second \in Nat /\ rate * (now - start) \in Nat /\ tokens \in Nat
    BY DEF Credit, LimiterTypeOK, Burst
  <2>2. Refilled >= 0 /\ Refilled \in Nat
    BY <2>1 DEF Refilled
  <2> QED BY <2>1, <2>2 DEF Credit
<1> QED BY <1>1, <1>2, <1>3, PTL DEF LimiterSpec

(***************************************************************************)
(* ConfigStore: what the settings file holds after any number of saves and *)
(* restarts, for any values.                                               *)
(***************************************************************************)

\* Nothing is saved before the settings are shown, and they are not shown before
\* getConfig was answered.
StoreTypes ==
  /\ call \in [Calls -> Call]
  /\ file \in Stored \cup {Cut, Absent}
  /\ {asked, overlapped, killed} \subseteq BOOLEAN
  /\ asked => shown = None /\ \A i \in Calls : call[i] = NoCall

\* At most one save is under way, and the file is cut while it writes.
OneSave ==
  /\ \A i, j \in Calls : call[i] # NoCall /\ call[j] # NoCall => i = j
  /\ \A i \in Calls : call[i].at = "writing" => file = Cut

\* Without a kill, the stored directory is the one there was, and so is the one a
\* save has read, also while the file is cut.
DirKept ==
  /\ \A i \in Calls : call[i].at \in {"merged", "writing"} => call[i].next["dir"] = first
  /\ (\A i \in Calls : call[i].at # "writing") => Loaded(file)["dir"] = first

\* What holds as long as no two saves overlap.
InStep ==
  /\ StoreTypes
  /\ ~overlapped => /\ OneSave
                    /\ Quiet => shown = Loaded(file)
                    /\ ~killed => DirKept

(***************************************************************************)
(* Facts                                                                   *)
(***************************************************************************)

LEMMA LoadedTyped ==
  ASSUME Default \in Values, NEW content \in Stored \cup {Cut, Absent}
  PROVE  Loaded(content) \in Config
<1>1. ASSUME NEW f \in Fields, f \in DOMAIN content PROVE content[f] \in Values
  <2>1. content # Cut /\ content # Absent
    BY <1>1 DEF Cut, Absent, Fields
  <2>2. PICK F \in SUBSET Fields : content \in [F -> Values]
    BY <2>1 DEF Stored
  <2> QED BY <1>1, <2>2
<1> QED BY <1>1 DEF Loaded, Config

\* A file that lacks nothing is loaded as it is.
LEMMA LoadedWhole ==
  ASSUME NEW content \in Config
  PROVE  Loaded(content) = content /\ content \in Stored
<1>1. content \in Stored
  BY DEF Config, Stored
<1>2. DOMAIN content = Fields /\ content = [f \in Fields |-> content[f]]
  BY DEF Config
<1> QED BY <1>1, <1>2 DEF Loaded

\* A record is told from NoCall by its "at".
LEMMA CallKinds ==
  ASSUME NEW k \in Call
  PROVE  /\ k = NoCall <=> k.at = "idle"
         /\ k.at \in {"merged", "writing"} => k.next \in Config
         /\ k.at \in {"idle", "loading", "merged", "writing"}
         /\ k.at = "merged" => [k EXCEPT !.at = "writing"] = [at |-> "writing", next |-> k.next]
<1>1. CASE k = NoCall
  BY <1>1 DEF NoCall
<1>2. CASE k \in [at : {"loading"}, value : Values]
  BY <1>2 DEF NoCall
<1>3. CASE k \in [at : {"merged", "writing"}, next : Config]
  <2>1. k = [at |-> k.at, next |-> k.next] /\ k.at \in {"merged", "writing"} /\ k.next \in Config
    BY <1>3
  <2> QED BY <2>1 DEF NoCall
<1> QED BY <1>1, <1>2, <1>3 DEF Call

(***************************************************************************)
(* Steps                                                                   *)
(***************************************************************************)

LEMMA StepKeepsInStep ==
  ASSUME Default \in Values, InStep, [StoreNext]_configVars
  PROVE  InStep'
<1> USE DEF InStep
<1>k. \A i \in Calls : /\ call[i] \in Call
                       /\ call[i] = NoCall <=> call[i].at = "idle"
                       /\ call[i].at \in {"merged", "writing"} => call[i].next \in Config
  BY CallKinds DEF StoreTypes
<1>1. CASE Boots
  <2>1. call' = call /\ file' = file /\ first' = first /\ overlapped' = overlapped
        /\ killed' = killed /\ asked' = FALSE /\ shown' = Loaded(file)'
    BY <1>1 DEF Boots, Loaded
  <2>2. StoreTypes'
    BY <2>1 DEF StoreTypes
  <2>3. (OneSave => OneSave') /\ (DirKept => DirKept')
    BY <2>1 DEF OneSave, DirKept, Loaded
  <2> QED BY <2>1, <2>2, <2>3 DEF Quiet
<1>2. ASSUME NEW i \in Calls, NEW v \in Values, Save(i, v) PROVE InStep'
  <2> DEFINE new == [at |-> "loading", value |-> v]
  <2>1. /\ file' = file /\ first' = first /\ killed' = killed /\ asked' = asked
        /\ shown' = shown /\ shown # None /\ call' = [call EXCEPT ![i] = new]
        /\ overlapped' = (overlapped \/ \E j \in Calls : call[j] # NoCall)
    BY <1>2 DEF Save
  <2>2. call'[i] = new /\ new \in Call /\ new # NoCall /\ \A j \in Calls \ {i} : call'[j] = call[j]
    BY <2>1 DEF StoreTypes, Call, NoCall
  <2>3. StoreTypes'
    BY <2>1, <2>2 DEF StoreTypes
  <2>4. ~Quiet'
    BY <2>2 DEF Quiet
  <2>5. ASSUME ~overlapped' PROVE OneSave' /\ (~killed' => DirKept')
    <3>1. ~overlapped /\ \A j \in Calls : call[j] = NoCall
      BY <2>1, <2>5
    <3>2. \A j \in Calls \ {i} : call'[j] = NoCall /\ call'[j].at = "idle"
      BY <2>2, <3>1, <1>k
    <3>3. new.at = "loading"
      OBVIOUS
    <3>4. OneSave'
      BY <2>2, <3>2, <3>3 DEF OneSave
    <3>5. (\A j \in Calls : call[j].at # "writing") /\ Loaded(file)' = Loaded(file)
      BY <3>1, <1>k, <2>1 DEF Loaded
    <3>6. DirKept => DirKept'
      BY <2>1, <2>2, <3>2, <3>3, <3>5 DEF DirKept
    <3> QED BY <3>1, <3>4, <3>6, <2>1
  <2> QED BY <2>3, <2>4, <2>5
<1>3. ASSUME NEW i \in Calls, Merges(i) PROVE InStep'
  <2> DEFINE next == Merged(file, call[i].value)
             new == [at |-> "merged", next |-> next]
  <2>1. /\ file' = file /\ first' = first /\ killed' = killed /\ asked' = asked
        /\ shown' = shown /\ overlapped' = overlapped /\ call' = [call EXCEPT ![i] = new]
        /\ call[i].at = "loading"
    BY <1>3 DEF Merges
  <2>2. call[i] \in [at : {"loading"}, value : Values]
    BY <2>1 DEF StoreTypes, Call, NoCall
  <2>3. next \in Config /\ next["dir"] = Loaded(file)["dir"]
    BY <2>2, LoadedTyped DEF Merged, StoreTypes, Config, Fields
  <2>4. new \in Call /\ new # NoCall /\ new.at = "merged" /\ new.next = next
    BY <2>3 DEF Call, NoCall
  <2>5. call'[i] = new /\ \A j \in Calls \ {i} : call'[j] = call[j]
    BY <2>1 DEF StoreTypes
  <2>6. call[i] # NoCall
    BY <2>1, <1>k
  <2>7. StoreTypes'
    BY <2>1, <2>4, <2>6 DEF StoreTypes
  <2>8. ~Quiet'
    BY <2>4, <2>5 DEF Quiet
  <2>9. ASSUME OneSave PROVE OneSave' /\ (DirKept => DirKept')
    <3>1. \A j \in Calls \ {i} : call[j] = NoCall /\ call[j].at = "idle"
      BY <2>6, <2>9, <1>k DEF OneSave
    <3>2. OneSave'
      BY <2>4, <2>5, <3>1 DEF OneSave
    <3>3. \A j \in Calls : call[j].at # "writing"
      BY <2>1, <3>1
    <3>4. DirKept => next["dir"] = first
      BY <2>3, <3>3 DEF DirKept
    <3>5. Loaded(file)' = Loaded(file)
      BY <2>1 DEF Loaded
    <3>6. DirKept => DirKept'
      BY <2>1, <2>4, <2>5, <3>1, <3>3, <3>4, <3>5 DEF DirKept
    <3> QED BY <3>2, <3>6
  <2> QED BY <2>1, <2>7, <2>8, <2>9
<1>4. ASSUME NEW i \in Calls, Truncates(i) PROVE InStep'
  <2> DEFINE new == [at |-> "writing", next |-> call[i].next]
  <2>1. /\ file' = Cut /\ first' = first /\ killed' = killed /\ asked' = asked
        /\ shown' = shown /\ overlapped' = overlapped /\ call[i].at = "merged"
        /\ call' = [call EXCEPT ![i] = [call[i] EXCEPT !.at = "writing"]]
    BY <1>4 DEF Truncates
  <2>2. call' = [call EXCEPT ![i] = new]
    BY <2>1, <1>k, CallKinds
  <2>3. new \in Call /\ new # NoCall /\ new.at = "writing" /\ new.next = call[i].next
    BY <2>1, <1>k DEF Call, NoCall
  <2>4. call'[i] = new /\ \A j \in Calls \ {i} : call'[j] = call[j]
    BY <2>2 DEF StoreTypes
  <2>5. call[i] # NoCall
    BY <2>1, <1>k
  <2>6. StoreTypes'
    BY <2>1, <2>2, <2>3, <2>5 DEF StoreTypes
  <2>7. ~Quiet'
    BY <2>3, <2>4 DEF Quiet
  <2>8. ASSUME OneSave PROVE OneSave' /\ (DirKept => DirKept')
    <3>1. \A j \in Calls \ {i} : call[j] = NoCall /\ call[j].at = "idle"
      BY <2>5, <2>8, <1>k DEF OneSave
    <3>2. OneSave'
      BY <2>1, <2>3, <2>4, <3>1 DEF OneSave
    <3>3. DirKept => DirKept'
      BY <2>1, <2>3, <2>4, <3>1 DEF DirKept
    <3> QED BY <3>2, <3>3
  <2> QED BY <2>1, <2>6, <2>7, <2>8
<1>5. ASSUME NEW i \in Calls, Fills(i) PROVE InStep'
  <2> DEFINE next == call[i].next
  <2>1. /\ first' = first /\ killed' = killed /\ asked' = asked /\ shown' = next
        /\ overlapped' = overlapped /\ call[i].at = "writing"
        /\ call' = [call EXCEPT ![i] = NoCall]
        /\ file' \in {next} \cup (IF file = Cut THEN {} ELSE {Cut})
    BY <1>5 DEF Fills
  <2>2. next \in Config /\ next \in Stored /\ Loaded(next) = next
    BY <2>1, <1>k, LoadedWhole
  <2>3. NoCall \in Call /\ NoCall.at = "idle"
    BY DEF Call, NoCall
  <2>4. call'[i] = NoCall /\ \A j \in Calls \ {i} : call'[j] = call[j]
    BY <2>1 DEF StoreTypes
  <2>5. call[i] # NoCall /\ ~asked
    BY <2>1, <1>k DEF StoreTypes
  <2>6. StoreTypes'
    BY <2>1, <2>2, <2>3, <2>5 DEF StoreTypes
  <2>7. ASSUME OneSave
        PROVE  OneSave' /\ shown' = Loaded(file)' /\ (DirKept => DirKept')
    <3>1. \A j \in Calls : call'[j] = NoCall /\ call'[j].at = "idle"
      BY <2>3, <2>4, <2>5, <2>7 DEF OneSave
    <3>2. file' = next
      BY <2>1, <2>7 DEF OneSave
    <3>3. Loaded(file)' = next
      BY <2>2, <3>2 DEF Loaded
    <3>4. OneSave'
      BY <3>1 DEF OneSave
    <3>5. DirKept => DirKept'
      BY <2>1, <3>1, <3>3 DEF DirKept
    <3> QED BY <2>1, <3>3, <3>4, <3>5
  <2> QED BY <2>1, <2>6, <2>7
<1>6. CASE Restart
  <2>1. /\ file' = file /\ first' = first /\ overlapped' = overlapped /\ asked' = TRUE
        /\ shown' = None /\ call' = [j \in Calls |-> NoCall]
        /\ killed' = (killed \/ \E j \in Calls : call[j] # NoCall)
    BY <1>6 DEF Restart
  <2>2. \A j \in Calls : call'[j] = NoCall /\ call'[j].at = "idle"
    BY <2>1 DEF NoCall
  <2>3. NoCall \in Call
    BY DEF Call
  <2>4. StoreTypes'
    BY <2>1, <2>2, <2>3 DEF StoreTypes
  <2>5. OneSave' /\ ~Quiet'
    BY <2>1, <2>2 DEF OneSave, Quiet
  <2>6. ASSUME ~killed', DirKept PROVE DirKept'
    <3>1. \A j \in Calls : call[j].at # "writing"
      BY <2>1, <2>6, <1>k
    <3>2. Loaded(file)' = Loaded(file)
      BY <2>1 DEF Loaded
    <3> QED BY <2>1, <2>2, <2>6, <3>1, <3>2 DEF DirKept
  <2> QED BY <2>1, <2>4, <2>5, <2>6
<1>7. CASE UNCHANGED configVars
  BY <1>7 DEF configVars, StoreTypes, OneSave, Quiet, DirKept, Loaded
<1> QED
  BY <1>1, <1>2, <1>3, <1>4, <1>5, <1>6, <1>7 DEF StoreNext

(***************************************************************************)
(* Theorems                                                                *)
(***************************************************************************)

LEMMA AlwaysInStep == ASSUME Default \in Values PROVE StoreSpec => []InStep
<1>1. StoreInit => InStep
  <2> SUFFICES ASSUME StoreInit PROVE InStep
    OBVIOUS
  <2>1. \A i \in Calls : call[i] = NoCall /\ call[i].at = "idle"
    BY DEF StoreInit, NoCall
  <2>2. StoreTypes
    BY <2>1 DEF StoreInit, StoreTypes, Call
  <2>3. OneSave /\ ~Quiet /\ DirKept
    BY <2>1 DEF StoreInit, OneSave, Quiet, DirKept
  <2> QED BY <2>2, <2>3 DEF InStep
<1> QED
  BY <1>1, StepKeepsInStep, PTL DEF StoreSpec

\* What the settings panel shows is what the next start would load (config.ts:25-41,
\* useLanTransfer.ts:212-216), however often the application is killed in a save, as
\* long as saves do not overlap.
THEOREM ScreenIsStored == ASSUME Default \in Values PROVE StoreSpec => []ShownIsStored
<1>1. InStep => ShownIsStored
  BY DEF InStep, ShownIsStored
<1> QED
  BY <1>1, AlwaysInStep, PTL

\* The directory, which only the file has, survives every save that is neither killed
\* nor overlapped by another (config.ts:35-41).
THEOREM DirectorySurvives == ASSUME Default \in Values PROVE StoreSpec => []OthersSurvive
<1>1. InStep => OthersSurvive
  <2> SUFFICES ASSUME InStep, Quiet, ~overlapped, ~killed PROVE Loaded(file)["dir"] = first
    BY DEF OthersSurvive
  <2>1. \A i \in Calls : call[i].at # "writing"
    BY DEF Quiet, NoCall
  <2> QED BY <2>1 DEF InStep, DirKept
<1> QED
  BY <1>1, AlwaysInStep, PTL

(***************************************************************************)
(* WebTabs: tabs find each other and their sessions are paired, for any    *)
(* number of tabs that open, close and send.                               *)
(***************************************************************************)

\* React runs the effect at least once.
Mounted == N \in Nat /\ Mounts \subseteq Nat \ {0} /\ MaxSends \in Nat

\* The types the steps need, and that only open tabs hear.
TabTypes ==
  /\ mounts \in Nat \ {0}
  /\ tab \in [Web!Tabs -> {"unopened", "open", "gone"}]
  /\ wire \in [Web!Tabs -> [Web!Tabs -> Seq(Web!Envelope)]]
  /\ seen \in [Web!Tabs -> SUBSET Web!Tabs] /\ peers = seen
  /\ session \in [Web!Tabs -> [Web!Tabs -> Web!Stages]]

\* How a step changes what is on the wires: t posts ms, t hears s, or both.
Wires == [Web!Tabs -> [Web!Tabs -> Seq(Web!Envelope)]]
Posting(t, b) == b # t /\ tab[b] = "open"
HearsAndPosts(s, t, ms) == /\ wire[s][t] # <<>>
                           /\ wire' = Web!Posted(Web!Heard(s, t), t, ms)

LEMMA PostIs ==
  ASSUME TabTypes, NEW t \in Web!Tabs, NEW ms \in Seq(Web!Envelope),
         wire' = Web!Posted(wire, t, ms)
  PROVE  /\ wire' \in Wires
         /\ \A b \in Web!Tabs : Posting(t, b) => wire'[t][b] = wire[t][b] \o ms
         /\ \A a, b \in Web!Tabs : ~(a = t /\ Posting(t, b)) => wire'[a][b] = wire[a][b]
<1>1. wire \in Wires
  BY DEF TabTypes, Wires
<1>2. \A d \in Web!Tabs : wire[t][d] \in Seq(Web!Envelope) /\ wire[t][d] \o ms \in Seq(Web!Envelope)
  BY <1>1 DEF Wires
<1>3. PICK row : row = [d \in Web!Tabs |-> IF d # t /\ tab[d] = "open" THEN wire[t][d] \o ms
                                           ELSE wire[t][d]]
  OBVIOUS
<1>4. row \in [Web!Tabs -> Seq(Web!Envelope)]
  BY <1>2, <1>3
<1>5. wire' = [wire EXCEPT ![t] = row]
  BY <1>3 DEF Web!Posted
<1>6. wire' \in Wires
  BY <1>1, <1>4, <1>5 DEF Wires
<1>7. wire'[t] = row /\ \A a \in Web!Tabs : a # t => wire'[a] = wire[a]
  BY <1>1, <1>5 DEF Wires
<1>8. \A b \in Web!Tabs : Posting(t, b) => wire'[t][b] = wire[t][b] \o ms
  BY <1>3, <1>7 DEF Posting
<1>9. \A b \in Web!Tabs : ~Posting(t, b) => wire'[t][b] = wire[t][b]
  BY <1>3, <1>7 DEF Posting
<1> QED
  BY <1>6, <1>7, <1>8, <1>9

LEMMA HearIs ==
  ASSUME TabTypes, NEW s \in Web!Tabs, NEW t \in Web!Tabs, wire[s][t] # <<>>,
         wire' = Web!Heard(s, t)
  PROVE  /\ wire' \in Wires
         /\ wire'[s][t] = Tail(wire[s][t])
         /\ \A a, b \in Web!Tabs : ~(a = s /\ b = t) => wire'[a][b] = wire[a][b]
<1>1. wire \in Wires /\ wire[s][t] \in Seq(Web!Envelope)
  BY DEF TabTypes, Wires
<1>2. PICK rest \in Seq(Web!Envelope) : rest = Tail(wire[s][t])
  BY <1>1, HeadTailProperties
<1>3. wire' = [wire EXCEPT ![s][t] = rest]
  BY <1>2 DEF Web!Heard
<1>4. wire' \in Wires
  BY <1>1, <1>2, <1>3 DEF Wires
<1> QED
  BY <1>1, <1>2, <1>3, <1>4 DEF Wires

LEMMA HearPostIs ==
  ASSUME TabTypes, NEW s \in Web!Tabs, NEW t \in Web!Tabs, NEW ms \in Seq(Web!Envelope),
         HearsAndPosts(s, t, ms)
  PROVE  /\ wire' \in Wires
         /\ wire'[s][t] = Tail(wire[s][t])
         /\ \A b \in Web!Tabs : Posting(t, b) => wire'[t][b] = wire[t][b] \o ms
         /\ \A a, b \in Web!Tabs :
              ~(a = t /\ Posting(t, b)) /\ ~(a = s /\ b = t) => wire'[a][b] = wire[a][b]
<1>1. wire \in Wires /\ wire[s][t] \in Seq(Web!Envelope) /\ wire[s][t] # <<>>
  BY DEF TabTypes, Wires, HearsAndPosts
<1>2. PICK rest \in Seq(Web!Envelope) : rest = Tail(wire[s][t])
  BY <1>1, HeadTailProperties
<1>3. PICK w : w = [wire EXCEPT ![s][t] = rest]
  OBVIOUS
<1>4. w \in Wires
  BY <1>1, <1>2, <1>3 DEF Wires
<1>5. w[s][t] = rest /\ \A a, b \in Web!Tabs : ~(a = s /\ b = t) => w[a][b] = wire[a][b]
  BY <1>1, <1>3 DEF Wires
<1>6. \A d \in Web!Tabs : w[t][d] \in Seq(Web!Envelope) /\ w[t][d] \o ms \in Seq(Web!Envelope)
  BY <1>4 DEF Wires
<1>7. PICK row : row = [d \in Web!Tabs |-> IF d # t /\ tab[d] = "open" THEN w[t][d] \o ms
                                           ELSE w[t][d]]
  OBVIOUS
<1>8. row \in [Web!Tabs -> Seq(Web!Envelope)]
  BY <1>6, <1>7
<1>9. wire' = [w EXCEPT ![t] = row]
  BY <1>2, <1>3, <1>7 DEF Web!Posted, Web!Heard, HearsAndPosts
<1>10. wire' \in Wires
  BY <1>4, <1>8, <1>9 DEF Wires
<1>11. wire'[t] = row /\ \A a \in Web!Tabs : a # t => wire'[a] = w[a]
  BY <1>4, <1>9 DEF Wires
<1>12. \A b \in Web!Tabs : Posting(t, b) => wire'[t][b] = w[t][b] \o ms /\ b # t
  BY <1>7, <1>11 DEF Posting
<1>13. \A b \in Web!Tabs : ~Posting(t, b) => wire'[t][b] = w[t][b]
  BY <1>7, <1>11 DEF Posting
<1>14. \A a, b \in Web!Tabs : ~(a = t /\ Posting(t, b)) => wire'[a][b] = w[a][b]
  BY <1>11, <1>13
<1>15. wire'[s][t] = rest
  BY <1>5, <1>14 DEF Posting
<1>16. \A b \in Web!Tabs : Posting(t, b) => wire'[t][b] = wire[t][b] \o ms
  BY <1>5, <1>12
<1>17. \A a, b \in Web!Tabs :
         ~(a = t /\ Posting(t, b)) /\ ~(a = s /\ b = t) => wire'[a][b] = wire[a][b]
  BY <1>5, <1>14
<1> QED
  BY <1>2, <1>10, <1>15, <1>16, <1>17

LEMMA EnvelopeTypes ==
  /\ Web!Hello \in Web!Envelope /\ Web!Hello.t = "hello"
  /\ \A t \in Web!Tabs : /\ Web!Signal("offer", t) \in Web!Envelope
                         /\ Web!Signal("answer", t) \in Web!Envelope
                         /\ Web!Signal("offer", t).to = t /\ Web!Signal("answer", t).to = t
                         /\ Web!Signal("offer", t).t = "offer"
                         /\ Web!Signal("answer", t).t = "answer"
  /\ \A m \in Web!Envelope : m # Web!Hello => m.to \in Web!Tabs /\ m.t \in {"offer", "answer"}
<1>1. Web!Hello \in Web!Envelope /\ Web!Hello.t = "hello"
  BY DEF Web!Envelope, Web!Hello
<1>2. ASSUME NEW kind \in {"offer", "answer"}, NEW t \in Web!Tabs
      PROVE  /\ Web!Signal(kind, t) \in Web!Envelope
             /\ Web!Signal(kind, t).to = t /\ Web!Signal(kind, t).t = kind
  <2>1. Web!Signal(kind, t) \in Web!Envelope
    BY DEF Web!Envelope
  <2> QED
    BY <2>1 DEF Web!Signal
<1>3. ASSUME NEW m \in Web!Envelope, m # Web!Hello
      PROVE  m.to \in Web!Tabs /\ m.t \in {"offer", "answer"}
  <2>1. PICK kind \in {"offer", "answer"}, p \in Web!Tabs : m = Web!Signal(kind, p)
    BY <1>3 DEF Web!Envelope
  <2> QED
    BY <2>1 DEF Web!Signal
<1> QED
  BY <1>1, <1>2, <1>3

LEMMA TabTypesInit == Mounted /\ Web!Init => TabTypes
BY DEF Mounted, Web!Init, TabTypes, Web!Stages

LEMMA TabTypesStep ==
  ASSUME TabTypes, [Web!Next]_(Web!tabVars)
  PROVE  TabTypes'
<1>1. ASSUME NEW t \in Web!Tabs, Web!Open(t)
      PROVE  TabTypes'
  <2>1. PICK ms : ms = [i \in 1..mounts |-> Web!Hello]
    OBVIOUS
  <2>2. ms \in Seq(Web!Envelope)
    BY <2>1, EnvelopeTypes DEF TabTypes
  <2>3. wire' = Web!Posted(wire, t, ms)
    BY <1>1, <2>1 DEF Web!Open
  <2>4. wire' \in [Web!Tabs -> [Web!Tabs -> Seq(Web!Envelope)]]
    BY <2>2, <2>3, PostIs DEF Wires
  <2> QED
    BY <1>1, <2>4 DEF Web!Open, TabTypes
<1>2. ASSUME NEW t \in Web!Tabs, Web!Close(t)
      PROVE  TabTypes'
  <2>1. wire' \in [Web!Tabs -> [Web!Tabs -> Seq(Web!Envelope)]]
    BY <1>2 DEF Web!Close, TabTypes
  <2> QED
    BY <1>2, <2>1 DEF Web!Close, TabTypes
<1>3. ASSUME NEW t \in Web!Tabs, Web!WaitUntil(t)
      PROVE  TabTypes'
  BY <1>3 DEF Web!WaitUntil, TabTypes
<1>4. ASSUME NEW s \in Web!Tabs, NEW t \in Web!Tabs, Web!Hear(s, t)
      PROVE  TabTypes'
  <2>1. wire[s][t] # <<>>
    BY <1>4 DEF Web!Hear, Web!OnHello, Web!OnOthers, Web!OnOffer, Web!OnAnswer
  <2>2. PICK hello, replyTo : hello = <<Web!Hello>> /\ replyTo = <<Web!Signal("answer", s)>>
    OBVIOUS
  <2>3. hello \in Seq(Web!Envelope) /\ replyTo \in Seq(Web!Envelope)
    BY <2>2, EnvelopeTypes
  <2>4. \/ wire' = Web!Heard(s, t)
        \/ HearsAndPosts(s, t, hello)
        \/ HearsAndPosts(s, t, replyTo)
    BY <1>4, <2>1, <2>2
       DEF HearsAndPosts, Web!Hear, Web!OnHello, Web!OnOthers, Web!OnOffer, Web!OnAnswer
  <2>5. wire' = Web!Heard(s, t) => wire' \in Wires
    BY <2>1, HearIs
  <2>6. wire' \in [Web!Tabs -> [Web!Tabs -> Seq(Web!Envelope)]]
    BY <2>1, <2>3, <2>4, <2>5, HearPostIs DEF Wires
  <2>7. /\ mounts' = mounts /\ tab' = tab
        /\ \/ seen' = seen /\ peers' = peers
           \/ /\ seen' = [seen EXCEPT ![t] = @ \cup {s}]
              /\ peers' = [peers EXCEPT ![t] = @ \cup {s}]
    BY <1>4 DEF Web!Hear, Web!OnHello, Web!OnOthers, Web!OnOffer, Web!OnAnswer
  <2>8. seen' \in [Web!Tabs -> SUBSET Web!Tabs] /\ peers' = seen'
    <3>1. seen \in [Web!Tabs -> SUBSET Web!Tabs] /\ peers = seen
      BY DEF TabTypes
    <3>2. seen' \in [Web!Tabs -> SUBSET Web!Tabs]
      BY <2>7, <3>1
    <3>3. peers' = seen'
      BY <2>7, <3>1
    <3> QED
      BY <3>2, <3>3
  <2>9. session' \in [Web!Tabs -> [Web!Tabs -> Web!Stages]]
    <3>1. \/ session' = session
          \/ session' = [session EXCEPT ![t][s] = "answered"]
          \/ session' = [session EXCEPT ![t][s] =
               CASE @ = "calling" -> "ready" [] @ = "none" -> "new" [] OTHER -> @]
      BY <1>4 DEF Web!Hear, Web!OnHello, Web!OnOthers, Web!OnOffer, Web!OnAnswer
    <3>2. session \in [Web!Tabs -> [Web!Tabs -> Web!Stages]]
      BY DEF TabTypes
    <3>3. PICK x : x = CASE session[t][s] = "calling" -> "ready"
                         [] session[t][s] = "none" -> "new" [] OTHER -> session[t][s]
      OBVIOUS
    <3>4. x \in Web!Stages /\ "answered" \in Web!Stages
      BY <3>2, <3>3 DEF Web!Stages
    <3>5. \/ session' = session
          \/ session' = [session EXCEPT ![t][s] = "answered"]
          \/ session' = [session EXCEPT ![t][s] = x]
      BY <3>1, <3>3
    <3> QED
      BY <3>2, <3>4, <3>5
  <2> QED
    BY <2>6, <2>7, <2>8, <2>9 DEF TabTypes
<1>5. ASSUME NEW t \in Web!Tabs, NEW p \in Web!Tabs, Web!ChannelOpens(t, p)
      PROVE  TabTypes'
  BY <1>5 DEF Web!ChannelOpens, TabTypes, Web!Stages
<1>6. ASSUME NEW t \in Web!Tabs, NEW p \in Web!Tabs, Web!SendFileTo(t, p)
      PROVE  TabTypes'
  <2>1. PICK ms : ms = <<Web!Signal("offer", p)>>
    OBVIOUS
  <2>2. ms \in Seq(Web!Envelope)
    BY <2>1, EnvelopeTypes
  <2>3. \/ wire' = wire /\ session' = session
        \/ /\ wire' = Web!Posted(wire, t, ms)
           /\ session' = [session EXCEPT ![t][p] = "calling"]
    BY <1>6, <2>1 DEF Web!SendFileTo
  <2>4. wire' \in [Web!Tabs -> [Web!Tabs -> Seq(Web!Envelope)]]
    <3>1. wire \in [Web!Tabs -> [Web!Tabs -> Seq(Web!Envelope)]]
      BY DEF TabTypes
    <3>2. wire' = Web!Posted(wire, t, ms) => wire' \in Wires
      BY <2>2, PostIs
    <3> QED
      BY <2>3, <3>1, <3>2 DEF Wires
  <2>5. session' \in [Web!Tabs -> [Web!Tabs -> Web!Stages]]
    <3>1. session \in [Web!Tabs -> [Web!Tabs -> Web!Stages]] /\ "calling" \in Web!Stages
      BY DEF TabTypes, Web!Stages
    <3> QED
      BY <2>3, <3>1
  <2> QED
    BY <1>6, <2>4, <2>5 DEF Web!SendFileTo, TabTypes
<1>7. CASE UNCHANGED Web!tabVars
  BY <1>7 DEF Web!tabVars, TabTypes
<1> QED
  BY <1>1, <1>2, <1>3, <1>4, <1>5, <1>6, <1>7 DEF Web!Next

\* m is among the messages of q.
On(m, q) == \E i \in 1..Len(q) : q[i] = m

LEMMA OnTail ==
  ASSUME NEW S, NEW q \in Seq(S), q # <<>>
  PROVE  /\ \A m : On(m, Tail(q)) => On(m, q)
         /\ On(Head(q), q)
<1>1. /\ Len(q) \in Nat \ {0} /\ Head(q) = q[1] /\ Len(Tail(q)) = Len(q) - 1
      /\ \A i \in 1..Len(Tail(q)) : Tail(q)[i] = q[i + 1]
  BY HeadTailProperties
<1>2. \A i \in 1..Len(Tail(q)) : i + 1 \in 1..Len(q)
  BY <1>1
<1>3. \A m : On(m, Tail(q)) => On(m, q)
  BY <1>1, <1>2 DEF On
<1>4. 1 \in 1..Len(q)
  BY <1>1
<1> QED
  BY <1>1, <1>3, <1>4 DEF On

LEMMA OnConcat ==
  ASSUME NEW S, NEW q \in Seq(S), NEW r \in Seq(S)
  PROVE  \A m : On(m, q \o r) => On(m, q) \/ On(m, r)
<1> DEFINE c == q \o r
<1>1. /\ Len(c) = Len(q) + Len(r) /\ Len(q) \in Nat /\ Len(r) \in Nat
      /\ \A i \in 1..(Len(q) + Len(r)) : c[i] = IF i <= Len(q) THEN q[i] ELSE r[i - Len(q)]
  BY ConcatProperties
<1> HIDE DEF c
<1>2. ASSUME NEW m, NEW i \in 1..Len(c), c[i] = m
      PROVE  On(m, q) \/ On(m, r)
  <2>1. CASE i <= Len(q)
    <3>1. i \in 1..Len(q) /\ q[i] = m
      BY <1>1, <1>2, <2>1
    <3> QED
      BY <3>1 DEF On
  <2>2. CASE ~(i <= Len(q))
    <3>1. i - Len(q) \in 1..Len(r) /\ r[i - Len(q)] = m
      BY <1>1, <1>2, <2>2
    <3> QED
      BY <3>1 DEF On
  <2> QED
    BY <2>1, <2>2
<1>3. \A m : On(m, c) => On(m, q) \/ On(m, r)
  BY <1>2 DEF On
<1> QED
  BY <1>3 DEF c

LEMMA OnOne == \A m, x : On(m, <<x>>) => m = x
BY DEF On

\* What is on the wires then was there or is of ms.
LEMMA OnPost ==
  ASSUME TabTypes, NEW t \in Web!Tabs, NEW ms \in Seq(Web!Envelope),
         wire' = Web!Posted(wire, t, ms)
  PROVE  \A a, b \in Web!Tabs : \A m :
           On(m, wire'[a][b]) => On(m, wire[a][b]) \/ (a = t /\ On(m, ms))
<1>1. /\ \A b \in Web!Tabs : Posting(t, b) => wire'[t][b] = wire[t][b] \o ms
      /\ \A a, b \in Web!Tabs : ~(a = t /\ Posting(t, b)) => wire'[a][b] = wire[a][b]
  BY PostIs
<1>2. \A b \in Web!Tabs : wire[t][b] \in Seq(Web!Envelope)
  BY DEF TabTypes
<1>3. \A b \in Web!Tabs : \A m : On(m, wire[t][b] \o ms) => On(m, wire[t][b]) \/ On(m, ms)
  BY <1>2, OnConcat
<1> QED
  BY <1>1, <1>3

LEMMA OnHear ==
  ASSUME TabTypes, NEW s \in Web!Tabs, NEW t \in Web!Tabs, wire[s][t] # <<>>,
         wire' = Web!Heard(s, t)
  PROVE  \A a, b \in Web!Tabs : \A m : On(m, wire'[a][b]) => On(m, wire[a][b])
<1>1. /\ wire'[s][t] = Tail(wire[s][t])
      /\ \A a, b \in Web!Tabs : ~(a = s /\ b = t) => wire'[a][b] = wire[a][b]
  BY HearIs
<1>2. wire[s][t] \in Seq(Web!Envelope)
  BY DEF TabTypes
<1>3. \A m : On(m, Tail(wire[s][t])) => On(m, wire[s][t])
  BY <1>2, OnTail
<1> QED
  BY <1>1, <1>3

LEMMA OnHearPost ==
  ASSUME TabTypes, NEW s \in Web!Tabs, NEW t \in Web!Tabs, NEW ms \in Seq(Web!Envelope),
         HearsAndPosts(s, t, ms)
  PROVE  \A a, b \in Web!Tabs : \A m :
           On(m, wire'[a][b]) => On(m, wire[a][b]) \/ (a = t /\ On(m, ms))
<1>1. /\ wire'[s][t] = Tail(wire[s][t])
      /\ \A b \in Web!Tabs : Posting(t, b) => wire'[t][b] = wire[t][b] \o ms
      /\ \A a, b \in Web!Tabs :
           ~(a = t /\ Posting(t, b)) /\ ~(a = s /\ b = t) => wire'[a][b] = wire[a][b]
  BY HearPostIs
<1>2. (\A a, b \in Web!Tabs : wire[a][b] \in Seq(Web!Envelope)) /\ wire[s][t] # <<>>
  BY DEF TabTypes, HearsAndPosts
<1>3. \A m : On(m, Tail(wire[s][t])) => On(m, wire[s][t])
  BY <1>2, OnTail
<1>4. \A b \in Web!Tabs : \A m : On(m, wire[t][b] \o ms) => On(m, wire[t][b]) \/ On(m, ms)
  BY <1>2, OnConcat
<1> SUFFICES ASSUME NEW a \in Web!Tabs, NEW b \in Web!Tabs, NEW m, On(m, wire'[a][b])
             PROVE  On(m, wire[a][b]) \/ (a = t /\ On(m, ms))
  OBVIOUS
<1>5. CASE a = t /\ Posting(t, b)
  BY <1>1, <1>4, <1>5
<1>6. CASE a = s /\ b = t
  BY <1>1, <1>3, <1>6
<1> QED
  BY <1>1, <1>5, <1>6

LEMMA OfferIs ==
  ASSUME NEW m \in Web!Envelope, NEW t, m.to = t
  PROVE  /\ m.t = "offer" => m = Web!Signal("offer", t)
         /\ m.t = "answer" => m = Web!Signal("answer", t)
<1>1. m.t \in {"offer", "answer"} =>
        \E kind \in {"offer", "answer"}, p \in Web!Tabs : m = Web!Signal(kind, p)
  BY DEF Web!Envelope, Web!Hello
<1> QED
  BY <1>1 DEF Web!Signal

\* An offer on the wire was made by a caller, an answer to one, by a session that stays
\* answered.
Pairing ==
  /\ TabTypes
  /\ \A a, b, p \in Web!Tabs :
       On(Web!Signal("offer", p), wire[a][b]) => <<a, p>> \in caller
  /\ \A a, b, p \in Web!Tabs :
       On(Web!Signal("answer", p), wire[a][b]) =>
         <<p, a>> \in caller /\ session[a][p] \in {"answered", "ready"}
  /\ Web!SessionsPaired

\* A step keeps this if it forgets no caller and no answer, and what it posts,
\* answer or offer, is accounted for.
LEMMA PairingKept ==
  ASSUME Pairing, TabTypes', Web!SessionsPaired', caller \subseteq caller',
         \A a, p \in Web!Tabs : session[a][p] \in {"answered", "ready"} =>
                                session'[a][p] \in {"answered", "ready"},
         \A a, b, p \in Web!Tabs :
           On(Web!Signal("offer", p), wire'[a][b]) =>
             On(Web!Signal("offer", p), wire[a][b]) \/ <<a, p>> \in caller',
         \A a, b, p \in Web!Tabs :
           On(Web!Signal("answer", p), wire'[a][b]) =>
             \/ On(Web!Signal("answer", p), wire[a][b])
             \/ <<p, a>> \in caller' /\ session'[a][p] \in {"answered", "ready"}
  PROVE  Pairing'
<1>1. /\ \A a, b, p \in Web!Tabs :
           On(Web!Signal("offer", p), wire[a][b]) => <<a, p>> \in caller
      /\ \A a, b, p \in Web!Tabs :
           On(Web!Signal("answer", p), wire[a][b]) =>
             <<p, a>> \in caller /\ session[a][p] \in {"answered", "ready"}
  BY DEF Pairing
<1>2. \A a, b, p \in Web!Tabs :
        On(Web!Signal("offer", p), wire'[a][b]) => <<a, p>> \in caller'
  BY <1>1
<1>3. \A a, b, p \in Web!Tabs :
        On(Web!Signal("answer", p), wire'[a][b]) =>
          <<p, a>> \in caller' /\ session'[a][p] \in {"answered", "ready"}
  BY <1>1
<1> QED
  BY <1>2, <1>3 DEF Pairing, On, Web!Signal, Web!Tabs

LEMMA PairingInit == Mounted /\ Web!Init => Pairing
<1> SUFFICES ASSUME Mounted, Web!Init
             PROVE  Pairing
  OBVIOUS
<1>1. /\ \A a, b \in Web!Tabs : wire[a][b] = <<>>
      /\ \A a, b \in Web!Tabs : session[a][b] = "none"
  BY DEF Web!Init
<1>2. \A m : ~On(m, <<>>)
  BY DEF On
<1>3. Web!SessionsPaired
  BY <1>1 DEF Web!SessionsPaired
<1> QED
  BY <1>1, <1>2, <1>3, TabTypesInit DEF Pairing

\* What HearsAndPosts adds when all that is posted is x.
LEMMA OnlyPosted ==
  ASSUME TabTypes, NEW s \in Web!Tabs, NEW t \in Web!Tabs, NEW ms \in Seq(Web!Envelope),
         HearsAndPosts(s, t, ms), NEW x, \A m : On(m, ms) => m = x
  PROVE  \A a, b \in Web!Tabs : \A m :
           On(m, wire'[a][b]) => On(m, wire[a][b]) \/ (a = t /\ m = x)
<1>1. \A a, b \in Web!Tabs : \A m :
        On(m, wire'[a][b]) => On(m, wire[a][b]) \/ (a = t /\ On(m, ms))
  BY OnHearPost
<1> QED
  BY <1>1

LEMMA PairingStep ==
  ASSUME Pairing, [Web!Next]_(Web!tabVars)
  PROVE  Pairing'
<1>1. /\ TabTypes /\ TabTypes'
      /\ session \in [Web!Tabs -> [Web!Tabs -> Web!Stages]]
      /\ wire \in [Web!Tabs -> [Web!Tabs -> Seq(Web!Envelope)]]
      /\ Web!SessionsPaired
  BY TabTypesStep DEF Pairing, TabTypes
<1>2. /\ \A t, p \in Web!Tabs :
           session[t][p] # "none" => <<t, p>> \in caller \/ <<p, t>> \in caller
      /\ \A t, p \in Web!Tabs :
           session[t][p] = "ready" => session[p][t] \in {"answered", "ready"}
  BY <1>1 DEF Web!SessionsPaired
<1>3. /\ \A a, b, p \in Web!Tabs :
           On(Web!Signal("offer", p), wire[a][b]) => <<a, p>> \in caller
      /\ \A a, b, p \in Web!Tabs :
           On(Web!Signal("answer", p), wire[a][b]) =>
             <<p, a>> \in caller /\ session[a][p] \in {"answered", "ready"}
  BY DEF Pairing
<1>4. \A p, q : /\ Web!Signal("offer", p) # Web!Signal("answer", q)
                /\ Web!Signal("offer", p) # Web!Hello /\ Web!Signal("answer", p) # Web!Hello
                /\ Web!Signal("offer", p) = Web!Signal("offer", q) => p = q
                /\ Web!Signal("answer", p) = Web!Signal("answer", q) => p = q
  BY DEF Web!Signal, Web!Hello
<1>5. ASSUME UNCHANGED <<session, caller>>,
             \A a, b, p \in Web!Tabs :
               /\ On(Web!Signal("offer", p), wire'[a][b]) => On(Web!Signal("offer", p), wire[a][b])
               /\ On(Web!Signal("answer", p), wire'[a][b]) => On(Web!Signal("answer", p), wire[a][b])
      PROVE  Pairing'
  <2>1. Web!SessionsPaired'
    BY <1>2, <1>5 DEF Web!SessionsPaired
  <2> QED
    BY <1>1, <1>5, <2>1, PairingKept
<1>6. ASSUME NEW t \in Web!Tabs, Web!Open(t)
      PROVE  Pairing'
  <2>1. PICK ms : ms = [i \in 1..mounts |-> Web!Hello]
    OBVIOUS
  <2>2. ms \in Seq(Web!Envelope) /\ \A m : On(m, ms) => m = Web!Hello
    BY <2>1, <1>1, EnvelopeTypes DEF TabTypes, On
  <2>3. wire' = Web!Posted(wire, t, ms) /\ UNCHANGED <<session, caller>>
    BY <1>6, <2>1 DEF Web!Open
  <2>4. \A a, b \in Web!Tabs : \A m : On(m, wire'[a][b]) => On(m, wire[a][b]) \/ m = Web!Hello
    BY <1>1, <2>2, <2>3, OnPost
  <2> QED
    BY <1>4, <1>5, <2>3, <2>4
<1>7. ASSUME NEW t \in Web!Tabs, Web!Close(t)
      PROVE  Pairing'
  <2>1. \A a, b \in Web!Tabs : wire'[a][b] = wire[a][b] \/ wire'[a][b] = <<>>
    BY <1>1, <1>7 DEF Web!Close
  <2>2. \A m : ~On(m, <<>>)
    BY DEF On
  <2> QED
    BY <1>5, <1>7, <2>1, <2>2 DEF Web!Close
<1>8. ASSUME NEW t \in Web!Tabs, Web!WaitUntil(t)
      PROVE  Pairing'
  BY <1>5, <1>8 DEF Web!WaitUntil
<1>9. ASSUME NEW s \in Web!Tabs, NEW t \in Web!Tabs, wire[s][t] # <<>>
      PROVE  \A m : m = Web!Front(s, t) => m \in Web!Envelope /\ On(m, wire[s][t])
  BY <1>1, <1>9, OnTail, HeadTailProperties DEF Web!Front
<1>10. ASSUME NEW s \in Web!Tabs, NEW t \in Web!Tabs, Web!OnHello(s, t) \/ Web!OnOthers(s, t)
       PROVE  Pairing'
  <2>1. PICK ms : ms = <<Web!Hello>>
    OBVIOUS
  <2>2. /\ wire[s][t] # <<>> /\ UNCHANGED <<session, caller>>
        /\ wire' = Web!Heard(s, t) \/ HearsAndPosts(s, t, ms)
    BY <1>10, <2>1 DEF HearsAndPosts, Web!OnHello, Web!OnOthers
  <2>3. ms \in Seq(Web!Envelope) /\ \A m : On(m, ms) => m = Web!Hello
    BY <2>1, EnvelopeTypes, OnOne
  <2>4. CASE wire' = Web!Heard(s, t)
    BY <1>1, <1>5, <2>2, <2>4, OnHear
  <2>5. CASE HearsAndPosts(s, t, ms)
    <3>1. \A a, b \in Web!Tabs : \A m : On(m, wire'[a][b]) => On(m, wire[a][b]) \/ m = Web!Hello
      <4>1. TabTypes
        BY <1>1
      <4>2. /\ ms \in Seq(Web!Envelope)
            /\ \A m : On(m, ms) => m = Web!Hello
        BY <2>3
      <4>3. \A a, b \in Web!Tabs : \A m :
              On(m, wire'[a][b]) => On(m, wire[a][b]) \/ (a = t /\ m = Web!Hello)
        BY <2>5, <4>1, <4>2, OnlyPosted
      <4> QED
        BY <4>3
    <3> QED
      BY <1>4, <1>5, <2>2, <3>1
  <2> QED
    BY <2>2, <2>4, <2>5
<1>11. ASSUME NEW s \in Web!Tabs, NEW t \in Web!Tabs, Web!OnOffer(s, t)
       PROVE  Pairing'
  <2>1. PICK ms : ms = <<Web!Signal("answer", s)>>
    OBVIOUS
  <2>2. /\ wire[s][t] # <<>> /\ caller' = caller
        /\ HearsAndPosts(s, t, ms)
        /\ session' = [session EXCEPT ![t][s] = "answered"]
    BY <1>11, <2>1 DEF HearsAndPosts, Web!OnOffer
  <2>4. ms \in Seq(Web!Envelope) /\ \A m : On(m, ms) => m = Web!Signal("answer", s)
    BY <2>1, EnvelopeTypes, OnOne
  <2>5. \A a, b \in Web!Tabs : \A m :
          On(m, wire'[a][b]) => On(m, wire[a][b]) \/ (a = t /\ m = Web!Signal("answer", s))
    <3>1. TabTypes /\ HearsAndPosts(s, t, ms)
      BY <1>1, <2>2
    <3>2. PICK x : x = Web!Signal("answer", s)
      OBVIOUS
    <3>3. ms \in Seq(Web!Envelope) /\ \A m : On(m, ms) => m = x
      BY <2>4, <3>2
    <3>4. \A a, b \in Web!Tabs : \A m :
            On(m, wire'[a][b]) => On(m, wire[a][b]) \/ (a = t /\ m = x)
      BY <3>1, <3>3, OnlyPosted
    <3> QED
      BY <3>2, <3>4
  <2>6. <<s, t>> \in caller
    <3>1. PICK m : m = Web!Front(s, t)
      OBVIOUS
    <3>2. m \in Web!Envelope /\ On(m, wire[s][t]) /\ m.t = "offer" /\ m.to = t
      BY <1>9, <1>11, <2>2, <3>1 DEF Web!OnOffer, Web!ForMe
    <3>3. m = Web!Signal("offer", t)
      BY <3>2, OfferIs
    <3> QED
      BY <1>3, <3>2, <3>3
  <2>7. /\ session'[t][s] = "answered"
        /\ \A a, p \in Web!Tabs : a # t \/ p # s => session'[a][p] = session[a][p]
    BY <1>1, <2>2
  <2>8. Web!SessionsPaired'
    <3>1. \A a, p \in Web!Tabs :
            session'[a][p] # "none" => <<a, p>> \in caller' \/ <<p, a>> \in caller'
      BY <1>2, <2>2, <2>6, <2>7
    <3>2. \A a, p \in Web!Tabs :
            session'[a][p] = "ready" => session'[p][a] \in {"answered", "ready"}
      BY <1>2, <2>7
    <3> QED
      BY <3>1, <3>2 DEF Web!SessionsPaired
  <2>9. \A a, p \in Web!Tabs : session[a][p] \in {"answered", "ready"} =>
                               session'[a][p] \in {"answered", "ready"}
    BY <2>7
  <2>10. \A a, b, p \in Web!Tabs :
           On(Web!Signal("offer", p), wire'[a][b]) => On(Web!Signal("offer", p), wire[a][b])
    BY <1>4, <2>5
  <2>11. \A a, b, p \in Web!Tabs :
           On(Web!Signal("answer", p), wire'[a][b]) =>
             \/ On(Web!Signal("answer", p), wire[a][b])
             \/ <<p, a>> \in caller' /\ session'[a][p] \in {"answered", "ready"}
    BY <1>4, <2>2, <2>5, <2>6, <2>7
  <2> QED
    BY <1>1, <2>2, <2>8, <2>9, <2>10, <2>11, PairingKept
<1>12. ASSUME NEW s \in Web!Tabs, NEW t \in Web!Tabs, Web!OnAnswer(s, t)
       PROVE  Pairing'
  <2>1. wire[s][t] # <<>> /\ caller' = caller /\ wire' = Web!Heard(s, t)
    BY <1>12 DEF Web!OnAnswer
  <2>2. \A a, b \in Web!Tabs : \A m : On(m, wire'[a][b]) => On(m, wire[a][b])
    BY <1>1, <2>1, OnHear
  <2>3. <<t, s>> \in caller /\ session[s][t] \in {"answered", "ready"}
    <3>1. PICK m : m = Web!Front(s, t)
      OBVIOUS
    <3>2. m \in Web!Envelope /\ On(m, wire[s][t]) /\ m.t = "answer" /\ m.to = t
      BY <1>9, <1>12, <2>1, <3>1 DEF Web!OnAnswer, Web!ForMe
    <3>3. m = Web!Signal("answer", t)
      BY <3>2, OfferIs
    <3> QED
      BY <1>3, <3>2, <3>3
  <2>4. /\ session'[t][s] = CASE session[t][s] = "calling" -> "ready"
                              [] session[t][s] = "none" -> "new" [] OTHER -> session[t][s]
        /\ \A a, p \in Web!Tabs : a # t \/ p # s => session'[a][p] = session[a][p]
    BY <1>1, <1>12 DEF Web!OnAnswer
  <2>5. \A a, p \in Web!Tabs : session[a][p] \in {"answered", "ready"} =>
                               session'[a][p] \in {"answered", "ready"}
    BY <2>4
  <2>6. Web!SessionsPaired'
    <3>1. \A a, p \in Web!Tabs :
            session'[a][p] # "none" => <<a, p>> \in caller' \/ <<p, a>> \in caller'
      BY <1>2, <2>1, <2>3, <2>4
    <3>2. session'[t][s] = "ready" => session[s][t] \in {"answered", "ready"}
      BY <2>3
    <3>3. \A a, p \in Web!Tabs :
            session'[a][p] = "ready" => session'[p][a] \in {"answered", "ready"}
      BY <1>2, <2>4, <2>5, <3>2
    <3> QED
      BY <3>1, <3>3 DEF Web!SessionsPaired
  <2> QED
    BY <1>1, <2>1, <2>2, <2>5, <2>6, PairingKept
<1>13. ASSUME NEW t \in Web!Tabs, NEW p \in Web!Tabs, Web!ChannelOpens(t, p)
       PROVE  Pairing'
  <2>1. /\ session[t][p] = "answered" /\ session[p][t] = "ready"
        /\ wire' = wire /\ caller' = caller
        /\ session' = [session EXCEPT ![t][p] = "ready"]
    BY <1>13 DEF Web!ChannelOpens
  <2>2. /\ session'[t][p] = "ready"
        /\ \A a, b \in Web!Tabs : a # t \/ b # p => session'[a][b] = session[a][b]
    BY <1>1, <2>1
  <2>3. \A a, b \in Web!Tabs : session[a][b] \in {"answered", "ready"} =>
                               session'[a][b] \in {"answered", "ready"}
    BY <2>2
  <2>4. Web!SessionsPaired'
    <3>1. \A a, b \in Web!Tabs :
            session'[a][b] # "none" => <<a, b>> \in caller' \/ <<b, a>> \in caller'
      BY <1>2, <2>1, <2>2
    <3>2. \A a, b \in Web!Tabs :
            session'[a][b] = "ready" => session'[b][a] \in {"answered", "ready"}
      BY <1>2, <2>1, <2>2, <2>3
    <3> QED
      BY <3>1, <3>2 DEF Web!SessionsPaired
  <2> QED
    BY <1>1, <2>1, <2>3, <2>4, PairingKept
<1>14. ASSUME NEW t \in Web!Tabs, NEW p \in Web!Tabs, Web!SendFileTo(t, p)
       PROVE  Pairing'
  <2>1. CASE session[t][p] # "none"
    BY <1>5, <1>14, <2>1 DEF Web!SendFileTo
  <2>2. CASE session[t][p] = "none"
    <3>1. PICK ms : ms = <<Web!Signal("offer", p)>>
      OBVIOUS
    <3>2. /\ wire' = Web!Posted(wire, t, ms) /\ caller' = caller \cup {<<t, p>>}
          /\ session' = [session EXCEPT ![t][p] = "calling"]
      BY <1>14, <2>2, <3>1 DEF Web!SendFileTo
    <3>3. ms \in Seq(Web!Envelope) /\ \A m : On(m, ms) => m = Web!Signal("offer", p)
      BY <3>1, EnvelopeTypes, OnOne
    <3>4. \A a, b \in Web!Tabs : \A m :
            On(m, wire'[a][b]) => On(m, wire[a][b]) \/ (a = t /\ m = Web!Signal("offer", p))
      BY <1>1, <3>2, <3>3, OnPost
    <3>5. /\ session'[t][p] = "calling"
          /\ \A a, b \in Web!Tabs : a # t \/ b # p => session'[a][b] = session[a][b]
      BY <1>1, <3>2
    <3>6. \A a, b \in Web!Tabs : session[a][b] \in {"answered", "ready"} =>
                                 session'[a][b] \in {"answered", "ready"}
      BY <2>2, <3>5
    <3>7. Web!SessionsPaired'
      <4>1. \A a, b \in Web!Tabs :
              session'[a][b] # "none" => <<a, b>> \in caller' \/ <<b, a>> \in caller'
        BY <1>2, <3>2, <3>5
      <4>2. \A a, b \in Web!Tabs :
              session'[a][b] = "ready" => session'[b][a] \in {"answered", "ready"}
        BY <1>2, <2>2, <3>5, <3>6
      <4> QED
        BY <4>1, <4>2 DEF Web!SessionsPaired
    <3>8. \A a, b, q \in Web!Tabs :
            On(Web!Signal("offer", q), wire'[a][b]) =>
              On(Web!Signal("offer", q), wire[a][b]) \/ <<a, q>> \in caller'
      BY <1>4, <3>2, <3>4
    <3>9. \A a, b, q \in Web!Tabs :
            On(Web!Signal("answer", q), wire'[a][b]) => On(Web!Signal("answer", q), wire[a][b])
      BY <1>4, <3>4
    <3> QED
      BY <1>1, <3>2, <3>6, <3>7, <3>8, <3>9, PairingKept
  <2> QED
    BY <2>1, <2>2
<1>15. CASE UNCHANGED Web!tabVars
  BY <1>5, <1>15 DEF Web!tabVars
<1> QED
  BY <1>6, <1>7, <1>8, <1>10, <1>11, <1>12, <1>13, <1>14, <1>15 DEF Web!Next, Web!Hear

\* In the web demo (loopbackSignal.ts, useLanTransferWeb.ts) a tab has a session only with
\* a tab it called or that called it, and the far end of a session that is ready is at
\* that tab and not at another that heard the same signals: for any number of tabs.
THEOREM TabsPairUp == ASSUME Mounted PROVE Web!Spec => []SessionsPaired
<1>1. Web!Init => Pairing
  BY PairingInit
<1>2. Pairing /\ [Web!Next]_(Web!tabVars) => Pairing'
  BY PairingStep
<1>3. Pairing => SessionsPaired
  BY DEF Pairing, SessionsPaired
<1> QED
  BY <1>1, <1>2, <1>3, PTL DEF Web!Spec

\* Where q announces a tab.
HelloAt(q) == {i \in 1..Len(q) : q[i] = Web!Hello}

LEMMA HelloFinite ==
  ASSUME NEW S, NEW q \in Seq(S)
  PROVE  IsFiniteSet(HelloAt(q)) /\ Cardinality(HelloAt(q)) \in Nat
<1>1. HelloAt(q) \in SUBSET (1..Len(q)) /\ Len(q) \in Int /\ 1 \in Int
  BY DEF HelloAt
<1>2. IsFiniteSet(1..Len(q))
  BY <1>1, FS_Interval
<1>3. IsFiniteSet(HelloAt(q))
  BY <1>1, <1>2, FS_Subset
<1> QED
  BY <1>3, FS_CardinalityType

LEMMA HelloTail ==
  ASSUME NEW S, NEW q \in Seq(S), q # <<>>
  PROVE  /\ Cardinality(HelloAt(Tail(q))) <= Cardinality(HelloAt(q))
         /\ Head(q) # Web!Hello /\ On(Web!Hello, q) => On(Web!Hello, Tail(q))
<1>1. /\ Len(q) \in Nat \ {0} /\ Head(q) = q[1] /\ Len(Tail(q)) = Len(q) - 1
      /\ \A i \in 1..Len(Tail(q)) : Tail(q)[i] = q[i + 1]
  BY HeadTailProperties
<1>2. PICK A, B : A = HelloAt(Tail(q)) /\ B = HelloAt(q)
  OBVIOUS
<1>3. A \subseteq Nat /\ \A i \in A : i + 1 \in B
  BY <1>1, <1>2 DEF HelloAt
<1>4. IsFiniteSet(B)
  BY <1>2, HelloFinite
<1>5. PICK f : f = [i \in A |-> i + 1]
  OBVIOUS
<1>6. f \in [A -> B] /\ \A i, j \in A : f[i] = f[j] => i = j
  BY <1>3, <1>5
<1>7. f \in Injection(A, B)
  BY <1>6 DEF Injection, IsInjective
<1>8. Cardinality(A) <= Cardinality(B)
  BY <1>4, <1>7, FS_Injection
<1>9. ASSUME Head(q) # Web!Hello, On(Web!Hello, q)
      PROVE  On(Web!Hello, Tail(q))
  <2>1. PICK i \in 1..Len(q) : q[i] = Web!Hello
    BY <1>9 DEF On
  <2>2. i # 1
    BY <1>1, <1>9, <2>1
  <2>3. i - 1 \in 1..Len(Tail(q)) /\ (i - 1) + 1 = i
    BY <1>1, <2>1, <2>2
  <2>4. Tail(q)[i - 1] = Web!Hello
    BY <1>1, <2>1, <2>3
  <2> QED
    BY <2>3, <2>4 DEF On
<1> QED
  BY <1>2, <1>8, <1>9

LEMMA HelloOne ==
  ASSUME NEW S, NEW q \in Seq(S), NEW x \in S
  PROVE  /\ Cardinality(HelloAt(q \o <<x>>)) <= Cardinality(HelloAt(q)) + 1
         /\ x # Web!Hello => Cardinality(HelloAt(q \o <<x>>)) <= Cardinality(HelloAt(q))
         /\ On(x, q \o <<x>>)
         /\ \A m : On(m, q) => On(m, q \o <<x>>)
<1> DEFINE c == q \o <<x>>
<1>1. /\ c \in Seq(S) /\ Len(c) = Len(q) + 1 /\ Len(q) \in Nat
      /\ \A i \in 1..Len(q) : c[i] = q[i]
      /\ c[Len(q) + 1] = x
  OBVIOUS
<1> HIDE DEF c
<1>2. PICK A, B, n : A = HelloAt(c) /\ B = HelloAt(q) /\ n = Len(q) + 1
  OBVIOUS
<1>3. A \subseteq B \cup {n} /\ (x # Web!Hello => A \subseteq B)
  BY <1>1, <1>2 DEF HelloAt
<1>4. IsFiniteSet(B) /\ Cardinality(B) \in Nat /\ Cardinality(A) \in Nat
  BY <1>1, <1>2, HelloFinite
<1>5. /\ IsFiniteSet(B \cup {n})
      /\ Cardinality(B \cup {n}) = IF n \in B THEN Cardinality(B) ELSE Cardinality(B) + 1
  BY <1>4, FS_AddElement
<1>6. Cardinality(A) <= Cardinality(B \cup {n})
  BY <1>3, <1>5, FS_Subset
<1>7. Cardinality(A) <= Cardinality(B) + 1
  BY <1>4, <1>5, <1>6
<1>8. x # Web!Hello => Cardinality(A) <= Cardinality(B)
  BY <1>3, <1>4, FS_Subset
<1>9. Len(q) + 1 \in 1..Len(c)
  BY <1>1
<1>10. On(x, c)
  BY <1>1, <1>9 DEF On
<1>11. \A m : On(m, q) => On(m, c)
  BY <1>1 DEF On
<1> QED
  BY <1>2, <1>7, <1>8, <1>10, <1>11 DEF c

\* Two open tabs have met, or an announcement is on its way that will make them meet.
Bound(t, p) == \/ p \in seen[t]
               \/ On(Web!Hello, wire[p][t])
               \/ t \notin seen[p] /\ On(Web!Hello, wire[t][p])

Met ==
  /\ TabTypes
  /\ \A t \in Web!Tabs : tab[t] = "unopened" =>
       seen[t] = {} /\ \A p \in Web!Tabs : t \notin seen[p] /\ wire[t][p] = <<>>
  /\ \A s, t \in Web!Tabs : tab[t] # "open" => wire[s][t] = <<>>
  /\ \A t, p \in Web!Tabs : t # p /\ tab[t] = "open" /\ tab[p] = "open" => Bound(t, p)
  /\ \A s, t \in Web!Tabs : Cardinality(HelloAt(wire[s][t])) <= mounts + Cardinality(seen[s])

LEMMA SeenFinite ==
  ASSUME Mounted, TabTypes
  PROVE  \A t \in Web!Tabs : IsFiniteSet(seen[t]) /\ Cardinality(seen[t]) \in Nat
<1>1. IsFiniteSet(1..N)
  BY FS_Interval DEF Mounted
<1>2. \A t \in Web!Tabs : seen[t] \in SUBSET (1..N)
  BY DEF TabTypes, Web!Tabs
<1>3. \A t \in Web!Tabs : IsFiniteSet(seen[t])
  BY <1>1, <1>2, FS_Subset
<1> QED
  BY <1>3, FS_CardinalityType

LEMMA HelloCounts ==
  ASSUME TabTypes
  PROVE  \A a, b \in Web!Tabs : Cardinality(HelloAt(wire[a][b])) \in Nat
<1>1. \A a, b \in Web!Tabs : wire[a][b] \in Seq(Web!Envelope)
  BY DEF TabTypes
<1> QED
  BY <1>1, HelloFinite

\* WebTabs counts as FiniteSets does.
LEMMA SameCardinality == \A S : Web!Cardinality(S) = Cardinality(S)
BY DEF Cardinality, Web!Cardinality

LEMMA MetDiscovers ==
  ASSUME Met
  PROVE  Web!Discovered
<1>1. /\ wire \in [Web!Tabs -> [Web!Tabs -> Seq(Web!Envelope)]] /\ peers = seen
  BY DEF Met, TabTypes
<1>2. ASSUME NEW s \in Web!Tabs, NEW t \in Web!Tabs
      PROVE  Web!Hellos(s, t) = HelloAt(wire[s][t])
  <2>1. wire[s][t] \in Seq(Web!Envelope)
    BY <1>1
  <2>2. DOMAIN wire[s][t] = 1..Len(wire[s][t])
    BY <2>1
  <2> QED
    BY <2>2 DEF Web!Hellos, HelloAt
<1>3. \A s, t \in Web!Tabs : Web!Hellos(s, t) = {} => ~On(Web!Hello, wire[s][t])
  BY <1>2 DEF HelloAt, On
<1>4. ASSUME NEW t \in Web!Tabs, NEW p \in Web!Tabs, tab[t] = "open", tab[p] = "open",
             t # p, Web!Hellos(t, p) = {}, Web!Hellos(p, t) = {}
      PROVE  p \in peers[t]
  <2>1. Bound(t, p)
    BY <1>4 DEF Met
  <2> QED
    BY <1>1, <1>3, <1>4, <2>1 DEF Bound
<1>5. \A s, t \in Web!Tabs : Cardinality(Web!Hellos(s, t)) <= mounts + Cardinality(seen[s])
  BY <1>2 DEF Met
<1>6. \A t, p \in {q \in Web!Tabs : tab[q] = "open"} :
        t # p /\ Web!Hellos(t, p) = {} /\ Web!Hellos(p, t) = {} => p \in peers[t] /\ t \in peers[p]
  BY <1>4
<1>7. \A s, t \in Web!Tabs :
        Web!Cardinality(Web!Hellos(s, t)) <= mounts + Web!Cardinality(seen[s])
  BY <1>5, SameCardinality
<1> QED
  BY <1>6, <1>7 DEF Web!Discovered

LEMMA MetInit == Mounted /\ Web!Init => Met
<1> SUFFICES ASSUME Mounted, Web!Init
             PROVE  Met
  OBVIOUS
<1>1. TabTypes
  BY TabTypesInit
<1>2. /\ \A t \in Web!Tabs : tab[t] = "unopened" /\ seen[t] = {}
      /\ \A s, t \in Web!Tabs : wire[s][t] = <<>>
  BY DEF Web!Init
<1>3. HelloAt(<<>>) = {} /\ Cardinality({}) = 0
  BY FS_EmptySet DEF HelloAt
<1>4. \A s, t \in Web!Tabs : Cardinality(HelloAt(wire[s][t])) <= mounts + Cardinality(seen[s])
  <2>1. \A s, t \in Web!Tabs : Cardinality(HelloAt(wire[s][t])) = 0
    BY <1>2, <1>3
  <2>2. \A s \in Web!Tabs : Cardinality(seen[s]) = 0
    BY <1>2, <1>3
  <2>3. mounts \in Nat
    BY <1>1 DEF TabTypes
  <2> QED
    BY <2>1, <2>2, <2>3
<1> QED
  BY <1>1, <1>2, <1>4 DEF Met

\* Met' in terms of the variables after the step.
LEMMA MetIs ==
  ASSUME TabTypes',
         \A u \in Web!Tabs : tab'[u] = "unopened" =>
           seen'[u] = {} /\ \A p \in Web!Tabs : u \notin seen'[p] /\ wire'[u][p] = <<>>,
         \A a, p \in Web!Tabs : tab'[p] # "open" => wire'[a][p] = <<>>,
         \A u, p \in Web!Tabs : u # p /\ tab'[u] = "open" /\ tab'[p] = "open" =>
           \/ p \in seen'[u]
           \/ On(Web!Hello, wire'[p][u])
           \/ u \notin seen'[p] /\ On(Web!Hello, wire'[u][p]),
         \A a, b \in Web!Tabs : Cardinality(HelloAt(wire'[a][b])) <= mounts' + Cardinality(seen'[a])
  PROVE  Met'
BY DEF Met, Bound, HelloAt, On, Web!Hello, Web!Tabs

\* A step keeps Met if it neither opens nor closes a tab, nobody is announced or heard of
\* by it, and what it posts is from an open tab to one.
LEMMA MetQuiet ==
  ASSUME Mounted, Met, TabTypes', UNCHANGED <<mounts, tab, seen>>,
         \A a, b \in Web!Tabs : On(Web!Hello, wire[a][b]) => On(Web!Hello, wire'[a][b]),
         \A a, b \in Web!Tabs :
           Cardinality(HelloAt(wire'[a][b])) <= Cardinality(HelloAt(wire[a][b])),
         \A a, b \in Web!Tabs : wire[a][b] = <<>> =>
           wire'[a][b] = <<>> \/ (tab[a] = "open" /\ tab[b] = "open")
  PROVE  Met'
<1>1. \A t \in Web!Tabs : tab'[t] = "unopened" =>
        seen'[t] = {} /\ \A p \in Web!Tabs : t \notin seen'[p] /\ wire'[t][p] = <<>>
  BY DEF Met
<1>2. \A s, t \in Web!Tabs : tab'[t] # "open" => wire'[s][t] = <<>>
  BY DEF Met
<1>3. ASSUME NEW t \in Web!Tabs, NEW p \in Web!Tabs, t # p, tab'[t] = "open", tab'[p] = "open"
      PROVE  \/ p \in seen'[t]
             \/ On(Web!Hello, wire'[p][t])
             \/ t \notin seen'[p] /\ On(Web!Hello, wire'[t][p])
  <2>1. Bound(t, p)
    BY <1>3 DEF Met
  <2> QED
    BY <2>1 DEF Bound
<1>4. \A s, t \in Web!Tabs : Cardinality(HelloAt(wire'[s][t])) <= mounts' + Cardinality(seen'[s])
  <2>1. TabTypes
    BY DEF Met
  <2>2. \A s, t \in Web!Tabs : /\ Cardinality(HelloAt(wire[s][t])) \in Nat
                               /\ Cardinality(seen[s]) \in Nat
    BY <2>1, HelloCounts, SeenFinite
  <2>3. \A s, t \in Web!Tabs : Cardinality(HelloAt(wire'[s][t])) \in Nat
    <3>1. wire' \in [Web!Tabs -> [Web!Tabs -> Seq(Web!Envelope)]]
      BY DEF TabTypes
    <3>2. \A s, t \in Web!Tabs : wire'[s][t] \in Seq(Web!Envelope)
      BY <3>1
    <3> QED
      BY <3>2, HelloFinite
  <2>4. mounts \in Nat
    BY <2>1 DEF TabTypes
  <2>5. \A s, t \in Web!Tabs : Cardinality(HelloAt(wire[s][t])) <= mounts + Cardinality(seen[s])
    BY DEF Met
  <2>6. \A s, t \in Web!Tabs : Cardinality(HelloAt(wire'[s][t])) <= mounts + Cardinality(seen[s])
    BY <2>2, <2>3, <2>4, <2>5
  <2> QED
    BY <2>6
<1> QED
  BY <1>1, <1>2, <1>3, <1>4, MetIs

LEMMA MetHears ==
  ASSUME Mounted, Met, TabTypes', UNCHANGED <<mounts, tab, seen>>,
         NEW s \in Web!Tabs, NEW t \in Web!Tabs, wire[s][t] # <<>>,
         Web!Front(s, t) # Web!Hello, wire' = Web!Heard(s, t)
  PROVE  Met'
<1>1. TabTypes
  BY DEF Met
<1>2. /\ wire'[s][t] = Tail(wire[s][t])
      /\ \A a, b \in Web!Tabs : ~(a = s /\ b = t) => wire'[a][b] = wire[a][b]
  BY <1>1, HearIs
<1>3. wire[s][t] \in Seq(Web!Envelope) /\ Head(wire[s][t]) # Web!Hello
  BY <1>1 DEF TabTypes, Web!Front
<1>4. /\ Cardinality(HelloAt(Tail(wire[s][t]))) <= Cardinality(HelloAt(wire[s][t]))
      /\ On(Web!Hello, wire[s][t]) => On(Web!Hello, Tail(wire[s][t]))
  BY <1>3, HelloTail
<1>5. \A a, b \in Web!Tabs : Cardinality(HelloAt(wire[a][b])) \in Nat
  BY <1>1, HelloCounts
<1>6. \A a, b \in Web!Tabs : On(Web!Hello, wire[a][b]) => On(Web!Hello, wire'[a][b])
  BY <1>2, <1>4
<1>7. \A a, b \in Web!Tabs :
        Cardinality(HelloAt(wire'[a][b])) <= Cardinality(HelloAt(wire[a][b]))
  <2> TAKE a, b \in Web!Tabs
  <2>1. CASE a = s /\ b = t
    BY <1>2, <1>4, <2>1
  <2>2. CASE ~(a = s /\ b = t)
    <3>1. wire'[a][b] = wire[a][b] /\ Cardinality(HelloAt(wire[a][b])) \in Nat
      BY <1>2, <1>5, <2>2
    <3> QED
      BY <3>1
  <2> QED
    BY <2>1, <2>2
<1>8. \A a, b \in Web!Tabs : wire[a][b] = <<>> =>
        wire'[a][b] = <<>> \/ (tab[a] = "open" /\ tab[b] = "open")
  BY <1>2
<1> QED
  BY <1>6, <1>7, <1>8, MetQuiet

LEMMA MetPosts ==
  ASSUME Mounted, Met, TabTypes', UNCHANGED <<mounts, tab, seen>>,
         NEW t \in Web!Tabs, tab[t] = "open", NEW x \in Web!Envelope, x # Web!Hello,
         wire' = Web!Posted(wire, t, <<x>>)
  PROVE  Met'
<1>1. TabTypes
  BY DEF Met
<1>0. PICK ms : ms = <<x>>
  OBVIOUS
<1>2. ms \in Seq(Web!Envelope) /\ ms = <<x>>
  BY <1>0
<1>3. wire' = Web!Posted(wire, t, ms)
  BY <1>2
<1>4. /\ \A b \in Web!Tabs : Posting(t, b) => wire'[t][b] = wire[t][b] \o ms
      /\ \A a, b \in Web!Tabs : ~(a = t /\ Posting(t, b)) => wire'[a][b] = wire[a][b]
  BY <1>1, <1>2, <1>3, PostIs
<1>5. \A b \in Web!Tabs : wire[t][b] \in Seq(Web!Envelope)
  BY <1>1 DEF TabTypes
<1>6. \A b \in Web!Tabs :
        /\ Cardinality(HelloAt(wire[t][b] \o ms)) <= Cardinality(HelloAt(wire[t][b]))
        /\ On(Web!Hello, wire[t][b]) => On(Web!Hello, wire[t][b] \o ms)
  <2> SUFFICES ASSUME NEW b \in Web!Tabs
               PROVE  /\ Cardinality(HelloAt(wire[t][b] \o ms)) <= Cardinality(HelloAt(wire[t][b]))
                      /\ On(Web!Hello, wire[t][b]) => On(Web!Hello, wire[t][b] \o ms)
    OBVIOUS
  <2>1. PICK q \in Seq(Web!Envelope) : q = wire[t][b]
    BY <1>5
  <2>2. /\ Cardinality(HelloAt(q \o <<x>>)) <= Cardinality(HelloAt(q))
        /\ On(Web!Hello, q) => On(Web!Hello, q \o <<x>>)
    BY HelloOne
  <2> QED
    BY <1>2, <2>1, <2>2
<1>7. \A a, b \in Web!Tabs : Cardinality(HelloAt(wire[a][b])) \in Nat
  BY <1>1, HelloCounts
<1>8. \A a, b \in Web!Tabs : On(Web!Hello, wire[a][b]) => On(Web!Hello, wire'[a][b])
  BY <1>4, <1>6
<1>9. \A a, b \in Web!Tabs :
        Cardinality(HelloAt(wire'[a][b])) <= Cardinality(HelloAt(wire[a][b]))
  <2>1. \A b \in Web!Tabs : Posting(t, b) =>
          Cardinality(HelloAt(wire'[t][b])) <= Cardinality(HelloAt(wire[t][b]))
    BY <1>4, <1>6
  <2>2. \A a, b \in Web!Tabs : ~(a = t /\ Posting(t, b)) =>
          Cardinality(HelloAt(wire'[a][b])) <= Cardinality(HelloAt(wire[a][b]))
    BY <1>4, <1>7
  <2> QED
    BY <2>1, <2>2
<1>10. \A a, b \in Web!Tabs : wire[a][b] = <<>> =>
         wire'[a][b] = <<>> \/ (tab[a] = "open" /\ tab[b] = "open")
  BY <1>4 DEF Posting
<1> QED
  BY <1>8, <1>9, <1>10, MetQuiet

LEMMA MetHearsPosts ==
  ASSUME Mounted, Met, TabTypes', UNCHANGED <<mounts, tab, seen>>,
         NEW s \in Web!Tabs, NEW t \in Web!Tabs, Web!Front(s, t) # Web!Hello,
         NEW x \in Web!Envelope, x # Web!Hello, HearsAndPosts(s, t, <<x>>)
  PROVE  Met'
<1>1. TabTypes /\ wire[s][t] # <<>>
  BY DEF Met, HearsAndPosts
<1>0. PICK ms : ms = <<x>>
  OBVIOUS
<1>2. ms \in Seq(Web!Envelope) /\ ms = <<x>>
  BY <1>0
<1>3. HearsAndPosts(s, t, ms)
  BY <1>2
<1>4. /\ wire'[s][t] = Tail(wire[s][t])
      /\ \A b \in Web!Tabs : Posting(t, b) => wire'[t][b] = wire[t][b] \o ms
      /\ \A a, b \in Web!Tabs :
           ~(a = t /\ Posting(t, b)) /\ ~(a = s /\ b = t) => wire'[a][b] = wire[a][b]
  <2>1. ms \in Seq(Web!Envelope)
    BY <1>2
  <2> QED BY <1>1, <1>3, <2>1, HearPostIs
<1>5. \A a, b \in Web!Tabs : wire[a][b] \in Seq(Web!Envelope)
  BY <1>1 DEF TabTypes
<1>6. \A b \in Web!Tabs :
        /\ Cardinality(HelloAt(wire[t][b] \o ms)) <= Cardinality(HelloAt(wire[t][b]))
        /\ On(Web!Hello, wire[t][b]) => On(Web!Hello, wire[t][b] \o ms)
  <2> SUFFICES ASSUME NEW b \in Web!Tabs
               PROVE  /\ Cardinality(HelloAt(wire[t][b] \o ms)) <= Cardinality(HelloAt(wire[t][b]))
                      /\ On(Web!Hello, wire[t][b]) => On(Web!Hello, wire[t][b] \o ms)
    OBVIOUS
  <2>1. PICK q \in Seq(Web!Envelope) : q = wire[t][b]
    BY <1>5
  <2>2. /\ Cardinality(HelloAt(q \o <<x>>)) <= Cardinality(HelloAt(q))
        /\ On(Web!Hello, q) => On(Web!Hello, q \o <<x>>)
    BY HelloOne
  <2> QED
    BY <1>2, <2>1, <2>2
<1>7. Head(wire[s][t]) # Web!Hello
  BY DEF Web!Front
<1>8. /\ Cardinality(HelloAt(Tail(wire[s][t]))) <= Cardinality(HelloAt(wire[s][t]))
      /\ On(Web!Hello, wire[s][t]) => On(Web!Hello, Tail(wire[s][t]))
  BY <1>1, <1>5, <1>7, HelloTail
<1>9. \A a, b \in Web!Tabs : Cardinality(HelloAt(wire[a][b])) \in Nat
  BY <1>1, HelloCounts
<1>10. ASSUME NEW a \in Web!Tabs, NEW b \in Web!Tabs
       PROVE  /\ On(Web!Hello, wire[a][b]) => On(Web!Hello, wire'[a][b])
              /\ Cardinality(HelloAt(wire'[a][b])) <= Cardinality(HelloAt(wire[a][b]))
  <2>1. CASE a = t /\ Posting(t, b)
    BY <1>4, <1>6, <2>1
  <2>2. CASE a = s /\ b = t
    BY <1>4, <1>8, <2>2
  <2>3. CASE ~(a = t /\ Posting(t, b)) /\ ~(a = s /\ b = t)
    BY <1>4, <1>9, <2>3
  <2> QED
    BY <2>1, <2>2, <2>3
<1>11. tab[t] = "open"
  BY <1>1 DEF Met
<1>12. \A a, b \in Web!Tabs : wire[a][b] = <<>> =>
         wire'[a][b] = <<>> \/ (tab[a] = "open" /\ tab[b] = "open")
  BY <1>1, <1>4, <1>11 DEF Posting
<1>13. \A a, b \in Web!Tabs : On(Web!Hello, wire[a][b]) => On(Web!Hello, wire'[a][b])
  BY <1>10
<1>14. \A a, b \in Web!Tabs :
         Cardinality(HelloAt(wire'[a][b])) <= Cardinality(HelloAt(wire[a][b]))
  BY <1>10
<1> QED
  BY <1>12, <1>13, <1>14, MetQuiet

\* As many announcements as there are mounts.
LEMMA HelloMany ==
  ASSUME NEW n \in Nat \ {0}, NEW ms, ms = [i \in 1..n |-> Web!Hello]
  PROVE  /\ ms \in Seq(Web!Envelope) /\ <<>> \o ms = ms
         /\ On(Web!Hello, ms) /\ Cardinality(HelloAt(ms)) = n
<1>1. ms \in Seq(Web!Envelope) /\ Len(ms) = n
  BY EnvelopeTypes
<1>2. HelloAt(ms) = 1..n
  BY <1>1 DEF HelloAt
<1>3. Cardinality(1..n) = n
  BY FS_Interval
<1>4. 1 \in 1..Len(ms) /\ ms[1] = Web!Hello
  BY <1>1
<1>5. <<>> \o ms = ms
  BY <1>1
<1> QED
  BY <1>1, <1>2, <1>3, <1>4, <1>5 DEF On

LEMMA MetOpen ==
  ASSUME Mounted, Met, TabTypes', NEW t \in Web!Tabs, Web!Open(t)
  PROVE  Met'
<1>1. TabTypes /\ mounts \in Nat \ {0}
  BY DEF Met, TabTypes
<1>2. PICK ms : ms = [i \in 1..mounts |-> Web!Hello]
  OBVIOUS
<1>3. /\ ms \in Seq(Web!Envelope) /\ <<>> \o ms = ms
      /\ On(Web!Hello, ms) /\ Cardinality(HelloAt(ms)) = mounts
  BY <1>1, <1>2, HelloMany
<1>4. /\ tab[t] = "unopened" /\ tab' = [tab EXCEPT ![t] = "open"]
      /\ wire' = Web!Posted(wire, t, ms) /\ UNCHANGED <<mounts, seen>>
  BY <1>2 DEF Web!Open
<1>5. /\ \A b \in Web!Tabs : Posting(t, b) => wire'[t][b] = wire[t][b] \o ms
      /\ \A a, b \in Web!Tabs : ~(a = t /\ Posting(t, b)) => wire'[a][b] = wire[a][b]
  BY <1>1, <1>3, <1>4, PostIs
<1>6. /\ seen[t] = {} /\ \A p \in Web!Tabs : t \notin seen[p] /\ wire[t][p] = <<>>
      /\ \A s, p \in Web!Tabs : tab[p] # "open" => wire[s][p] = <<>>
  BY <1>4 DEF Met
<1>7. \A b \in Web!Tabs : Posting(t, b) => wire'[t][b] = ms
  BY <1>3, <1>5, <1>6
<1>8. tab'[t] = "open" /\ \A p \in Web!Tabs : p # t => tab'[p] = tab[p]
  BY <1>1, <1>4 DEF TabTypes
<1>9. ASSUME NEW u \in Web!Tabs, tab'[u] = "unopened"
      PROVE  seen'[u] = {} /\ \A p \in Web!Tabs : u \notin seen'[p] /\ wire'[u][p] = <<>>
  <2>1. u # t /\ tab[u] = "unopened"
    BY <1>8, <1>9
  <2>2. seen[u] = {} /\ \A p \in Web!Tabs : u \notin seen[p] /\ wire[u][p] = <<>>
    BY <2>1 DEF Met
  <2> QED
    BY <1>4, <1>5, <2>1, <2>2
<1>10. \A s, p \in Web!Tabs : tab'[p] # "open" => wire'[s][p] = <<>>
  BY <1>5, <1>6, <1>8 DEF Posting
<1>11. ASSUME NEW u \in Web!Tabs, NEW p \in Web!Tabs, u # p, tab'[u] = "open", tab'[p] = "open"
       PROVE  \/ p \in seen'[u]
              \/ On(Web!Hello, wire'[p][u])
              \/ u \notin seen'[p] /\ On(Web!Hello, wire'[u][p])
  <2>1. CASE u = t
    <3>1. Posting(t, p)
      BY <1>8, <1>11, <2>1 DEF Posting
    <3> QED
      BY <1>3, <1>4, <1>6, <1>7, <2>1, <3>1
  <2>2. CASE p = t
    <3>1. Posting(t, u)
      BY <1>8, <1>11, <2>2 DEF Posting
    <3> QED
      BY <1>3, <1>7, <2>2, <3>1
  <2>3. CASE u # t /\ p # t
    <3>1. Bound(u, p)
      BY <1>8, <1>11, <2>3 DEF Met
    <3> QED
      BY <1>4, <1>5, <2>3, <3>1 DEF Bound
  <2> QED
    BY <2>1, <2>2, <2>3
<1>12. ASSUME NEW a \in Web!Tabs, NEW b \in Web!Tabs
       PROVE  Cardinality(HelloAt(wire'[a][b])) <= mounts' + Cardinality(seen'[a])
  <2>1. CASE a = t /\ Posting(t, b)
    <3>1. Cardinality(HelloAt(wire'[a][b])) = mounts
      BY <1>3, <1>7, <2>1
    <3>2. Cardinality(seen[a]) \in Nat
      BY <1>1, SeenFinite
    <3> QED
      BY <1>1, <1>4, <3>1, <3>2
  <2>2. CASE ~(a = t /\ Posting(t, b))
    <3>1. wire'[a][b] = wire[a][b]
      BY <1>5, <2>2
    <3>2. Cardinality(HelloAt(wire[a][b])) <= mounts + Cardinality(seen[a])
      BY DEF Met
    <3> QED
      BY <1>4, <3>1, <3>2
  <2> QED
    BY <2>1, <2>2
<1> QED
  BY <1>9, <1>10, <1>11, <1>12, MetIs

LEMMA MetClose ==
  ASSUME Mounted, Met, TabTypes', NEW t \in Web!Tabs, Web!Close(t)
  PROVE  Met'
<1>1. TabTypes /\ mounts \in Nat
  BY DEF Met, TabTypes
<1>2. /\ \A a, b \in Web!Tabs : wire'[a][b] = IF b = t THEN <<>> ELSE wire[a][b]
      /\ UNCHANGED <<mounts, seen>>
  BY <1>1 DEF Web!Close, TabTypes
<1>3. tab'[t] = "gone" /\ \A p \in Web!Tabs : p # t => tab'[p] = tab[p]
  BY <1>1 DEF Web!Close, TabTypes
<1>4. ASSUME NEW u \in Web!Tabs, tab'[u] = "unopened"
      PROVE  seen'[u] = {} /\ \A p \in Web!Tabs : u \notin seen'[p] /\ wire'[u][p] = <<>>
  <2>1. u # t /\ tab[u] = "unopened"
    BY <1>3, <1>4
  <2>2. seen[u] = {} /\ \A p \in Web!Tabs : u \notin seen[p] /\ wire[u][p] = <<>>
    BY <2>1 DEF Met
  <2> QED
    BY <1>2, <2>2
<1>5. \A s, p \in Web!Tabs : tab'[p] # "open" => wire'[s][p] = <<>>
  <2>1. \A s, p \in Web!Tabs : tab[p] # "open" => wire[s][p] = <<>>
    BY DEF Met
  <2> QED
    BY <1>2, <1>3, <2>1
<1>6. ASSUME NEW u \in Web!Tabs, NEW p \in Web!Tabs, u # p, tab'[u] = "open", tab'[p] = "open"
      PROVE  \/ p \in seen'[u]
             \/ On(Web!Hello, wire'[p][u])
             \/ u \notin seen'[p] /\ On(Web!Hello, wire'[u][p])
  <2>1. u # t /\ p # t
    BY <1>3, <1>6
  <2>2. Bound(u, p)
    BY <1>3, <1>6, <2>1 DEF Met
  <2> QED
    BY <1>2, <2>1, <2>2 DEF Bound
<1>7. ASSUME NEW a \in Web!Tabs, NEW b \in Web!Tabs
      PROVE  Cardinality(HelloAt(wire'[a][b])) <= mounts' + Cardinality(seen'[a])
  <2>1. Cardinality(seen[a]) \in Nat
    BY <1>1, SeenFinite
  <2>2. Cardinality(HelloAt(<<>>)) = 0
    BY FS_EmptySet DEF HelloAt
  <2>3. Cardinality(HelloAt(wire[a][b])) <= mounts + Cardinality(seen[a])
    BY DEF Met
  <2>4. Cardinality(HelloAt(wire'[a][b])) <= mounts + Cardinality(seen[a])
    BY <1>1, <1>2, <2>1, <2>2, <2>3
  <2> QED
    BY <1>2, <2>4
<1> QED
  BY <1>4, <1>5, <1>6, <1>7, MetIs

\* A hello heard again is forgotten; the tab it is from is known.
LEMMA MetHelloAgain ==
  ASSUME Mounted, Met, TabTypes', UNCHANGED <<mounts, tab, seen>>,
         NEW s \in Web!Tabs, NEW t \in Web!Tabs, wire[s][t] # <<>>, s \in seen[t],
         wire' = Web!Heard(s, t)
  PROVE  Met'
<1>1. TabTypes /\ mounts \in Nat
  BY DEF Met, TabTypes
<1>2. /\ wire'[s][t] = Tail(wire[s][t])
      /\ \A a, b \in Web!Tabs : ~(a = s /\ b = t) => wire'[a][b] = wire[a][b]
  BY <1>1, HearIs
<1>3. wire[s][t] \in Seq(Web!Envelope)
  BY <1>1 DEF TabTypes
<1>4. Cardinality(HelloAt(Tail(wire[s][t]))) <= Cardinality(HelloAt(wire[s][t]))
  BY <1>3, HelloTail
<1>5. ASSUME NEW u \in Web!Tabs, tab'[u] = "unopened"
      PROVE  seen'[u] = {} /\ \A p \in Web!Tabs : u \notin seen'[p] /\ wire'[u][p] = <<>>
  <2>1. seen[u] = {} /\ \A p \in Web!Tabs : u \notin seen[p] /\ wire[u][p] = <<>>
    BY <1>5 DEF Met
  <2> QED
    BY <1>2, <2>1
<1>6. ASSUME NEW a \in Web!Tabs, NEW p \in Web!Tabs, tab'[p] # "open"
      PROVE  wire'[a][p] = <<>>
  <2>1. wire[a][p] = <<>>
    BY <1>6 DEF Met
  <2> QED
    BY <1>2, <2>1
<1>7. ASSUME NEW u \in Web!Tabs, NEW p \in Web!Tabs, u # p, tab'[u] = "open", tab'[p] = "open"
      PROVE  \/ p \in seen'[u]
             \/ On(Web!Hello, wire'[p][u])
             \/ u \notin seen'[p] /\ On(Web!Hello, wire'[u][p])
  <2>1. Bound(u, p)
    BY <1>7 DEF Met
  <2>2. CASE u = t /\ p = s
    BY <2>2
  <2>3. CASE u = s /\ p = t
    <3>1. wire'[t][s] = wire[t][s]
      BY <1>2, <1>7, <2>3
    <3> QED
      BY <2>1, <2>3, <3>1 DEF Bound
  <2>4. CASE ~(u = t /\ p = s) /\ ~(u = s /\ p = t)
    BY <1>2, <2>1, <2>4 DEF Bound
  <2> QED
    BY <2>2, <2>3, <2>4
<1>8. ASSUME NEW a \in Web!Tabs, NEW b \in Web!Tabs
      PROVE  Cardinality(HelloAt(wire'[a][b])) <= mounts' + Cardinality(seen'[a])
  <2>1. Cardinality(seen[a]) \in Nat /\ Cardinality(HelloAt(wire[a][b])) \in Nat
    BY <1>1, SeenFinite, HelloCounts
  <2>2. Cardinality(HelloAt(wire[a][b])) <= mounts + Cardinality(seen[a])
    BY DEF Met
  <2>3. CASE a = s /\ b = t
    <3>1. Cardinality(HelloAt(Tail(wire[s][t]))) \in Nat
      <4>1. Tail(wire[s][t]) \in Seq(Web!Envelope)
        BY <1>3, HeadTailProperties
      <4> QED
        BY <4>1, HelloFinite
    <3> QED
      BY <1>1, <1>2, <1>4, <2>1, <2>2, <2>3, <3>1
  <2>4. CASE ~(a = s /\ b = t)
    BY <1>2, <2>2, <2>4
  <2> QED
    BY <2>3, <2>4
<1> QED
  BY <1>5, <1>6, <1>7, <1>8, MetIs

\* The first hello is answered: one announcement more, for one tab more heard of.
LEMMA MetHelloFirst ==
  ASSUME Mounted, Met, TabTypes', UNCHANGED <<mounts, tab>>,
         NEW s \in Web!Tabs, NEW t \in Web!Tabs, s \notin seen[t],
         seen' = [seen EXCEPT ![t] = @ \cup {s}], HearsAndPosts(s, t, <<Web!Hello>>)
  PROVE  Met'
<1>1. TabTypes /\ wire[s][t] # <<>> /\ mounts \in Nat /\ Web!Hello \in Web!Envelope
  BY EnvelopeTypes DEF Met, TabTypes, HearsAndPosts
<1>2. PICK ms : ms = <<Web!Hello>>
  OBVIOUS
<1>3. ms \in Seq(Web!Envelope) /\ HearsAndPosts(s, t, ms)
  BY <1>1, <1>2
<1>4. /\ wire'[s][t] = Tail(wire[s][t])
      /\ \A b \in Web!Tabs : Posting(t, b) => wire'[t][b] = wire[t][b] \o ms
      /\ \A a, b \in Web!Tabs :
           ~(a = t /\ Posting(t, b)) /\ ~(a = s /\ b = t) => wire'[a][b] = wire[a][b]
  BY <1>1, <1>3, HearPostIs
<1>5. \A a, b \in Web!Tabs : wire[a][b] \in Seq(Web!Envelope)
  BY <1>1 DEF TabTypes
<1>6. ASSUME NEW b \in Web!Tabs
      PROVE  /\ Cardinality(HelloAt(wire[t][b] \o ms)) <= Cardinality(HelloAt(wire[t][b])) + 1
             /\ On(Web!Hello, wire[t][b] \o ms)
  <2>1. PICK q \in Seq(Web!Envelope) : q = wire[t][b]
    BY <1>5
  <2>2. /\ Cardinality(HelloAt(q \o <<Web!Hello>>)) <= Cardinality(HelloAt(q)) + 1
        /\ On(Web!Hello, q \o <<Web!Hello>>)
    BY <1>1, HelloOne
  <2> QED
    BY <1>2, <2>1, <2>2
<1>7. Tail(wire[s][t]) \in Seq(Web!Envelope)
  BY <1>1, <1>5, HeadTailProperties
<1>8. /\ Cardinality(HelloAt(Tail(wire[s][t]))) <= Cardinality(HelloAt(wire[s][t]))
      /\ Cardinality(HelloAt(Tail(wire[s][t]))) \in Nat
  BY <1>1, <1>5, <1>7, HelloTail, HelloFinite
<1>9. /\ seen'[t] = seen[t] \cup {s}
      /\ \A p \in Web!Tabs : p # t => seen'[p] = seen[p]
  BY <1>1 DEF TabTypes
<1>10. tab[t] = "open" /\ tab[s] # "unopened"
  BY <1>1 DEF Met
<1>11. ASSUME NEW u \in Web!Tabs, tab'[u] = "unopened"
       PROVE  seen'[u] = {} /\ \A p \in Web!Tabs : u \notin seen'[p] /\ wire'[u][p] = <<>>
  <2>1. seen[u] = {} /\ \A p \in Web!Tabs : u \notin seen[p] /\ wire[u][p] = <<>>
    BY <1>11 DEF Met
  <2>2. u # t /\ u # s
    BY <1>10, <1>11
  <2>3. seen'[u] = {} /\ \A p \in Web!Tabs : u \notin seen'[p]
    BY <1>9, <2>1, <2>2
  <2> QED
    BY <1>4, <2>1, <2>2, <2>3
<1>12. ASSUME NEW a \in Web!Tabs, NEW p \in Web!Tabs, tab'[p] # "open"
       PROVE  wire'[a][p] = <<>>
  <2>1. wire[a][p] = <<>> /\ p # t /\ ~Posting(t, p)
    BY <1>10, <1>12 DEF Met, Posting
  <2> QED
    BY <1>4, <2>1
<1>13. ASSUME NEW u \in Web!Tabs, NEW p \in Web!Tabs, u # p, tab'[u] = "open", tab'[p] = "open"
       PROVE  \/ p \in seen'[u]
              \/ On(Web!Hello, wire'[p][u])
              \/ u \notin seen'[p] /\ On(Web!Hello, wire'[u][p])
  <2>1. Bound(u, p)
    BY <1>13 DEF Met
  <2>2. CASE u = t
    <3>1. CASE p = s
      BY <1>9, <2>2, <3>1
    <3>2. CASE p # s
      <4>1. wire'[p][t] = wire[p][t] /\ seen'[p] = seen[p] /\ seen[t] \subseteq seen'[t]
        BY <1>4, <1>9, <1>13, <2>2, <3>2
      <4>2. Posting(t, p)
        BY <1>13, <2>2 DEF Posting
      <4>3. On(Web!Hello, wire'[t][p])
        BY <1>4, <1>6, <4>2
      <4> QED
        BY <2>1, <2>2, <4>1, <4>3 DEF Bound
    <3> QED
      BY <3>1, <3>2
  <2>3. CASE p = t
    <3>1. Posting(t, u)
      BY <1>13, <2>3 DEF Posting
    <3> QED
      BY <1>4, <1>6, <2>3, <3>1
  <2>4. CASE u # t /\ p # t
    BY <1>4, <1>9, <2>1, <2>4 DEF Bound
  <2> QED
    BY <2>2, <2>3, <2>4
<1>14. \A a, b \in Web!Tabs : Cardinality(HelloAt(wire[a][b])) <= mounts + Cardinality(seen[a])
  BY DEF Met
<1>15. \A a, b \in Web!Tabs : /\ Cardinality(HelloAt(wire[a][b])) \in Nat
                              /\ IsFiniteSet(seen[a]) /\ Cardinality(seen[a]) \in Nat
  BY <1>1, HelloCounts, SeenFinite
<1>16. Cardinality(seen'[t]) = Cardinality(seen[t]) + 1
  BY <1>9, <1>15, FS_AddElement
<1>17. ASSUME NEW a \in Web!Tabs, NEW b \in Web!Tabs
       PROVE  Cardinality(HelloAt(wire'[a][b])) <= mounts' + Cardinality(seen'[a])
  <2>1. PICK h, k, h2, k2 : /\ h = Cardinality(HelloAt(wire[a][b])) /\ k = Cardinality(seen[a])
                            /\ h2 = Cardinality(HelloAt(wire'[a][b])) /\ k2 = Cardinality(seen'[a])
    OBVIOUS
  <2>2. h \in Nat /\ k \in Nat
    BY <1>15, <2>1
  <2>3. h <= mounts + k
    BY <1>14, <2>1
  <2>4. k2 = IF a = t THEN k + 1 ELSE k
    BY <1>9, <1>16, <2>1
  <2>5. CASE a = t /\ Posting(t, b)
    <3>1. HelloAt(wire'[a][b]) = HelloAt(wire[t][b] \o ms)
      BY <1>4, <2>5
    <3>2. h2 <= h + 1
      BY <1>6, <2>1, <2>5, <3>1
    <3>3. h2 \in Nat
      <4>1. wire[t][b] \o ms \in Seq(Web!Envelope)
        BY <1>3, <1>5
      <4> QED
        BY <2>1, <3>1, <4>1, HelloFinite
    <3>4. h2 <= mounts + k2
      BY <1>1, <2>2, <2>3, <2>4, <2>5, <3>2, <3>3
    <3> QED
      BY <2>1, <3>4
  <2>6. CASE a = s /\ b = t
    <3>1. h2 <= h /\ h2 \in Nat
      BY <1>4, <1>8, <2>1, <2>6
    <3>2. h2 <= mounts + k2
      BY <1>1, <2>2, <2>3, <2>4, <3>1
    <3> QED
      BY <2>1, <3>2
  <2>7. CASE ~(a = t /\ Posting(t, b)) /\ ~(a = s /\ b = t)
    <3>1. h2 = h
      BY <1>4, <2>1, <2>7
    <3>2. h2 <= mounts + k2
      BY <1>1, <2>2, <2>3, <2>4, <3>1
    <3> QED
      BY <2>1, <3>2
  <2> QED
    BY <2>5, <2>6, <2>7
<1> QED
  BY <1>11, <1>12, <1>13, <1>17, MetIs

LEMMA MetStep ==
  ASSUME Mounted, Met, [Web!Next]_(Web!tabVars)
  PROVE  Met'
<1>1. TabTypes /\ TabTypes'
  BY TabTypesStep DEF Met
<1>2. \A t \in Web!Tabs : Web!Open(t) => Met'
  BY <1>1, MetOpen
<1>3. \A t \in Web!Tabs : Web!Close(t) => Met'
  BY <1>1, MetClose
<1>4. ASSUME UNCHANGED <<mounts, tab, seen, wire>>
      PROVE  Met'
  <2>1. \A a, b \in Web!Tabs : Cardinality(HelloAt(wire[a][b])) \in Nat
    BY <1>1, HelloCounts
  <2>2. /\ \A a, b \in Web!Tabs : On(Web!Hello, wire[a][b]) => On(Web!Hello, wire'[a][b])
        /\ \A a, b \in Web!Tabs :
             Cardinality(HelloAt(wire'[a][b])) <= Cardinality(HelloAt(wire[a][b]))
        /\ \A a, b \in Web!Tabs : wire[a][b] = <<>> =>
             wire'[a][b] = <<>> \/ (tab[a] = "open" /\ tab[b] = "open")
    BY <1>4, <2>1
  <2> QED
    BY <1>1, <1>4, <2>2, MetQuiet
<1>5. \A t \in Web!Tabs : Web!WaitUntil(t) => Met'
  BY <1>4 DEF Web!WaitUntil
<1>6. \A t, p \in Web!Tabs : Web!ChannelOpens(t, p) => Met'
  BY <1>4 DEF Web!ChannelOpens
<1>7. ASSUME NEW t \in Web!Tabs, NEW p \in Web!Tabs, Web!SendFileTo(t, p)
      PROVE  Met'
  <2>1. CASE session[t][p] # "none"
    BY <1>4, <1>7, <2>1 DEF Web!SendFileTo
  <2>2. CASE session[t][p] = "none"
    <3>1. PICK x \in Web!Envelope : x = Web!Signal("offer", p)
      BY EnvelopeTypes
    <3>2. x # Web!Hello
      BY <3>1, EnvelopeTypes
    <3>3. /\ tab[t] = "open" /\ wire' = Web!Posted(wire, t, <<x>>)
          /\ UNCHANGED <<mounts, tab, seen>>
      BY <1>7, <2>2, <3>1 DEF Web!SendFileTo
    <3> QED
      BY <1>1, <3>2, <3>3, MetPosts
  <2> QED
    BY <2>1, <2>2
<1>8. ASSUME NEW s \in Web!Tabs, NEW t \in Web!Tabs, Web!OnHello(s, t)
      PROVE  Met'
  <2>1. wire[s][t] # <<>> /\ UNCHANGED <<mounts, tab>>
    BY <1>8 DEF Web!OnHello
  <2>2. CASE s \in seen[t]
    <3>1. wire' = Web!Heard(s, t) /\ seen' = seen
      BY <1>8, <2>2 DEF Web!OnHello
    <3> QED
      BY <1>1, <2>1, <2>2, <3>1, MetHelloAgain
  <2>3. CASE s \notin seen[t]
    <3>1. /\ seen' = [seen EXCEPT ![t] = @ \cup {s}]
          /\ HearsAndPosts(s, t, <<Web!Hello>>)
      BY <1>8, <2>3 DEF Web!OnHello, HearsAndPosts
    <3> QED
      BY <1>1, <2>1, <2>3, <3>1, MetHelloFirst
  <2> QED
    BY <2>2, <2>3
<1>9. ASSUME NEW s \in Web!Tabs, NEW t \in Web!Tabs, Web!OnOthers(s, t) \/ Web!OnAnswer(s, t)
      PROVE  Met'
  <2>1. wire[s][t] # <<>> /\ wire' = Web!Heard(s, t) /\ UNCHANGED <<mounts, tab, seen>>
    BY <1>9 DEF Web!OnOthers, Web!OnAnswer
  <2>2. Web!Front(s, t) # Web!Hello
    BY <1>9, EnvelopeTypes DEF Web!OnOthers, Web!OnAnswer
  <2> QED
    BY <1>1, <2>1, <2>2, MetHears
<1>10. ASSUME NEW s \in Web!Tabs, NEW t \in Web!Tabs, Web!OnOffer(s, t)
       PROVE  Met'
  <2>1. PICK x \in Web!Envelope : x = Web!Signal("answer", s)
    BY EnvelopeTypes
  <2>2. x # Web!Hello
    BY <2>1, EnvelopeTypes
  <2>3. HearsAndPosts(s, t, <<x>>) /\ UNCHANGED <<mounts, tab, seen>>
    BY <1>10, <2>1 DEF Web!OnOffer, HearsAndPosts
  <2>4. Web!Front(s, t) # Web!Hello
    BY <1>10, EnvelopeTypes DEF Web!OnOffer
  <2> QED
    BY <1>1, <2>2, <2>3, <2>4, MetHearsPosts
<1>11. CASE UNCHANGED Web!tabVars
  BY <1>4, <1>11 DEF Web!tabVars
<1> QED
  BY <1>2, <1>3, <1>5, <1>6, <1>7, <1>8, <1>9, <1>10, <1>11 DEF Web!Next, Web!Hear

\* In the web demo two open tabs list each other once no announcement is left between
\* them, in whichever order they opened, and between two tabs there is never more than an
\* announcement for each mount and for each tab heard of, so announcing back ends
\* (loopbackSignal.ts): for any number of tabs and mounts.
THEOREM TabsMeet == ASSUME Mounted PROVE Web!Spec => []Discovered
<1>1. Web!Init => Met
  BY MetInit
<1>2. Met /\ [Web!Next]_(Web!tabVars) => Met'
  BY MetStep
<1>3. Met => Discovered
  BY MetDiscovers DEF Discovered
<1> QED
  BY <1>1, <1>2, <1>3, PTL DEF Web!Spec

(***************************************************************************)
(* Parts: side by side, each part does what its own specification says, so *)
(* what is proved of a part by itself holds of it here.                    *)
(***************************************************************************)

\* Every sequence of messages a client sends is one the relay could have received.
LEMMA GreetingTyped ==
  /\ Greeting \in Seq({"hello", "join", "signal"})
  /\ <<"signal">> \in Seq({"hello", "join", "signal"})
  /\ <<>> \in Seq({"hello", "join", "signal"})
<1>1. PICK M : M = {"hello", "join", "signal"}
  OBVIOUS
<1>2. "hello" \in M /\ "join" \in M /\ "signal" \in M
  BY <1>1
<1>3. <<"hello", "join">> \in Seq(M) /\ <<"signal">> \in Seq(M) /\ <<>> \in Seq(M)
  BY <1>2
<1> QED BY <1>1, <1>3 DEF Greeting

LEMMA ReceivedTyped ==
  ASSUME RelayTypeOK, NEW i \in Slots, NEW ms \in Seq({"hello", "join", "signal"})
  PROVE  Received(i, ms) \in [Slots -> Seq({"hello", "join", "signal"})]
<1>1. PICK M : M = {"hello", "join", "signal"}
  OBVIOUS
<1>2. PICK s \in Seq(M) : s = got[i] \o ms
  <2>1. got[i] \in Seq(M) /\ ms \in Seq(M)
    BY <1>1 DEF RelayTypeOK
  <2> QED BY <2>1, ConcatProperties
<1>3. PICK k \in 0..Len(s) : k = IF Len(s) < 3 THEN Len(s) ELSE 3
  BY <1>2, LenProperties
<1>4. SubSeq(s, 1, k) \in Seq(M)
  BY <1>2, <1>3, LenProperties, SubSeqProperties
<1>5. Received(i, ms) = [got EXCEPT ![i] = SubSeq(s, 1, k)]
  BY <1>2, <1>3 DEF Received, UpTo
<1>6. got \in [Slots -> Seq(M)]
  BY <1>1 DEF RelayTypeOK
<1> QED BY <1>1, <1>4, <1>5, <1>6

LEMMA OpenTyped ==
  ASSUME RelayTypeOK, NEW i \in Slots, Open(i)
  PROVE  /\ sock' \in [Slots -> {"none", "connecting", "open", "closing"}]
         /\ got' \in [Slots -> Seq({"hello", "join", "signal"})]
         /\ ws' \in Slots /\ delay' \in {1, 2, 4, 8, 16}
<1>1. PICK M : M = Seq({"hello", "join", "signal"})
  OBVIOUS
<1>2. got \in [Slots -> M] /\ Greeting \in M /\ <<>> \in M
  BY <1>1, GreetingTyped DEF RelayTypeOK
<1>3. got' = [got EXCEPT ![i] = <<>>] \/ got' = [got EXCEPT ![i] = Greeting]
  BY DEF Open, OpenTs, OpenDart
<1>4. got' \in [Slots -> M]
  BY <1>2, <1>3
<1>5. /\ sock' \in [Slots -> {"none", "connecting", "open", "closing"}]
      /\ ws' \in Slots /\ delay' \in {1, 2, 4, 8, 16}
  BY DEF RelayTypeOK, Open, OpenTs, OpenDart
<1> QED BY <1>1, <1>4, <1>5

LEMMA EndedTyped ==
  ASSUME RelayTypeOK, NEW i \in Slots, Ended(i)
  PROVE  RelayTypeOK'
<1>1. Doubled(delay) \in {1, 2, 4, 8, 16}
  BY DEF RelayTypeOK, Doubled
<1>2. timer' \in [Slots -> {0, 1, 2, 4, 8, 16}] /\ delay' \in {1, 2, 4, 8, 16}
  BY <1>1 DEF RelayTypeOK, Ended
<1>3. failures' \in 0..5
  BY DEF RelayTypeOK, Ended
<1> QED BY <1>2, <1>3 DEF RelayTypeOK, Ended

LEMMA RelayTypesStep ==
  ASSUME MaxConnects \in Nat, RelayTypeOK, [RelayNext]_relayVars
  PROVE  RelayTypeOK'
<1>1. CASE Connect
  <2>1. PICK i \in Slots : Open(i)
    BY <1>1 DEF Connect
  <2>2. connects' \in 0..MaxConnects
    BY <1>1 DEF Connect, RelayTypeOK
  <2> QED BY <1>1, <2>1, <2>2, OpenTyped DEF Connect, RelayTypeOK
<1>2. CASE Close
  BY <1>2 DEF Close, RelayTypeOK
<1>3. CASE SendSignal
  <2>1. CanSend(ws) => ws \in Slots
    BY DEF CanSend, RelayTypeOK
  <2>2. CanSend(ws) => Received(ws, <<"signal">>) \in [Slots -> Seq({"hello", "join", "signal"})]
    BY <2>1, ReceivedTyped, GreetingTyped
  <2> QED BY <1>3, <2>2 DEF SendSignal, RelayTypeOK
<1>4. CASE RelayTurns
  BY <1>4 DEF RelayTurns, RelayTypeOK
<1>5. ASSUME NEW i \in Slots, OnOpen(i) PROVE RelayTypeOK'
  <2>1. ws = i \/ CanSend(ws) => ws \in Slots
    BY DEF CanSend, RelayTypeOK
  <2>2. ws = i \/ CanSend(ws) =>
          Received(ws, Greeting) \in [Slots -> Seq({"hello", "join", "signal"})]
    BY <2>1, ReceivedTyped, GreetingTyped
  <2>3. got' \in [Slots -> Seq({"hello", "join", "signal"})] /\ delay' \in {1, 2, 4, 8, 16}
    BY <1>5, <2>2 DEF OnOpen, RelayTypeOK
  <2>4. /\ sock' \in [Slots -> {"none", "connecting", "open", "closing"}]
        /\ failures' = 0
        /\ UNCHANGED <<flavor, timer, ws, closedByUser, up, connects>>
    BY <1>5 DEF OnOpen, RelayTypeOK
  <2> QED BY <2>3, <2>4 DEF RelayTypeOK
<1>6. ASSUME NEW i \in Slots, Ended(i) PROVE RelayTypeOK'
  BY <1>6, EndedTyped
<1>7. ASSUME NEW i \in Slots, Closes(i) PROVE RelayTypeOK'
  <2>1. CASE flavor = "ts"
    BY <1>6, <1>7, <2>1 DEF Closes
  <2> QED BY <1>7, <2>1 DEF Closes, RelayTypeOK
<1>8. ASSUME NEW i \in Slots, TimerFires(i) PROVE RelayTypeOK'
  <2>1. timer' \in [Slots -> {0, 1, 2, 4, 8, 16}]
    BY <1>8 DEF TimerFires, RelayTypeOK
  <2>2. CASE closedByUser
    BY <1>8, <2>1, <2>2 DEF TimerFires, RelayTypeOK
  <2>3. CASE ~closedByUser
    BY <1>8, <2>1, <2>3, OpenTyped DEF TimerFires, RelayTypeOK
  <2> QED BY <2>2, <2>3
<1>9. CASE UNCHANGED relayVars
  BY <1>9 DEF relayVars, RelayTypeOK
<1>10. ASSUME NEW i \in Slots, Fails(i) \/ Breaks(i) PROVE RelayTypeOK'
  BY <1>6, <1>10 DEF Fails, Breaks
<1> QED
  BY <1>1, <1>2, <1>3, <1>4, <1>5, <1>7, <1>8, <1>9, <1>10 DEF RelayNext

\* WebTabs' types are those its other proofs use and the callers, and the files sent.
WebTypes ==
  /\ TabTypes
  /\ mounts \in Mounts
  /\ caller \in SUBSET (Web!Tabs \X Web!Tabs)
  /\ sending \in [Web!Tabs -> Web!Tabs \cup {Web!NoTab}]
  /\ sends \in 0..MaxSends

LEMMA WebTypesStep ==
  ASSUME Mounted, WebTypes, [Web!Next]_(Web!tabVars)
  PROVE  WebTypes'
<1>1. TabTypes'
  BY TabTypesStep DEF WebTypes
<1>2. /\ mounts' \in Mounts /\ caller' \in SUBSET (Web!Tabs \X Web!Tabs)
      /\ sending' \in [Web!Tabs -> Web!Tabs \cup {Web!NoTab}] /\ sends' \in 0..MaxSends
  <2>1. ASSUME NEW t \in Web!Tabs, Web!Open(t) \/ Web!Close(t) \/ Web!WaitUntil(t)
        PROVE  /\ mounts' = mounts /\ caller' = caller /\ sends' = sends
               /\ (sending' = sending \/ sending' = [sending EXCEPT ![t] = Web!NoTab])
    BY <2>1 DEF Web!Open, Web!Close, Web!WaitUntil
  <2>2. ASSUME NEW s \in Web!Tabs, NEW t \in Web!Tabs, Web!Hear(s, t) \/ Web!ChannelOpens(s, t)
        PROVE  mounts' = mounts /\ caller' = caller /\ sends' = sends /\ sending' = sending
    BY <2>2 DEF Web!Hear, Web!OnHello, Web!OnOthers, Web!OnOffer, Web!OnAnswer, Web!ChannelOpens
  <2>3. ASSUME NEW t \in Web!Tabs, NEW p \in Web!Tabs, Web!SendFileTo(t, p)
        PROVE  /\ mounts' = mounts /\ caller' \in {caller, caller \cup {<<t, p>>}}
               /\ sends < MaxSends /\ sends' = sends + 1
               /\ sending' = [sending EXCEPT ![t] = p]
    BY <2>3, Zenon DEF Web!SendFileTo
  <2>4. CASE UNCHANGED Web!tabVars
    BY <2>4 DEF Web!tabVars, WebTypes
  <2>5. ASSUME NEW t \in Web!Tabs, NEW p \in Web!Tabs, Web!SendFileTo(t, p)
        PROVE  sends' \in 0..MaxSends
    BY <2>3, <2>5 DEF WebTypes, Mounted
  <2> QED BY <2>1, <2>2, <2>3, <2>4, <2>5 DEF Web!Next, WebTypes
<1> QED BY <1>1, <1>2 DEF WebTypes

LEMMA WebTyped ==
  ASSUME Mounted
  PROVE  /\ Web!Init => WebTypes
         /\ WebTypes => Web!TypeOK
<1>1. Web!Init => WebTypes
  BY TabTypesInit DEF Web!Init, WebTypes, Mounted
<1>2. WebTypes => Web!TypeOK
  BY DEF WebTypes, TabTypes, Web!TypeOK
<1> QED BY <1>1, <1>2

LEMMA StoreTypesStep ==
  ASSUME Default \in Values, MaxSaves \in Nat, InStep, StoreTypeOK, [StoreNext]_configVars
  PROVE  StoreTypeOK'
<1>1. InStep'
  BY StepKeepsInStep
<1>2. /\ file' \in Stored \cup {Cut, Absent} /\ \A i \in Calls : call'[i] \in Call
      /\ asked' \in BOOLEAN /\ overlapped' \in BOOLEAN /\ killed' \in BOOLEAN
  BY <1>1 DEF InStep, StoreTypes
<1>3. first' = first
  BY DEF StoreNext, Boots, Restart, Merges, Truncates, Fills, Save, configVars
<1>4. saves' \in 0..MaxSaves
  <2>1. saves' = saves \/ (saves < MaxSaves /\ saves' = saves + 1)
    BY DEF StoreNext, Boots, Restart, Merges, Truncates, Fills, Save, configVars
  <2> QED BY <2>1 DEF StoreTypeOK
<1>5. shown' \in Config \cup {None}
  <2>1. CASE Boots
    <3>1. Loaded(file) \in Config
      BY LoadedTyped DEF StoreTypeOK
    <3> QED BY <2>1, <3>1 DEF Boots
  <2>2. ASSUME NEW i \in Calls, Fills(i) PROVE shown' \in Config
    <3>1. call[i].next \in Config
      BY <2>2, CallKinds DEF Fills, StoreTypeOK
    <3> QED BY <2>2, <3>1 DEF Fills
  <2>3. CASE Restart
    BY <2>3 DEF Restart
  <2>4. ASSUME NEW i \in Calls, \/ Merges(i) \/ Truncates(i)
                                \/ \E v \in Values : Save(i, v)
        PROVE  shown' = shown
    BY <2>4 DEF Merges, Truncates, Save
  <2>5. CASE UNCHANGED configVars
    BY <2>5 DEF configVars, StoreTypeOK
  <2> QED BY <2>1, <2>2, <2>3, <2>4, <2>5 DEF StoreNext, StoreTypeOK
<1> QED BY <1>2, <1>3, <1>4, <1>5 DEF StoreTypeOK

LEMMA StoreTypesInit ==
  ASSUME Default \in Values, MaxSaves \in Nat, StoreInit
  PROVE  StoreTypeOK
<1>1. Loaded(file) \in Config
  BY LoadedTyped DEF StoreInit
<1>2. first \in Values
  BY <1>1 DEF StoreInit, Config, Fields
<1>3. NoCall \in Call /\ \A i \in Calls : call[i] = NoCall
  BY DEF StoreInit, Call
<1>4. file \in Stored \cup {Cut, Absent} /\ saves \in 0..MaxSaves
  BY DEF StoreInit
<1> QED BY <1>2, <1>3, <1>4 DEF StoreInit, StoreTypeOK

LEMMA LimiterTypesStep ==
  ASSUME Rates \subseteq Nat, Second \in Nat \ {0}, LimiterTypeOK, [LimiterNext]_limiterVars
  PROVE  LimiterTypeOK'
<1>1. CASE Allow
  <2>1. rate \in Nat /\ tokens \in Nat /\ now - last \in Nat
    BY DEF LimiterTypeOK
  <2>2. (now - last) * rate \in Nat /\ Burst \in Nat
    BY <2>1 DEF Burst
  <2>3. Refilled \in Nat
    BY <2>1, <2>2 DEF Refilled
  <2>4. tokens' \in Nat /\ last' \in 0..now /\ passed' \in Nat
    BY <1>1, <2>3 DEF Allow, LimiterTypeOK
  <2> QED BY <1>1, <2>4 DEF Allow, LimiterTypeOK
<1>2. CASE Tick \/ Watch \/ UNCHANGED limiterVars
  BY <1>2 DEF Tick, Watch, limiterVars, LimiterTypeOK
<1> QED BY <1>1, <1>2 DEF LimiterNext

-----------------------------------------------------------------------------
(* The composition.                                                        *)

\* A client is connected once and has a socket to be connected with, the rates are whole
\* numbers on a clock that ticks, and defaults() is one of the configurations.
SoundConstants ==
  /\ MaxConnects \in {0, 1} /\ NoSlot \notin Slots
  /\ Rates \subseteq Nat /\ Second \in Nat \ {0}
  /\ Default \in Values /\ MaxSaves \in Nat
  /\ Mounted

\* In the composition each part starts as its own specification says, and every step
\* of the composition is a step of each part or leaves it alone.
LEMMA PartsStart ==
  PartsInit => RelayInit /\ Web!Init /\ CodecInit /\ MobileInit /\ StoreInit /\ LimiterInit /\ Init
BY DEF PartsInit

LEMMA PartsStepEach ==
  ASSUME [PartsNext]_partsVars
  PROVE  /\ [RelayNext]_relayVars
         /\ [Web!Next]_(Web!tabVars)
         /\ [CodecNext]_codecVars
         /\ [MobileNext]_engineVars
         /\ [StoreNext]_configVars
         /\ [LimiterNext]_limiterVars
         /\ [Next]_vars
<1>1. webVars = Web!tabVars /\ webVars' = (Web!tabVars)'
  BY DEF webVars, Web!tabVars
<1>2. CASE UNCHANGED partsVars
  BY <1>1, <1>2 DEF partsVars
<1>3. ASSUME PartsNext
      PROVE  /\ RelayNext \/ UNCHANGED relayVars
             /\ Web!Next \/ UNCHANGED webVars
             /\ CodecNext \/ UNCHANGED codecVars
             /\ MobileNext \/ UNCHANGED engineVars
             /\ StoreNext \/ UNCHANGED configVars
             /\ LimiterNext \/ UNCHANGED limiterVars
             /\ Next \/ UNCHANGED vars
  BY <1>3 DEF PartsNext, Only
<1> QED BY <1>1, <1>2, <1>3

\* A behaviour of the composition is a behaviour of every part, so whatever is proved
\* of RelayClient, WebTabs, Codec, MobileEngine, ConfigStore, RateLimiter or Hub by
\* itself holds of them side by side.
THEOREM PartsKeepTheirSpecs ==
  PartsSpec => /\ RelaySpec /\ Web!Spec /\ CodecSpec /\ MobileSpec
               /\ StoreSpec /\ LimiterSpec /\ Spec
<1>1. PartsSpec => PartsInit /\ [][PartsNext]_partsVars
  BY PTL DEF PartsSpec
<1>2. [PartsNext]_partsVars => [RelayNext]_relayVars
  BY PartsStepEach
<1>3. [PartsNext]_partsVars => [Web!Next]_(Web!tabVars)
  BY PartsStepEach
<1>4. [PartsNext]_partsVars => [CodecNext]_codecVars
  BY PartsStepEach
<1>5. [PartsNext]_partsVars => [MobileNext]_engineVars
  BY PartsStepEach
<1>6. [PartsNext]_partsVars => [StoreNext]_configVars
  BY PartsStepEach
<1>7. [PartsNext]_partsVars => [LimiterNext]_limiterVars
  BY PartsStepEach
<1>8. [PartsNext]_partsVars => [Next]_vars
  BY PartsStepEach
<1> QED
  BY <1>1, <1>2, <1>3, <1>4, <1>5, <1>6, <1>7, <1>8, PartsStart, PTL
     DEF RelaySpec, Web!Spec, CodecSpec, MobileSpec, StoreSpec, LimiterSpec, Spec

\* Every part's state stays well typed in the composition the run checks: the relay
\* client (relayClient.ts, relay_client.dart), the web demo's tabs (useLanTransferWeb.ts),
\* the wire (protocol.ts), the mobile engine, the settings (config.ts), the message limit
\* (ratelimit.go) and the hub (hub.go).
THEOREM PartsTyped ==
  ASSUME SoundConstants
  PROVE  PartsSpec => []PartsTypeOK
<1>1. RelaySpec => []RelayTypeOK
  <2>1. RelayInit => RelayTypeOK
    <3>1. MaxConnects \in Nat
      BY DEF SoundConstants
    <3>2. RelayInit => /\ got \in [Slots -> Seq({"hello", "join", "signal"})]
                       /\ connects \in 0..MaxConnects
      BY <3>1, GreetingTyped DEF RelayInit
    <3>3. RelayInit => /\ sock \in [Slots -> {"none", "connecting", "open", "closing"}]
                       /\ timer \in [Slots -> {0, 1, 2, 4, 8, 16}]
      BY DEF RelayInit
    <3>4. RelayInit => /\ flavor \in Flavors /\ ws \in Slots \cup {NoSlot}
                       /\ closedByUser \in BOOLEAN /\ up \in BOOLEAN
      BY DEF RelayInit
    <3>5. RelayInit => delay \in {1, 2, 4, 8, 16} /\ failures \in 0..5
      BY DEF RelayInit
    <3> QED BY <3>2, <3>3, <3>4, <3>5 DEF RelayTypeOK
  <2>2. RelayTypeOK /\ [RelayNext]_relayVars => RelayTypeOK'
    BY RelayTypesStep DEF SoundConstants
  <2> QED BY <2>1, <2>2, PTL DEF RelaySpec
<1>2. Web!Spec => []Web!TypeOK
  <2>1. (Web!Init => WebTypes) /\ (WebTypes => Web!TypeOK)
    BY WebTyped DEF SoundConstants
  <2>2. WebTypes /\ [Web!Next]_(Web!tabVars) => WebTypes'
    BY WebTypesStep DEF SoundConstants
  <2> QED BY <2>1, <2>2, PTL DEF Web!Spec
<1>3. StoreSpec => []StoreTypeOK
  <2>1. StoreSpec => []InStep
    BY AlwaysInStep DEF SoundConstants
  <2>2. StoreInit => StoreTypeOK
    BY StoreTypesInit DEF SoundConstants
  <2>3. InStep /\ StoreTypeOK /\ [StoreNext]_configVars => StoreTypeOK'
    BY StoreTypesStep DEF SoundConstants
  <2> QED BY <2>1, <2>2, <2>3, PTL DEF StoreSpec
<1>4. LimiterSpec => []LimiterTypeOK
  <2>1. LimiterInit => LimiterTypeOK
    BY DEF SoundConstants, LimiterInit, LimiterTypeOK, Burst
  <2>2. LimiterTypeOK /\ [LimiterNext]_limiterVars => LimiterTypeOK'
    BY LimiterTypesStep DEF SoundConstants
  <2> QED BY <2>1, <2>2, PTL DEF LimiterSpec
<1>5. RelayTypeOK /\ Web!TypeOK /\ StoreTypeOK /\ LimiterTypeOK /\ CodecTypeOK /\ MobileTypeOK
        /\ TypeOK => PartsTypeOK
  BY DEF PartsTypeOK
<1> QED
  BY <1>1, <1>2, <1>3, <1>4, <1>5, PartsKeepTheirSpecs, CodecTypeCorrect, TypesHold,
     TypeCorrect, PTL
==============================================================================
