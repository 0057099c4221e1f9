----------------------------- MODULE RateLimiter -----------------------------
(***************************************************************************)
(* The relay's per-connection message limit: a token bucket (ratelimit.go) *)
(* on a monotonic clock.  The code's floating-point tokens are counted in  *)
(* fractions of a token that a tick of the clock can give, and are exact.  *)
(* X_Bug is X with one plausible bug (README, "Mutation").                 *)
(***************************************************************************)
EXTENDS Integers

CONSTANTS Rates,        \* values of ratePerSec; 0 disables the limit
          Second,       \* ticks in a second
          MaxNow,       \* ticks (bounds the model, as the next)
          MaxPassed     \* messages

VARIABLES
  rate,      \* ratePerSec, also the burst
  tokens,    \* tokens * Second
  last,      \* when they were counted
  now,
  start,     \* any instant (history)
  passed     \* messages allowed since then (history)

limiterVars == <<rate, tokens, last, now, start, passed>>

Burst == rate * Second

LimiterTypeOK ==
  /\ rate \in Rates
  /\ tokens \in Nat
  /\ now \in Nat /\ last \in 0..now /\ start \in 0..now
  /\ passed \in Nat

LimiterInit ==
  /\ rate \in Rates
  /\ tokens = Burst
  /\ last = 0 /\ now = 0 /\ start = 0 /\ passed = 0

\* The bucket overflows after a quiet time.
Refilled_NoCap == tokens + (now - last) * rate

Refilled ==
  IF tokens + (now - last) * rate > Burst THEN Burst ELSE tokens + (now - last) * rate

\* A message comes in; it is allowed or refused.
Allow ==
  /\ passed < MaxPassed
  /\ IF rate <= 0 THEN passed' = passed + 1 /\ UNCHANGED <<tokens, last>>
     ELSE /\ last' = now
          /\ IF Refilled < Second THEN tokens' = Refilled /\ UNCHANGED passed
             ELSE tokens' = Refilled - Second /\ passed' = passed + 1
  /\ UNCHANGED <<rate, now, start>>

Tick ==
  /\ now < MaxNow
  /\ now' = now + 1
  /\ UNCHANGED <<rate, tokens, last, start, passed>>

\* From here on the messages are counted.
Watch ==
  /\ start < now
  /\ start' = now
  /\ passed' = 0
  /\ UNCHANGED <<rate, tokens, last, now>>

LimiterNext == Allow \/ Tick \/ Watch

LimiterSpec == LimiterInit /\ [][LimiterNext]_limiterVars

\* In any stretch of time no more messages pass than a burst and what the rate
\* gives for its length, whatever came before it and however they are spaced.
WindowBound == rate > 0 => passed * Second <= Burst + rate * (now - start)
==============================================================================
