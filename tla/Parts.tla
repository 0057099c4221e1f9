-------------------------------- MODULE Parts --------------------------------
(***************************************************************************)
(* The parts of the system that work by themselves, side by side, and the  *)
(* relay: part says which one a behaviour is about; the others stay as     *)
(* they begin.                                                             *)
(*                                                                         *)
(* WebTabs has its own names, some of which others have too, and comes     *)
(* with a prefix, here with its properties: explained there.               *)
(***************************************************************************)
EXTENDS Hub, RelayClient, RateLimiter, ConfigStore, MobileEngine, Codec

CONSTANTS N, Mounts, MaxCloses, MaxSends

VARIABLES part, mounts, tab, wire, seen, peers, session, caller, sending, sends

Web == INSTANCE WebTabs

Discovered == Web!Discovered
SessionsPaired == Web!SessionsPaired

webVars == <<mounts, tab, wire, seen, peers, session, caller, sending, sends>>
partsVars == <<part, engineVars, relayVars, webVars, codecVars, configVars, limiterVars, vars>>

PartsInit ==
  /\ part \in {"relay", "web", "wire", "mobile", "store", "limit", "server"}
  /\ RelayInit /\ (part # "relay" => flavor = "ts" /\ up = FALSE)
  /\ part # "web" => mounts = 1
  /\ Web!Init
  /\ part # "wire" => item = [kind |-> "file", content |-> <<>>]
  /\ CodecInit
  /\ MobileInit /\ (part # "mobile" => offerer = "sender" /\ ordered)
  /\ StoreInit /\ (part # "store" => file = Absent)
  /\ LimiterInit /\ (part # "limit" => rate = 0)
  /\ Init

\* What the parts other than p leave alone.
Only(p) ==
  /\ part = p /\ part' = p
  /\ p = "relay" \/ UNCHANGED relayVars
  /\ p = "web" \/ UNCHANGED webVars
  /\ p = "wire" \/ UNCHANGED codecVars
  /\ p = "mobile" \/ UNCHANGED engineVars
  /\ p = "store" \/ UNCHANGED configVars
  /\ p = "limit" \/ UNCHANGED limiterVars
  /\ p = "server" \/ UNCHANGED vars

\* Bounds the web demo: three tabs of which one sends a file, or two that announce
\* themselves twice and send two files.
TwoTabsOrOneSend == (mounts = 1 /\ sends' <= 1) \/ (mounts = 2 /\ tab'[3] = "unopened")

PartsNext ==
  \/ Only("relay") /\ RelayNext
  \/ Only("web") /\ Web!Next /\ TwoTabsOrOneSend
  \/ Only("wire") /\ CodecNext
  \/ Only("mobile") /\ MobileNext
  \/ Only("store") /\ StoreNext
  \/ Only("limit") /\ LimiterNext
  \/ Only("server") /\ Next

PartsSpec == PartsInit /\ [][PartsNext]_partsVars /\ RelayFairness /\ Fairness
             /\ WF_partsVars(Only("mobile") /\ Progress)

\* Every part's state is well typed.
PartsTypeOK == RelayTypeOK /\ Web!TypeOK /\ CodecTypeOK /\ MobileTypeOK
               /\ StoreTypeOK /\ LimiterTypeOK /\ TypeOK
=============================================================================
