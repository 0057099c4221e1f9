---------------------------- MODULE MCHandshake ----------------------------
(***************************************************************************)
(* Small instances of Handshake for TLC.                                   *)
(***************************************************************************)
EXTENDS Handshake, TLC

OneSide == {"A"}
BothSides == {"A", "B"}

\* Either messages are lost, one at most, or peers are reported to have left; and
\* then one candidate is all there is, enough for the channel to open.
BriefFaults ==
  Faults > 0 => /\ drops > 0 => Faults = 1
                /\ Cardinality({n \in DOMAIN conns : conns[n].cand # "none"}) <= 1

\* A peer is told once that the other left, while it has its first session: two
\* reports are one for each.
OneReportEach ==
  \A p \in Peers :
    flaps' > flaps /\ net'[p] # net[p] =>
      /\ current[p] = 1
      /\ \A i \in DOMAIN net[p] : net[p][i].t # "peer-left"
=============================================================================
