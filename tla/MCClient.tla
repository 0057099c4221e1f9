------------------------------ MODULE MCClient ------------------------------
(***************************************************************************)
(* Small instances of Client for TLC.                                      *)
(***************************************************************************)
EXTENDS Client

CONSTANTS p1

OnePeer == {p1}
Both == {"desktop", "mobile"}
Desktop == {"desktop"}
=============================================================================
