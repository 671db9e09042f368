------------------------------ MODULE MCHealth ------------------------------
(***************************************************************************)
(* An instance of Health for TLC, under a clock that may be set back.      *)
(***************************************************************************)
EXTENDS Health

Ticks == {1, -1}
=============================================================================
