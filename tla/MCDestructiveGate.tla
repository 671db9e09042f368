------------------------- MODULE MCDestructiveGate --------------------------
(***************************************************************************)
(* Instances of DestructiveGate for TLC: three intents let two live under  *)
(* one process and the third under its successor; a clock of 0 .. 1 lets   *)
(* two intents be minted in one millisecond or in different ones.          *)
(***************************************************************************)
EXTENDS DestructiveGate

Forward == {1}
=============================================================================
