--------------------------- MODULE MCConversation ---------------------------
(***************************************************************************)
(* Instances of Conversation for TLC.  With an idle gap of 2 the clock     *)
(* moves by 1 (inside the gap), by 2 (the gap exactly, where the tracker   *)
(* extends and the write-back session closes) or by 3 (past it); a step    *)
(* back of 1 stands for a clock correction.                                *)
(***************************************************************************)
EXTENDS Conversation

AnyClock == {-1, 1, 2, 3}
=============================================================================
