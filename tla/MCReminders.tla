----------------------------- MODULE MCReminders -----------------------------
(***************************************************************************)
(* Instances of Reminders for TLC.  An utterance is one of the classes of  *)
(* classify_ack_response; "later" is no word of the ceremony and the other *)
(* two may be, so three utterances meet every branch.                      *)
(***************************************************************************)
EXTENDS Reminders

Said == {[ack |-> "done", intro |-> TRUE],
         [ack |-> "snooze", intro |-> FALSE],
         [ack |-> "unrelated", intro |-> TRUE]}
=============================================================================
