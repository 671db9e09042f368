--------------------------- MODULE RedlineVerdict ---------------------------
(***************************************************************************)
(* What the redline promises of an answer, as if it knew at a glance which *)
(* forbidden terms leaked (redline.rs, "a dirty reply is never published"):*)
(* a clean answer passes, a dirty one is asked for again with the very     *)
(* terms that leaked, a bounded number of times, and is replaced then.     *)
(***************************************************************************)
EXTENDS Naturals, Sequences

CONSTANTS
  Term,      \* what may be forbidden
  Attempts   \* how often an answer is asked for again

VARIABLES
  leaks,    \* the forbidden terms in the answer at hand
  action,   \* "off", "safe_phrase" or "regenerate"
  verdict,  \* "open", "passed", "replaced" or "panicked"
  named     \* the terms named in each request for another answer

vars == <<leaks, action, verdict, named>>

Init ==
  /\ leaks \in SUBSET Term
  /\ action \in {"off", "safe_phrase", "regenerate"}
  /\ verdict = IF action = "off" THEN "passed" ELSE "open"
  /\ named = <<>>

Settle(as) ==
  /\ verdict = "open" /\ verdict' = as
  /\ UNCHANGED <<leaks, action, named>>

Pass == leaks = {} /\ Settle("passed")

MayAsk == action = "regenerate" /\ Len(named) < Attempts

AskAgain ==
  /\ verdict = "open" /\ leaks # {} /\ MayAsk
  /\ named' = Append(named, leaks)
  /\ leaks' \in SUBSET Term
  /\ UNCHANGED <<action, verdict>>

Replace == leaks # {} /\ ~MayAsk /\ Settle("replaced")

(* The one way to fail: the turn is lost with the process, unpublished. *)
Panic == Settle("panicked")

Next == Pass \/ AskAgain \/ Replace \/ Panic

Spec == Init /\ [][Next]_vars
=============================================================================
