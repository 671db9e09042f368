---------------------------- MODULE IntentLedger ----------------------------
(***************************************************************************)
(* What the brain promises about destructive actions, whatever ids,        *)
(* messages and failures are between the user and the tool (README.md,     *)
(* "the brain never acts destructively without dialog gating"): an intent  *)
(* is offered once, runs at most once, and only after the user consented   *)
(* to that very intent; a declined or lost intent never runs.              *)
(***************************************************************************)
CONSTANT Intents

VARIABLES
  status,    \* where each intent stands
  consents   \* the intents the user said yes to

vars == <<status, consents>>

Statuses == {"unmade", "offered", "taken", "done", "declined", "lost"}
Final == {"done", "declined", "lost"}

Init ==
  /\ status = [i \in Intents |-> "unmade"]
  /\ consents = {}

Move(i, from, to) ==
  /\ status[i] = from
  /\ status' = [status EXCEPT ![i] = to]
  /\ UNCHANGED consents

Offer(i) == Move(i, "unmade", "offered")

Consent(i) ==
  /\ status[i] # "unmade"
  /\ consents' = consents \cup {i}
  /\ UNCHANGED status

Take(i)    == i \in consents /\ Move(i, "offered", "taken")
Run(i)     == Move(i, "taken", "done")
Decline(i) == Move(i, "offered", "declined")

(* A crash loses every intent in flight, a failed announcement one. *)
Lose(S) ==
  /\ \A i \in S : status[i] \in {"offered", "taken"}
  /\ status' = [i \in Intents |-> IF i \in S THEN "lost" ELSE status[i]]
  /\ UNCHANGED consents

Next ==
  \/ \E i \in Intents : Offer(i) \/ Consent(i) \/ Take(i) \/ Run(i) \/ Decline(i)
  \/ \E S \in SUBSET Intents : Lose(S)

Spec == Init /\ [][Next]_vars
=============================================================================
