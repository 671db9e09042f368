----------------------------- MODULE MCLadderTurn -----------------------------
(***************************************************************************)
(* Instances of LadderTurn: a ladder, what is said at home, and what       *)
(* models answer.                                                          *)
(***************************************************************************)
EXTENDS LadderTurn

(* The built-in ladder under a cap of "sonnet". *)
FullLadder ==
  <<[name |-> "local-3b", backend |-> "local"], [name |-> "local-8b", backend |-> "local"],
    [name |-> "haiku", backend |-> "anthropic"], [name |-> "sonnet", backend |-> "anthropic"]>>

Say(words, stakes, command) == [words |-> words, stakes |-> stakes, command |-> command]

Noise   == Say({}, "ordinary", TRUE)
Chat    == Say({"lights", "are", "odd"}, "ordinary", FALSE)
Pills   == Say({"pills", "are", "odd"}, "high", FALSE)
Other   == Say({"weather"}, "ordinary", FALSE)

Talk == {Noise, Chat, Pills, Other}

Dirty     == [spoken |-> TRUE, fence |-> FALSE, dirty |-> TRUE]
Plan      == [spoken |-> TRUE, fence |-> TRUE, dirty |-> FALSE]
FenceOnly == [spoken |-> FALSE, fence |-> TRUE, dirty |-> TRUE]

Plain == {Empty, Clean}
Every == {Empty, Clean, Dirty, Plan, FenceOnly}
=============================================================================
