------------------------------- MODULE TierList -------------------------------
(***************************************************************************)
(* The rungs a daemon climbs (lib.rs, the tiers and default_ladder;        *)
(* daemon.rs, capped_ladder): the built-in ladder, the rung of the GPU     *)
(* host when the configuration names one, cut off at WM_BRAIN_MAX_TIER and *)
(* without the rungs of WM_BRAIN_SKIP_TIERS.                               *)
(***************************************************************************)
EXTENDS Naturals, Sequences, FiniteSets, FiniteSetsExt

Local(name) == [name |-> name, backend |-> "local"]
Anthropic(name) == [name |-> name, backend |-> "anthropic"]

DefaultLadder ==
  <<Local("local-3b"), Local("local-8b"), Anthropic("haiku"),
    Anthropic("sonnet"), Anthropic("opus")>>

Names(tiers) == {tiers[k].name : k \in DOMAIN tiers}
CloudRungs(tiers) == {k \in DOMAIN tiers : tiers[k].backend = "anthropic"}

InsertedBefore(tiers, k, tier) ==
  SubSeq(tiers, 1, k - 1) \o <<tier>> \o SubSeq(tiers, k, Len(tiers))

(* ladder_with_gpu: below the first cloud rung *)
WithGpu(gpu) ==
  IF gpu
  THEN InsertedBefore(DefaultLadder, Min(CloudRungs(DefaultLadder)), Local("local-gpu"))
  ELSE DefaultLadder

(* A cap that names no rung, an unset one included, cuts nothing off. *)
Capped(tiers, cap) ==
  IF cap \in Names(tiers)
  THEN SubSeq(tiers, 1, Min({k \in DOMAIN tiers : tiers[k].name = cap}))
  ELSE tiers

(* retain, one rung after the other *)
Without(tiers, skip) ==
  LET kept[k \in 0..Len(tiers)] ==
        IF k = 0 THEN <<>>
        ELSE IF tiers[k].name \in skip THEN kept[k - 1] ELSE Append(kept[k - 1], tiers[k])
  IN  kept[Len(tiers)]

CappedLadder(gpu, environment) ==
  Without(Capped(WithGpu(gpu), environment.cap), environment.skip)

-----------------------------------------------------------------------------
(* The rungs from the bottom to the top, said once for every environment.  *)
Order == <<"local-3b", "local-8b", "local-gpu", "haiku", "sonnet", "opus">>
Rank(name) == CHOOSE k \in DOMAIN Order : Order[k] = name

Wanted(gpu, environment) ==
  {name \in {Order[k] : k \in DOMAIN Order} :
     /\ name = "local-gpu" => gpu
     /\ name \notin environment.skip
     /\ environment.cap \in Names(WithGpu(gpu)) => Rank(name) <= Rank(environment.cap)}

(* Every rung that is wanted, no other, none twice, the cheaper below the  *)
(* dearer: the ladder the turns are climbed on.                            *)
Usable(tiers, gpu, environment) ==
  /\ Names(tiers) = Wanted(gpu, environment)
  /\ \A j, k \in DOMAIN tiers : j < k => Rank(tiers[j].name) < Rank(tiers[k].name)
  /\ \A j, k \in DOMAIN tiers : j \in CloudRungs(tiers) /\ k >= j => k \in CloudRungs(tiers)
=============================================================================
