---------------------------- MODULE MCConfigFile ----------------------------
(***************************************************************************)
(* Instances of ConfigFile for TLC: one command for each way a setting can *)
(* matter here, an override the daemon takes and settings it only carries; *)
(* a file from before the ladder with a setting that a profile drops, and  *)
(* one that names a model nobody knows; every cap, and exclusions up to    *)
(* that of everything.                                                     *)
(***************************************************************************)
EXTENDS ConfigFile

Operator == {SwapModel("opus"), RoutePrefer("local-only")}

Handwritten ==
  { [Blank EXCEPT !.model = "opus", !.redline = "safe-phrase", !.gpu = "desktop"],
    [Blank EXCEPT !.model = "gpt"] }

Household == [model |-> "haiku", lock |-> TRUE]

Caps == Names(WithGpu(TRUE)) \cup {"", "local-llm"}
Skips == {{}, {"sonnet", "local-3b"}, Names(WithGpu(TRUE))}
Surroundings == [cap : Caps, skip : Skips]
=============================================================================
