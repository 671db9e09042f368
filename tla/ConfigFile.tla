----------------------------- MODULE ConfigFile -----------------------------
(***************************************************************************)
(* brain.toml, shared by the daemon and by every `wmd` command line that   *)
(* changes a setting (persist.rs, the subcommands of main.rs, profile.rs). *)
(*                                                                         *)
(* A command loads the file, changes one setting and saves the whole of    *)
(* it.  The daemon loads the file when it starts and never again; after a  *)
(* turn that took a one-turn override it saves its own copy.  Saving is    *)
(* File::create of brain.toml.tmp (one name for all writers), a write and  *)
(* a rename; a process may stop, and any of the three may fail, between    *)
(* them.  Files are inodes, since a create truncates the file a slower     *)
(* writer still has open.  Nothing locks the file; here its writers take   *)
(* turns, and what two of them may do to it at once is left out.           *)
(***************************************************************************)
EXTENDS Integers, Sequences, FiniteSets, TierList

CONSTANTS
  Cli,          \* command-line processes
  Daemon,       \* the process of `wmd start`
  Commands,     \* bound: what the operator asks for
  Firsts,       \* bound: what an operator wrote into brain.toml at first
  Env,          \* WM_BRAIN_DEFAULT_MODEL and WM_BRAIN_CHILD_LOCK of the daemon
  Environments, \* bound: WM_BRAIN_MAX_TIER and WM_BRAIN_SKIP_TIERS of a daemon
  Inode,        \* bound: the files of the directory
  NoFile,       \* a name that is not in the directory
  Unset,        \* Option::None, and a key a file does not have
  MaxEvents     \* bound: events noted

VARIABLES
  name,    \* the directory: brain.toml and brain.toml.tmp
  data,    \* what each inode holds
  writer,  \* each process: where it is, what it has in hand, its open file
  events   \* auxiliary: what happened, in order

fileVars == <<name, data, writer, events>>

CloudModels == {"haiku", "sonnet", "opus"}
AllowedModels == CloudModels \cup {"local-3b", "local-8b", "local-gpu"}
Models == AllowedModels \cup {"gpt"}

(* pending_tier and pending_model are set and consumed together; a model's *)
(* long name stands for the short one.  The other settings are like these. *)
BrainConfig ==
  [model : Models, tier : Models, pending : Models \cup {Unset},
   prefer : {"auto", "local-only"}, register : {"warm-elder", "brisk"},
   redline : {"off", "safe-phrase"}, lock : {"on", "off"}, gpu : {Unset, "desktop"}]

Default ==
  [model |-> "sonnet", tier |-> "local-3b", pending |-> Unset, prefer |-> "auto",
   register |-> "warm-elder", redline |-> "off", lock |-> "off", gpu |-> Unset]

Keys == DOMAIN Default

(* What a file says: the keys it has, or its head only.                    *)
Text ==
  [model : Models \cup {Unset}, tier : Models \cup {Unset}, pending : Models \cup {Unset},
   prefer : {"auto", "local-only", Unset}, register : {"warm-elder", "brisk", Unset},
   redline : {"off", "safe-phrase", Unset}, lock : {"on", "off", Unset},
   gpu : {Unset, "desktop"}]
Blank == [key \in Keys |-> Unset]

Content == [is : {"whole", "torn"}, text : Text]
Empty == [is |-> "whole", text |-> Blank]
Whole(text) == [is |-> "whole", text |-> text]
Torn(text) == [is |-> "torn", text |-> text]

Processes == Cli \cup {Daemon}
Saving == {"create", "write", "rename"}

(* A subcommand and the settings it names. *)
SwapModel(model) == [pending |-> model]
DefaultModel(model) == [model |-> model, tier |-> model]
RoutePrefer(preference) == [prefer |-> preference]
SetRegister(register) == [register |-> register]
AllSettings ==
  {SwapModel(m) : m \in AllowedModels} \cup {DefaultModel(m) : m \in AllowedModels}
    \cup {RoutePrefer(p) : p \in {"auto", "local-only"}}
    \cup {SetRegister(r) : r \in {"warm-elder", "brisk"}}

(* `wmd persona profile apply --write` replaces the whole of [persona]:    *)
(* the settings a profile says nothing of go.                              *)
ApplyProfile == [register |-> "warm-elder", redline |-> Unset]

ASSUME CommandsAssumption == Commands \subseteq AllSettings
ASSUME EnvAssumption == Env \in [model : AllowedModels, lock : BOOLEAN]
ASSUME EnvironmentsAssumption ==
  Environments \subseteq [cap : STRING, skip : SUBSET STRING]
ASSUME FirstsAssumption == Firsts \subseteq {text \in Text : text.pending = Unset}
ASSUME InodesSuffice ==
  IsFiniteSet(Cli) /\ Cardinality(Inode) >= Cardinality(Cli) + 3
ASSUME NamesAssumption ==
  /\ NoFile \notin Inode \cup Text /\ Daemon \notin Cli
  /\ Unset \notin Models \cup {"auto", "local-only", "warm-elder", "brisk", "off",
                              "safe-phrase", "on", "desktop"}
ASSUME BoundAssumption == MaxEvents \in Nat

-----------------------------------------------------------------------------
(* Deserialized: a key that is missing has its default. *)
Parsed(text) == [key \in Keys |-> IF text[key] = Unset THEN Default[key] ELSE text[key]]

(* apply_legacy_tier_backcompat: the tier of a file from before the ladder *)
(* is its cloud model, the default one of a file without a model included. *)
Migrated(text) ==
  IF text.tier = Unset /\ Parsed(text).model \in CloudModels
  THEN [Parsed(text) EXCEPT !.tier = Parsed(text).model]
  ELSE Parsed(text)

(* What a file means; an absent one is BrainConfig::default().             *)
Meaning(text) == IF text = NoFile THEN Default ELSE Migrated(text)

(* validate *)
Valid(cfg) ==
  {cfg.model, cfg.tier, cfg.pending} \subseteq AllowedModels \cup {Unset}

Raw == IF name["file"] = NoFile THEN NoFile ELSE data[name["file"]].text
Parses == name["file"] # NoFile => data[name["file"]].is = "whole"

(* load_from_file *)
Loads == Parses /\ Valid(Meaning(Raw))
Loaded == Meaning(Raw)

Edited(cfg, command) ==
  [key \in Keys |-> IF key \in DOMAIN command THEN command[key] ELSE cfg[key]]

(* from_env; an environment it refuses ends a start, which then changes    *)
(* nothing.  The other variables it reads are not looked at again.         *)
FromEnv ==
  [Default EXCEPT !.model = Env.model, !.lock = IF Env.lock THEN "on" ELSE "off"]

(* load_effective: the environment goes over the file, where it differs    *)
(* from the default.                                                       *)
Effective(cfg) ==
  [cfg EXCEPT !.model = IF FromEnv.model # Default.model THEN FromEnv.model ELSE @,
              !.lock = IF FromEnv.lock = "on" THEN "on" ELSE @]

Idle == [at |-> "idle", cfg |-> Default, open |-> NoFile, why |-> NoFile]

Note(what, text, why) ==
  events' = Append(events, [what |-> what, text |-> text, why |-> why])

(* No other save is under way. *)
Alone(p) == \A q \in Processes \ {p} : writer[q].at \notin Saving

(* After a save: a command exits, the daemon goes back to its loop. *)
Rest(p) == IF p = Daemon THEN [writer[p] EXCEPT !.at = "ready", !.open = NoFile] ELSE Idle

Oldest == CHOOSE i \in Inode : TRUE
Found(text) == <<[what |-> "found", text |-> text, why |-> NoFile]>>

FileInit ==
  /\ \/ /\ name = [n \in {"file", "tmp"} |-> NoFile]
        /\ data = [i \in Inode |-> Empty]
        /\ events = Found(NoFile)
     \/ \E text \in Firsts :
          /\ name = [n \in {"file", "tmp"} |-> IF n = "file" THEN Oldest ELSE NoFile]
          /\ data = [i \in Inode |-> IF i = Oldest THEN Whole(text) ELSE Empty]
          /\ events = Found(text)
  /\ writer = [p \in Processes |-> Idle]

-----------------------------------------------------------------------------
(* save_to_file and apply_profile_to_config, for any process.              *)

Opened(n) ==
  IF name[n] # NoFile
  THEN name[n]
  ELSE CHOOSE i \in Inode :
         i \notin {name["file"], name["tmp"]} \cup {writer[q].open : q \in Processes}

(* Variant: the file itself is truncated and written. *)
CreateInPlace(p) ==
  /\ writer[p].at = "create"
  /\ LET i == Opened("file")
     IN /\ name' = [name EXCEPT !["tmp"] = i, !["file"] = i]
        /\ data' = [data EXCEPT ![i] = Empty]
        /\ writer' = [writer EXCEPT ![p].at = "write", ![p].open = i]
  /\ UNCHANGED events

(* File::create(tmp): the file of that name is truncated, or made anew.    *)
Create(p) ==
  /\ writer[p].at = "create"
  /\ LET i == Opened("tmp")
     IN /\ name' = [name EXCEPT !["tmp"] = i]
        /\ data' = [data EXCEPT ![i] = Empty]
        /\ writer' = [writer EXCEPT ![p].at = "write", ![p].open = i]
  /\ UNCHANGED events

(* write_all and sync_all *)
Write(p) ==
  /\ writer[p].at = "write"
  /\ data' = [data EXCEPT ![writer[p].open] = Whole(writer[p].cfg)]
  /\ writer' = [writer EXCEPT ![p].at = "rename"]
  /\ UNCHANGED <<name, events>>

(* A write that is cut off leaves the head of the text. *)
CutOff(p) ==
  IF writer[p].at = "write"
  THEN data' \in {data, [data EXCEPT ![writer[p].open] = Torn(writer[p].cfg)]}
  ELSE UNCHANGED data

(* rename(tmp, path) *)
Rename(p) ==
  /\ writer[p].at = "rename"
  /\ name["tmp"] # NoFile
  /\ Len(events) < MaxEvents
  /\ name' = [name EXCEPT !["file"] = name["tmp"], !["tmp"] = NoFile]
  /\ writer' = [writer EXCEPT ![p] = Rest(p)]
  /\ Note(IF p = Daemon THEN "persisted" ELSE "changed",
          data[name["tmp"]].text, writer[p].why)
  /\ UNCHANGED data

(* Any of the steps fails: the command exits, the daemon logs and goes on. *)
SaveFails(p) ==
  /\ writer[p].at \in Saving
  /\ Len(events) < MaxEvents
  /\ writer' = [writer EXCEPT ![p] = Rest(p)]
  /\ Note("unsaved", writer[p].cfg, p)
  /\ CutOff(p)
  /\ UNCHANGED name

-----------------------------------------------------------------------------
(* Variant: a command saves what the daemon would use. *)
RunEffective(p, command) ==
  /\ writer[p].at = "idle"
  /\ Alone(p)
  /\ Loads
  /\ writer' = [writer EXCEPT ![p].at = "create", ![p].why = command,
                              ![p].cfg = Effective(Edited(Loaded, command))]
  /\ UNCHANGED <<name, data, events>>

(* A subcommand: load, change one setting, then save.  A file that does    *)
(* not load ends it.                                                       *)
Run(p, command) ==
  /\ writer[p].at = "idle"
  /\ Alone(p)
  /\ Loads
  /\ writer' = [writer EXCEPT ![p].at = "create", ![p].why = command,
                              ![p].cfg = Edited(Loaded, command)]
  /\ UNCHANGED <<name, data, events>>

(* apply_profile_to_config edits the text, which need only parse, and      *)
(* leaves the rest of it as it is.                                         *)
RunProfile(p) ==
  /\ writer[p].at = "idle"
  /\ Alone(p)
  /\ Parses
  /\ writer' = [writer EXCEPT ![p].at = "create", ![p].why = ApplyProfile,
                              ![p].cfg = Edited(IF Raw = NoFile THEN Blank ELSE Raw,
                                                ApplyProfile)]
  /\ UNCHANGED <<name, data, events>>

(* `wmd start`; the ladder is built of this configuration. *)
Start ==
  /\ writer[Daemon].at = "idle"
  /\ Loads
  /\ Len(events) < MaxEvents
  /\ writer' = [writer EXCEPT ![Daemon].at = "ready", ![Daemon].cfg = Effective(Loaded)]
  /\ Note("started", Raw, NoFile)
  /\ UNCHANGED <<name, data>>

(* Variant: the override stays in the copy that is saved. *)
TakePendingKept ==
  /\ writer[Daemon].at = "ready"
  /\ writer[Daemon].cfg.pending # Unset
  /\ Len(events) < MaxEvents
  /\ Note("taken", writer[Daemon].cfg, NoFile)
  /\ writer' = [writer EXCEPT ![Daemon].at = "turn"]
  /\ UNCHANGED <<name, data>>

(* A turn takes the override, in memory, before it is handled.  A turn     *)
(* without one changes nothing here.                                       *)
TakePending ==
  /\ writer[Daemon].at = "ready"
  /\ writer[Daemon].cfg.pending # Unset
  /\ Len(events) < MaxEvents
  /\ Note("taken", writer[Daemon].cfg, NoFile)
  /\ writer' = [writer EXCEPT ![Daemon].at = "turn", ![Daemon].cfg.pending = Unset]
  /\ UNCHANGED <<name, data>>

(* handle_turn_user returned: persist_after_pending_consume. *)
TurnReturns ==
  /\ writer[Daemon].at = "turn"
  /\ Alone(Daemon)
  /\ writer' = [writer EXCEPT ![Daemon].at = "create"]
  /\ UNCHANGED <<name, data, events>>

(* handle_turn_user failed: the `?` of dispatch skips the saving. *)
TurnFails ==
  /\ writer[Daemon].at = "turn"
  /\ Len(events) < MaxEvents
  /\ writer' = [writer EXCEPT ![Daemon].at = "ready"]
  /\ Note("unsaved", writer[Daemon].cfg, Daemon)
  /\ UNCHANGED <<name, data>>

(* The daemon stops, in the middle of a turn or of a save as well. *)
Stop ==
  /\ writer[Daemon].at # "idle"
  /\ Len(events) < MaxEvents
  /\ writer' = [writer EXCEPT ![Daemon] = Idle]
  /\ IF writer[Daemon].at = "ready"
     THEN UNCHANGED events
     ELSE Note("unsaved", writer[Daemon].cfg, Daemon)
  /\ CutOff(Daemon)
  /\ UNCHANGED name

FileNext ==
  \/ \E p \in Cli, command \in Commands : Run(p, command)
  \/ \E p \in Cli : RunProfile(p)
  \/ \E p \in Processes : Create(p) \/ Write(p) \/ Rename(p) \/ SaveFails(p)
  \/ Start
  \/ TakePending
  \/ TurnReturns
  \/ TurnFails
  \/ Stop

FileSpec == FileInit /\ [][FileNext]_fileVars

-----------------------------------------------------------------------------
FileTypeOK ==
  /\ name \in [{"file", "tmp"} -> Inode \cup {NoFile}]
  /\ \A i \in Inode : data[i].is \in {"whole", "torn"} /\ data[i].text \in Text
  /\ \A p \in Processes :
       /\ writer[p].at \in Saving \cup (IF p = Daemon THEN {"idle", "ready", "turn"} ELSE {"idle"})
       /\ writer[p].cfg \in IF p = Daemon THEN BrainConfig ELSE Text
       /\ writer[p].open \in Inode \cup {NoFile}
  /\ \A k \in DOMAIN events :
       /\ events[k].what \in {"found", "changed", "started", "taken", "persisted", "unsaved"}
       /\ events[k].text \in Text \cup {NoFile}

Saves == {k \in DOMAIN events : events[k].what \in {"found", "changed", "persisted"}}

(* What brain.toml says after the first k events.                          *)
FileAfter(k) ==
  events[CHOOSE i \in Saves : i <= k /\ \A j \in Saves : j <= k => j <= i].text

(* Writes are all or nothing: however a writer is cut off, brain.toml      *)
(* holds the last text that was saved as a whole, or the one that was      *)
(* there before; and a file that loaded once loads for good. (save_to_file)*)
FileIsWhole ==
  /\ Parses /\ Raw = FileAfter(Len(events))
  /\ Valid(Meaning(FileAfter(1))) => Loads

(* A command changes what it names, a profile the whole of [persona], and  *)
(* every other setting goes on meaning what it meant, a tier that the file *)
(* does not have included: no earlier change is undone, and a command run  *)
(* with the environment of the daemon does not write that into the file.   *)
(* A profile where there was no file makes one without a tier, which means *)
(* the tier of the default model from then on.                             *)
CommandsChangeOneSetting ==
  \A k \in Saves :
    events[k].what = "changed" =>
      LET was == FileAfter(k - 1)
      IN  \A key \in Keys :
            Meaning(events[k].text)[key] =
              IF key \in DOMAIN events[k].why
              THEN IF events[k].why[key] = Unset THEN Default[key] ELSE events[k].why[key]
              ELSE IF was = NoFile /\ events[k].why = ApplyProfile /\ key = "tier"
              THEN Default.model
              ELSE Meaning(was)[key]

(* "Exactly once, then reverts": two turns take an override only with a    *)
(* swap-model between them, or when the first could not be put on record:  *)
(* its turn failed, the save failed, or the daemon stopped before it.      *)
OverridesAreTakenOnce ==
  \A i, j \in DOMAIN events :
    i < j /\ events[i].what = "taken" /\ events[j].what = "taken" =>
      \E k \in i .. j :
        \/ events[k].what = "changed" /\ "pending" \in DOMAIN events[k].why
        \/ events[k].what = "unsaved" /\ events[k].why = Daemon

(* Whatever the environment caps and excludes, a daemon that has just      *)
(* started climbs the rungs it was left with and no other, the cheaper     *)
(* first, the local ones below the cloud.  (capped_ladder, ladder_with_gpu)*)
LaddersAreUsable ==
  events[Len(events)].what = "started" /\ writer[Daemon].at = "ready" =>
    LET gpu == writer[Daemon].cfg.gpu # Unset
    IN  \A e \in Environments : Usable(CappedLadder(gpu, e), gpu, e)

(* Whoever saved last and however others were cut off, the file is one a   *)
(* daemon starts on, with a ladder to climb.  Every state is of its types. *)
FileIsUsable == FileTypeOK /\ FileIsWhole /\ LaddersAreUsable
=============================================================================
