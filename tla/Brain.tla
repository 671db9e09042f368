-------------------------------- MODULE Brain --------------------------------
(***************************************************************************)
(* A turn through the parts it passes on its way to a model and back       *)
(* (daemon.rs, dispatch, handle_turn_user and handle_turn_user_ladder):    *)
(* the repair phrases, the routing by words and by the health of the key,  *)
(* the cache of turns, the request made of the history (Prompt), the       *)
(* redline's verdict, and the record that write-back works from; and the   *)
(* probe that watches the key beside it (key_health.rs).                   *)
(*                                                                         *)
(* The cache is a file that outlives the process and its configuration;    *)
(* everything else is gone with the process.  The ladder is in LadderTurn, *)
(* the sessions in Conversation, the facts in Memory: here the first       *)
(* answers as it likes, and the second say whether a turn opens a session. *)
(***************************************************************************)
EXTENDS TurnCache, Prompt

CONSTANTS
  Transcripts,     \* bound: what users say
  Term,            \* terms a configuration may forbid
  Configs,         \* bound: the configurations of the processes
  CommandMaxWords, \* RoutingConfig.command_max_words
  HistoryTurns,    \* BrainConfig.history_turns
  Length,          \* bound: how long what is said on a topic is
  Memories,        \* bound: what recall finds
  Answers,         \* bound: what the ladder comes up with
  Stamps,          \* what unix_ms_now reads when the cache asks, set back or on
  MaxTurns,        \* bound: turns
  MaxBoots         \* bound: processes

VARIABLES
  config,    \* BrainConfig and environment of the process
  boot,      \* auxiliary: the process
  probe,     \* the key probe: none, asleep, dead, or the answer it awaits
  checked,   \* DaemonState.key_healthy, TRUE unless "failed"
  cache,     \* DaemonState.turn_cache, on disk
  history,   \* DaemonState.history
  phase,     \* what the event loop awaits
  turn,      \* auxiliary: turns so far
  now,       \* the turn in hand
  recorded,  \* the turn recorded last for write-back, 0 for none
  said,      \* auxiliary: how the last reply came about, and the reply
  heard,     \* auxiliary: the last answer of this session
  thought,   \* auxiliary: the last turn a model answered, 0 for none
  recent,    \* auxiliary: the entry last served or stored
  stamped    \* auxiliary: what the clock read as it was

process == <<config, boot, probe, checked>>
aux == <<said, heard, thought, recent, stamped>>
vars == <<process, cache, history, phase, turn, now, recorded, aux>>

RepairWordLimit == 5

(* What the words of a transcript decide: whether it begins with a         *)
(* command's words, holds a particle of conversation, holds one of         *)
(* CACHE_UNSAFE_PATTERNS anywhere, inside "update" as well, and is a       *)
(* repair phrase to the letter.                                            *)
Transcript ==
  [topic : Topic, words : Nat, opens : {"pattern", "verb", "other"},
   particle : BOOLEAN, timely : BOOLEAN, phrases : SUBSET {"repeat", "louder"}]

Persona ==
  [register : {"warm-elder", "plain", "brisk"}, addressesUser : BOOLEAN,
   userNamed : BOOLEAN, brief : BOOLEAN, extra : BOOLEAN]

Config ==
  [hasKey : BOOLEAN, prefer : {"auto", "local-only", "cloud-only"},
   pending : {"none", "opus"}, forbidden : SUBSET Term,
   redline : {"off", "safe_phrase", "regenerate"}, entries : Nat,
   lock : BOOLEAN, persona : Persona]

(* A reply is known by what made it and in which turn: a fixed phrase, a   *)
(* model's answer, what it says before the fence of a destructive intent,  *)
(* or the summary, which is spoken when it says nothing there.  The safe   *)
(* phrase of the redline is taken to be clean.                             *)
Text ==
  [as : {"phrase", "model", "offer", "summary", "nothing"}, by : 0..MaxTurns,
   boot : 0..MaxBoots, terms : SUBSET Term]
Fixed(as) == [as |-> as, by |-> 0, boot |-> 0, terms |-> {}]
Phrase == Fixed("phrase")
Nothing == Fixed("nothing")
Made(as, terms) == [as |-> as, by |-> turn, boot |-> boot, terms |-> terms]
Offers == {"offer", "summary"}

Kinds == Offers \cup {"model", "cache", "repeat", "canned"}
Silence == [kind |-> "none", timely |-> FALSE, reply |-> Phrase]

(* The turn in hand: what was said, the override it consumed, the tier it  *)
(* starts at, and how its reply came about.                                *)
Hand ==
  [said : Transcript, asked : {"none", "opus"}, start : {"none", "local-3b", "sonnet"},
   kind : Kinds, answer : Text, reply : Text]

Nobody ==
  [said |-> [topic |-> CHOOSE t \in Topic : TRUE, words |-> 0, opens |-> "other",
             particle |-> FALSE, timely |-> FALSE, phrases |-> {}],
   asked |-> "none", start |-> "none", kind |-> "canned", answer |-> Phrase,
   reply |-> Phrase]

(* What recall finds is never the very sentence of a guard.                *)
ASSUME BrainAssumption ==
  /\ Transcripts \subseteq Transcript
  /\ Configs \subseteq Config
  /\ {CommandMaxWords, MaxTurns} \subseteq Nat
  /\ {HistoryTurns, MaxBoots} \subseteq Nat \ {0}
  /\ Topic # {}
  /\ Memories \subseteq Seq(STRING \ {"child_lock_guard"})
  /\ Length \in [Topic -> Nat]
  /\ Stamps \subseteq Nat
  /\ Answers \subseteq [kind : Offers \cup {"model", "canned"}, terms : SUBSET Term]

-----------------------------------------------------------------------------
(* repair::classify; louder is looked for first *)
Repair(t) ==
  IF t.words > RepairWordLimit \/ t.phrases = {} THEN "none"
  ELSE IF "louder" \in t.phrases THEN "louder" ELSE "repeat"

(* classify_turn *)
Command(t) ==
  \/ t.opens \in {"pattern", "verb"}
  \/ ~t.particle /\ t.words \in 1..CommandMaxWords

CloudUsable == config.hasKey /\ checked # "failed"

(* apply_routing_policy; online is CloudUsable, too. *)
Route(t) ==
  IF config.pending # "none" THEN "local"
  ELSE IF config.prefer # "auto"
       THEN IF config.prefer = "local-only" THEN "local" ELSE "cloud"
       ELSE IF ~Command(t) /\ CloudUsable THEN "cloud" ELSE "local"

(* routing_start_tier *)
StartTier(route) == IF route = "local" THEN "local-3b" ELSE "sonnet"

-----------------------------------------------------------------------------
(* The check before the first turn, and the loop, whose client is built    *)
(* anew.  Neither runs without a key or when its client cannot be built.   *)
(* An error body that is cut inside a character ends a start, which then   *)
(* changes nothing here.                                                   *)
Probed(c, result) == c.hasKey /\ result # "unbuilt"

Init ==
  /\ \E c \in Configs, result \in {"passed", "failed", "unbuilt"} :
       /\ config = c
       /\ probe \in IF Probed(c, result) THEN {"asleep", "none"} ELSE {"none"}
       /\ checked = IF Probed(c, result) THEN result ELSE "never"
  /\ boot = 1
  /\ cache = {}
  /\ history = <<>> /\ recorded = 0
  /\ phase = "idle" /\ turn = 0 /\ now = Nobody
  /\ said = Silence /\ heard = Phrase /\ thought = 0
  /\ recent = 0 /\ stamped = 0

(* The process ends, whatever it was at, and another starts. *)
Restart ==
  /\ boot < MaxBoots /\ turn > 0
  /\ \E c \in Configs, result \in {"passed", "failed", "unbuilt"} :
       /\ config' = c
       /\ probe' \in IF Probed(c, result) THEN {"asleep", "none"} ELSE {"none"}
       /\ checked' = IF Probed(c, result) THEN result ELSE "never"
  /\ boot' = boot + 1
  /\ history' = <<>> /\ recorded' = 0
  /\ phase' = "idle" /\ now' = Nobody
  /\ said' = Silence /\ heard' = Phrase /\ thought' = 0
  /\ UNCHANGED <<cache, turn, recent, stamped>>

(* The background loop asks; what the answer will be is settled here. *)
Ask(answer) ==
  /\ probe = "asleep"
  /\ probe' = answer
  /\ UNCHANGED <<config, boot, checked, cache, history, phase, turn, now,
                 recorded, aux>>

(* Variant: a flag that fell is left as it is. *)
StoreSticky ==
  /\ probe \in {"passed", "failed"}
  /\ checked' = IF checked = "failed" THEN checked ELSE probe
  /\ probe' = "asleep"
  /\ UNCHANGED <<config, boot, cache, history, phase, turn, now, recorded, aux>>

Store ==
  /\ probe \in {"passed", "failed"}
  /\ checked' = probe
  /\ probe' = "asleep"
  /\ UNCHANGED <<config, boot, cache, history, phase, turn, now, recorded, aux>>

(* The preview of an error body is cut inside a character: the task ends. *)
ProbeDies ==
  /\ probe = "garbled"
  /\ probe' = "dead"
  /\ UNCHANGED <<config, boot, checked, cache, history, phase, turn, now,
                 recorded, aux>>

Probe ==
  \/ \E answer \in {"passed", "failed", "garbled"} : Ask(answer)
  \/ Store
  \/ ProbeDies

-----------------------------------------------------------------------------
(* Variant: a new session goes on with the history of the one before. *)
ArriveKeeping(t, opens) ==
  /\ phase = "idle" /\ turn < MaxTurns
  /\ turn' = turn + 1
  /\ now' = [Nobody EXCEPT !.said = t, !.asked = config.pending]
  /\ config' = [config EXCEPT !.pending = "none"]
  /\ phase' = IF Repair(t) = "none" THEN "routing" ELSE "repeating"
  /\ said' = Silence /\ heard' = IF opens THEN Phrase ELSE heard
  /\ UNCHANGED <<boot, probe, checked, cache, history, recorded,
                 thought, recent, stamped>>

(* dispatch: the session first, then the override of one turn is consumed, *)
(* then repair phrases are looked for.                                     *)
Arrive(t, opens) ==
  /\ phase = "idle" /\ turn < MaxTurns
  /\ turn' = turn + 1
  /\ history' = IF opens THEN <<>> ELSE history
  /\ now' = [Nobody EXCEPT !.said = t, !.asked = config.pending]
  /\ config' = [config EXCEPT !.pending = "none"]
  /\ phase' = IF Repair(t) = "none" THEN "routing" ELSE "repeating"
  /\ said' = Silence /\ heard' = IF opens THEN Phrase ELSE heard
  /\ UNCHANGED <<boot, probe, checked, cache, recorded, thought, recent, stamped>>

(* What is said is what the publish was asked for and returned Ok on, with *)
(* a warning only when the bus refused it.                                 *)
Say(kind, reply) ==
  /\ said' = [kind |-> kind, timely |-> now.said.timely, reply |-> reply]
  /\ heard' = IF kind \in Offers \cup {"model", "cache"} THEN reply ELSE heard
  /\ thought' = IF kind \in Offers \cup {"model"} THEN turn ELSE thought

(* What is kept of an offer is what was said before its fence, and that is *)
(* nothing when the summary was spoken in its place.                       *)
Kept(reply) == IF reply.as = "summary" THEN Nothing ELSE reply
Pair(reply) == [user |-> Length[now.said.topic], reply |-> Kept(reply)]

Push(reply) ==
  history' = IF Len(history) = HistoryTurns THEN Append(Tail(history), Pair(reply))
                                            ELSE Append(history, Pair(reply))

End == phase' = "idle" /\ now' = Nobody

(* handle_repair: replayed and not pushed again *)
Repeat ==
  /\ phase = "repeating"
  /\ Say("repeat", IF history = <<>> THEN Phrase ELSE Last(history).reply)
  /\ End
  /\ UNCHANGED <<process, cache, history, turn, recorded, recent, stamped>>

Routing ==
  /\ phase = "routing"
  /\ now' = [now EXCEPT !.start = StartTier(Route(now.said))]
  /\ phase' = IF now.said.timely THEN "thinking" ELSE "looking"
  /\ UNCHANGED <<process, cache, history, turn, recorded, aux>>

Hit(e, ts) ==
  /\ phase = "looking"
  /\ e \in Matches(cache, now.said.topic)
  /\ cache' = Bumped(cache, e, ts) /\ recent' = e.id /\ stamped' = ts
  /\ now' = [now EXCEPT !.kind = "cache", !.reply = e.reply]
  /\ phase' = "replying"
  /\ UNCHANGED <<process, history, turn, recorded, said, heard, thought>>

(* Nothing is alike enough, or the embedder or the database fails, or no   *)
(* cache is attached or it is disabled.                                    *)
Miss ==
  /\ phase = "looking"
  /\ phase' = "thinking"
  /\ UNCHANGED <<process, cache, history, turn, now, recorded, aux>>

(* The request of the turn, with what recall finds for it and the recap of *)
(* the session.                                                            *)
Asked(hits, recap) ==
  Request(StablePrefix(ComposeBase(config.persona, config.forbidden), config.lock),
          RecallContext(hits), RecapContext(recap), Trimmed(history),
          Length[now.said.topic])

(* Variant: what the redline found is only counted. *)
EnforcedNot(answer) == {answer}

(* The answer as it is, when the redline is off or finds no forbidden term *)
(* in it; else the safe phrase or, of one that asks again, an answer that  *)
(* has none.                                                               *)
Enforced(answer) ==
  IF config.redline = "off" \/ answer.terms \cap config.forbidden = {} THEN {answer}
  ELSE {Phrase} \cup {Made("model", t) : t \in IF config.redline = "safe_phrase" THEN {}
                                            ELSE SUBSET (Term \ config.forbidden)}

(* The ladder has an answer, a destructive intent after some words or none, *)
(* nothing, or no tier.  Only an answer is scanned.                        *)
Think(found) ==
  /\ phase = "thinking"
  /\ LET answer == IF found.kind = "canned" THEN Phrase ELSE Made(found.kind, found.terms)
     IN  \E reply \in IF found.kind = "model" THEN Enforced(answer) ELSE {answer} :
           now' = [now EXCEPT !.kind = found.kind, !.answer = answer, !.reply = reply]
  /\ phase' = "replying"
  /\ UNCHANGED <<process, cache, history, turn, recorded, aux>>

(* An empty answer is an error, and so is a reply that cannot be published. *)
Fail ==
  /\ phase \in {"repeating", "thinking", "replying"}
  /\ End
  /\ UNCHANGED <<process, cache, history, turn, recorded, aux>>

(* Variant: a turn served from the cache is recorded like any other. *)
ReplyRecorded ==
  /\ phase = "replying"
  /\ Say(now.kind, now.reply)
  /\ IF now.kind = "model"
     THEN /\ phase' = IF now.said.timely THEN "storing" ELSE "caching"
          /\ UNCHANGED <<now, history, recorded>>
     ELSE /\ End
          /\ IF now.kind = "canned" THEN UNCHANGED history ELSE Push(now.reply)
          /\ recorded' = IF now.kind \in Offers \cup {"cache"} THEN turn ELSE recorded
  /\ UNCHANGED <<process, cache, turn, recent, stamped>>

(* The reply is published.  What follows is up to its kind: a phrase is    *)
(* forgotten, an offer and a cached reply are pushed onto the history, the *)
(* offer is recorded, and a model's answer goes to the cache first.        *)
Reply ==
  /\ phase = "replying"
  /\ Say(now.kind, now.reply)
  /\ IF now.kind = "model"
     THEN /\ phase' = IF now.said.timely THEN "storing" ELSE "caching"
          /\ UNCHANGED <<now, history, recorded>>
     ELSE /\ End
          /\ IF now.kind = "canned" THEN UNCHANGED history ELSE Push(now.reply)
          /\ recorded' = IF now.kind \in Offers THEN turn ELSE recorded
  /\ UNCHANGED <<process, cache, turn, recent, stamped>>

(* SemanticCache::insert, two statements without a transaction *)
Evict ==
  /\ phase = "caching"
  /\ cache' = Evicted(cache, config.entries)
  /\ phase' = "inserting"
  /\ UNCHANGED <<process, history, turn, now, recorded, aux>>

(* Variant: what is cached is the answer before the redline. *)
InsertRaw(ts) ==
  /\ phase = "inserting"
  /\ cache' = cache \cup {[id |-> turn, ts |-> ts, topic |-> now.said.topic,
                           reply |-> now.answer]}
  /\ recent' = turn /\ stamped' = ts
  /\ phase' = "storing"
  /\ UNCHANGED <<process, history, turn, now, recorded, said, heard, thought>>

Insert(ts) ==
  /\ phase = "inserting"
  /\ cache' = cache \cup {[id |-> turn, ts |-> ts, topic |-> now.said.topic,
                           reply |-> now.reply]}
  /\ recent' = turn /\ stamped' = ts
  /\ phase' = "storing"
  /\ UNCHANGED <<process, history, turn, now, recorded, said, heard, thought>>

(* The embedder or a statement fails; no cache, or a disabled one. *)
InsertFails ==
  /\ phase \in {"caching", "inserting"}
  /\ phase' = "storing"
  /\ UNCHANGED <<process, cache, history, turn, now, recorded, aux>>

Remember ==
  /\ phase = "storing"
  /\ Push(now.reply) /\ recorded' = turn
  /\ End
  /\ UNCHANGED <<process, cache, turn, aux>>

Next ==
  \/ \E t \in Transcripts, opens \in BOOLEAN : Arrive(t, opens)
  \/ Repeat
  \/ Routing
  \/ \E e \in cache, ts \in Stamps : Hit(e, ts)
  \/ Miss
  \/ \E found \in Answers : Think(found)
  \/ Fail
  \/ Reply
  \/ Evict
  \/ \E ts \in Stamps : Insert(ts)
  \/ InsertFails
  \/ Remember
  \/ Probe
  \/ Restart

Spec == Init /\ [][Next]_vars

(* The probe sleeps for five minutes and asks again, whatever else goes on. *)
FairSpec == Spec /\ WF_vars(Probe)

-----------------------------------------------------------------------------
Entry == [id : 1..MaxTurns, ts : Stamps, topic : Topic, reply : Text]

TypeOK ==
  /\ config \in Config /\ boot \in 1..MaxBoots
  /\ probe \in {"none", "asleep", "passed", "failed", "garbled", "dead"}
  /\ checked \in {"never", "passed", "failed"}
  /\ cache \subseteq Entry /\ recent \in 0..MaxTurns /\ stamped \in Stamps \cup {0}
  /\ Cardinality(cache) <= 1 \/ \E c \in Configs : Cardinality(cache) <= c.entries
  /\ history \in Seq([user : Nat, reply : Text]) /\ Len(history) <= HistoryTurns
  /\ turn \in 0..MaxTurns /\ recorded \in 0..turn /\ thought \in 0..turn
  /\ phase \in {"idle", "repeating", "routing", "looking", "thinking", "replying",
                "caching", "inserting", "storing"}
  /\ now \in Hand
  /\ said \in [kind : Kinds \cup {"none"}, timely : BOOLEAN, reply : Text]
  /\ heard \in Text

(* What enters the cache is the reply that has just been published, after  *)
(* the redline, under the question it answered; no phrase of a turn that   *)
(* had no answer, no offer, nothing said to a question of the hour.  An    *)
(* entry is never rewritten.  (handle_turn_user_ladder, insert)            *)
CacheHoldsWhatWasSaid ==
  [][\A e \in cache' :
       \/ \E f \in cache : [f EXCEPT !.ts = e.ts] = e
       \/ /\ said.kind = "model" /\ ~said.timely
          /\ e.topic = now.said.topic /\ e.reply = said.reply]_vars

(* The entry served or stored last is not the one that makes room for the  *)
(* next, unless it is alone, or the wall clock was not past every other    *)
(* stamp when it was: one that was set back makes the entry last used the  *)
(* first to go.  (lookup, insert)                                          *)
LastUsedStays ==
  [][Cardinality(cache) > 1 /\ (\A e \in cache : e.id # recent => e.ts < stamped) =>
       \A e \in cache : e.id = recent => \E f \in cache' : f.id = recent]_vars

(* While the redline is on, a forbidden term is heard only in what is not  *)
(* scanned: in an offer or the repetition of one, or in what an earlier    *)
(* process made, from the cache or repeated after it; never in what a      *)
(* model of this process has answered.  (handle_turn_user_ladder)          *)
DirtyRepliesAreOld ==
  config.redline # "off" /\ said.reply.terms \cap config.forbidden # {} =>
    \/ said.kind \in Offers \cup {"repeat"} /\ said.reply.as \in Offers
    \/ said.kind \in {"cache", "repeat"} /\ said.reply.boot < boot

(* A question of the hour is never answered from the cache, however alike  *)
(* it is to one that is in it.  (cache_unsafe)                             *)
TimelyQuestionsReachAModel == said.timely => said.kind # "cache"

(* What the cache serves is as safe as it can be without a second look:    *)
(* under a process whose redline is on it is clean or from another, and it *)
(* is not of the hour.  Every state is of its types, and the table within  *)
(* the widest bound it was ever opened with, or of one entry.              *)
(* (lookup, insert)                                                        *)
CachedRepliesAreSafe == TypeOK /\ DirtyRepliesAreOld /\ TimelyQuestionsReachAModel

(* "Say that again" repeats the last answer of this session, a cached one  *)
(* included and of an offer what was said before its fence: nothing at all *)
(* when the summary was spoken in its place.  It never repeats a word of   *)
(* another session, and passes over the phrase of a turn that had no       *)
(* answer.  (handle_repair, dispatch)                                      *)
RepeatsAreTheLastAnswer == said.kind = "repeat" => said.reply = Kept(heard)

(* What a model is shown of the conversation is its latest exchanges, as   *)
(* many as the budget has room for and none from the middle, the last one  *)
(* the last of this session, empty for an offer that was a summary only;   *)
(* then the question, and nobody speaks twice in a row.  The digest counts *)
(* what was shown.  (trimmed_messages)                                     *)
LatestExchangesAreShown ==
  phase = "thinking" =>
    LET shown == Asked(<<>>, <<>>).messages
        asked == Digest(<<>>, config.lock, Trimmed(history)).historyTurns
    IN  /\ Len(shown) = 2 * asked + 1 /\ shown[Len(shown)].content = Length[now.said.topic]
        /\ \A k \in DOMAIN shown : shown[k].role = IF k % 2 = 1 THEN "user" ELSE "assistant"
        /\ \A k \in 1..asked :
             /\ shown[2 * k - 1].content = history[Len(history) - asked + k].user
             /\ shown[2 * k].content = history[Len(history) - asked + k].reply
        /\ asked > 0 => shown[2 * asked].content = Kept(heard)
        /\ Chars(Latest(history, asked)) <= CharBudget
        /\ asked < Len(history) => Chars(Latest(history, asked + 1)) > CharBudget

(* Whatever is remembered and however often the redline asks again, every  *)
(* rung is told the guards and every forbidden term, a local one no less   *)
(* than the cloud; what was said of the leak comes last; and what may be   *)
(* cached of a request is the same for every request of the process.       *)
(* (compose_request, prompt_from_request, handle_turn_user_ladder)         *)
GuardsReachEveryModel ==
  phase = "thinking" =>
    \A hits, recap \in Memories, leaked \in SUBSET config.forbidden :
      LET first == Asked(hits, recap)
          request == IF leaked = {} THEN first ELSE Hardened(first, leaked)
          told == LocalPrompt(request).system
      IN  /\ Clause("destructive_gate_guard") \in Range(told)
          /\ config.lock <=> Clause("child_lock_guard") \in Range(told)
          /\ config.forbidden # {} => <<"never_use", config.forbidden>> \in Range(told)
          /\ leaked # {} => told[Len(told)] = <<"do_not_use", leaked>>
          /\ \A hit \in Range(hits) \cup Range(recap) :
               hit # Blank <=> Clause(hit) \in Range(told)
          /\ {k \in DOMAIN request.system : request.system[k].cached} = {1}
          /\ request.system[1] = Asked(<<>>, <<>>).system[1]
          /\ LocalPrompt(request).messages = Asked(<<>>, <<>>).messages

(* When a turn has ended, the last one that write-back has is the last     *)
(* that a model answered: none is left out, and none that was repeated,    *)
(* degraded or served from the cache goes in.  (record_turn_for_writeback) *)
RecordedTurnsWereThought ==
  /\ recorded <= thought
  /\ phase = "idle" => recorded = thought

(* When the API takes the key again and goes on taking it, the cloud comes *)
(* back within one period, unless the probe has died or none was built.    *)
(* (run)                                                                   *)
KeyRecovers ==
  <>[](probe \in {"asleep", "passed"}) => <>[](checked # "failed")

(* README.md: "`wmd swap-model opus` uses Opus exactly once, then          *)
(* reverts".  The override is consumed before the routing looks for it,    *)
(* and the tier that is handed down goes unused.                           *)
OverrideIsHonoured ==
  now.asked # "none" /\ now.start # "none" => now.start = now.asked
=============================================================================
