# wintermute-brain in TLA+

`wmd` is the brain of a voice assistant: it listens to user turns on a bus
(agorabus), answers them through a ladder of local and cloud models, keeps
sessions and a short history, gates destructive tools behind a spoken
confirmation, speaks reminders, remembers facts, and watches its own health. This
directory holds TLA+ models of the parts of it that carry state over several
events and of the algorithms these rest on, the TLC instances that check them, and
TLAPS proofs about nine of them. `PROJECT.json` maps every definition to the lines
it stands for.

All paths below are relative to `src/src/`.

## 1. The system

One process runs one event loop (`daemon.rs`, `run`). Envelopes from the bus are
handled one at a time and to their end, so two handlers never overlap. What does
overlap with the loop: write-back tasks it spawned, the health ticker, the key
probe, the heartbeats, other processes on the bus (wm-dialog, wm-stt, wm-tts, the
almanac's tick daemon, recall), and `wmd` command lines on the same
configuration file. Everything in memory is volatile; what survives the process is
`brain.toml`, the cache of turns where one is attached, what recall stored, and
what was published.

| component | state | operations | talks to |
|---|---|---|---|
| session tracker (`session.rs`) | open session: id, start, last turn, count | `advance`, `close` | `dispatch` publishes its start and end events |
| history ring (`history.rs`) | the last N answered turns | push, replacement at a session boundary, `trimmed_messages` | read by every prompt and by repair phrases |
| write-back (`writeback.rs`, `daemon.rs`) | a second, independent session with its turns; a guard of claimed ids | `advance_writeback_session`, `record_turn_for_writeback`, spawned extraction, `save_fact` | extractor model, recall |
| turn dispatch (`daemon.rs`) | configuration copy, pending override | `dispatch`, `handle_turn_user`, `handle_turn_user_ladder` | all of the above and below |
| tier ladder (`ladder.rs`, `lib.rs`) | the rungs of this start; session floor and the words of the previous turn | `capped_ladder`, `start_index`, `SessionFloor::apply`, `run_turn_inner`, rungs | local models, wm-verify, Anthropic, recall probe |
| routing policy (`router.rs`) | none | `classify_turn`, `apply_routing_policy` | feeds the ladder |
| the request (`daemon.rs`, `lib.rs`, `anthropic.rs`) | none | `compose_base`, `compose_request`, `prompt_from_request` | reads persona, recall, recap, history |
| redline (`redline.rs`) | none | `normalise`, `scan`, `enforce_with_regenerate` | re-issues, replaces or passes an answer |
| Anthropic client (`anthropic.rs`) | the decoder's buffers | `collect_messages`, `stream_messages`, `SseDecoder` | the cloud |
| sentence splitter (`sentence_splitter.rs`) | a buffer | `push`, `flush` | wm-tts hears its sentences |
| destructive gate (`daemon.rs`) | pending intents by id, id counter | mint, offer, confirm granted / denied | wm-dialog, tool router |
| almanac reminders (`almanac.rs`, `daemon.rs`) | one `PendingAck` slot | due, answer, snooze, elapse | tick daemon, wm-stt, wm-tts |
| introduction ceremony (`introduction.rs`) | phase and deadline | first boot, on demand, answer, timeout, deferred greeting | shares `wm.stt.final` with the reminders |
| recall client (`recall_client.rs`) and recall tools | the recap of the session | query, touch, write; `save_fact`, `search` | recall |
| configuration file (`persist.rs`, `main.rs`, `profile.rs`) | `brain.toml`, `brain.toml.tmp` | load, migrate, validate, save, six kinds of writer | the daemon and the command line share it |
| graceful degradation (`degrade.rs`) | last spoken time per kind, health per component | error envelope, snapshot | ticker task |
| key health (`key_health.rs`) | one flag | probe at start and every five minutes | read by the routing of each turn |
| turn cache (`cache.rs`) | a table of answers with embeddings, on disk | lookup, hit, eviction, insert | `handle_turn_user_ladder` |
| repair (`repair.rs`) | none | `classify`, `handle_repair` | replays the ring |
| greeting (`greeting.rs`), floor (`floor.rs`), profile (`profile.rs`), wire formats (`bus.rs`), command line (`main.rs`) | none | pure functions and I/O | |

### What is hard here

* **Two notions of a session.** The tracker extends at a gap of exactly
  `idle_gap_ms`, the write-back session closes there; a goodbye ends the first
  and not the second; both use the wall clock, which can be set back.
* **Awaits with the process at stake.** A granted confirm is removed, announced,
  dispatched and reported over four awaits; each can fail or be the last.
* **A turn is many awaits.** Rungs answer, escalate or fail; the redline may run
  the whole ladder again with recall probed anew, while the partials come from
  the first run.
* **What outlives the turn.** Entries of the cache are from another process, another
  hour and other forbidden terms; facts are saved while later sessions run; the flag
  of the key is as old as the last probe.
* **Bytes.** An answer arrives in chunks that end anywhere; the redline searches
  byte by byte in a text whose dots were dropped; previews are cut at a byte.
* **One stream of utterances, two listeners**, no timer: windows are looked at
  only when somebody speaks.
* **One file, many writers**, no lock, one name for the temporary file.
* **No timeouts.** The model calls have none (`routing.cloud_timeout_ms` is
  parsed and not used), so the loop waits as long as they take.

### What makes each component correct

* Sessions: turns share one exactly when the gap and the goodbyes say so; what
  subscribers are told of it is true; the ring holds this session's answers only.
* Write-back: each answer reaches the extractor, once, in a batch that does not
  mix conversations further than a goodbye does; each fact found is saved, once,
  under a date of the calendar, whatever is refused beside it.
* Gate: nothing runs unconfirmed, twice or after a no; a run is announced, unless the
  bus refuses the announcement; a yes is not left hanging.
* Ladder: a thread that climbed stays up, a new topic starts over; what is
  high-stakes or cannot be judged is left to the cloud; a turn ends; every start
  builds the rungs it was left with, in order.
* Request: the guards and the forbidden terms reach every model; the history shown
  is the latest of this session.
* Reply path: with the redline on, no forbidden term in a reply; the history remembers
  what the turn answered with, of an offer the words before its fence; the scan misses
  nothing and invents nothing.
* Stream: what is decoded and spoken does not depend on where the chunks end.
* Cache: it holds what was said and nothing of the hour; what was used last by the
  wall clock stays.
* Reminders: only fresh answers count, a settled reminder is left alone, nobody is
  written off unasked, and the re-asks are few. The ceremony keeps its order.
* Configuration: the file is whole, a command changes one setting, an override is
  taken once.
* Health: phrases of a kind are spaced, none is silenced without a reason, and a
  snapshot is one moment's state. A key that works again brings the cloud back.

## 2. The modules

| module | models | abstract / composed with |
|---|---|---|
| `Conversation` | tracker, ring and write-back composed in `dispatch`, with spawned write-backs, crashes and shutdown | the three share one turn action |
| `IntentLedger` | abstract: what the brain promises of destructive intents | |
| `DestructiveGate` | the gate: ids, pending map, confirm events in flight, four awaits, restarts | implements `IntentLedger` |
| `LadderTurn` | routing policy, ladder with its floor, redline decisions, reply path, composed per turn | |
| `TurnCache`, `Prompt` | operators: the cache's table; the request of a turn | used by `Brain` |
| `Brain` | a turn through repair, routing, cache, request, redline, record; the key probe beside it; restarts under another configuration | composes `TurnCache` and `Prompt` |
| `SentenceSplitter` | operators: `push` and `flush` | used by `AnswerStream` |
| `AnswerStream` | decoder, collecting and streaming client, partials, reply, history | composes `SentenceSplitter` |
| `RedlineVerdict` | abstract: the redline's verdict, of one glance | |
| `RedlineScan` | the redline's scan, search by search, with re-issues and replacement | implements `RedlineVerdict` |
| `Calendar` | operators: `days_to_ymd` and the calendar it is to agree with | used by `Memory` |
| `Memory` | recap, write-back tasks up to every single save, recall tools, midnights | composes `Calendar` |
| `Reminders` | reminders and ceremony on the shared `wm.stt.final` | |
| `TierList` | operators: the rungs of a start | used by `ConfigFile` |
| `ConfigFile` | `brain.toml` under the daemon and the command line, and the ladder of each start | composes `TierList` |
| `Health` | error aggregator and snapshot ticker | |
| `MC*` | instances for TLC: which clocks, ladders, transcripts, texts, utterances, commands | |
| `*Proofs` | theorems and proofs of the module named; `DaemonProofs` of `Health`, `ConfigFile` and `TierList`, `VoiceProofs` of `Reminders`, `AnswerStream` and `SentenceSplitter` | |

A turn is cut where its state is: what `Conversation` and `Brain` leave open (which
outcome, whether a session opens) is an input of each, and the other one decides it.
How a model relates to its code:

* **Conversation.** `UserTurn` is `dispatch` of a `turn.user`: `Advanced`
  (`SessionTracker::advance`), `EndsOf` and `Publish` (the two session events, each
  of which may fail), `Remembered` (the ring replaced at a
  boundary, then pushed), `Claims` and `CurrentWriteback`
  (`advance_writeback_session`, whose guard is claimed before the task is
  spawned), `End` after an answered goodbye. `RunWriteback` is a spawned task,
  `Crash`, `Boot` and `Shutdown` the process. Texts are the positions of turns in
  the auxiliary `log`.
* **DestructiveGate.** `OfferIntent` mints (`clock`, counter), stores and then
  publishes; `Answer` is wm-dialog and the user, who answers what was heard, any
  number of times and both ways; `HandleGranted` removes, and `PublishCall`,
  `Dispatch` and `PublishResult` are the awaits behind it; `HandleDenied` removes.
  A publish has one of three `Outcomes`, as in `AgoraSink::publish`: the bus takes the
  event, refuses it (a warning and `Ok`, so the tool is dispatched), or the call fails.
  `Restart` may come at any of them.
* **LadderTurn.** `Begin` routes and enters the ladder; `LocalAnswers`,
  `LocalEscalates`, `CloudAnswers`, `CloudFails` are one rung each; `Reissue` is a
  redline re-issue; `LoseFiller` and the four `Deliver*` are the ends of
  `handle_turn_user_ladder`, with the three outcomes of a publish: an answer that the
  bus refuses is stored like one it took (`refused`, `said`). An offer is heard in the
  words before its fence or, without any, in the summary; stored are those words. A text
  is what the reply path tells apart: something to speak, a destructive fence, a
  forbidden term.
* **Brain.** `Arrive` is `dispatch` up to the handler, with the override consumed;
  `Repeat` is `handle_repair`; `Routing` the policy; `Hit` and `Miss` the lookup;
  `Think` the ladder's outcome with the redline's verdict (`Enforced`); `Reply` the
  publish and what each kind of reply does next; `Evict` and `Insert` the two
  statements of `SemanticCache::insert`; `Remember` the push and the record. `Ask`,
  `Store` and `ProbeDies` are the probe's task. A reply is known by the turn and the
  process whose model made it, by what it is (an answer, the words of an offer, its
  summary) and by the forbidden terms in it; `Enforced` passes it, or replaces it as the
  configured action of the redline says; `Kept` is what the ring gets of it. The stamps of
  the cache are whatever the wall clock reads (`Stamps`). An embedding is its
  topic; a prompt is the sequence of its clauses. The cache survives `Restart`, which
  may change the configuration.
* **AnswerStream.** `Chunk` is a poll of the body and `Pop` one of the decoder, a
  block at a time; `Collect` is `collect_messages`; `SpeakEvent` and `SpeakRest` are
  `publish_partial_sentences`, `Reply` the end of the turn. A byte is the first or
  second of a two-byte character, one no text has, an end of line, or a token of the
  event stream. `Feed` keeps what is not yet a character, `EndsAt` finds either kind
  of block end, and `Payload` joins the data lines of a block with newlines, which JSON
  passes over between two tokens and does not allow inside a text (`Torn`).
* **RedlineScan.** One action per search of the loop in `scan`: `Hit`, `Skip` (an
  occurrence inside a word; the search resumes one byte on), `Exhaust`, `Panic` (the
  slice would start inside a character), then `Pass`, `Replace` or `Reissue`.
  `Normalised` drops the full stops of abbreviations and folds the case of ASCII letters.
* **Memory.** `Begin` (after a goodbye, a new session for the tracker, and for write-back
  the same one when the gap is short), `Recap` or `RecapFails`, `Expire` or `Extend`, and `Reply` are
  the steps of a turn that touch recall or the write-back session; `Extract` and
  `Save` a task, fact by fact; `ToolSearches`, `ToolSaves` and `ToolRefuses` the two
  tools. A write may store, store without printing an id, fail, or fail with a text
  whose cut panics. The clock counts days.
* **Reminders.** One action per envelope: `Due`, the five outcomes of
  `handle_stt_final_for_ack` and `tick_almanac_timeout`, the outcomes of the
  ceremony's window, `DialogEvent` for the deferred greeting, `Startup` and
  `Restart`. `PassTime` and `SetBack` are the wall clock. Every publish carries a Boolean
  for whether it went through.
* **ConfigFile.** Processes with a program counter over the steps of
  `save_to_file`; names and inodes apart, since `File::create` truncates a file
  another writer still has open. A file is the keys it has: `Migrated`, `Valid`,
  `Effective` are the ways from it to a configuration. `Run` is any of the
  subcommands (each loads, changes its settings and saves), `RunProfile` edits the
  text without understanding it; `Start`, `TakePending`, `TurnReturns`, `TurnFails`
  and `Stop` are the daemon. The settings stand for the fields of their kind.
* **Health.** `Receive`, `Record`, then `Silence`, `Limit` or `Speak` are
  `process_error_envelope` and its caller; `Take` and `Show` the ticker.

## 3. The runs

| run | question | states |
|---|---|---|
| `conversation` | sessions, ring and write-back over gaps below, at and above the limit, goodbyes, failed publishes, crashes, shutdowns, two turns in a millisecond and a clock set back | 8.0 million |
| `destructive_gate` | repeated, late, contradictory confirms, publishes that fail or that the bus refuses, a restart at every await; refinement of `IntentLedger`; every yes settles | 816 thousand |
| `ladder` | two turns over four rungs, all of them answering, failing or rejected; re-issues, fences with and without words before them, publishes that fail or that the bus refuses, recall up and down; every turn ends | 1.3 million |
| `brain` | turns through cache, repair, routing, request and redline (off, or asking again), over sessions, restarts under another configuration, a wall clock that reads anything and every answer of the key probe | 2.1 million |
| `answer_stream` | answers cut into chunks at every place, broken off, malformed, collected or streamed, spoken with publishes that fail | 45 thousand |
| `redline` | the scan over words, parts of words, abbreviations, phrases, two-byte letters, and re-issues; refinement of `RedlineVerdict` | 22 thousand |
| `memory` | write-back tasks, recaps and tools on one store, with refusals, outages, a goodbye before a short gap, a midnight and a restart | 1.3 million |
| `reminders` | answers, snoozes, re-asks, lost publishes, a second reminder on the first, a restart, a clock set back at any moment, and the ceremony in both modes beside it | 5.2 million |
| `config_file` | absent, old and unloadable files; failures and stops between the steps of a save, failed turns, restarts, every cap and exclusion of the ladder | 1.0 million |
| `health` | several kinds and components, lost phrases, a snapshot between the steps of the loop, a clock set back | 3.8 million |
| `rejected_spoken`, `override_ignored` | two statements of the documentation that the code does not keep (section 6) | until the counterexample |

### Properties

* `conversation`: `HistoryIsThisSession`, `SessionsFollowGaps`,
  `EndEventsAreHonest`, `BatchesSplitAtIdleGaps`, `AnswersAreWrittenOnce` (at most
  once whatever the clock does; at least once, while the process lives, when it
  moved forward: the guard drops the batch of an id it has seen).
* `destructive_gate`: `RunsAtMostOnce`, `NothingRunsUnconfirmed`,
  `ImplementsLedger`, `ConsentSettles`.
* `ladder`: `FloorFollowsThread` (a thread keeps the tier it needed, a new topic
  starts over), `BlindTurnsTrustCloud`, `MemoryFollowsSpeech` (what is stored is what
  the turn answered with, heard or refused by the bus: a reply in its words, which are
  clean with the redline on; an offer, which nobody scans, in the words before its fence,
  if any), `TurnsEnd`.
* `brain`: `CachedRepliesAreSafe` (with the redline on, a forbidden term is heard in an
  offer or its repetition, or in a reply older than the process that the cache or a
  repeat brings back, and nowhere else; a question of the hour is never answered from the
  cache), `CacheHoldsWhatWasSaid`, `LastUsedStays` (the entry last used is not evicted,
  unless the wall clock read no later than another stamp when it was),
  `RepeatsAreTheLastAnswer` (of an offer, the words before its fence, which may be
  none), `LatestExchangesAreShown`, `GuardsReachEveryModel`, `RecordedTurnsWereThought`,
  `KeyRecovers`.
* `answer_stream`: `ChunksDoNotMatter` (the stream decodes to what the whole text
  decodes to), `SpokenIsStored`, `AnswersEnd`.
* `redline`: `ScanIsExact` (the hits are the terms that occur as words),
  `ImplementsVerdict` (the search byte by byte settles what one glance would, and a
  re-issue is told exactly what leaked), `AbbreviationsAreCaught` (for answers without
  the two letters beyond ASCII whose lower case begins with an ASCII one), `ScansEnd`.
* `memory`: `DatesAreRight` (the closed form agrees with the calendar, and no
  conversation is filed before it was held), `WritebackIsExact`,
  `RecapIsOfThePast`, `AcksAreTrue`.
* `reminders`: `SettledIsFinal`, `WindowsAreKept` (answers are fresh by the wall clock,
  everybody has a second chance, nagging is bounded), `CeremonyKeepsOrder`. Fresh means
  that the clock reads no more than the patience past the question asked last;
  `within_window` asks for no more (`almanac.rs:201`), so that a clock set back an hour keeps
  the window open for an hour longer, and a late yes counts.
* `config_file`: `FileIsUsable` (whole, loadable once loadable, with the ladder the
  environment leaves), `CommandsChangeOneSetting`, `OverridesAreTakenOnce`.
* `health`: `LimitIsExact`, `SnapshotsAreMoments`.

Several of them are conjunctions of named parts, each with its own comment in the
module. Each module states one type invariant besides; it is a conjunct of one of the
invariants above, and a theorem where section 4 says so. For every property of a
passing run `PROJECT.json` names a mutant: a variant of one definition, next to it in
the module and marked `Variant`, with which the run finds the property violated.

### Bounds, and why they are enough

* `conversation`: a gap of 2 ms makes 1, 2 and 3 (below, at, above) distinct, and -1 a
  clock set back; two turns of history evict with the third; four turns and one
  restart reach two sessions on either side of a restart, and a batch on each side of
  a boundary.
* `destructive_gate`: three intents, two events in flight and one restart reach a
  yes to an older intent than the one in hand and a stale yes across a restart.
  Two clock values keep the ids of one process apart or together, and the restart moves
  the clock from one to the other.
* `ladder`: two local and two cloud rungs, transcripts of noise, of two threads and of
  high stakes, and two turns reach a climb and the turn that stays up or starts over
  behind it; five texts and two re-issues reach the canned phrase and the memory it
  must not leave. That longer threads hold is the theorem `FloorHolds`.
* `brain`: four turns, two processes, a cache of two entries and then of one, and a
  history of two whose long question alone exceeds the budget reach a hit, an
  eviction under either bound, a repeat across a session boundary, and a reply that
  a later configuration forbids. Two topics are alike enough, one of them of the hour.
  The models answer with a clean or a dirty text, an offer or a bare fence (`Answers`); two
  readings of the clock (`Stamps`) give the entry just used the later, the earlier or the same
  stamp; one configuration has the redline off and the other has it ask again, with the
  safe phrase as its last resort (`safe_phrase` has no outcome that it has not). All three
  actions are covered by the theorems.
* `answer_stream`: bodies of two or three blocks in either end of line; chunks of one to
  three bytes, or all that is left, end in every character, line end and block end.
  The deltas hold terminators at their end, blanks at their start, a decimal and an
  initial across two.
* `redline`: terms that overlap themselves, prefix each other, hold a blank, a dot or a
  two-byte letter, or are empty; answers in which they stand alone, inside words,
  beside dots, digits and two-byte letters; two re-issues.
* `memory`: three turns reach two write-back tasks side by side; the answer of the
  extractor has a line for each way to be dropped and two facts, so that one can be
  refused before the other; the clock runs day by day from February 2096, a leap
  year, to March 2100, which is none.
* `reminders`: with a patience of 0 and three readings of the clock, an answer comes before
  the instant of its question (a clock set back), at it, the last one of the window, or
  past it; one snooze allowance, two reminders, four entries and steps together, one restart.
  A class of utterance for each branch of the two classifiers.
* `config_file`: one command at a time and six events reach a swap, a start, a
  taken override, a failed save, a second start and a second taking; a file from
  before the ladder and one of an unknown model beside an absent one.
* `health`: three errors over two kinds and one silent one, a window of two ticks,
  steps of the clock in both directions, one snapshot.

### Assumptions about the environment

* The wall clock moves strictly forward over a restart for the gate
  (`RestartAssumption`: ids are made of the clock and a counter that restarts), and
  over turns for `NoAnswerForgotten`, which says so itself.
* In `Conversation`, `Memory`, `Brain`, `AnswerStream`, `Reminders` and `Health` a publish went
  through when it returned `Ok`: an event that the bus refuses (`daemon.rs:996`) counts
  as sent, since the code goes on alike. `LadderTurn` and `DestructiveGate`, where it matters
  who heard what, have the refusal as an outcome of its own; there, too, fillers and
  partials count as said when they are refused.
* The wall clock may be set back in `Conversation`, `Health`, `Reminders` and for the stamps of
  the cache. In `Memory` days only pass.
* The safe phrase of the redline holds no forbidden term; the code does not scan it.
* The ladder is not empty, names no rung twice and has its local rungs below the cloud
  rungs (`LadderAssumption`). `LaddersAreUsable` of `ConfigFile` shows that every
  start builds such a ladder; an exclusion of every rung, possible there, is left out
  of `LadderTurn`: it makes every turn degraded.
* In `config_file` two saves do not overlap. Nothing in the code sees to it, and a
  file renamed while another process has truncated it is empty or torn.
* In `redline`, UTF-8 has characters of one and of two bytes; those of three and four
  differ from two in no branch of the scan. None of them is a letter whose lower case
  begins with an ASCII letter: `normalise` lowers by Unicode (`redline.rs:112`), which makes
  U+212A a k and U+0130 an i with a dot above.
* Liveness. `ConsentSettles`, `TurnsEnd`, `AnswersEnd` and `ScansEnd` assume weak
  fairness of the handler that is under way: the event loop awaits it and does
  nothing else, and every publish either succeeds or fails; that a model call returns
  is an assumption the code cannot back, since no timeout is set on it. `KeyRecovers`
  assumes weak fairness of the probe's task: the runtime schedules it beside the loop
  and its sleep ends.
* Bounds on counters are guards of the actions that count; runs stop there, hence
  `CHECK_DEADLOCK FALSE` in every configuration.

## 4. The proofs

All theorems hold for every value of the constants that satisfies the named
assumptions of the modules; nothing else is assumed.

`ConversationProofs`
* `TypeCorrect`: `TypeOK` is inductive by itself; the lemmas give the types of
  `Advanced`, `Push`, `Remembered`, `Recorded` and `End`.
* `HistoryStaysInSession`: `HistoryIsThisSession` with `TypeOK`. The argument: a
  boundary empties the ring in the same step that numbers the new session, `Push`
  keeps a suffix and adds the turn at hand (`PushKeeps`), and turns already in
  `log` do not change (`LogAfterTurn`).
* `SessionsAreRunsOfTurns`: `SessionsFollowGaps` is about `log` alone and the
  tracker decides from its own state, so the invariant adds `TrackerMatchesLog`:
  an open session has the number, time and boot of the last turn of the log, and
  after an end no open session is left to extend.
* `EndsAreHonest`: `EndEventsAreHonest` counts turns of sessions that are over, so
  `EndInv` adds what makes it true when a session ends: no turn is of a session to
  come, the open session counts its own turns (`Own`), none of them closed it, and it
  has not ended before.
* `BatchesAreWithinGaps`: the two notions of a session are compared through the log.
  `WritebackMatchesLog` has the open write-back session end at the last turn of the log,
  of this process, and its turns in the log; `SplitInv` states the property of the
  open write-back session as well as of the batches handed over, and that a turn in it of
  an earlier session had a goodbye after it. A gap that closes the tracker's session
  without closing this one does not exist, since `>` implies `>=`.
* `AnswersReachTheExtractor`: `OnceInv` states that the open session and the batches share
  no turn; `ClaimInv` that an answered turn of this process is in one of them. For the
  second, no claimed id may come up again, which is where `MovesForward` is needed: the
  ids that were claimed are older than the open session.

`DestructiveGateProofs`
* `GateTypeCorrect` by itself. The other safety theorems are corollaries of
  `GateInv`, the conjunction of `IdsAreFresh` (no id in use, in flight or offered
  before is ahead of the clock and the counter, so a minted id is new),
  `PendingIsUntouched` (a pending intent sits under its own id and was neither run
  nor cancelled), `InboxIsHonest` (a granted event names what the user approved),
  and `InHand` (the intent in hand is in no other place, and the phase says
  whether it was announced or run). `RunsAtMostOnce` is not inductive alone: that
  the intent in hand has not run needs that what is pending has not, and that needs
  fresh ids.
* `AtMostOneRun`, `OnlyConfirmedRuns`, `CancellationHolds`, `AnnouncementOrder`: the
  first two are checked by the run; the last two are shown by the proof alone: that a cancelled intent
  never runs, and that the tool.call of what runs is on the bus before, unless the bus
  refused that very event (`refused`).
* `GateImplementsLedger`: initial states map to initial states, and
  `GateStepRefines` maps every action to a step of the ledger or a stutter under
  `Status`: a mint to `Offer`, a failed publish or a restart to `Lose`, a grant to
  `Take`, a dispatch to `Run`, a denial to `Decline`.

`LadderTurnProofs`
* `LadderTypeCorrect`; its lemmas (`LadderFacts`, `IndexFacts`, `StartFacts`,
  `FirstRungFacts`, `RungMoves`) say where a turn may start and where a rung may
  move, and `Steps` sorts the actions into beginning, climbing, re-issuing, ending.
* `MemoryHolds`: `MemoryFollowsSpeech` is inductive by itself: the ends of a turn set
  what was said, what was refused and what is stored in the same step, and nothing else
  touches them; it is a case for each end and outcome, with the words an offer is stored in.
* `BlindHolds`: the property speaks of what was said; `BlindInv` adds where it comes
  from: the rung a blind turn is at, the partials it has buffered and the rung that
  served it are in the cloud. A turn enters there (`FirstRungFacts`), a climb only
  goes up, and a re-issue, though recall is probed anew for it, starts no lower
  than the rung that served the turn, which the floor remembers.
* `FloorHolds`: `ThreadInv` relates the floor and the words of the last turn to the log:
  as long as the thread goes on, the floor is above every rung that served a turn of
  it (`Above`), and a turn that is off its topic (`OffTopic`) starts where it would
  have without a floor. `AppendKeeps` carries both over the end of a turn.

`RedlineScanProofs`
* `ScanTypeCorrect`, and `ScanInv`: what the loop has found are words of the text, and
  every word of an earlier term, or of the term at hand before the place where the
  search resumes, has been found. `SkipStep` is the step that matters: resuming one
  byte on misses nothing, since no occurrence starts between.
* `ScanExact`, `AddendaAreExact` (each re-issue names the terms of the answer before it,
  all of them and no others), and `NothingDirtyPasses`, that what passes an active
  redline holds no forbidden term, follow from it; the last two are shown by the
  proof alone.
* `AbbreviationsHold`: `AbbreviationsAreCaught` speaks of the answer as the model wrote it and
  the scan of its normalised text. `RankIs` says where a byte of the answer goes (its rank
  among the bytes that are kept, by induction over the positions), `ChainsAreWords` that kept
  bytes with nothing kept between them are a word of the normalised text, and
  `PlainWordsAreCaught` and `DottedIs` that both spellings are such chains.
* `ScanImplementsVerdict`: the end of a scan maps to the one step of `RedlineVerdict`
  that settles a verdict, because the hits are exact there (`VerdictStep`); every
  other step of the search maps to a stutter. That `Brain` and `LadderTurn` take the
  verdict in one step rests on it.

`VoiceProofs`, of `Reminders`
* `RemindersTypeCorrect`; the lemmas say what each envelope adds to the log.
* `SettledStaysSettled`: `SettledInv` adds that the slot holds a question that was
  asked and that no entry of the log has settled; asking numbers the question anew.
  `Asks`, `Answers` and `Passes` are the only ways a step treats slot and log
  (`StepsOfTheAlmanac`).
* `WindowsHold`: `WindowsAreKept` speaks of the log, and the slot decides. `KeptInv` relates
  them: the window of the slot did not begin, by the wall clock, later than the last
  question, re-ask or snooze on record (setting the clock back changes neither), its snoozes are those on record (`SlotInv`), and a question that may still be
  re-asked has one re-ask to spare (`NagInv`; without it the bound on the re-asks is not
  inductive). `EntriesInv` takes the promises one entry at a time, and those are about
  what came before, so they stay true.
* `CeremonyIsInOrder`: `CeremonyInv` says what the phase knows of the last step spoken: the
  window open is that of the introduction just made, and the greeting deferred is owed to
  the patience phrase.

`VoiceProofs`, of `AnswerStream` and `SentenceSplitter`, under `StreamAssumption` (a body is of
bytes, and the characters the decoder writes are characters)
* `ChunksHold`: the buffers are related to the body by `DecoderInv`: the bytes held back are
  those behind the valid ones of what has arrived, and however the text goes on, it decodes to
  the events returned and then to what the text buffer, going on so, decodes to (`Decoded`).
  A block is complete for good (`BlockGoesOn`), so a pop keeps it (`PopDecodes`); what is
  valid stays valid and the rest can be judged alone (`ValidGoesOn`), since a character is held
  back whole, so a chunk keeps it (`FedIs`).
* `SpeakingHolds`: `SpeakerInv` says the same of the splitter: however the text goes on, its
  sentences are those published and then those of what the buffer holds, going on so
  (`Saying`). It rests on `DrainGoesOn`: a sentence end stays one whatever follows
  (`EndGoesOn`; a terminator at the end of the buffer is none), and the blanks dropped before a
  sentence decide no boundary behind them (`CutsAlike`, `EndBehind`). `SentencesKeepAll`: the
  sentences hold every character of their text but its blanks.
* The recursive functions `Drained` and `DecodedText` exist because what they recur on is shorter
  (`RecursionExists`: functions defined up to a length agree, and are joined); inductions
  over texts go by length (`ByLength`), which is a set equality and so needs no operator
  parameter. `FlatMapIs` takes `FlattenSeq` element by element.

`DaemonProofs`, of `Health`
* `HealthTypeCorrect`, and `LimitHolds` from `LimitInv`: `lastSpoken` is the time of the
  last phrase of its kind in the record, spoken or lost (`TableIsTheLast`), and two
  of them are a window apart (`TriesAreSpaced`). The property itself speaks of the
  record alone and so is not inductive.
* `SnapshotsHold`: `MomentInv` takes the snapshot that could be taken now, the one in hand
  and those published alike: each names, per component, the last error on record at its
  moment. The record only grows, so that what was true of a moment stays so.

`DaemonProofs`, of `ConfigFile` and `TierList`, under `InodesSuffice` (there are more files
than processes can hold, so a create finds one) and `NamesAssumption` (an absent file or
key is no file and no value)
* `FileInvariant`: `FileInv` is the types (`FileTypes`), that writers are apart
  (`SavesAreApart`: one saves at a time, its open file is the temporary one and never
  brain.toml, and before the rename it holds what is to be saved), and that brain.toml is
  the last text on record (`SavesAreOnRecord`).
* `FilesAreUsable`: with `ValidOnce` (once the file is valid, so is what every process has in
  hand) the file stays loadable. The ladder needs no state: `EveryLadderIsUsable` takes the
  built-in rungs through the insertion, the cut and the exclusions, each of which keeps a
  ladder that `Climbs` one; `Without` goes rung by rung, and `WithoutKeeps` is the
  induction over them.
* `CommandsHold`: the property compares records, the step sees what is in hand.
  `OneSettingInHand` says of every command under way that what it is going to save differs
  from brain.toml as it is now in what it names only; it holds since nobody else saves
  meanwhile (`Alone`), and `ConfigMeansItself` has a text that is complete mean what it says.
* `OverridesHold`: a taking that nobody has excused yet is `Outstanding`, and while there is one
  the override is gone (`OverrideIsGone`): not in the daemon's copy, and not in the file or a
  command's hand either unless the daemon is about to save. An old copy cannot bring it
  back without the event that excuses it.

`BrainProofs`
* `BrainTypeCorrect`: the types, with two facts they need: the bound of a process is
  that of its configuration, and before an insert there is room. An eviction makes
  room because a table with entries has an oldest one (`OldestExists`, from the least
  element of a set of naturals), and takes one entry only: a table that was
  filled under a wider bound stays above a narrower one.
* `CachedHolds` and `CacheKeeps` from `CacheInv`: with the redline on, what is in the table,
  or on its way from it to the user, is older than the process or clean under its terms
  (`Servable`), what is on its way into the table is clean and has just been said, and
  what the ring holds is either of these or of an offer (`Repeatable`), whatever the
  redline was in the process before. A restart changes the terms and the action and
  makes every entry old in the same step.
* `YoungestStays` from `YoungestInv`: ids are unique, and the entry last touched, while it
  is there, has the stamp that the clock read then (`stamped`). Nothing is assumed of
  the clock; the property says itself what a reading has to be.
* `RepeatHolds` from `RepeatInv`: what is kept of the answer heard last ends the history, but
  for the steps between the reply and the push, where it is in hand.
* `RecordHolds` from `RecordInv`, which says at which steps the record lags behind.
* `GuardsHold` needs no invariant but the types: it is about what `Prompt` makes of any
  persona, terms, memories and leak. `FlattenSteps` opens the library's `FlattenSeq`
  (there is a function that joins the sequences one after the other, `FlattensExist`), and from it
  follow what joined sequences hold (`FlattenIs`), what they end with (`FlattenLast`) and
  where the elements of joined pairs stand (`FlattenPairs`). `PrefixIs`, `ContextsAre`,
  `RequestIs` and `LocalIs` say which clauses each stage has, and `GuardsAreTold` puts them
  together. That the lock's guard is told only under the lock needs `BrainAssumption`: no
  memory is that very sentence.
* `ExchangesHold` from `RepeatInv`: what is kept of the answer heard last ends the history while
  a model is asked. `TrimmedIs` says that what is shown is the longest latest stretch that fits, of
  lengths that are numbers (`CharsIs`) and of which there is a greatest (`MaxIs`).

`MemoryProofs`, under `MemoryAssumption` (the day the run starts at has the date that
`days_to_ymd` gives it, the extractor prints lines) and `StoresAssumption` (what recall holds
at first is of no turn and no call of the run)
* `DatesFollow`: for every day, the date of the next day is the day after it (`DayAfter`).
  The closed form counts years from March and corrects a quotient for leap days; a day is
  taken apart into era, century, cycle of four years, year and day of the year (`Parts`),
  the closed form is shown to find them, and the parts of the next day are the next day
  or the first of a year. TLC compares the same two over a bounded range;
  the proof is for all days. `DatesAreDates` follows the same way.
* `MemoryTypeCorrect` with `TypeInv`. `Facts` and `OfThreads` are built with `Filtered`, a
  recursive function over positions: what it returns (a sequence of members that are kept)
  is shown with the least position at which it could fail.
* `DatesHold`: `DatesInv` adds that the last turn of the open session was not later than today.
* `WritebackHolds`: that no fact is stored twice needs to know what the store has of a task
  under way. `StoreInv`: what is stored of a turn is of its task and before the fact the
  task is at, in order. `SavedSoFar`: every fact passed is stored or was refused. `TurnsInv`: the
  tasks were spawned by different turns. `BatchInv`: no turn is in two batches, or
  in one and in the open session.
* `RecapHolds` from `RecapInv`: a recap is made in the turn that opened the session (`Starting`:
  after a gap, or after a goodbye), and all that is stored by then is of earlier tasks; what a task stores later goes behind it.
* `AcksHold` from `Acks`: no memory is of a call to come, and memories are not rewritten.

Only model-checked: liveness (`ConsentSettles`, `TurnsEnd`, `AnswersEnd`, `ScansEnd`,
`KeyRecovers`), which is out of the prover's reach.


## 5. What is not modelled

* `floor.rs`: set algebra over forbidden terms that only `persona lint` runs; no turn
  and no start reads it. Payload formats (`bus.rs`), HTTP, sockets, argument parsing
  and printing: a message is a record in the module that handles it.
* Word lists. `classify_turn`, `classify_ack_response`, `classify_intro_response`,
  `is_explicit_close`, `cache_unsafe` and `repair::classify` are modelled over what
  they look for (a command's words, a phrase, a pattern), which is an input of the
  turn; whether a text has it is not.
* `classify_boot` and the texts of greetings, profiles, fillers and phrases.
* Attaching the cache: `run` attaches none, so that a daemon as shipped has the runs
  of `Brain` in which every lookup misses and every insert fails. The code of the
  cache, its tests and its settings are modelled as of a daemon that attaches one.
* `stream_messages` has no caller in the daemon; `AnswerStream` has both ways of
  reading a body, with the daemon's reply path behind the collecting one.
* Recap openers, and route, context and usage events: published or
  logged, and read by nothing in the program.
* `last_seen_ts` of the health, and settings that no behaviour modelled here reads.
* Two saves of `brain.toml` at once (section 3).
* Letters beyond ASCII that fold into ASCII (section 3): a term with a k or an i in it
  also matches the spelling with U+212A, and a term right before that letter is not
  found, since it is a letter of the word once it is a k.
* Host crashes and the durability of directories; the models stop processes.

## 6. Where code and text disagree

With a run:
* `rejected_spoken`: the partials of a turn include the text of answers that
  wm-verify rejected (`ladder.rs:6-8`).
* `override_ignored`: the turn after `wmd swap-model opus` is answered by the tier the
  routing would have chosen without it. `dispatch` consumes the override
  (`daemon.rs:1427`) before the policy looks for it (`daemon.rs:2167`), and the tier
  it hands down is not used (`README.md` of the repository, line 71).

Seen while modelling, without a run of their own. Sessions and write-back:
* A goodbye does not start the write-back `writeback.rs:3` speaks of; the batch waits
  for a later turn and is lost with the process.
* `session.rs:85` counts "turns that completed"; failed turns count as well.
* `writeback_auto_commit` is only logged (`writeback.rs:13-14`). A confidence of NaN
  passes every floor, and a negative one passes a floor of 0; a body with a bar in it is dropped; a hint that begins with
  `thread-` makes a thread, too.
* Facts are filed under the UTC date, in spite of the name `chrono_local_date`, of the
  turn after the conversation. The recap of a session is made before the write-back of
  the session it closes is spawned.
* A `recall write` that stores and prints no id is reported as failed. Its error text
  is cut at byte 4096 (`daemon.rs:577`), which panics inside a character.

The reply path:
* An empty re-issue of the redline is clean, published and pushed to the history
  (`daemon.rs:2464` against `daemon.rs:2341`, "Do NOT push empty-answer turns").
* Partials are made from raw deltas that the redline never scans (`daemon.rs:2507`
  against `redline.rs:48`), also of a reply that was replaced or re-issued; the spoken
  part of a destructive offer and the fallback phrase are not scanned either. A
  destructive fence-only answer is heard as its summary and stored as nothing
  (`daemon.rs:2367` says "store what the user heard"), so that a repeat of it says nothing
  and the next prompt shows an empty answer; a reply the bus refuses is stored as if it
  had been heard (`daemon.rs:1001`); fillers are published when the climb is over (`daemon.rs:2322`
  against `ladder.rs:40`).
* A term that begins with a character beyond ASCII panics the scan when it occurs
  inside a longer word (`redline.rs:169`). The last dot of an abbreviation stays
  (`redline.rs:82`).
* A streamed `error` event, and a body that ends before `message_stop`, are taken for
  a complete answer. A byte no character has holds up everything behind it in
  `SseDecoder::feed`.
* Hits of the cache are neither scanned by the redline nor recorded for write-back;
  the safe phrase is cached like an answer; a table that is over a lowered bound is
  not cut down to it (`cache.rs:174`, "Hard upper bound").
* A single long newest pair drops the whole history from the prompt. Memories that are
  all blank leave the heading of their block.

Routing and the ladder:
* An unhealthy key changes the recommended tier only: stakes, the floor, climbs and
  `prefer = "cloud-only"` still reach the cloud (`daemon.rs:1139`, `daemon.rs:2160`).
  The probe keeps the key it read at start, and slicing an error body at byte 256
  (`key_health.rs:139`) can end it.
* The floor belongs to the daemon and is not reset at a session boundary
  (`ladder.rs:323`). `WM_BRAIN_SKIP_TIERS` can exclude every rung; each turn is then
  degraded. The canned tier of the policy is never returned.

Reminders and the gate:
* A reminder nobody answers is neither re-asked nor reported missed until somebody
  speaks (`daemon.rs:3607` against `almanac.rs:17-18`); every `wm.almanac.due` starts
  the snooze count anew (`almanac.rs:135`); any `wm.dialog.` envelope fires the
  deferred greeting (`daemon.rs:3708` against `introduction.rs:100-101`).
* A tool whose tool.call the bus refuses is dispatched all the same (`daemon.rs:1001`). The
  windows of a reminder have no lower end: after the clock is set back a late answer counts
  (`almanac.rs:201`). In the cache, the entry used after the clock was set back is the
  first to be evicted (`cache.rs:287`).
* A confirmed destructive tool is announced and dispatched without a look at the child
  lock (`lib.rs:598`).

Configuration:
* With two writers at once, `brain.toml` can be left empty or torn
  (`persist.rs:82-84`).
* A running daemon does not see `wmd swap-model` or `wmd default-model`, and its next
  save writes its older copy over what they saved (README of the repository, lines 53
  and 54).
* A file without `default_tier` is migrated to the tier of the default cloud model
  although it names no model (an empty one, or one that `persona profile apply
  --write` has just made). Applying a profile drops the settings of `[persona]` the
  profile says nothing of.
* A variable of the environment that is set to the default value overrides nothing;
  `WM_BRAIN_GPU_ENDPOINT` is never merged, although `daemon.rs:3041-3043` says it takes
  precedence; `local_llm_endpoint` has no effect (`lib.rs:365`, `lib.rs:633`);
  `api_key_env` of the file is overwritten by the command line's default. The persona
  floor is not applied by the daemon (`floor.rs`, "rejected at load time").

## 7. The plan

Done: the modules of section 2; proofs for eight of them.

Next, in this order:
1. An abstract specification of write-back (each answer extracted at most once, each
   fact saved at most once) that `Conversation` and `Memory` implement, like the
   ledger of the gate.
2. The floor algebra as operators, against its laws.
