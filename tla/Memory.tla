------------------------------- MODULE Memory -------------------------------
(***************************************************************************)
(* What the brain takes from recall and what it leaves there: the recap at *)
(* a session start, the memories of a turn and their use, the facts that   *)
(* write-back tasks save beside the turns (writeback.rs, daemon.rs), and   *)
(* the two recall tools.                                                   *)
(*                                                                         *)
(* The event loop handles one turn or tool call at a time; write-back      *)
(* tasks run beside it.  recall is another process behind a socket and a   *)
(* command: any request of it may fail, a failed write may have stored its *)
(* fact, and a query returns what it likes of what is stored.              *)
(***************************************************************************)
EXTENDS Calendar, Sequences, FiniteSets

CONSTANTS
  RecapMax,          \* BrainConfig.recap_max_memories
  ConfidenceFloor,   \* BrainConfig.writeback_confidence_floor, in percent
  Origin,            \* bound: where the clock starts, a day and its date
  FirstTurns,        \* bound: the days of the first turn
  Stores,            \* bound: what recall holds at first
  Extractions,       \* bound: what the extractor answers
  Calls,             \* bound: the arguments of recall tools
  MaxTurns,          \* bound: turns handled
  MaxCalls,          \* bound: tool calls handled
  MaxDays,           \* bound: midnights after the first turn
  MaxRestarts        \* bound: restarts of the daemon

VARIABLES
  days,      \* the wall clock, in days since 1970
  date,      \* auxiliary: the same day by the calendar
  store,     \* the memories of recall, in the order of their ids
  phase,     \* what the event loop awaits
  turn,      \* turns handled so far, the one in hand included
  since,     \* auxiliary: the turn that opened the session
  session,   \* DaemonState.writeback_session, or <<>>
  recap,     \* DaemonState.recap_context: ids, <<>> for none
  recalled,  \* auxiliary: the query of the last session start went through
  tasks,     \* the write-back tasks spawned so far
  results,   \* auxiliary: the tool results published so far
  restarts   \* restarts so far

clock == <<days, date>>
loop == <<phase, turn, since, session, recap, recalled>>
vars == <<clock, loop, store, tasks, results, restarts>>

Hints == {"", "thread", "thread-plans", "health", "profile"}
Subject == [hint : Hints, thread : BOOLEAN, on : Date \cup {[year |-> 0]}]
Undated == [year |-> 0]
Line == [tag : {"FACT", "other"}, hint : Hints, blank : BOOLEAN,
         confidence : [kind : {"number", "nan", "text"}, value : Int]]
SaveArgs == [tool : {"save_fact"}, object : BOOLEAN,
             body : {"absent", "blank", "text"},
             subject : {"absent", "null", "blank", "other"} \cup Hints]
SearchArgs == [tool : {"search"}, object : BOOLEAN,
               text : {"absent", "blank", "text"},
               limit : {"absent", "null", "negative", "number", "other"}]
Memory == [subject : Subject, turn : Nat, fact : Nat, call : Nat]
Outcomes == {"saved", "unnamed", "failed", "torn"}
TaskPhases == {"extracting", "saving", "done", "dead"}
Task == [turn : Nat, last : Nat, date : Date, batch : Seq(Nat), phase : TaskPhases,
         facts : Seq(Line), next : Nat \ {0}, refused : SUBSET Nat]
Result == [call : SaveArgs \cup SearchArgs,
           kind : {"ok", "bad_args", "recall_error"}, id : Nat]

ASSUME MemoryAssumption ==
  /\ {RecapMax, ConfidenceFloor, MaxTurns, MaxCalls, MaxDays,
      MaxRestarts} \subseteq Nat
  /\ FirstTurns \subseteq Nat
  /\ Origin \in [days : Nat, date : Date] /\ Origin.date = DaysToYmd(Origin.days)
  /\ Calls \subseteq SaveArgs \cup SearchArgs
  /\ Extractions \subseteq Seq(Line)

(* What recall holds at first is of no turn and no call of the run. *)
ASSUME StoresAssumption ==
  \A s \in Stores : /\ s \in Seq(Memory)
                    /\ \A m \in DOMAIN s : s[m].turn = 0 /\ s[m].call = 0

-----------------------------------------------------------------------------
(* parse_extraction_response *)
Clamped(value) == IF value < 0 THEN 0 ELSE IF value > 100 THEN 100 ELSE value

(* A confidence of NaN passes clamp and the comparison with the floor; a   *)
(* body with a bar in it leaves text where the confidence is read.         *)
Kept(line) ==
  /\ line.tag = "FACT" /\ line.hint # "" /\ ~line.blank
  /\ line.confidence.kind # "text"
  /\ line.confidence.kind = "number" =>
       Clamped(line.confidence.value) >= ConfidenceFloor

(* What is at the positions kept, in order; SelectSeq without an operator  *)
Filtered(s, keep) ==
  LET first[n \in 0..Len(s)] ==
        IF n = 0 THEN <<>>
        ELSE IF n \in keep THEN Append(first[n - 1], s[n]) ELSE first[n - 1]
  IN  first[Len(s)]

Facts(answer) == Filtered(answer, {i \in DOMAIN answer : Kept(answer[i])})

(* recall_subject_for.  A hint that begins with "thread-" makes a subject  *)
(* with THREAD_SUBJECT_PREFIX, too.                                        *)
SubjectFor(hint, on) ==
  [hint |-> hint, thread |-> hint \in {"thread", "thread-plans"},
   on |-> IF hint = "thread" THEN on ELSE Undated]

(* A query of recall: any of its memories, best first, at most limit *)
Ranked(limit) ==
  {s \in UNION {[1..n -> DOMAIN store] : n \in 0..limit} :
     \A i, j \in DOMAIN s : s[i] = s[j] => i = j}

Least(m, n) == IF m < n THEN m ELSE n

-----------------------------------------------------------------------------
Init ==
  /\ days = Origin.days /\ date = Origin.date
  /\ store \in Stores
  /\ phase = "idle" /\ turn = 0 /\ since = 0
  /\ session = <<>>
  /\ recap = <<>> /\ recalled = FALSE
  /\ tasks = <<>> /\ results = <<>>
  /\ restarts = 0

Midnight ==
  /\ IF turn = 0 THEN \E d \in FirstTurns : days < d
                 ELSE \A d \in FirstTurns : days # d + MaxDays
  /\ days' = days + 1 /\ date' = DayAfter(date)
  /\ UNCHANGED <<loop, store, tasks, results, restarts>>

(* A turn arrives; gap is the idle time before it against idle_gap_ms, and *)
(* goodbye says that the last turn was one, with an answer or a phrase:    *)
(* the session ended with it, but for write-back it goes on when the gap   *)
(* is below.                                                               *)
Begin(gap, goodbye) ==
  /\ phase = "idle" /\ turn < MaxTurns
  /\ turn = 0 => days \in FirstTurns
  /\ turn' = turn + 1
  /\ IF session = <<>> \/ goodbye \/ gap = "above"
     THEN /\ phase' = IF session # <<>> /\ gap = "below" THEN "reopening" ELSE "starting"
          /\ since' = turn + 1
     ELSE phase' = (IF gap = "at" THEN "expired" ELSE "current") /\ UNCHANGED since
  /\ UNCHANGED <<session, recap, recalled, clock, store, tasks, results, restarts>>

Starting == phase \in {"starting", "reopening"}
SessionStarted ==
  phase' = IF session = <<>> \/ phase = "reopening" THEN "current" ELSE "expired"

RecapFails ==
  /\ Starting
  /\ recap' = <<>> /\ recalled' = FALSE
  /\ SessionStarted
  /\ UNCHANGED <<turn, since, session, clock, store, tasks, results, restarts>>

OfThreads(ids) == Filtered(ids, {i \in DOMAIN ids : store[ids[i]].subject.thread})

(* Variant: the recap is made once the session before was handed over. *)
RecapLate(ids) ==
  /\ phase = "thinking" /\ since = turn
  /\ recap' = LET threads == OfThreads(ids)
              IN  SubSeq(threads, 1, Least(RecapMax, Len(threads)))
  /\ recalled' = TRUE /\ phase' = "thinking"
  /\ UNCHANGED <<turn, since, session, clock, store, tasks, results, restarts>>

(* handle_session_start; the opener is a publish that changes nothing *)
Recap(ids) ==
  /\ Starting
  /\ recap' = LET threads == OfThreads(ids)
              IN  SubSeq(threads, 1, Least(RecapMax, Len(threads)))
  /\ recalled' = TRUE
  /\ SessionStarted
  /\ UNCHANGED <<turn, since, session, clock, store, tasks, results, restarts>>

(* advance_writeback_session, once the guard is claimed: the batch goes to *)
(* a task, under the date of this turn.                                    *)
Spawned ==
  [turn |-> turn, last |-> session.last, date |-> DaysToYmd(days),
   batch |-> session.turns, phase |-> "extracting", facts |-> <<>>, next |-> 1,
   refused |-> {}]

Expire ==
  /\ phase = "expired"
  /\ tasks' = Append(tasks, Spawned)
  /\ session' = [turns |-> <<>>, last |-> days]
  /\ phase' = "thinking"
  /\ UNCHANGED <<turn, since, recap, recalled, clock, store, results, restarts>>

Extend ==
  /\ phase = "current"
  /\ session' = [turns |-> IF session = <<>> THEN <<>> ELSE session.turns,
                 last |-> days]
  /\ phase' = "thinking"
  /\ UNCHANGED <<turn, since, recap, recalled, clock, store, tasks, results, restarts>>

(* Memories are fetched for the prompt, none in an outage, and the turn is *)
(* thought through.  Then those memories are touched, one request after    *)
(* the other, up to the first that fails (recall counts them), the reply   *)
(* is published and the turn recorded; or no tier has an answer, or the    *)
(* publish fails.                                                          *)
Reply(published) ==
  /\ phase = "thinking"
  /\ session' = IF published THEN [session EXCEPT !.turns = Append(@, turn)] ELSE session
  /\ phase' = "idle"
  /\ UNCHANGED <<turn, since, recap, recalled, clock, store, tasks, results, restarts>>

-----------------------------------------------------------------------------
(* trigger_writeback_inner up to the facts; a batch without a turn, a      *)
(* failed call and an answer without a fact end it.                        *)
Extract(k, ok, answer) ==
  /\ tasks[k].phase = "extracting"
  /\ tasks' = [tasks EXCEPT ![k] =
       IF ok /\ Facts(answer) # <<>> /\ tasks[k].batch # <<>>
       THEN [@ EXCEPT !.phase = "saving", !.facts = Facts(answer)]
       ELSE [@ EXCEPT !.phase = "done"]]
  /\ UNCHANGED <<loop, clock, store, results, restarts>>

(* save_fact runs `recall write`.  It may store and name the memory, store *)
(* it and print no id, fail, or fail with an error text that is cut inside *)
(* a character, which panics.                                              *)
Saved(outcome, memory) ==
  store' = IF outcome \in {"saved", "unnamed"} THEN Append(store, memory) ELSE store

FactOf(k) ==
  [subject |-> SubjectFor(tasks[k].facts[tasks[k].next].hint, tasks[k].date),
   turn |-> tasks[k].turn, fact |-> tasks[k].next, call |-> 0]

(* Variant: a fact that was refused is saved again. *)
SaveAgain(k, outcome) ==
  /\ tasks[k].phase = "saving"
  /\ Saved(outcome, FactOf(k))
  /\ tasks' = [tasks EXCEPT ![k] =
       IF outcome = "torn" THEN [tasks[k] EXCEPT !.phase = "dead"]
       ELSE IF outcome # "saved" /\ tasks[k].next \notin tasks[k].refused
       THEN [tasks[k] EXCEPT !.refused = @ \cup {tasks[k].next}]
       ELSE [tasks[k] EXCEPT
              !.next = @ + 1,
              !.phase = IF tasks[k].next = Len(tasks[k].facts) THEN "done" ELSE @]]
  /\ UNCHANGED <<loop, clock, results, restarts>>

(* A fact that is refused is passed over. *)
Save(k, outcome) ==
  /\ tasks[k].phase = "saving"
  /\ Saved(outcome, FactOf(k))
  /\ tasks' = [tasks EXCEPT ![k] =
       IF outcome = "torn" THEN [tasks[k] EXCEPT !.phase = "dead"]
       ELSE [tasks[k] EXCEPT
              !.next = @ + 1,
              !.refused = IF outcome = "saved" THEN @ ELSE @ \cup {tasks[k].next},
              !.phase = IF tasks[k].next = Len(tasks[k].facts) THEN "done" ELSE @]]
  /\ UNCHANGED <<loop, clock, results, restarts>>

-----------------------------------------------------------------------------
Answered(call, kind, id) ==
  results' = Append(results, [call |-> call, kind |-> kind, id |-> id])

(* The checks of dispatch_recall_save_fact and dispatch_recall_search *)
BadArgs(call) ==
  \/ ~call.object
  \/ /\ call.tool = "save_fact"
     /\ call.body # "text" \/ call.subject \in {"blank", "other", ""}
  \/ /\ call.tool = "search"
     /\ call.text # "text" \/ call.limit \in {"negative", "other"}

(* A tool is called in the course of a session. *)
ToolRefuses(call) ==
  /\ phase = "idle" /\ turn > 0 /\ Len(results) < MaxCalls
  /\ BadArgs(call)
  /\ Answered(call, "bad_args", 0)
  /\ UNCHANGED <<loop, clock, store, tasks, restarts>>

ToolSearches(call, ok) ==
  /\ phase = "idle" /\ turn > 0 /\ Len(results) < MaxCalls
  /\ call.tool = "search" /\ ~BadArgs(call)
  /\ Answered(call, IF ok THEN "ok" ELSE "recall_error", 0)
  /\ UNCHANGED <<loop, clock, store, tasks, restarts>>

Noted(call) ==
  LET hint == IF call.subject \in {"absent", "null"} THEN "profile" ELSE call.subject
  IN  [subject |-> SubjectFor(hint, Undated), turn |-> 0, fact |-> 0,
       call |-> Len(results) + 1]

(* Variant: what recall printed is taken for an id unseen. *)
ToolSavesTrusting(call, outcome) ==
  /\ phase = "idle" /\ turn > 0 /\ Len(results) < MaxCalls
  /\ call.tool = "save_fact" /\ ~BadArgs(call) /\ outcome # "torn"
  /\ Saved(outcome, Noted(call))
  /\ IF outcome \in {"saved", "unnamed"}
     THEN Answered(call, "ok", IF outcome = "saved" THEN Len(store) + 1 ELSE 0)
     ELSE Answered(call, "recall_error", 0)
  /\ UNCHANGED <<loop, clock, tasks, restarts>>

ToolSaves(call, outcome) ==
  /\ phase = "idle" /\ turn > 0 /\ Len(results) < MaxCalls
  /\ call.tool = "save_fact" /\ ~BadArgs(call) /\ outcome # "torn"
  /\ Saved(outcome, Noted(call))
  /\ IF outcome = "saved" THEN Answered(call, "ok", Len(store) + 1)
                          ELSE Answered(call, "recall_error", 0)
  /\ UNCHANGED <<loop, clock, tasks, restarts>>

Killed == [k \in DOMAIN tasks |->
             IF tasks[k].phase \in {"extracting", "saving"}
             THEN [tasks[k] EXCEPT !.phase = "dead"] ELSE tasks[k]]

(* The process ends, at a panic in a tool call for one: its tasks end with *)
(* it, and what it knew of the session is gone.  A restart before the      *)
(* first turn changes nothing.                                             *)
Restart ==
  /\ turn > 0 /\ restarts < MaxRestarts
  /\ restarts' = restarts + 1
  /\ tasks' = Killed
  /\ phase' = "idle" /\ session' = <<>> /\ recap' = <<>> /\ recalled' = FALSE
  /\ UNCHANGED <<turn, since, clock, store, results>>

Turn ==
  \/ RecapFails
  \/ \E ids \in Ranked(RecapMax + 1) : Recap(ids)
  \/ Expire
  \/ Extend
  \/ \E published \in BOOLEAN : Reply(published)

TaskRuns(k) ==
  /\ k \in DOMAIN tasks
  /\ \/ \E ok \in BOOLEAN, answer \in Extractions : Extract(k, ok, answer)
     \/ \E outcome \in Outcomes : Save(k, outcome)

ToolCall ==
  \E call \in Calls :
    \/ ToolRefuses(call)
    \/ \E ok \in BOOLEAN : ToolSearches(call, ok)
    \/ \E outcome \in Outcomes : ToolSaves(call, outcome)

Next ==
  \/ Midnight
  \/ \E gap \in {"below", "at", "above"}, goodbye \in BOOLEAN : Begin(gap, goodbye)
  \/ Turn
  \/ \E k \in 1..(MaxTurns - 1) : TaskRuns(k)
  \/ ToolCall
  \/ Restart

Spec == Init /\ [][Next]_vars

-----------------------------------------------------------------------------
TypeOK ==
  /\ days \in Nat /\ date \in Date
  /\ store \in Seq(Memory)
  /\ phase \in {"idle", "starting", "reopening", "expired", "current", "thinking"}
  /\ turn \in 0..MaxTurns /\ since \in 0..turn
  /\ session = <<>> \/ session \in [turns : Seq(1..turn), last : Nat]
  /\ recap \in Seq(DOMAIN store)
  /\ recalled \in BOOLEAN
  /\ tasks \in Seq(Task) /\ results \in Seq(Result)
  /\ restarts \in 0..MaxRestarts

(* The closed form of the date agrees with the calendar, over leap days,   *)
(* ends of years and the centuries that have no leap day.  (days_to_ymd)   *)
DateIsRight == DaysToYmd(days) = date

(* The facts of a batch are saved in order and each at most once, and no   *)
(* turn is in two batches: retries, restarts and tasks running side by     *)
(* side duplicate no memory.  (advance_writeback_session,                  *)
(* trigger_writeback_inner)                                                *)
FactsWrittenOnce ==
  /\ \A i, j \in DOMAIN store :
       i < j /\ store[i].turn = store[j].turn /\ store[i].turn # 0
         => store[i].fact < store[j].fact
  /\ \A j, k \in DOMAIN tasks : j # k =>
       \A a \in DOMAIN tasks[j].batch, b \in DOMAIN tasks[k].batch :
         tasks[j].batch[a] # tasks[k].batch[b]

(* A write-back that came to its end saved every fact of its answer but    *)
(* those recall refused, each under its own subject: one that is refused   *)
(* does not take the rest with it.  (trigger_writeback_inner)              *)
RefusalsCostOneFact ==
  \A k \in DOMAIN tasks : tasks[k].phase = "done" =>
    \A i \in DOMAIN tasks[k].facts : i \notin tasks[k].refused =>
      \E m \in DOMAIN store :
        /\ store[m].turn = tasks[k].turn /\ store[m].fact = i
        /\ store[m].subject = SubjectFor(tasks[k].facts[i].hint, tasks[k].date)

(* What write-back saves was marked as a fact, has a subject and a body,   *)
(* and a number for its confidence that reaches the floor; NaN is the      *)
(* number that reaches every floor, and every number reaches a floor of 0, *)
(* below which it is clamped.  (parse_extraction_response)                 *)
OnlyFactsAreSaved ==
  \A k \in DOMAIN tasks : \A i \in DOMAIN tasks[k].facts :
    LET fact == tasks[k].facts[i]
    IN  /\ fact.tag = "FACT" /\ fact.hint # "" /\ ~fact.blank
        /\ \/ fact.confidence.kind = "nan"
           \/ /\ fact.confidence.kind = "number"
              /\ fact.confidence.value >= ConfidenceFloor \/ ConfidenceFloor = 0

(* What write-back stores is what the extractor found: each fact that is   *)
(* one, once, whatever was refused, lost or cut off beside it.             *)
WritebackIsExact == FactsWrittenOnce /\ RefusalsCostOneFact /\ OnlyFactsAreSaved

(* A conversation is filed under the day of the turn after it, never under *)
(* an earlier day than its own last turn: a fact of last night may carry   *)
(* the date of this morning.  (advance_writeback_session)                  *)
FiledNoEarlierThanSaid ==
  \A k \in DOMAIN tasks :
    \E d \in tasks[k].last..days : tasks[k].date = DaysToYmd(d)

(* The dates facts are filed under are dates of the calendar, and none is  *)
(* before the conversation.  (chrono_local_date, days_to_ymd)              *)
DatesAreRight == DateIsRight /\ FiledNoEarlierThanSaid

(* The recap is made before the batch of the conversation before is handed *)
(* over: nothing of the session that the same turn closed is ever in it.   *)
(* (dispatch, handle_session_start, advance_writeback_session)             *)
RecapLagsBehind ==
  \A i \in DOMAIN recap : store[recap[i]].turn < since

(* The recap holds what the last session start recalled of threads, within *)
(* its bound, and nothing when that query failed: it never outlives the    *)
(* session it was made for.  (handle_session_start)                        *)
RecapIsOfThreads ==
  /\ ~recalled => recap = <<>>
  /\ Len(recap) <= RecapMax
  /\ \A i \in DOMAIN recap : store[recap[i]].subject.thread

(* The recap of a session is of threads of the sessions before it, the one *)
(* just closed not included, over outages and write-backs under way.       *)
RecapIsOfThePast == RecapLagsBehind /\ RecapIsOfThreads

(* A save the user is told of is stored, under the id and the subject told *)
(* and by that call; a call that was refused its arguments wrote nothing.  *)
(* Every state is of its types.  (dispatch_recall_save_fact, save_fact)    *)
AcksAreTrue ==
  TypeOK /\ \A n \in DOMAIN results :
    LET r == results[n]
    IN  /\ r.kind = "ok" /\ r.call.tool = "save_fact" =>
             /\ r.id \in DOMAIN store
             /\ store[r.id].call = n
             /\ store[r.id].subject.hint =
                  IF r.call.subject \in Hints THEN r.call.subject ELSE "profile"
        /\ r.kind = "bad_args" => \A m \in DOMAIN store : store[m].call # n

=============================================================================
