---------------------------- MODULE Conversation ----------------------------
(***************************************************************************)
(* How wmd handles wm.dialog.turn.user (dispatch in daemon.rs): the        *)
(* session tracker (session.rs), the rolling history ring (history.rs) and *)
(* the separate write-back session with its idempotence guard              *)
(* (daemon.rs, writeback.rs).                                              *)
(*                                                                         *)
(* The event loop handles one envelope at a time, so one user turn is one  *)
(* action; the write-back tasks it spawns run beside it, and the process   *)
(* may crash or be shut down between any two steps.  Everything but the    *)
(* events already published and the extractions already made is volatile.  *)
(*                                                                         *)
(* Texts are abstracted: a turn is its position in `log`, the auxiliary    *)
(* record of every turn the daemon ever handled.                           *)
(***************************************************************************)
EXTENDS Integers, Sequences, FiniteSets

CONSTANTS
  IdleGap,       \* BrainConfig.idle_gap_ms
  HistoryTurns,  \* BrainConfig.history_turns; 0 disables the ring
  HasExtractor,  \* run() attaches an extractor iff it could build an LLM client
  Advances,      \* by how much the wall clock may move from one turn to the next
  NoSession,     \* Option::None of the tracker and of the write-back session
  MaxClock,      \* bound: the clock stays in 0 .. MaxClock
  MaxTurns,      \* bound: user turns handled over all boots
  MaxBoots       \* bound: how often the daemon stops and starts again

VARIABLES
  clock,       \* now_unix_ms()
  session,     \* SessionTracker.current
  history,     \* History.turns, oldest first
  writeback,   \* DaemonState.writeback_session
  claimed,     \* WritebackGuard.written
  jobs,        \* spawned write-back tasks that have not finished
  ended,       \* auxiliary: the wm.brain.session.end payloads published
  extracted,   \* auxiliary: the batches handed to the extractor
  log,         \* auxiliary: every turn handled, in order
  boots        \* auxiliary: restarts so far

vars == <<clock, session, history, writeback, claimed, jobs, ended, extracted,
          log, boots>>

(***************************************************************************)
(* What became of a turn inside handle_turn_user.                          *)
(*   answered: an answer or a destructive offer was published, then the    *)
(*             turn was pushed to the ring and recorded for write-back     *)
(*   unstored: a repair phrase replayed from the ring, or an error or a    *)
(*             canned phrase after an empty answer or a degraded ladder;   *)
(*             the turn is stored nowhere                                  *)
(*   failed:   a publish failed and `?` left dispatch before the explicit  *)
(*             close                                                       *)
(***************************************************************************)
Outcomes == {"answered", "unstored", "failed"}
Reasons == {"idle", "explicit", "shutdown"}

Session   == [id : Int, no : Nat, last : Int, count : Nat]
Writeback == [id : Int, last : Int, turns : Seq(Nat)]
Batch     == [id : Int, turns : Seq(Nat)]
EndEvent  == [id : Int, no : Nat, count : Nat, reason : Reasons]
LogEntry  == [no : Nat, boot : Nat, at : Int, goodbye : BOOLEAN, outcome : Outcomes]

ASSUME GapAssumption == IdleGap \in Nat
ASSUME HistoryAssumption == HistoryTurns \in Nat
ASSUME ExtractorAssumption == HasExtractor \in BOOLEAN
ASSUME AdvancesAssumption == Advances \subseteq Int
ASSUME NoSessionAssumption == NoSession \notin Session \cup Writeback
ASSUME BoundsAssumption == MaxClock \in Nat /\ MaxTurns \in Nat /\ MaxBoots \in Nat

-----------------------------------------------------------------------------
(* now_ms.saturating_sub(last_turn_ms) *)
Elapsed(last, now) == IF now >= last THEN now - last ELSE 0

(* The number of sessions opened so far; sessions are numbered in order. *)
SessionsOpened == IF Len(log) = 0 THEN 0 ELSE log[Len(log)].no

(* Variant: an exact gap closes the session. *)
ContinuesShort == session # NoSession /\ Elapsed(session.last, clock) < IdleGap

(* SessionTracker::advance: within the gap the open session is extended. *)
Continues == session # NoSession /\ Elapsed(session.last, clock) <= IdleGap

(* Variant: a new session starts counting at zero. *)
AdvancedFromZero ==
  IF Continues
  THEN [session EXCEPT !.last = clock, !.count = @ + 1]
  ELSE [id |-> clock, no |-> SessionsOpened + 1, last |-> clock, count |-> 0]

Advanced ==
  IF Continues
  THEN [session EXCEPT !.last = clock, !.count = @ + 1]
  ELSE [id |-> clock, no |-> SessionsOpened + 1, last |-> clock, count |-> 1]

End(s, reason) ==
  [id |-> s.id, no |-> s.no, count |-> s.count, reason |-> reason]

(* The session.end payloads one turn publishes: for the session it found *)
(* expired, and after a goodbye was answered for the one it just opened or *)
(* extended.                                                               *)
EndsOf(goodbye, outcome) ==
  (IF session # NoSession /\ ~Continues THEN {End(session, "idle")} ELSE {})
  \cup
  (IF goodbye /\ outcome # "failed" THEN {End(Advanced, "explicit")} ELSE {})

(* A session.end that cannot be published is logged and dropped. *)
Publish(ends) == \E lost \in SUBSET ends : ended' = ended \cup (ends \ lost)

(* History::push evicts from the front until the new turn fits. *)
Push(ring, turn) ==
  CASE HistoryTurns = 0 -> ring
    [] HistoryTurns # 0 /\ Len(ring) >= HistoryTurns ->
         Append(SubSeq(ring, Len(ring) - HistoryTurns + 2, Len(ring)), turn)
    [] OTHER -> Append(ring, turn)

(* Variant: the ring outlives its session. *)
RememberedAcross(turn, outcome) ==
  IF outcome = "answered" THEN Push(history, turn) ELSE history

(* dispatch replaces the ring when a session opens, before anything reads it. *)
Remembered(turn, outcome) ==
  LET ring == IF Continues THEN history ELSE <<>>
  IN  IF outcome = "answered" THEN Push(ring, turn) ELSE ring

(* Variant: the gap is measured the wrong way round. *)
ExpiredNever == writeback # NoSession /\ Elapsed(clock, writeback.last) >= IdleGap

(* advance_writeback_session: its own gap test, `>=` where the tracker has `>`. *)
Expired == writeback # NoSession /\ Elapsed(writeback.last, clock) >= IdleGap

(* The guard lets the first batch of a session id through and no other. *)
Claims == Expired /\ HasExtractor /\ writeback.id \notin claimed

(* Variant: a new write-back session keeps the turns of the old one. *)
CurrentWritebackKept ==
  IF writeback = NoSession
  THEN [id |-> clock, last |-> clock, turns |-> <<>>]
  ELSE [writeback EXCEPT !.id = IF Expired THEN clock ELSE @, !.last = clock]

CurrentWriteback ==
  IF writeback # NoSession /\ ~Expired
  THEN [writeback EXCEPT !.last = clock]
  ELSE [id |-> clock, last |-> clock, turns |-> <<>>]

(* record_turn_for_writeback *)
Recorded(turn, outcome) ==
  IF outcome = "answered"
  THEN [CurrentWriteback EXCEPT !.turns = Append(@, turn)]
  ELSE CurrentWriteback

-----------------------------------------------------------------------------
Init ==
  /\ clock = 0
  /\ session = NoSession
  /\ history = <<>>
  /\ writeback = NoSession
  /\ claimed = {}
  /\ jobs = {}
  /\ ended = {}
  /\ extracted = {}
  /\ log = <<>>
  /\ boots = 0

(* One wm.dialog.turn.user, from is_explicit_close to the explicit close. *)
(* The next turn is read d later.                                         *)
UserTurn(goodbye, outcome, d) ==
  LET turn == Len(log) + 1
  IN  /\ turn <= MaxTurns
      /\ clock + d \in 0 .. MaxClock
      /\ clock' = clock + d
      /\ session' = IF goodbye /\ outcome # "failed" THEN NoSession ELSE Advanced
      /\ Publish(EndsOf(goodbye, outcome))
      /\ history' = Remembered(turn, outcome)
      /\ writeback' = Recorded(turn, outcome)
      /\ claimed' = IF Claims THEN claimed \cup {writeback.id} ELSE claimed
      /\ jobs' = IF Claims
                 THEN jobs \cup {[id |-> writeback.id, turns |-> writeback.turns]}
                 ELSE jobs
      /\ log' = Append(log, [no |-> Advanced.no, boot |-> boots, at |-> clock,
                             goodbye |-> goodbye, outcome |-> outcome])
      /\ UNCHANGED <<extracted, boots>>

(* A spawned task reaches the extractor; an empty batch is skipped. *)
RunWriteback(job) ==
  /\ jobs' = jobs \ {job}
  /\ extracted' = IF job.turns = <<>> THEN extracted ELSE extracted \cup {job}
  /\ UNCHANGED <<clock, session, history, writeback, claimed, ended, log, boots>>

(* A new process: DaemonState::new, nothing of the old one survives. *)
Boot ==
  /\ boots < MaxBoots
  /\ boots' = boots + 1
  /\ session' = NoSession
  /\ history' = <<>>
  /\ writeback' = NoSession
  /\ claimed' = {}
  /\ jobs' = {}
  /\ UNCHANGED <<clock, extracted, log>>

Crash ==
  /\ Boot
  /\ UNCHANGED ended

(* The bus closes: run() ends the open session and returns. *)
Shutdown ==
  /\ Boot
  /\ Publish(IF session = NoSession THEN {} ELSE {End(session, "shutdown")})

Next ==
  \/ \E goodbye \in BOOLEAN, outcome \in Outcomes, d \in Advances :
       UserTurn(goodbye, outcome, d)
  \/ \E job \in jobs : RunWriteback(job)
  \/ Crash
  \/ Shutdown

Spec == Init /\ [][Next]_vars

-----------------------------------------------------------------------------
TypeOK ==
  /\ clock \in Int
  /\ session \in Session \cup {NoSession}
  /\ history \in Seq(Nat)
  /\ writeback \in Writeback \cup {NoSession}
  /\ claimed \subseteq Int
  /\ jobs \subseteq Batch
  /\ ended \subseteq EndEvent
  /\ extracted \subseteq Batch
  /\ log \in Seq(LogEntry)
  /\ boots \in Nat

-----------------------------------------------------------------------------
Handled == 1 .. Len(log)
ClosedBy(entry) == entry.goodbye /\ entry.outcome # "failed"
Turns(batch) == {batch.turns[i] : i \in DOMAIN batch.turns}

(* The turns still to be written back and those already handed over. *)
OpenBatches ==
  IF writeback = NoSession THEN {} ELSE {[id |-> writeback.id, turns |-> writeback.turns]}
Batches == OpenBatches \cup jobs \cup extracted

(***************************************************************************)
(* Context never bleeds across sessions (DaemonState.history, daemon.rs):  *)
(* while a session is open the ring, which the prompt and the replay of a  *)
(* repair phrase are taken from, holds answered turns of it and of no      *)
(* other session, whatever the clock does and wherever a publish failed.   *)
(***************************************************************************)
HistoryIsThisSession ==
  session # NoSession =>
    \A i \in DOMAIN history :
      /\ history[i] \in Handled
      /\ log[history[i]].no = session.no
      /\ log[history[i]].outcome = "answered"

(***************************************************************************)
(* A session is a run of turns of one process with no gap above idle_gap   *)
(* and no answered goodbye inside (session.rs, advance and close): two     *)
(* consecutive turns share a session exactly when the code promises it.    *)
(***************************************************************************)
SessionsFollowGaps ==
  \A i \in Handled :
    i + 1 \in Handled =>
      LET a == log[i]
          b == log[i + 1]
      IN  a.no = b.no <=> /\ a.boot = b.boot
                          /\ b.at - a.at <= IdleGap
                          /\ ~ClosedBy(a)

(***************************************************************************)
(* What subscribers of wm.brain.session.end are told is true: a session    *)
(* ends at most once, never while it is still open, its turn_count is the  *)
(* number of user turns handled in it, failed ones included, and the       *)
(* reason is `explicit` exactly when its last turn was an answered goodbye *)
(***************************************************************************)
EndEventsAreHonest ==
  \A e \in ended :
    LET own == {i \in Handled : log[i].no = e.no}
    IN  /\ \A f \in ended : f.no = e.no => f = e
        /\ session # NoSession => session.no # e.no
        /\ e.count = Cardinality(own)
        /\ e.reason = "explicit" <=> \E i \in own : ClosedBy(log[i])

(***************************************************************************)
(* The two session notions of the daemon agree on idle gaps although one   *)
(* tests `> gap` and the other `>= gap`: a write-back batch joins turns of *)
(* two sessions only where the earlier one ended with a goodbye.           *)
(***************************************************************************)
BatchesSplitAtIdleGaps ==
  \A b \in Batches : \A i, j \in Turns(b) :
    log[i].no < log[j].no =>
      \E k \in Handled : log[k].no = log[i].no /\ ClosedBy(log[k])

(***************************************************************************)
(* No fact is extracted from the same answer twice: a turn is in at most   *)
(* one batch, over write-back tasks that finish in any order.              *)
(***************************************************************************)
TurnsWrittenOnce ==
  /\ \A b, c \in Batches : b # c => Turns(b) \cap Turns(c) = {}
  /\ \A b \in Batches : Cardinality(Turns(b)) = Len(b.turns)

(* No two turns shared a millisecond and the clock was never set back. *)
MovesForward == \A i, j \in Handled : i < j => log[i].at < log[j].at

(***************************************************************************)
(* While the process lives, no answer is dropped on its way to the         *)
(* extractor: it is waiting in the write-back session, in a spawned task,  *)
(* or has been handed over.  It needs session ids to be distinct, that is, *)
(* a clock that moves forward: the guard drops the batch of a reused id.   *)
(***************************************************************************)
NoAnswerForgotten ==
  HasExtractor /\ MovesForward =>
    \A i \in Handled :
      log[i].boot = boots /\ log[i].outcome = "answered"
        => \E b \in Batches : i \in Turns(b)

(***************************************************************************)
(* Every answer of a living process goes to the extractor exactly once,    *)
(* whatever the order in which write-back tasks finish: twice would make   *)
(* two memories of one fact, and never would make none.                    *)
(***************************************************************************)
AnswersAreWrittenOnce == TurnsWrittenOnce /\ NoAnswerForgotten
=============================================================================
