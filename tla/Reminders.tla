------------------------------ MODULE Reminders ------------------------------
(***************************************************************************)
(* Spoken reminders and the name-introduction ceremony: the two parts of   *)
(* wmd that wait for the next wm.stt.final (almanac.rs, introduction.rs    *)
(* and the subscribe loop of daemon.rs).                                   *)
(*                                                                         *)
(* Every envelope is handled to its end before the next is read, so one    *)
(* envelope is one action.  The windows are only looked at when somebody   *)
(* speaks: there is no timer.  Time passes on its own, and it is that of   *)
(* the wall clock, which may be set back at any moment.  An utterance is   *)
(* what the two classifiers make of it.  The tick daemon behind            *)
(* wm.almanac.due and the recall daemon are external: reminders come at    *)
(* any time, and any boot may look like the first.                         *)
(***************************************************************************)
EXTENDS Integers, Sequences, FiniteSetsExt

CONSTANTS
  AlmanacSpeak,  \* BrainConfig.almanac_speak
  Patience,      \* DaemonState.almanac_patience_ms
  MaxSnoozes,    \* AlmanacEntryConfig.max_snoozes
  Modes,         \* what PersonaConfig.introduction may say when wmd starts
  AckTimeout,    \* ack_timeout_secs, in milliseconds
  Reminder,      \* the ids of the entries of the almanac
  Utterances,    \* bound: what is said
  NoAck,         \* Option::None of DaemonState.pending_ack
  MaxClock,      \* bound: the clock stays in 0 .. MaxClock
  MaxAsked,      \* bound: reminders spoken
  MaxSteps,      \* bound: entries of the log and steps of the ceremony, together
  MaxBoots       \* bound: restarts

VARIABLES
  clock,     \* now_unix_ms()
  pending,   \* DaemonState.pending_ack
  mode,      \* PersonaConfig.introduction, as read by this process
  phase,     \* DaemonState.introduction_phase; "starting" before the loop
  deadline,  \* deadline_ms of IntroductionPhase::AwaitingAck
  asked,     \* auxiliary: the reminders spoken, in order
  log,       \* auxiliary: what became of them, in order
  ceremony,  \* auxiliary: what the ceremony spoke, in order
  boots      \* auxiliary: restarts so far

vars == <<clock, pending, mode, phase, deadline, asked, log, ceremony, boots>>
ackVars == <<pending, asked, log>>
introVars == <<mode, phase, deadline, ceremony>>

Classes == {"done", "snooze", "unrelated"}
Utterance == [ack : Classes, intro : BOOLEAN]

(* prompt is the position in `asked`: code keeps the reminder's id there. *)
PendingAck == [prompt : Nat, asked : Nat, snoozes : 0 .. MaxSnoozes, reAsked : BOOLEAN]
Prompt == [id : Reminder, at : Nat]

(* An entry of the log: sent tells whether the publish went through, final *)
(* whether the slot was cleared.                                           *)
Results == {"done", "snoozed", "resume", "reasked", "missed"}
LogEntry == [prompt : Nat, result : Results, at : Nat, sent : BOOLEAN, final : BOOLEAN]
Step == [spoke : {"introduced", "reassured", "patience", "greeted"},
         on : {"boot", "request", "speech", "turn", "confirm"}, at : Nat, sent : BOOLEAN]

ASSUME WindowAssumption ==
  /\ Patience \in Nat /\ MaxSnoozes \in Nat /\ AckTimeout \in Nat
  /\ AlmanacSpeak \in BOOLEAN /\ Modes \subseteq {"off", "first_boot", "explicit"}
ASSUME UtteranceAssumption == Utterances \subseteq Utterance
ASSUME NoAckAssumption == NoAck \notin PendingAck
ASSUME BoundsAssumption == /\ MaxClock \in Nat /\ MaxAsked \in Nat /\ MaxSteps \in Nat
                           /\ MaxBoots \in Nat

-----------------------------------------------------------------------------
(* PendingAck::within_window *)
WithinWindow(ack) == clock <= ack.asked + Patience

(* PendingAck::new *)
FreshAck == [prompt |-> Len(asked) + 1, asked |-> clock, snoozes |-> 0, reAsked |-> FALSE]

Entry(result, sent, final) ==
  [prompt |-> pending.prompt, result |-> result, at |-> clock,
   sent |-> sent, final |-> final]

Spoke(what, on, sent) == [spoke |-> what, on |-> on, at |-> clock, sent |-> sent]

Init ==
  /\ clock = 0
  /\ pending = NoAck
  /\ mode \in Modes
  /\ phase = "starting"
  /\ deadline = 0
  /\ asked = <<>>
  /\ log = <<>>
  /\ ceremony = <<>>
  /\ boots = 0

Running == phase # "starting"
Roomy == Len(log) + Len(ceremony) < MaxSteps

-----------------------------------------------------------------------------
(* wm.almanac.due: the prompt is spoken and only then the window opens, in *)
(* place of any other; a gate that is off, an empty prompt or a publish    *)
(* that fails leave everything alone.                                      *)
Due(id) ==
  /\ Running
  /\ AlmanacSpeak
  /\ Len(asked) < MaxAsked
  /\ asked' = Append(asked, [id |-> id, at |-> clock])
  /\ pending' = FreshAck
  /\ UNCHANGED <<clock, log, boots>>
  /\ UNCHANGED introVars

(* wm.stt.final reaches the almanac unless the ceremony waits for it. *)
AlmanacHears ==
  /\ phase \in {"idle", "waiting"}
  /\ pending # NoAck
  /\ Roomy
  /\ UNCHANGED <<clock, asked, boots>>
  /\ UNCHANGED introVars

(* Variant: the slot is cleared only after the ack went out. *)
AnswerDoneLate(u, sent) ==
  /\ AlmanacHears
  /\ WithinWindow(pending)
  /\ u.ack = "done"
  /\ pending' = IF sent THEN NoAck ELSE pending
  /\ log' = Append(log, Entry("done", sent, TRUE))

(* AckClass::Done: cleared before it is published. *)
AnswerDone(u, sent) ==
  /\ AlmanacHears
  /\ WithinWindow(pending)
  /\ u.ack = "done"
  /\ pending' = NoAck
  /\ log' = Append(log, Entry("done", sent, TRUE))

(* AckClass::Snooze within the allowance: the window starts over.  The     *)
(* snooze request is published after the ack, if that went out.            *)
AnswerSnooze(u, sent, resumed) ==
  /\ AlmanacHears
  /\ WithinWindow(pending)
  /\ u.ack = "snooze"
  /\ pending.snoozes < MaxSnoozes
  /\ pending' = [pending EXCEPT !.snoozes = @ + 1, !.asked = clock, !.reAsked = FALSE]
  /\ log' = Append(log, Entry("snoozed", sent, FALSE))
            \o (IF sent THEN <<Entry("resume", resumed, FALSE)>> ELSE <<>>)

(* AckClass::Snooze once too often *)
SnoozeExhausted(u, sent) ==
  /\ AlmanacHears
  /\ WithinWindow(pending)
  /\ u.ack = "snooze"
  /\ pending.snoozes >= MaxSnoozes
  /\ pending' = NoAck
  /\ log' = Append(log, Entry("missed", sent, TRUE))

(* Variant: the re-ask is forgotten when its ack went out. *)
FirstElapseForgets(spoken, sent) ==
  /\ AlmanacHears
  /\ ~WithinWindow(pending)
  /\ ~pending.reAsked
  /\ spoken
  /\ log' = log \o <<Entry("reasked", TRUE, FALSE), Entry("missed", sent, FALSE)>>
  /\ pending' = IF sent THEN [pending EXCEPT !.asked = clock] ELSE pending

(* tick_almanac_timeout, first elapse: the re-ask, then the ack, and only  *)
(* after both the window starts over.  Whatever was said is not looked at. *)
FirstElapse(spoken, sent) ==
  /\ AlmanacHears
  /\ ~WithinWindow(pending)
  /\ ~pending.reAsked
  /\ spoken
  /\ log' = log \o <<Entry("reasked", TRUE, FALSE), Entry("missed", sent, FALSE)>>
  /\ pending' = IF sent
                THEN [pending EXCEPT !.reAsked = TRUE, !.asked = clock]
                ELSE pending

(* tick_almanac_timeout, second elapse *)
SecondElapse(sent) ==
  /\ AlmanacHears
  /\ ~WithinWindow(pending)
  /\ pending.reAsked
  /\ pending' = NoAck
  /\ log' = Append(log, Entry("missed", sent, TRUE))

-----------------------------------------------------------------------------
(* run() before its loop: recall may look empty, and then the ceremony     *)
(* begins, if it can be spoken.  The configuration is read anew by each    *)
(* process (Restart).                                                      *)
Startup(firstEver, spoken) ==
  /\ phase = "starting"
  /\ IF mode = "first_boot" /\ firstEver /\ spoken
     THEN /\ Roomy
          /\ phase' = "awaiting"
          /\ deadline' = clock + AckTimeout
          /\ ceremony' = Append(ceremony, Spoke("introduced", "boot", TRUE))
     ELSE /\ phase' = "idle"
          /\ UNCHANGED <<deadline, ceremony>>
  /\ UNCHANGED <<clock, mode, boots>>
  /\ UNCHANGED ackVars

(* wm.persona.introduce, in any phase *)
Introduce ==
  /\ Running
  /\ mode = "explicit"
  /\ Roomy
  /\ phase' = "awaiting"
  /\ deadline' = clock + AckTimeout
  /\ ceremony' = Append(ceremony, Spoke("introduced", "request", TRUE))
  /\ UNCHANGED <<clock, mode, boots>>
  /\ UNCHANGED ackVars

(* wm.stt.final in the ack window: whatever it is, the ceremony keeps it,  *)
(* and the greeting follows; an unrecognized word is reassured first.  A   *)
(* publish that fails is only logged.                                      *)
CeremonyAnswered(u, reassured, greeted) ==
  /\ phase = "awaiting"
  /\ clock <= deadline
  /\ Roomy
  /\ phase' = "idle"
  /\ ceremony' = ceremony
                 \o (IF u.intro THEN <<>> ELSE <<Spoke("reassured", "speech", reassured)>>)
                 \o <<Spoke("greeted", "speech", greeted)>>
  /\ UNCHANGED <<clock, mode, deadline, boots>>
  /\ UNCHANGED ackVars

(* wm.stt.final after the deadline *)
CeremonyTimesOut(sent) ==
  /\ phase = "awaiting"
  /\ clock > deadline
  /\ Roomy
  /\ phase' = "waiting"
  /\ ceremony' = Append(ceremony, Spoke("patience", "speech", sent))
  /\ UNCHANGED <<clock, mode, deadline, boots>>
  /\ UNCHANGED ackVars

(* Variant: the phase is left as it was. *)
DialogEventKept(on, sent) ==
  /\ phase = "waiting"
  /\ Roomy
  /\ phase' = "waiting"
  /\ ceremony' = Append(ceremony, Spoke("greeted", on, sent))
  /\ UNCHANGED <<clock, mode, deadline, boots>>
  /\ UNCHANGED ackVars

(* The first envelope under wm.dialog. fires the deferred greeting. *)
DialogEvent(on, sent) ==
  /\ phase = "waiting"
  /\ Roomy
  /\ phase' = "idle"
  /\ ceremony' = Append(ceremony, Spoke("greeted", on, sent))
  /\ UNCHANGED <<clock, mode, deadline, boots>>
  /\ UNCHANGED ackVars

-----------------------------------------------------------------------------
PassTime ==
  /\ clock < MaxClock
  /\ clock' = clock + 1
  /\ UNCHANGED boots
  /\ UNCHANGED ackVars
  /\ UNCHANGED introVars

(* now_unix_ms is the system's clock, and somebody sets it back. *)
SetBack(t) ==
  /\ clock' = t
  /\ UNCHANGED boots
  /\ UNCHANGED ackVars
  /\ UNCHANGED introVars

(* The process stops, and a new one starts with neither window open. *)
Restart ==
  /\ Running
  /\ boots < MaxBoots
  /\ boots' = boots + 1
  /\ pending' = NoAck
  /\ mode' \in Modes
  /\ phase' = "starting"
  /\ UNCHANGED <<clock, deadline, asked, log, ceremony>>

Hear(u) ==
  \/ \E sent, resumed \in BOOLEAN :
       \/ AnswerDone(u, sent)
       \/ AnswerSnooze(u, sent, resumed)
       \/ SnoozeExhausted(u, sent)
       \/ FirstElapse(resumed, sent)
       \/ SecondElapse(sent)
       \/ CeremonyAnswered(u, resumed, sent)
       \/ CeremonyTimesOut(sent)

Next ==
  \/ \E firstEver, spoken \in BOOLEAN : Startup(firstEver, spoken)
  \/ \E id \in Reminder : Due(id)
  \/ \E u \in Utterances : Hear(u)
  \/ Introduce
  \/ \E on \in {"turn", "confirm"}, sent \in BOOLEAN : DialogEvent(on, sent)
  \/ PassTime
  \/ \E t \in 0 .. clock - 1 : SetBack(t)
  \/ Restart

Spec == Init /\ [][Next]_vars

-----------------------------------------------------------------------------
TypeOK ==
  /\ clock \in Nat
  /\ pending \in PendingAck \cup {NoAck}
  /\ mode \in Modes
  /\ phase \in {"starting", "idle", "awaiting", "waiting"}
  /\ deadline \in Nat
  /\ asked \in Seq(Prompt)
  /\ log \in Seq(LogEntry)
  /\ ceremony \in Seq(Step)
  /\ boots \in Nat

(* When somebody was last asked for the answer at k, by the clock of then: *)
(* by the latest re-ask or snooze of its reminder, or by the prompt.       *)
LastAsked(k) ==
  LET again == {i \in 1 .. k - 1 : /\ log[i].prompt = log[k].prompt
                                   /\ log[i].result \in {"reasked", "snoozed"}}
  IN  IF again = {} THEN asked[log[k].prompt].at ELSE log[Max(again)].at

Before(k, result) ==
  {i \in 1 .. k - 1 : log[i].prompt = log[k].prompt /\ log[i].result = result}

(* An answer counts only while the question is fresh: the wall clock of a  *)
(* "done" or "snoozed" on wm.almanac.ack is not past the patience of the   *)
(* question asked last, be it the prompt, a re-ask (whose own ack may have *)
(* been lost, and its window with it) or a snooze.  So a "yes" said to     *)
(* somebody else later is not taken for the medicine, as long as nobody    *)
(* set the clock back in between: a clock that was keeps the window open   *)
(* for as much longer, which within_window has nothing against.            *)
AnswersAreFresh ==
  \A k \in DOMAIN log :
    log[k].result \in {"done", "snoozed"} => log[k].at <= LastAsked(k) + Patience

(* Once the slot was cleared for a reminder, wmd says no more about it,    *)
(* whether or not the ack that settled it could be published: nobody is    *)
(* nagged about what was done, and no second ack follows.  Every state is  *)
(* of its types.                                                           *)
SettledIsFinal ==
  TypeOK /\ \A k, l \in DOMAIN log : k < l /\ log[k].final => log[l].prompt # log[k].prompt

(* Nobody is written off unasked: the miss that ends a reminder follows    *)
(* max_snoozes snoozes, or a re-ask of that reminder after which a whole   *)
(* patience window went by on the wall clock.                              *)
SecondChance ==
  \A k \in DOMAIN log : log[k].result = "missed" /\ log[k].final =>
    \/ Cardinality(Before(k, "snoozed")) = MaxSnoozes
    \/ \E i \in Before(k, "reasked") : log[k].at > log[i].at + Patience

(* "One gentle re-ask": a reminder is re-asked once, and once more for     *)
(* each snooze and for each time the ack of a re-ask was lost on the bus.  *)
NagsAreBounded ==
  \A p \in DOMAIN asked :
    LET Of(result) == {i \in DOMAIN log : log[i].prompt = p /\ log[i].result = result}
        Lost == {i \in Of("missed") : ~log[i].sent /\ ~log[i].final}
    IN Cardinality(Of("reasked")) <= 1 + Cardinality(Of("snoozed")) + Cardinality(Lost)

(* The windows of a reminder are kept, whatever was lost on the bus and    *)
(* whoever spoke in between: an answer counts inside them, a miss only     *)
(* after them, and nobody is asked more often than they open.              *)
WindowsAreKept == AnswersAreFresh /\ SecondChance /\ NagsAreBounded

(* The ceremony keeps its order over re-introductions and restarts, also   *)
(* under a clock that is set back: a greeting answers one introduction, by *)
(* way of the reassurance within the ack timeout, or of the patience       *)
(* phrase after it, by the wall clock; none comes twice.                   *)
CeremonyKeepsOrder ==
  \A k \in DOMAIN ceremony :
    LET here == ceremony[k]
        Follows(spoken) == k > 1 /\ ceremony[k - 1].spoke \in spoken
        InTime == here.at <= ceremony[k - 1].at + AckTimeout
    IN  /\ here.spoke = "reassured" => Follows({"introduced"}) /\ InTime
        /\ here.spoke = "patience" => Follows({"introduced"}) /\ ~InTime
        /\ here.spoke = "greeted" =>
             IF here.on = "speech"
             THEN Follows({"introduced", "reassured"}) /\ InTime
             ELSE Follows({"patience"})

=============================================================================
