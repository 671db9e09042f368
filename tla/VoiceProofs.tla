------------------------------ MODULE VoiceProofs ------------------------------
(***************************************************************************)
(* What is said aloud.  Reminders and the ceremony, for every patience,    *)
(* number of snoozes and length of the run, whatever is lost on the bus: a *)
(* settled reminder stays settled, the windows are kept, and the ceremony  *)
(* keeps its order.  The answer of a cloud model, for every alphabet, body *)
(* and cut into chunks and deltas: the stream decodes to what the whole    *)
(* body decodes to, and what is uttered is what is stored.                 *)
(***************************************************************************)
EXTENDS Reminders, AnswerStream, SequenceTheorems, FiniteSetTheorems,
        WellFoundedInduction, TLAPS

USE DEF Classes, Results

(* Where a step leaves the slot and the log of the almanac. *)
Asks ==
  /\ pending' # NoAck
  /\ pending'.prompt = Len(asked) + 1 /\ pending' \in PendingAck
  /\ Len(asked') = Len(asked) + 1 /\ asked' \in Seq(Prompt)
  /\ log' = log

(* It puts one or two entries of the open reminder into the log.  Only the *)
(* last entry of a step is final, and the slot is then empty.              *)
Answers ==
  /\ pending # NoAck
  /\ asked' = asked
  /\ log' \in Seq(LogEntry)
  /\ Len(log') \in {Len(log) + 1, Len(log) + 2}
  /\ \A i \in 1 .. Len(log) : log'[i] = log[i]
  /\ \A i \in 1 .. Len(log') : i > Len(log) =>
       /\ log'[i].prompt = pending.prompt
       /\ log'[i].final => i = Len(log') /\ pending' = NoAck
  /\ pending' \in PendingAck \cup {NoAck}
  /\ pending' # NoAck => pending'.prompt = pending.prompt

(* What Entry puts into an entry of the log. *)
LEMMA EntryFields ==
  ASSUME TypeOK, pending # NoAck, NEW result \in Results,
         NEW sent \in BOOLEAN, NEW final \in BOOLEAN
  PROVE  /\ Entry(result, sent, final) \in LogEntry
         /\ Entry(result, sent, final).prompt = pending.prompt
         /\ Entry(result, sent, final).at = clock
         /\ Entry(result, sent, final).result = result
         /\ Entry(result, sent, final).sent = sent
         /\ Entry(result, sent, final).final = final
BY DEF TypeOK, Entry, LogEntry, PendingAck

(* The same of an entry that leaves the slot open.                         *)
LEMMA OpenEntry ==
  ASSUME TypeOK, pending # NoAck, NEW result \in Results, NEW sent \in BOOLEAN
  PROVE  /\ Entry(result, sent, FALSE) \in LogEntry
         /\ Entry(result, sent, FALSE).prompt = pending.prompt
         /\ Entry(result, sent, FALSE).at = clock
         /\ Entry(result, sent, FALSE).result = result
         /\ Entry(result, sent, FALSE).sent = sent
         /\ Entry(result, sent, FALSE).final = FALSE
BY EntryFields, Zenon

(* An entry, or two, at the end of the log. *)
LEMMA OneEntry ==
  ASSUME TypeOK, pending # NoAck, NEW result \in Results, NEW sent \in BOOLEAN,
         NEW final \in BOOLEAN, log' = Append(log, Entry(result, sent, final)),
         asked' = asked, pending' \in PendingAck \cup {NoAck},
         pending' # NoAck => pending'.prompt = pending.prompt,
         final => pending' = NoAck
  PROVE  Answers
<1> DEFINE e == Entry(result, sent, final)
<1>1. e \in LogEntry /\ e.prompt = pending.prompt /\ e.final = final
  BY EntryFields
<1>2. log' = Append(log, e)
  OBVIOUS
<1> HIDE DEF e
<1>3. log \in Seq(LogEntry)
  BY DEF TypeOK
<1>4. /\ log' \in Seq(LogEntry) /\ Len(log') = Len(log) + 1
      /\ \A i \in 1 .. Len(log) : log'[i] = log[i]
      /\ log'[Len(log) + 1] = e /\ Len(log) \in Nat
  BY <1>1, <1>2, <1>3
<1>5. \A i \in 1 .. Len(log') : i > Len(log) => i = Len(log) + 1
  BY <1>4
<1> QED BY <1>1, <1>4, <1>5 DEF Answers

(* An element behind a sequence.                                           *)
LEMMA AppendType ==
  ASSUME NEW S, NEW s \in Seq(S), NEW e \in S
  PROVE  Append(s, e) \in Seq(S)
OBVIOUS

(* t is the sequence s with e and f behind it. *)
TwoBehind(S, t, s, e, f) ==
  /\ t \in Seq(S) /\ Len(t) = Len(s) + 2 /\ Len(s) \in Nat
  /\ \A i \in 1 .. Len(s) : t[i] = s[i]
  /\ t[Len(s) + 1] = e /\ t[Len(s) + 2] = f

(* Two elements behind a sequence, in either way the model puts it.        *)
LEMMA TwoMore ==
  ASSUME NEW S, NEW s \in Seq(S), NEW e \in S, NEW f \in S,
         NEW t, t = s \o <<e, f>> \/ t = Append(s, e) \o <<f>>
  PROVE  TwoBehind(S, t, s, e, f)
<1>1. Len(s) \in Nat
  OBVIOUS
<1>2. /\ <<e, f>> \in Seq(S) /\ Len(<<e, f>>) = 2 /\ <<e, f>>[1] = e /\ <<e, f>>[2] = f
      /\ <<f>> \in Seq(S) /\ Len(<<f>>) = 1 /\ <<f>>[1] = f
  OBVIOUS
<1>3. CASE t = s \o <<e, f>>
  <2> DEFINE p == <<e, f>>
  <2>1. p \in Seq(S) /\ Len(p) = 2 /\ p[1] = e /\ p[2] = f /\ t = s \o p
    BY <1>2, <1>3
  <2> HIDE DEF p
  <2>2. /\ t \in Seq(S) /\ Len(t) = Len(s) + 2
        /\ \A i \in 1 .. Len(s) + 2 : t[i] = IF i <= Len(s) THEN s[i] ELSE p[i - Len(s)]
    BY <2>1, ConcatProperties, Z3
  <2> QED BY <1>1, <2>1, <2>2 DEF TwoBehind
<1>4. CASE t = Append(s, e) \o <<f>>
  <2> DEFINE p == Append(s, e)
             q == <<f>>
  <2>1. /\ p \in Seq(S) /\ Len(p) = Len(s) + 1 /\ p[Len(s) + 1] = e
        /\ \A i \in 1 .. Len(s) : p[i] = s[i]
    OBVIOUS
  <2>2. q \in Seq(S) /\ Len(q) = 1 /\ q[1] = f /\ t = p \o q
    BY <1>2, <1>4
  <2> HIDE DEF p, q
  <2>3. /\ t \in Seq(S) /\ Len(t) = Len(s) + 2
        /\ \A i \in 1 .. Len(s) + 2 : t[i] = IF i <= Len(p) THEN p[i] ELSE q[i - Len(p)]
    BY <1>1, <2>1, <2>2, ConcatProperties, Z3
  <2> QED BY <1>1, <2>1, <2>2, <2>3 DEF TwoBehind
<1> QED BY <1>3, <1>4

(* Two entries of the open reminder are an answer.                         *)
LEMMA TwoEntries ==
  ASSUME TypeOK, pending # NoAck, NEW r1 \in Results, NEW s1 \in BOOLEAN,
         NEW r2 \in Results, NEW s2 \in BOOLEAN,
         log' \in {log \o <<Entry(r1, s1, FALSE), Entry(r2, s2, FALSE)>>,
                   Append(log, Entry(r1, s1, FALSE)) \o <<Entry(r2, s2, FALSE)>>},
         asked' = asked, pending' \in PendingAck,
         pending'.prompt = pending.prompt
  PROVE  Answers
<1> DEFINE e == Entry(r1, s1, FALSE)
           f == Entry(r2, s2, FALSE)
<1>1. /\ e \in LogEntry /\ e.prompt = pending.prompt /\ e.final = FALSE
      /\ f \in LogEntry /\ f.prompt = pending.prompt /\ f.final = FALSE
  <2>1. e \in LogEntry /\ e.prompt = pending.prompt /\ e.final = FALSE
    BY OpenEntry, Zenon
  <2>2. f \in LogEntry /\ f.prompt = pending.prompt /\ f.final = FALSE
    BY OpenEntry, Zenon
  <2> QED BY <2>1, <2>2
<1>2. log' \in {log \o <<e, f>>, Append(log, e) \o <<f>>}
  OBVIOUS
<1> HIDE DEF e, f
<1>3. log \in Seq(LogEntry)
  BY DEF TypeOK
<1>4. /\ log' \in Seq(LogEntry) /\ Len(log') = Len(log) + 2 /\ Len(log) \in Nat
      /\ \A i \in 1 .. Len(log) : log'[i] = log[i]
      /\ log'[Len(log) + 1] = e /\ log'[Len(log) + 2] = f
  <2> DEFINE t == log'
  <2>1. t \in {log \o <<e, f>>, Append(log, e) \o <<f>>}
    BY <1>2
  <2> HIDE DEF t
  <2>2. /\ t \in Seq(LogEntry) /\ Len(t) = Len(log) + 2 /\ Len(log) \in Nat
        /\ \A i \in 1 .. Len(log) : t[i] = log[i]
        /\ t[Len(log) + 1] = e /\ t[Len(log) + 2] = f
    <3>1. t = log \o <<e, f>> \/ t = Append(log, e) \o <<f>>
      BY <2>1
    <3>2. TwoBehind(LogEntry, t, log, e, f)
      BY <1>1, <1>3, <3>1, TwoMore
    <3> QED BY <3>2 DEF TwoBehind
  <2> QED BY <2>2 DEF t
<1>5. \A i \in 1 .. Len(log') : i > Len(log) => i = Len(log) + 1 \/ i = Len(log) + 2
  BY <1>4
<1> QED BY <1>1, <1>4, <1>5 DEF Answers

(* Every envelope asks, answers or leaves the almanac alone. *)
LEMMA DueAsks ==
  ASSUME TypeOK, NEW id \in Reminder, Due(id)
  PROVE  Asks
<1>1. FreshAck \in PendingAck /\ FreshAck.prompt = Len(asked) + 1
  BY WindowAssumption DEF TypeOK, FreshAck, PendingAck
<1>2. asked' \in Seq(Prompt) /\ Len(asked') = Len(asked) + 1
  BY DEF Due, TypeOK, Prompt
<1> QED BY <1>1, <1>2, NoAckAssumption DEF Asks, Due

(* Each branch that hears an utterance puts an entry into the log.         *)
LEMMA HearAnswers ==
  ASSUME TypeOK, NEW u \in Utterances, NEW sent \in BOOLEAN, NEW other \in BOOLEAN,
         \/ AnswerDone(u, sent) \/ AnswerSnooze(u, sent, other)
         \/ SnoozeExhausted(u, sent) \/ FirstElapse(other, sent) \/ SecondElapse(sent)
  PROVE  Answers
<1>1. pending \in PendingAck /\ pending # NoAck /\ asked' = asked
  BY DEF TypeOK, AnswerDone, AnswerSnooze, SnoozeExhausted, FirstElapse,
         SecondElapse, AlmanacHears
<1>2. CASE AnswerDone(u, sent)
  BY <1>1, <1>2, OneEntry DEF AnswerDone
<1>3. CASE SnoozeExhausted(u, sent)
  BY <1>1, <1>3, OneEntry DEF SnoozeExhausted
<1>4. CASE SecondElapse(sent)
  BY <1>1, <1>4, OneEntry DEF SecondElapse
<1>5. CASE AnswerSnooze(u, sent, other)
  <2>1. pending' \in PendingAck /\ pending'.prompt = pending.prompt
    <3>1. /\ pending.snoozes \in 0 .. MaxSnoozes /\ pending.snoozes < MaxSnoozes
          /\ clock \in Nat
      BY <1>1, <1>5 DEF AnswerSnooze, PendingAck, TypeOK
    <3>2. pending.snoozes + 1 \in 0 .. MaxSnoozes
      BY <3>1, WindowAssumption
    <3> QED BY <1>1, <1>5, <3>1, <3>2, Zenon DEF AnswerSnooze, PendingAck
  <2>2. CASE sent
    BY <1>1, <1>5, <2>1, <2>2, TwoEntries, Zenon DEF AnswerSnooze
  <2>3. CASE ~sent
    <3>1. Append(log, Entry("snoozed", sent, FALSE)) \in Seq(LogEntry)
      <4>1. Entry("snoozed", sent, FALSE) \in LogEntry /\ log \in Seq(LogEntry)
        BY <1>1, EntryFields DEF TypeOK
      <4> QED BY <4>1, AppendType
    <3>2. log' = Append(log, Entry("snoozed", sent, FALSE)) \o <<>>
      BY <1>5, <2>3 DEF AnswerSnooze
    <3>3. log' = Append(log, Entry("snoozed", sent, FALSE))
      BY <3>1, <3>2, ConcatEmptySeq
    <3> QED BY <1>1, <2>1, <3>3, OneEntry
  <2> QED BY <2>2, <2>3
<1>6. CASE FirstElapse(other, sent)
  <2>1. pending' \in PendingAck /\ pending'.prompt = pending.prompt
    BY <1>1, <1>6 DEF FirstElapse, PendingAck, TypeOK
  <2>2. log' = log \o <<Entry("reasked", TRUE, FALSE), Entry("missed", sent, FALSE)>>
    BY <1>6 DEF FirstElapse
  <2> QED BY <1>1, <2>1, <2>2, TwoEntries
<1> QED BY <1>2, <1>3, <1>4, <1>5, <1>6

(* The wall clock goes on or is set back, and nothing else happens. *)
ClockMoves == PassTime \/ \E t \in 0 .. clock - 1 : SetBack(t)

(* Every other step leaves the log and the questions alone. *)
Passes == log' = log /\ asked' = asked /\ pending' \in {pending, NoAck}

(* The ways a step may treat the slot and the log.                         *)
LEMMA StepsOfTheAlmanac ==
  ASSUME TypeOK, [Next]_vars
  PROVE  Asks \/ Answers \/ Passes
<1>1. ASSUME NEW id \in Reminder, Due(id) PROVE Asks
  BY <1>1, DueAsks
<1>2. ASSUME NEW u \in Utterances, Hear(u) PROVE Answers \/ Passes
  <2>1. PICK sent \in BOOLEAN, other \in BOOLEAN :
          \/ AnswerDone(u, sent) \/ AnswerSnooze(u, sent, other)
          \/ SnoozeExhausted(u, sent) \/ FirstElapse(other, sent) \/ SecondElapse(sent)
          \/ CeremonyAnswered(u, other, sent) \/ CeremonyTimesOut(sent)
    BY <1>2 DEF Hear
  <2>2. CASE CeremonyAnswered(u, other, sent) \/ CeremonyTimesOut(sent)
    BY <2>2 DEF CeremonyAnswered, CeremonyTimesOut, ackVars, Passes
  <2> QED BY <2>1, <2>2, HearAnswers
<1>3. CASE \/ \E firstEver, spoken \in BOOLEAN : Startup(firstEver, spoken)
           \/ Introduce \/ ClockMoves \/ Restart \/ UNCHANGED vars
           \/ \E on \in {"turn", "confirm"}, sent \in BOOLEAN : DialogEvent(on, sent)
  BY <1>3 DEF Startup, Introduce, ClockMoves, PassTime, SetBack, Restart, DialogEvent,
              vars, ackVars, Passes
<1> QED BY <1>1, <1>2, <1>3 DEF Next, ClockMoves

-----------------------------------------------------------------------------
(* Every state of the reminders and the ceremony is well-typed.  (TypeOK;  *)
(* almanac.rs, introduction.rs)                                            *)
THEOREM RemindersTypeCorrect == Spec => []TypeOK
<1> DEFINE Rest == /\ clock \in Nat /\ mode \in Modes /\ deadline \in Nat /\ boots \in Nat
                   /\ phase \in {"starting", "idle", "awaiting", "waiting"}
                   /\ ceremony \in Seq(Step)
<1>1. Init => TypeOK
  BY DEF Init, TypeOK
<1>2. TypeOK /\ [Next]_vars => TypeOK'
  <2> SUFFICES ASSUME TypeOK, [Next]_vars PROVE TypeOK'
    OBVIOUS
  <2>1. /\ log' \in Seq(LogEntry) /\ asked' \in Seq(Prompt)
        /\ pending' \in PendingAck \cup {NoAck}
    BY StepsOfTheAlmanac DEF Asks, Answers, Passes, TypeOK
  <2>2. Rest /\ AckTimeout \in Nat
    BY WindowAssumption DEF TypeOK
  <2>3. /\ \A on \in {"boot", "request", "speech"},
              what \in {"introduced", "reassured", "greeted"}, sent \in BOOLEAN : Spoke(what, on, sent) \in Step
        /\ \A on \in {"turn", "confirm", "speech"}, what \in {"patience", "greeted"},
              sent \in BOOLEAN : Spoke(what, on, sent) \in Step
    BY <2>2 DEF Spoke, Step
  <2>4. ASSUME NEW firstEver \in BOOLEAN, NEW spoken \in BOOLEAN,
               Startup(firstEver, spoken)
        PROVE  Rest'
    <3>1. CASE mode = "first_boot" /\ firstEver /\ spoken
      <4>1. ceremony' \in Seq(Step)
        BY <2>2, <2>3, <2>4, <3>1, AppendType DEF Startup
      <4> QED BY <2>2, <2>4, <3>1, <4>1 DEF Startup
    <3>2. CASE ~(mode = "first_boot" /\ firstEver /\ spoken)
      BY <2>2, <2>4, <3>2 DEF Startup
    <3> QED BY <3>1, <3>2
  <2>5. ASSUME Introduce PROVE Rest'
    <3>1. ceremony' \in Seq(Step)
      BY <2>2, <2>3, <2>5, AppendType DEF Introduce
    <3>2. /\ phase' = "awaiting" /\ deadline' = clock + AckTimeout
          /\ clock' = clock /\ mode' = mode /\ boots' = boots
      BY <2>5 DEF Introduce
    <3> QED BY <2>2, <3>1, <3>2
  <2>6. ASSUME NEW u \in Utterances, Hear(u) PROVE Rest'
    <3>1. PICK sent \in BOOLEAN, other \in BOOLEAN :
            \/ AnswerDone(u, sent) \/ AnswerSnooze(u, sent, other)
            \/ SnoozeExhausted(u, sent) \/ FirstElapse(other, sent) \/ SecondElapse(sent)
            \/ CeremonyAnswered(u, other, sent) \/ CeremonyTimesOut(sent)
      BY <2>6 DEF Hear
    <3>2. CASE CeremonyAnswered(u, other, sent)
      <4>1. /\ Spoke("reassured", "speech", other) \in Step
            /\ Spoke("greeted", "speech", sent) \in Step
        BY <2>3
      <4> DEFINE middle == IF u.intro THEN <<>> ELSE <<Spoke("reassured", "speech", other)>>
                 end == <<Spoke("greeted", "speech", sent)>>
      <4>2. middle \in Seq(Step) /\ end \in Seq(Step)
        BY <4>1
      <4>3. ceremony' = (ceremony \o middle) \o end
        BY <3>2 DEF CeremonyAnswered
      <4> HIDE DEF middle, end
      <4>4. ceremony' \in Seq(Step)
        BY <2>2, <4>2, <4>3, ConcatProperties
      <4> QED BY <2>2, <3>2, <4>4 DEF CeremonyAnswered
    <3>3. CASE CeremonyTimesOut(sent)
      BY <2>2, <2>3, <3>3 DEF CeremonyTimesOut
    <3>4. CASE \/ AnswerDone(u, sent) \/ AnswerSnooze(u, sent, other)
               \/ SnoozeExhausted(u, sent) \/ FirstElapse(other, sent) \/ SecondElapse(sent)
      BY <2>2, <3>4 DEF AnswerDone, AnswerSnooze, SnoozeExhausted, FirstElapse,
                        SecondElapse, AlmanacHears, introVars
    <3> QED BY <3>1, <3>2, <3>3, <3>4
  <2>7. ASSUME NEW on \in {"turn", "confirm"}, NEW sent \in BOOLEAN, DialogEvent(on, sent)
        PROVE  Rest'
    <3>1. ceremony' \in Seq(Step)
      BY <2>2, <2>3, <2>7, AppendType DEF DialogEvent
    <3> QED BY <2>2, <2>7, <3>1 DEF DialogEvent
  <2>8. ASSUME ClockMoves \/ Restart \/ UNCHANGED vars \/ \E id \in Reminder : Due(id)
        PROVE  Rest'
    <3>1. ceremony' = ceremony /\ deadline' = deadline
      BY <2>8 DEF ClockMoves, PassTime, SetBack, Restart, Due, vars, introVars
    <3>2. clock' \in Nat /\ boots' \in {boots, boots + 1}
      <4>1. CASE \E id \in Reminder : Due(id)
        BY <2>2, <4>1 DEF Due
      <4>2. CASE ClockMoves
        BY <2>2, <4>2 DEF ClockMoves, PassTime, SetBack
      <4>3. CASE Restart \/ UNCHANGED vars
        BY <2>2, <4>3 DEF Restart, vars
      <4> QED BY <2>8, <4>1, <4>2, <4>3
    <3>3. (mode' = mode /\ phase' = phase) \/ (mode' \in Modes /\ phase' = "starting")
      BY <2>8 DEF ClockMoves, PassTime, SetBack, Restart, Due, vars, introVars
    <3> QED BY <2>2, <3>1, <3>2, <3>3
  <2>9. Rest'
    <3> HIDE DEF Rest
    <3> QED BY <2>4, <2>5, <2>6, <2>7, <2>8 DEF Next, ClockMoves
  <2> QED BY <2>1, <2>9 DEF TypeOK
<1> QED BY <1>1, <1>2, PTL DEF Spec

-----------------------------------------------------------------------------
(* What makes a settled reminder stay settled: the slot holds a question   *)
(* that was asked, and none that the log has settled; each question is     *)
(* asked once.                                                             *)
SettledInv ==
  /\ pending # NoAck => pending.prompt <= Len(asked)
  /\ \A k \in DOMAIN log : log[k].prompt <= Len(asked)
  /\ \A k \in DOMAIN log : log[k].final /\ pending # NoAck => log[k].prompt # pending.prompt
  /\ \A k, l \in DOMAIN log : k < l /\ log[k].final => log[l].prompt # log[k].prompt

(* Every step leaves what is settled alone.                                *)
LEMMA SettledStep ==
  ASSUME TypeOK, SettledInv, [Next]_vars
  PROVE  SettledInv'
<1>1. /\ Len(asked) \in Nat /\ Len(log) \in Nat
      /\ DOMAIN log = 1 .. Len(log)
      /\ \A k \in 1 .. Len(log) : log[k].prompt \in Nat
  <2>1. log \in Seq(LogEntry) /\ asked \in Seq(Prompt)
    BY DEF TypeOK
  <2>2. \A k \in 1 .. Len(log) : log[k] \in LogEntry
    BY <2>1
  <2> QED BY <2>1, <2>2 DEF LogEntry
<1>2. CASE Asks
  BY <1>1, <1>2 DEF SettledInv, Asks
<1>3. CASE Passes
  BY <1>1, <1>3 DEF SettledInv, Passes
<1>4. CASE Answers
  <2> DEFINE n == Len(log)
             m == Len(log')
  <2>1. /\ DOMAIN log' = 1 .. m /\ m \in Nat /\ n < m
        /\ pending # NoAck /\ asked' = asked
        /\ \A i \in 1 .. n : log'[i] = log[i]
        /\ \A i \in 1 .. m : i > n => /\ log'[i].prompt = pending.prompt
                                      /\ log'[i].final => i = m /\ pending' = NoAck
        /\ pending' # NoAck => pending'.prompt = pending.prompt
    BY <1>1, <1>4 DEF Answers
  <2> HIDE DEF m
  <2>2. \A i \in 1 .. m : i \in 1 .. n \/ i > n
    BY <1>1, <2>1
  <2>3. /\ pending' # NoAck => pending'.prompt <= Len(asked')
        /\ \A k \in 1 .. m : log'[k].prompt <= Len(asked')
    BY <1>1, <2>1, <2>2 DEF SettledInv
  <2>4. \A k \in 1 .. m : log'[k].final /\ pending' # NoAck => log'[k].prompt # pending'.prompt
    BY <1>1, <2>1, <2>2 DEF SettledInv
  <2>5. ASSUME NEW k \in 1 .. m, NEW l \in 1 .. m, k < l, log'[k].final
        PROVE  log'[l].prompt # log'[k].prompt
    <3>1. k \in 1 .. n
      BY <1>1, <2>1, <2>2, <2>5
    <3>2. CASE l \in 1 .. n
      BY <1>1, <2>1, <2>5, <3>1, <3>2 DEF SettledInv
    <3>3. CASE l > n
      BY <1>1, <2>1, <2>5, <3>1, <3>3 DEF SettledInv
    <3> QED BY <2>2, <3>2, <3>3
  <2> QED BY <2>1, <2>3, <2>4, <2>5 DEF SettledInv
<1> QED BY <1>2, <1>3, <1>4, StepsOfTheAlmanac

(* Once a reminder is settled wmd says no more about it, whether or not    *)
(* the ack that settled it reached the bus, and whatever was snoozed,      *)
(* re-asked or replaced before.  (SettledIsFinal; almanac.rs and           *)
(* tick_almanac_timeout, handle_almanac_reply of daemon.rs)                *)
THEOREM SettledStaysSettled == Spec => []SettledIsFinal
<1>1. Init => SettledInv
  BY DEF Init, SettledInv
<1>2. TypeOK /\ SettledInv /\ [Next]_vars => SettledInv'
  BY SettledStep
<1>3. TypeOK /\ SettledInv => SettledIsFinal
  BY DEF SettledInv, SettledIsFinal
<1> QED BY <1>1, <1>2, <1>3, RemindersTypeCorrect, PTL DEF Spec

-----------------------------------------------------------------------------
(* What the ceremony says follows what it said before. *)
OrderAt(k) ==
  LET here == ceremony[k]
      Follows(spoken) == k > 1 /\ ceremony[k - 1].spoke \in spoken
      InTime == here.at <= ceremony[k - 1].at + AckTimeout
  IN  /\ here.spoke = "reassured" => Follows({"introduced"}) /\ InTime
      /\ here.spoke = "patience" => Follows({"introduced"}) /\ ~InTime
      /\ here.spoke = "greeted" =>
           IF here.on = "speech"
           THEN Follows({"introduced", "reassured"}) /\ InTime
           ELSE Follows({"patience"})

(* The phase knows the last step: the window is that of the introduction   *)
(* just spoken, and the deferred greeting is owed to the patience phrase.  *)
CeremonyInv ==
  /\ \A k \in 1 .. Len(ceremony) : OrderAt(k)
  /\ phase = "awaiting" =>
       /\ Len(ceremony) # 0
       /\ ceremony[Len(ceremony)].spoke = "introduced"
       /\ deadline = ceremony[Len(ceremony)].at + AckTimeout
  /\ phase = "waiting" =>
       /\ Len(ceremony) # 0
       /\ ceremony[Len(ceremony)].spoke = "patience"

(* The steps already spoken keep their order. *)
LEMMA OrderStays ==
  ASSUME NEW n \in Nat, n = Len(ceremony), \A i \in 1 .. n : ceremony'[i] = ceremony[i],
         CeremonyInv, NEW k \in 1 .. n
  PROVE  OrderAt(k)'
<1>1. OrderAt(k)
  BY DEF CeremonyInv
<1>2. ceremony'[k] = ceremony[k]
  OBVIOUS
<1>3. CASE k = 1
  BY <1>1, <1>2, <1>3 DEF OrderAt
<1>4. CASE k > 1
  <2>1. ceremony'[k - 1] = ceremony[k - 1]
    BY <1>4
  <2> QED BY <1>1, <1>2, <2>1 DEF OrderAt
<1> QED BY <1>3, <1>4

(* What Spoke puts into a step of the ceremony, and that step appended. *)
LEMMA SpokeIs ==
  ASSUME TypeOK, NEW what \in {"introduced", "reassured", "patience", "greeted"},
         NEW on \in {"boot", "request", "speech", "turn", "confirm"}, NEW sent \in BOOLEAN
  PROVE  /\ Spoke(what, on, sent) \in Step
         /\ Spoke(what, on, sent).spoke = what
         /\ Spoke(what, on, sent).on = on
         /\ Spoke(what, on, sent).at = clock
BY DEF TypeOK, Spoke, Step

(* What is spoken in the ceremony goes to the end of its record.           *)
LEMMA OneStep ==
  ASSUME TypeOK, NEW what \in {"introduced", "reassured", "patience", "greeted"},
         NEW on \in {"boot", "request", "speech", "turn", "confirm"}, NEW sent \in BOOLEAN,
         ceremony' = Append(ceremony, Spoke(what, on, sent))
  PROVE  /\ Len(ceremony') = Len(ceremony) + 1 /\ Len(ceremony) \in Nat
         /\ \A i \in 1 .. Len(ceremony) : ceremony'[i] = ceremony[i]
         /\ ceremony'[Len(ceremony) + 1].spoke = what
         /\ ceremony'[Len(ceremony) + 1].on = on
         /\ ceremony'[Len(ceremony) + 1].at = clock
<1> DEFINE e == Spoke(what, on, sent)
<1>1. e \in Step /\ e.spoke = what /\ e.on = on /\ e.at = clock
  BY SpokeIs
<1>2. ceremony \in Seq(Step) /\ ceremony' = Append(ceremony, e)
  BY DEF TypeOK
<1> HIDE DEF e
<1>3. /\ Len(ceremony') = Len(ceremony) + 1 /\ Len(ceremony) \in Nat
      /\ \A i \in 1 .. Len(ceremony) : ceremony'[i] = ceremony[i]
      /\ ceremony'[Len(ceremony) + 1] = e
  BY <1>1, <1>2
<1> QED BY <1>1, <1>3

(* An introduction opens a window of its own. *)
LEMMA IntroducedKeeps ==
  ASSUME TypeOK, CeremonyInv, NEW on \in {"boot", "request"},
         ceremony' = Append(ceremony, Spoke("introduced", on, TRUE)),
         phase' = "awaiting", deadline' = clock + AckTimeout
  PROVE  CeremonyInv'
<1>0. PICK n \in Nat : n = Len(ceremony)
  BY DEF TypeOK
<1>1. /\ Len(ceremony') = n + 1
      /\ \A i \in 1 .. n : ceremony'[i] = ceremony[i]
      /\ ceremony'[n + 1].spoke = "introduced"
      /\ ceremony'[n + 1].at = clock
  BY <1>0, OneStep
<1>2. OrderAt(n + 1)'
  BY <1>1 DEF OrderAt
<1>3. \A k \in 1 .. n : OrderAt(k)'
  BY <1>0, <1>1, OrderStays
<1>4. \A k \in 1 .. n + 1 : OrderAt(k)'
  BY <1>2, <1>3
<1>5. Len(ceremony') # 0 /\ deadline' = ceremony'[Len(ceremony')].at + AckTimeout
  <2>1. Len(ceremony') = n + 1 /\ n + 1 # 0
    BY <1>1
  <2>2. ceremony'[Len(ceremony')].at = clock
    BY <1>1, <2>1, Zenon
  <2> QED BY <2>1, <2>2, Zenon
<1> QED BY <1>1, <1>4, <1>5 DEF CeremonyInv

(* The patience phrase comes after the window of an introduction. *)
LEMMA TimesOutKeeps ==
  ASSUME TypeOK, CeremonyInv, NEW sent \in BOOLEAN, CeremonyTimesOut(sent)
  PROVE  CeremonyInv'
<1>0. PICK n \in Nat : n = Len(ceremony)
  BY DEF TypeOK
<1>1. /\ Len(ceremony') = n + 1
      /\ \A i \in 1 .. n : ceremony'[i] = ceremony[i]
      /\ ceremony'[n + 1].spoke = "patience"
      /\ ceremony'[n + 1].at = clock
  BY <1>0, OneStep DEF CeremonyTimesOut
<1>2. /\ n # 0 /\ ceremony[n].spoke = "introduced"
      /\ ~(clock <= ceremony[n].at + AckTimeout)
      /\ phase' = "waiting"
  <2>1. n # 0 /\ ceremony[n].spoke = "introduced" /\ deadline = ceremony[n].at + AckTimeout
    BY <1>0 DEF CeremonyInv, CeremonyTimesOut
  <2>2. ~(clock <= deadline)
    BY DEF CeremonyTimesOut, TypeOK
  <2> QED BY <2>1, <2>2 DEF CeremonyTimesOut
<1>3. ceremony'[n] = ceremony[n] /\ (n + 1) - 1 = n /\ n + 1 > 1
  BY <1>1, <1>2
<1>4. OrderAt(n + 1)'
  BY <1>1, <1>2, <1>3 DEF OrderAt
<1>5. \A k \in 1 .. n : OrderAt(k)'
  BY <1>0, <1>1, OrderStays
<1>6. \A k \in 1 .. n + 1 : OrderAt(k)'
  BY <1>4, <1>5
<1> QED BY <1>0, <1>1, <1>2, <1>6 DEF CeremonyInv

(* The deferred greeting follows the patience phrase. *)
LEMMA DialogKeeps ==
  ASSUME TypeOK, CeremonyInv, NEW on \in {"turn", "confirm"}, NEW sent \in BOOLEAN,
         DialogEvent(on, sent)
  PROVE  CeremonyInv'
<1>0. PICK n \in Nat : n = Len(ceremony)
  BY DEF TypeOK
<1>1. /\ Len(ceremony') = n + 1
      /\ \A i \in 1 .. n : ceremony'[i] = ceremony[i]
      /\ ceremony'[n + 1].spoke = "greeted"
      /\ ceremony'[n + 1].on = on
  BY <1>0, OneStep DEF DialogEvent
<1>2. n # 0 /\ ceremony[n].spoke = "patience" /\ phase' = "idle"
  BY <1>0 DEF CeremonyInv, DialogEvent
<1>3. ceremony'[n] = ceremony[n] /\ (n + 1) - 1 = n /\ n + 1 > 1
  BY <1>1, <1>2
<1>4. OrderAt(n + 1)'
  BY <1>1, <1>2, <1>3 DEF OrderAt
<1>5. \A k \in 1 .. n : OrderAt(k)'
  BY <1>0, <1>1, OrderStays
<1>6. \A k \in 1 .. n + 1 : OrderAt(k)'
  BY <1>4, <1>5
<1> QED BY <1>0, <1>1, <1>2, <1>6 DEF CeremonyInv

(* The greeting is within the window of the introduction, by way of the    *)
(* reassurance when there is one.                                          *)
LEMMA AnsweredKeeps ==
  ASSUME TypeOK, CeremonyInv, NEW u \in Utterances,
         NEW reassured \in BOOLEAN, NEW greeted \in BOOLEAN,
         CeremonyAnswered(u, reassured, greeted)
  PROVE  CeremonyInv'
<1> DEFINE r == Spoke("reassured", "speech", reassured)
           g == Spoke("greeted", "speech", greeted)
<1>0. PICK n \in Nat : n = Len(ceremony)
  BY DEF TypeOK
<1>1. /\ n # 0 /\ ceremony[n].spoke = "introduced" /\ phase' = "idle"
      /\ clock <= ceremony[n].at + AckTimeout
      /\ ceremony \in Seq(Step) /\ clock \in Nat /\ AckTimeout \in Nat
  BY <1>0, WindowAssumption DEF CeremonyInv, CeremonyAnswered, TypeOK
<1>2. /\ r \in Step /\ r.spoke = "reassured" /\ r.on = "speech" /\ r.at = clock
      /\ g \in Step /\ g.spoke = "greeted" /\ g.on = "speech" /\ g.at = clock
  BY SpokeIs
<1>3. ceremony' = (ceremony \o (IF u.intro THEN <<>> ELSE <<r>>)) \o <<g>>
  BY DEF CeremonyAnswered
<1> HIDE DEF r, g
<1>4. CASE u.intro
  <2>1. ceremony' = ceremony \o <<g>>
    BY <1>1, <1>3, <1>4, ConcatEmptySeq
  <2>2. ceremony' = Append(ceremony, g)
    BY <1>1, <1>2, <2>1, AppendIsConcat
  <2>3. /\ Len(ceremony') = n + 1 /\ ceremony'[n + 1] = g
        /\ \A i \in 1 .. n : ceremony'[i] = ceremony[i]
    BY <1>0, <1>1, <1>2, <2>2
  <2>4. ceremony'[n] = ceremony[n] /\ (n + 1) - 1 = n /\ n + 1 > 1
    BY <1>1, <2>3
  <2>5. OrderAt(n + 1)'
    BY <1>1, <1>2, <2>3, <2>4 DEF OrderAt
  <2>6. \A k \in 1 .. n : OrderAt(k)'
    BY <1>0, <2>3, OrderStays
  <2>7. \A k \in 1 .. n + 1 : OrderAt(k)'
    BY <2>5, <2>6
  <2> QED BY <1>1, <2>3, <2>7 DEF CeremonyInv
<1>5. CASE ~u.intro
  <2>1. ceremony' = (ceremony \o <<r>>) \o <<g>>
    BY <1>3, <1>5
  <2>2. ceremony' = Append(ceremony, r) \o <<g>>
    BY <1>1, <1>2, <2>1, AppendIsConcat
  <2>3. PICK t : t = ceremony'
    OBVIOUS
  <2>4. TwoBehind(Step, t, ceremony, r, g)
    BY <1>1, <1>2, <2>2, <2>3, TwoMore
  <2>5. /\ Len(ceremony') = n + 2 /\ ceremony'[n + 1] = r /\ ceremony'[n + 2] = g
        /\ \A i \in 1 .. n : ceremony'[i] = ceremony[i]
    BY <1>0, <2>3, <2>4 DEF TwoBehind
  <2>6. /\ ceremony'[n] = ceremony[n] /\ (n + 1) - 1 = n /\ n + 1 > 1
        /\ (n + 2) - 1 = n + 1 /\ n + 2 > 1
    BY <1>1, <2>5
  <2>7. OrderAt(n + 1)'
    BY <1>1, <1>2, <2>5, <2>6 DEF OrderAt
  <2>8. OrderAt(n + 2)'
    BY <1>1, <1>2, <2>5, <2>6 DEF OrderAt
  <2>9. \A k \in 1 .. n : OrderAt(k)'
    BY <1>0, <2>5, OrderStays
  <2>10. \A k \in 1 .. n + 2 : OrderAt(k)'
    BY <2>7, <2>8, <2>9
  <2> QED BY <1>1, <2>5, <2>10 DEF CeremonyInv
<1> QED BY <1>4, <1>5

(* A step that speaks nothing of it keeps what the phase knows. *)
LEMMA SilentKeeps ==
  ASSUME TypeOK, CeremonyInv, UNCHANGED <<ceremony, deadline>>,
         phase' \in {phase, "idle", "starting"}
  PROVE  CeremonyInv'
BY DEF CeremonyInv, OrderAt

(***************************************************************************)
(* The ceremony keeps its order, whatever is said, whenever, over requests *)
(* to begin again and restarts.  (CeremonyKeepsOrder; introduction.rs and  *)
(* its callers in daemon.rs)                                               *)
(***************************************************************************)
THEOREM CeremonyIsInOrder == Spec => []CeremonyKeepsOrder
<1>1. Init => CeremonyInv
  BY DEF Init, CeremonyInv
<1>2. TypeOK /\ CeremonyInv /\ [Next]_vars => CeremonyInv'
  <2> SUFFICES ASSUME TypeOK, CeremonyInv, [Next]_vars PROVE CeremonyInv'
    OBVIOUS
  <2>1. ASSUME NEW firstEver \in BOOLEAN, NEW spoken \in BOOLEAN, Startup(firstEver, spoken)
        PROVE  CeremonyInv'
    BY <2>1, IntroducedKeeps, SilentKeeps DEF Startup
  <2>2. CASE Introduce
    BY <2>2, IntroducedKeeps DEF Introduce
  <2>3. ASSUME NEW u \in Utterances, Hear(u) PROVE CeremonyInv'
    <3>1. PICK sent \in BOOLEAN, other \in BOOLEAN :
            \/ AnswerDone(u, sent) \/ AnswerSnooze(u, sent, other)
            \/ SnoozeExhausted(u, sent) \/ FirstElapse(other, sent) \/ SecondElapse(sent)
            \/ CeremonyAnswered(u, other, sent) \/ CeremonyTimesOut(sent)
      BY <2>3 DEF Hear
    <3>2. CASE CeremonyAnswered(u, other, sent)
      BY <3>2, AnsweredKeeps
    <3>3. CASE CeremonyTimesOut(sent)
      BY <3>3, TimesOutKeeps
    <3>4. CASE \/ AnswerDone(u, sent) \/ AnswerSnooze(u, sent, other)
               \/ SnoozeExhausted(u, sent) \/ FirstElapse(other, sent) \/ SecondElapse(sent)
      BY <3>4, SilentKeeps DEF AnswerDone, AnswerSnooze, SnoozeExhausted, FirstElapse,
                               SecondElapse, AlmanacHears, introVars
    <3> QED BY <3>1, <3>2, <3>3, <3>4
  <2>4. ASSUME NEW on \in {"turn", "confirm"}, NEW sent \in BOOLEAN, DialogEvent(on, sent)
        PROVE  CeremonyInv'
    BY <2>4, DialogKeeps
  <2>5. CASE ClockMoves \/ Restart \/ UNCHANGED vars \/ \E id \in Reminder : Due(id)
    BY <2>5, SilentKeeps DEF ClockMoves, PassTime, SetBack, Restart, Due, vars, introVars
  <2> QED BY <2>1, <2>2, <2>3, <2>4, <2>5 DEF Next, ClockMoves
<1>3. TypeOK /\ CeremonyInv => CeremonyKeepsOrder
  BY DEF CeremonyInv, CeremonyKeepsOrder, OrderAt, TypeOK
<1> QED BY <1>1, <1>2, <1>3, RemindersTypeCorrect, PTL DEF Spec

-----------------------------------------------------------------------------
(* The entries of a kind that a prompt has, and its re-asks that did not   *)
(* count because their ack was lost; now and after the step.               *)
Of(p, result) == {i \in 1 .. Len(log) : log[i].prompt = p /\ log[i].result = result}
LostOf(p) == {i \in Of(p, "missed") : ~log[i].sent /\ ~log[i].final}
OfNext(p, result) ==
  {i \in 1 .. Len(log') : log'[i].prompt = p /\ log'[i].result = result}
LostOfNext(p) == {i \in OfNext(p, "missed") : ~log'[i].sent /\ ~log'[i].final}

(* Where a prompt was asked again. *)
AgainOf(p) == Of(p, "reasked") \cup Of(p, "snoozed")
AgainNext(p) == OfNext(p, "reasked") \cup OfNext(p, "snoozed")

(***************************************************************************)
(* The slot tells the truth about the prompt it holds: its window began    *)
(* with the prompt if it was never asked again, and no later by the clock  *)
(* than when it was last asked again; it knows how often it was snoozed,   *)
(* and if it was re-asked, that began the window.                          *)
(***************************************************************************)
SlotInv ==
  pending # NoAck =>
    /\ \/ AgainOf(pending.prompt) = {} /\ pending.asked = asked[pending.prompt].at
       \/ \E i \in AgainOf(pending.prompt) :
            /\ \A j \in AgainOf(pending.prompt) : j <= i
            /\ pending.asked <= log[i].at
    /\ pending.snoozes = Cardinality(Of(pending.prompt, "snoozed"))
    /\ pending.reAsked =>
         \E i \in Of(pending.prompt, "reasked") : log[i].at = pending.asked

(* A prompt that may still be re-asked has one re-ask to spare. *)
Owed(p) == pending # NoAck /\ pending.prompt = p /\ ~pending.reAsked

NagInv ==
  \A p \in 1 .. Len(asked) :
    Cardinality(Of(p, "reasked")) <=
      (IF Owed(p) THEN 0 ELSE 1) + Cardinality(Of(p, "snoozed")) + Cardinality(LostOf(p))

(* Only what was asked is answered. *)
PromptInv ==
  /\ \A i \in 1 .. Len(log) : log[i].prompt \in 1 .. Len(asked)
  /\ pending # NoAck => pending.prompt \in 1 .. Len(asked)

(* The two promises on the entries, one entry at a time. *)
AgainBefore(k) == {i \in 1 .. k - 1 : /\ log[i].prompt = log[k].prompt
                                      /\ log[i].result \in {"reasked", "snoozed"}}

FreshAt(k) ==
  log[k].result \in {"done", "snoozed"} =>
    \/ AgainBefore(k) = {} /\ log[k].at <= asked[log[k].prompt].at + Patience
    \/ \E i \in AgainBefore(k) : /\ \A j \in AgainBefore(k) : j <= i
                                 /\ log[k].at <= log[i].at + Patience

ChanceAt(k) ==
  log[k].result = "missed" /\ log[k].final =>
    \/ Cardinality({i \in 1 .. k - 1 : /\ log[i].prompt = log[k].prompt
                                       /\ log[i].result = "snoozed"}) = MaxSnoozes
    \/ \E i \in 1 .. k - 1 : /\ log[i].prompt = log[k].prompt
                             /\ log[i].result = "reasked"
                             /\ log[k].at > log[i].at + Patience

EntriesInv == \A k \in 1 .. Len(log) : FreshAt(k) /\ ChanceAt(k)

(* What keeps the windows. *)
KeptInv == PromptInv /\ SlotInv /\ NagInv /\ EntriesInv

-----------------------------------------------------------------------------
(* What a step of the almanac appends: entries of the open prompt, now. *)
Appends ==
  /\ pending # NoAck /\ asked' = asked /\ clock' = clock
  /\ Len(log') \in {Len(log) + 1, Len(log) + 2}
  /\ \A i \in 1 .. Len(log) : log'[i] = log[i]
  /\ \A i \in Len(log) + 1 .. Len(log') :
       log'[i].prompt = pending.prompt /\ log'[i].at = clock

(* What the entry appended at k says. *)
EntryIs(k, result, sent, final) ==
  log'[k].result = result /\ log'[k].sent = sent /\ log'[k].final = final

(* What may be heard of a reminder, as far as the windows are concerned. *)
IsDone ==
  /\ Appends /\ Len(log') = Len(log) + 1
  /\ log'[Len(log) + 1].result = "done"
  /\ clock <= pending.asked + Patience
  /\ pending' = NoAck

IsSnooze ==
  /\ Appends
  /\ log'[Len(log) + 1].result = "snoozed"
  /\ Len(log') = Len(log) + 2 => log'[Len(log) + 2].result = "resume"
  /\ clock <= pending.asked + Patience
  /\ pending' # NoAck
  /\ pending'.prompt = pending.prompt /\ pending'.asked = clock
  /\ pending'.snoozes = pending.snoozes + 1 /\ pending'.reAsked = FALSE

IsFirstElapse ==
  /\ Appends /\ Len(log') = Len(log) + 2
  /\ log'[Len(log) + 1].result = "reasked"
  /\ log'[Len(log) + 2].result = "missed"
  /\ log'[Len(log) + 2].final = FALSE
  /\ ~pending.reAsked /\ ~(clock <= pending.asked + Patience)
  /\ \/ /\ pending' # NoAck
        /\ pending'.prompt = pending.prompt /\ pending'.asked = clock
        /\ pending'.snoozes = pending.snoozes /\ pending'.reAsked = TRUE
     \/ /\ log'[Len(log) + 2].sent = FALSE
        /\ pending' = pending

IsMissed ==
  /\ Appends /\ Len(log') = Len(log) + 1
  /\ log'[Len(log) + 1].result = "missed"
  /\ log'[Len(log) + 1].final = TRUE
  /\ \/ pending.snoozes >= MaxSnoozes
     \/ pending.reAsked /\ ~(clock <= pending.asked + Patience)
  /\ pending' = NoAck

(* The types the proofs below need, out of TypeOK. *)
LEMMA LogType ==
  ASSUME TypeOK
  PROVE  /\ log \in Seq(LogEntry) /\ Len(log) \in Nat
         /\ asked \in Seq(Prompt) /\ Len(asked) \in Nat
         /\ \A i \in 1 .. Len(log) : log[i] \in LogEntry /\ log[i].at \in Nat
         /\ \A i \in 1 .. Len(asked) : asked[i] \in Prompt /\ asked[i].at \in Nat
         /\ clock \in Nat /\ Patience \in Nat /\ MaxSnoozes \in Nat
         /\ pending # NoAck => /\ pending \in PendingAck /\ pending.asked \in Nat
                               /\ pending.snoozes \in 0 .. MaxSnoozes
                               /\ pending.reAsked \in BOOLEAN
<1>1. /\ log \in Seq(LogEntry) /\ Len(log) \in Nat
      /\ asked \in Seq(Prompt) /\ Len(asked) \in Nat
  BY DEF TypeOK
<1>2. \A i \in 1 .. Len(log) : log[i] \in LogEntry
  BY <1>1
<1>3. \A i \in 1 .. Len(asked) : asked[i] \in Prompt
  BY <1>1
<1>4. pending # NoAck => pending \in PendingAck
  BY DEF TypeOK
<1> QED BY <1>1, <1>2, <1>3, <1>4, WindowAssumption DEF TypeOK, LogEntry, Prompt, PendingAck

(* One entry, or two, as the actions append them. *)
LEMMA OneAppended ==
  ASSUME TypeOK, pending # NoAck, NEW result \in Results, NEW sent \in BOOLEAN,
         NEW final \in BOOLEAN, log' = Append(log, Entry(result, sent, final)),
         asked' = asked, clock' = clock
  PROVE  /\ Appends /\ Len(log') = Len(log) + 1
         /\ EntryIs(Len(log) + 1, result, sent, final)
<1> DEFINE e == Entry(result, sent, final)
<1>1. /\ e \in LogEntry /\ e.prompt = pending.prompt /\ e.at = clock
      /\ e.result = result /\ e.sent = sent /\ e.final = final
  BY EntryFields
<1>2. log \in Seq(LogEntry) /\ log' = Append(log, e)
  BY DEF TypeOK
<1> HIDE DEF e
<1>3. /\ Len(log') = Len(log) + 1 /\ log'[Len(log) + 1] = e /\ Len(log) \in Nat
      /\ \A i \in 1 .. Len(log) : log'[i] = log[i]
  BY <1>1, <1>2
<1>4. \A i \in Len(log) + 1 .. Len(log') : i = Len(log) + 1
  BY <1>3
<1> QED BY <1>1, <1>3, <1>4 DEF Appends, EntryIs

(* Two entries at once, entry by entry.                                    *)
LEMMA TwoAppended ==
  ASSUME TypeOK, pending # NoAck, NEW r1 \in Results, NEW s1 \in BOOLEAN,
         NEW r2 \in Results, NEW s2 \in BOOLEAN,
         \/ log' = log \o <<Entry(r1, s1, FALSE), Entry(r2, s2, FALSE)>>
         \/ log' = Append(log, Entry(r1, s1, FALSE)) \o <<Entry(r2, s2, FALSE)>>,
         asked' = asked, clock' = clock
  PROVE  /\ Appends /\ Len(log') = Len(log) + 2
         /\ EntryIs(Len(log) + 1, r1, s1, FALSE)
         /\ EntryIs(Len(log) + 2, r2, s2, FALSE)
<1> DEFINE e == Entry(r1, s1, FALSE)
           f == Entry(r2, s2, FALSE)
<1>1. /\ e \in LogEntry /\ e.prompt = pending.prompt /\ e.at = clock
      /\ e.result = r1 /\ e.sent = s1 /\ e.final = FALSE
      /\ f \in LogEntry /\ f.prompt = pending.prompt /\ f.at = clock
      /\ f.result = r2 /\ f.sent = s2 /\ f.final = FALSE
  <2>1. /\ e \in LogEntry /\ e.prompt = pending.prompt /\ e.at = clock
        /\ e.result = r1 /\ e.sent = s1 /\ e.final = FALSE
    BY OpenEntry, Zenon
  <2>2. /\ f \in LogEntry /\ f.prompt = pending.prompt /\ f.at = clock
        /\ f.result = r2 /\ f.sent = s2 /\ f.final = FALSE
    BY OpenEntry, Zenon
  <2> QED BY <2>1, <2>2, Zenon
<1>2. log \in Seq(LogEntry)
  BY DEF TypeOK
<1>3. PICK t : t = log'
  OBVIOUS
<1>4. t = log \o <<e, f>> \/ t = Append(log, e) \o <<f>>
  BY <1>3
<1> HIDE DEF e, f
<1>5. TwoBehind(LogEntry, t, log, e, f)
  BY <1>1, <1>2, <1>4, TwoMore
<1>6. /\ Len(log') = Len(log) + 2 /\ Len(log) \in Nat
      /\ log'[Len(log) + 1] = e /\ log'[Len(log) + 2] = f
      /\ \A i \in 1 .. Len(log) : log'[i] = log[i]
  BY <1>3, <1>5 DEF TwoBehind
<1>7. \A i \in Len(log) + 1 .. Len(log') : i = Len(log) + 1 \/ i = Len(log) + 2
  BY <1>6
<1> QED BY <1>1, <1>6, <1>7 DEF Appends, EntryIs

(* Every answer and every elapse is one of the four. *)
LEMMA HearIs ==
  ASSUME TypeOK, NEW u \in Utterances, NEW sent \in BOOLEAN, NEW other \in BOOLEAN,
         \/ AnswerDone(u, sent) \/ AnswerSnooze(u, sent, other)
         \/ SnoozeExhausted(u, sent) \/ FirstElapse(other, sent) \/ SecondElapse(sent)
  PROVE  IsDone \/ IsSnooze \/ IsFirstElapse \/ IsMissed
<1>1. /\ pending \in PendingAck /\ pending # NoAck /\ asked' = asked /\ clock' = clock
      /\ clock \in Nat /\ MaxSnoozes \in Nat
  BY WindowAssumption DEF TypeOK, AnswerDone, AnswerSnooze, SnoozeExhausted, FirstElapse,
         SecondElapse, AlmanacHears
<1>2. CASE AnswerDone(u, sent)
  BY <1>1, <1>2, OneAppended DEF AnswerDone, EntryIs, IsDone, WithinWindow
<1>3. CASE SnoozeExhausted(u, sent)
  BY <1>1, <1>3, OneAppended DEF SnoozeExhausted, EntryIs, IsMissed
<1>4. CASE SecondElapse(sent)
  BY <1>1, <1>4, OneAppended DEF SecondElapse, EntryIs, IsMissed, WithinWindow
<1>5. CASE AnswerSnooze(u, sent, other)
  <2>1. /\ pending' \in PendingAck /\ pending'.prompt = pending.prompt
        /\ pending'.asked = clock /\ pending'.snoozes = pending.snoozes + 1
        /\ pending'.reAsked = FALSE /\ clock <= pending.asked + Patience
    <3>1. pending.snoozes \in 0 .. MaxSnoozes /\ pending.snoozes < MaxSnoozes
      BY <1>1, <1>5 DEF AnswerSnooze, PendingAck
    <3>2. pending.snoozes + 1 \in 0 .. MaxSnoozes
      BY <1>1, <3>1
    <3> QED BY <1>1, <1>5, <3>1, <3>2 DEF AnswerSnooze, PendingAck, WithinWindow
  <2>2. pending' # NoAck
    BY <2>1, NoAckAssumption
  <2>3. CASE sent
    <3>1. log' = Append(log, Entry("snoozed", sent, FALSE))
                   \o <<Entry("resume", other, FALSE)>>
      BY <1>5, <2>3 DEF AnswerSnooze
    <3>2. /\ Appends /\ Len(log') = Len(log) + 2
          /\ EntryIs(Len(log) + 1, "snoozed", sent, FALSE)
          /\ EntryIs(Len(log) + 2, "resume", other, FALSE)
      BY <1>1, <3>1, TwoAppended, Zenon
    <3> QED BY <2>1, <2>2, <3>2 DEF IsSnooze, EntryIs
  <2>4. CASE ~sent
    <3>1. Append(log, Entry("snoozed", sent, FALSE)) \in Seq(LogEntry)
      <4>1. Entry("snoozed", sent, FALSE) \in LogEntry /\ log \in Seq(LogEntry)
        BY <1>1, EntryFields DEF TypeOK
      <4> QED BY <4>1, AppendType
    <3>2. log' = Append(log, Entry("snoozed", sent, FALSE)) \o <<>>
      BY <1>5, <2>4 DEF AnswerSnooze
    <3>3. log' = Append(log, Entry("snoozed", sent, FALSE))
      BY <3>1, <3>2, ConcatEmptySeq
    <3>4. /\ Appends /\ Len(log') = Len(log) + 1
          /\ EntryIs(Len(log) + 1, "snoozed", sent, FALSE)
      BY <1>1, <3>3, OneAppended
    <3>5. Len(log') # Len(log) + 2
      BY <3>4, LogType
    <3> QED BY <2>1, <2>2, <3>4, <3>5 DEF IsSnooze, EntryIs
  <2> QED BY <2>3, <2>4
<1>6. CASE FirstElapse(other, sent)
  <2>1. log' = log \o <<Entry("reasked", TRUE, FALSE), Entry("missed", sent, FALSE)>>
    BY <1>6 DEF FirstElapse
  <2>2. /\ Appends /\ Len(log') = Len(log) + 2
        /\ EntryIs(Len(log) + 1, "reasked", TRUE, FALSE)
        /\ EntryIs(Len(log) + 2, "missed", sent, FALSE)
    BY <1>1, <2>1, TwoAppended
  <2>3. CASE sent
    <3>1. /\ pending' \in PendingAck /\ pending'.prompt = pending.prompt
          /\ pending'.asked = clock /\ pending'.snoozes = pending.snoozes
          /\ pending'.reAsked = TRUE
      BY <1>1, <1>6, <2>3 DEF FirstElapse, PendingAck
    <3>2. pending' # NoAck /\ ~pending.reAsked
      BY <1>6, <3>1, NoAckAssumption DEF FirstElapse
    <3>3. ~(clock <= pending.asked + Patience)
      BY <1>6 DEF FirstElapse, WithinWindow
    <3> QED BY <2>2, <3>1, <3>2, <3>3 DEF IsFirstElapse, EntryIs
  <2>4. CASE ~sent
    BY <1>6, <2>2, <2>4 DEF FirstElapse, IsFirstElapse, EntryIs, WithinWindow
  <2> QED BY <2>3, <2>4
<1> QED BY <1>2, <1>3, <1>4, <1>5, <1>6

(* A prompt has finitely many entries. *)
LEMMA OfIsFinite ==
  ASSUME TypeOK, NEW p, NEW result
  PROVE  /\ IsFiniteSet(Of(p, result)) /\ Cardinality(Of(p, result)) \in Nat
         /\ IsFiniteSet(LostOf(p)) /\ Cardinality(LostOf(p)) \in Nat
<1> DEFINE n == Len(log)
<1>1. n \in Int
  BY LogType
<1>2. Of(p, result) \in SUBSET (1 .. n) /\ LostOf(p) \in SUBSET (1 .. n)
  BY LogType DEF Of, LostOf
<1> HIDE DEF n
<1>3. IsFiniteSet(1 .. n)
  <2>1. 1 \in Int
    OBVIOUS
  <2> QED BY <1>1, <2>1, FS_Interval
<1>4. IsFiniteSet(Of(p, result))
  BY <1>2, <1>3, FS_Subset
<1>5. IsFiniteSet(LostOf(p))
  BY <1>2, <1>3, FS_Subset
<1>6. Cardinality(Of(p, result)) \in Nat
  BY <1>4, FS_CardinalityType
<1>7. Cardinality(LostOf(p)) \in Nat
  BY <1>5, FS_CardinalityType
<1> QED BY <1>4, <1>5, <1>6, <1>7

(* The entries of the log that a step does not append are the old ones. *)
LEMMA OfGrows ==
  ASSUME TypeOK, Appends, NEW p, NEW result
  PROVE  /\ OfNext(p, result) = Of(p, result) \cup
              {i \in Len(log) + 1 .. Len(log') :
                 log'[i].prompt = p /\ log'[i].result = result}
         /\ \A i \in Len(log) + 1 .. Len(log') : i \notin Of(p, result)
<1>1. /\ Len(log) \in Nat /\ Len(log') \in Nat /\ Len(log) <= Len(log')
      /\ \A i \in 1 .. Len(log) : log'[i] = log[i]
  BY LogType DEF Appends
<1>2. 1 .. Len(log') = (1 .. Len(log)) \cup (Len(log) + 1 .. Len(log'))
  BY <1>1
<1>3. \A i \in Len(log) + 1 .. Len(log') : i \notin 1 .. Len(log)
  BY <1>1
<1> QED BY <1>1, <1>2, <1>3 DEF Of, OfNext

(* The same of the entries that were lost.                                 *)
LEMMA LostGrows ==
  ASSUME TypeOK, Appends, NEW p
  PROVE  /\ LostOfNext(p) = LostOf(p) \cup
              {i \in Len(log) + 1 .. Len(log') : /\ log'[i].prompt = p
                                                 /\ log'[i].result = "missed"
                                                 /\ ~log'[i].sent /\ ~log'[i].final}
         /\ \A i \in Len(log) + 1 .. Len(log') : i \notin LostOf(p)
<1>1. OfNext(p, "missed") = Of(p, "missed") \cup
        {i \in Len(log) + 1 .. Len(log') : log'[i].prompt = p /\ log'[i].result = "missed"}
  BY OfGrows
<1>2. \A i \in Len(log) + 1 .. Len(log') : i \notin Of(p, "missed")
  BY OfGrows
<1>3. \A i \in Of(p, "missed") : log'[i] = log[i]
  BY DEF Of, Appends
<1> QED BY <1>1, <1>2, <1>3 DEF LostOf, LostOfNext

(* One more entry, and none. *)
LEMMA CountOne ==
  ASSUME TypeOK, Appends, NEW result,
         log'[Len(log) + 1].result = result,
         Len(log') = Len(log) + 2 => log'[Len(log) + 2].result # result
  PROVE  Cardinality(OfNext(pending.prompt, result))
           = Cardinality(Of(pending.prompt, result)) + 1
<1> DEFINE n == Len(log)
           q == pending.prompt
<1>1. n \in Nat /\ Len(log') \in {n + 1, n + 2} /\ log'[n + 1].prompt = q
  BY LogType DEF Appends
<1>2. {i \in n + 1 .. Len(log') : log'[i].prompt = q /\ log'[i].result = result} = {n + 1}
  <2>1. \A i \in n + 1 .. Len(log') : i = n + 1 \/ (i = n + 2 /\ Len(log') = n + 2)
    BY <1>1
  <2>2. n + 1 \in n + 1 .. Len(log')
    BY <1>1
  <2> QED BY <1>1, <2>1, <2>2
<1>3. OfNext(q, result) = Of(q, result) \cup {n + 1} /\ n + 1 \notin Of(q, result)
  <2>1. n + 1 \in n + 1 .. Len(log')
    BY <1>1
  <2> QED BY <1>2, <2>1, OfGrows
<1> QED BY <1>3, OfIsFinite, FS_AddElement

(* A step that puts no such entry into the log leaves their number.        *)
LEMMA CountNone ==
  ASSUME TypeOK, Appends, NEW p, NEW result,
         \/ p # pending.prompt
         \/ /\ log'[Len(log) + 1].result # result
            /\ Len(log') = Len(log) + 2 => log'[Len(log) + 2].result # result
  PROVE  OfNext(p, result) = Of(p, result)
<1>1. Len(log) \in Nat /\ Len(log') \in {Len(log) + 1, Len(log) + 2}
  BY LogType DEF Appends
<1>2. \A i \in Len(log) + 1 .. Len(log') :
        /\ i = Len(log) + 1 \/ (i = Len(log) + 2 /\ Len(log') = Len(log) + 2)
        /\ log'[i].prompt = pending.prompt
  BY <1>1 DEF Appends
<1>3. {i \in Len(log) + 1 .. Len(log') : log'[i].prompt = p /\ log'[i].result = result} = {}
  BY <1>2
<1>4. OfNext(p, result) = Of(p, result) \cup
        {i \in Len(log) + 1 .. Len(log') : log'[i].prompt = p /\ log'[i].result = result}
  BY OfGrows
<1> QED BY <1>3, <1>4

(* A lost re-ask stays lost; one that is lost now is one more. *)
LEMMA LostStay ==
  ASSUME TypeOK, Appends, NEW p
  PROVE  /\ Cardinality(LostOf(p)) <= Cardinality(LostOfNext(p))
         /\ Cardinality(LostOfNext(p)) \in Nat
<1>1. LostOf(p) \subseteq LostOfNext(p)
  BY LostGrows
<1>2. IsFiniteSet(LostOfNext(p))
  <2>1. Len(log') \in Nat
    BY LogType DEF Appends
  <2>2. LostOfNext(p) \subseteq 1 .. Len(log') /\ IsFiniteSet(1 .. Len(log'))
    BY <2>1, FS_Interval DEF LostOfNext, OfNext
  <2> QED BY <2>2, FS_Subset
<1> QED BY <1>1, <1>2, FS_Subset, FS_CardinalityType

(* A re-ask that is lost counts as one more.                               *)
LEMMA LostOne ==
  ASSUME TypeOK, Appends, Len(log') = Len(log) + 2,
         log'[Len(log) + 1].result = "reasked",
         log'[Len(log) + 2].result = "missed",
         log'[Len(log) + 2].sent = FALSE, log'[Len(log) + 2].final = FALSE
  PROVE  Cardinality(LostOfNext(pending.prompt)) = Cardinality(LostOf(pending.prompt)) + 1
<1> DEFINE n == Len(log)
           q == pending.prompt
<1>1. n \in Nat
  BY LogType
<1>2. \A i \in n + 1 .. Len(log') : (i = n + 1 \/ i = n + 2) /\ log'[i].prompt = q
  BY <1>1 DEF Appends
<1>3. n + 2 \in n + 1 .. Len(log')
  BY <1>1
<1>4. {i \in n + 1 .. Len(log') : /\ log'[i].prompt = q /\ log'[i].result = "missed"
                                  /\ ~log'[i].sent /\ ~log'[i].final} = {n + 2}
  BY <1>2, <1>3
<1>5. LostOfNext(q) = LostOf(q) \cup {n + 2} /\ n + 2 \notin LostOf(q)
  BY <1>3, <1>4, LostGrows
<1> QED BY <1>5, OfIsFinite, FS_AddElement

-----------------------------------------------------------------------------
(* The old entries stay as they are and keep their openings. *)
LEMMA OldEntries ==
  ASSUME TypeOK, KeptInv, Appends, NEW k \in 1 .. Len(log)
  PROVE  FreshAt(k)' /\ ChanceAt(k)'
<1>1. FreshAt(k) /\ ChanceAt(k)
  BY DEF KeptInv, EntriesInv
<1>2. /\ log'[k] = log[k] /\ asked' = asked
      /\ \A i \in 1 .. k - 1 : log'[i] = log[i]
  BY LogType DEF Appends
<1>3. FreshAt(k)'
  <2>1. AgainBefore(k)' = AgainBefore(k)
    BY <1>2 DEF AgainBefore
  <2>2. \A i \in AgainBefore(k) : log'[i] = log[i]
    BY <1>2 DEF AgainBefore
  <2> QED BY <1>1, <1>2, <2>1, <2>2 DEF FreshAt
<1>4. {i \in 1 .. k - 1 : log'[i].prompt = log'[k].prompt /\ log'[i].result = "snoozed"}
        = {i \in 1 .. k - 1 : log[i].prompt = log[k].prompt /\ log[i].result = "snoozed"}
  BY <1>2
<1>5. ChanceAt(k)'
  BY <1>1, <1>2, <1>4 DEF ChanceAt
<1> QED BY <1>3, <1>5

(* An answer that comes within the window is fresh. *)
LEMMA NewIsFresh ==
  ASSUME TypeOK, KeptInv, Appends, clock <= pending.asked + Patience,
         NEW k, k = Len(log) + 1
  PROVE  FreshAt(k)'
<1> DEFINE q == pending.prompt
<1>1. /\ log'[k].prompt = q /\ log'[k].at = clock /\ asked' = asked
      /\ \A i \in 1 .. Len(log) : log'[i] = log[i]
      /\ k - 1 = Len(log) /\ pending # NoAck
  BY LogType DEF Appends
<1>2. AgainBefore(k)' = AgainOf(q) /\ AgainOf(q) \subseteq 1 .. Len(log)
  BY <1>1 DEF AgainBefore, AgainOf, Of
<1>3. CASE AgainOf(q) = {} /\ pending.asked = asked[q].at
  BY <1>1, <1>2, <1>3 DEF FreshAt
<1>4. CASE \E i \in AgainOf(q) : (\A j \in AgainOf(q) : j <= i) /\ pending.asked <= log[i].at
  <2>1. PICK i \in AgainOf(q) : (\A j \in AgainOf(q) : j <= i) /\ pending.asked <= log[i].at
    BY <1>4
  <2>2. log'[i] = log[i] /\ log[i].at \in Nat
    BY <1>1, <1>2, <2>1, LogType
  <2>3. clock <= log'[i].at + Patience
    BY <1>1, <2>1, <2>2, LogType
  <2> QED BY <1>1, <1>2, <2>1, <2>3 DEF FreshAt
<1> QED BY <1>1, <1>3, <1>4 DEF KeptInv, SlotInv

(* A miss that settles follows the last snooze or a whole window. *)
LEMMA NewIsFair ==
  ASSUME TypeOK, KeptInv, IsMissed, NEW k, k = Len(log) + 1
  PROVE  ChanceAt(k)'
<1> DEFINE q == pending.prompt
<1>1. /\ log'[k].prompt = q /\ log'[k].at = clock
      /\ \A i \in 1 .. k - 1 : log'[i] = log[i]
      /\ k - 1 = Len(log) /\ pending # NoAck
  BY LogType DEF IsMissed, Appends
<1>2. CASE pending.snoozes >= MaxSnoozes
  <2>1. Cardinality(Of(q, "snoozed")) = MaxSnoozes
    BY <1>1, <1>2, LogType DEF KeptInv, SlotInv
  <2>2. {i \in 1 .. k - 1 : log'[i].prompt = q /\ log'[i].result = "snoozed"}
          = Of(q, "snoozed")
    BY <1>1 DEF Of
  <2> QED BY <1>1, <2>1, <2>2 DEF ChanceAt
<1>3. CASE pending.reAsked /\ ~(clock <= pending.asked + Patience)
  <2>1. PICK i \in Of(q, "reasked") : log[i].at = pending.asked
    BY <1>1, <1>3 DEF KeptInv, SlotInv
  <2>2. /\ i \in 1 .. k - 1 /\ log'[i].prompt = q /\ log'[i].result = "reasked"
        /\ clock > log'[i].at + Patience
    BY <1>1, <1>3, <2>1, LogType DEF Of
  <2> QED BY <1>1, <2>2 DEF ChanceAt
<1> QED BY <1>2, <1>3 DEF IsMissed

(* So an answer or an elapse keeps both promises. *)
LEMMA EntriesStay ==
  ASSUME TypeOK, KeptInv, IsDone \/ IsSnooze \/ IsFirstElapse \/ IsMissed
  PROVE  PromptInv' /\ EntriesInv'
<1>0. PICK n \in Nat : n = Len(log)
  BY LogType
<1>1. /\ Appends
      /\ Len(log') \in {n + 1, n + 2}
      /\ \A i \in 1 .. n : log'[i] = log[i]
      /\ \A i \in n + 1 .. Len(log') : log'[i].prompt = pending.prompt
      /\ asked' = asked /\ pending # NoAck
      /\ pending' # NoAck => pending'.prompt = pending.prompt
  BY <1>0 DEF IsDone, IsSnooze, IsFirstElapse, IsMissed, Appends
<1>2. \A i \in 1 .. Len(log') : i \in 1 .. n \/ i = n + 1 \/ (i = n + 2 /\ Len(log') = n + 2)
  BY <1>1
<1>3. PromptInv'
  BY <1>0, <1>1, <1>2 DEF KeptInv, PromptInv
<1>4. \A k \in 1 .. n : FreshAt(k)' /\ ChanceAt(k)'
  BY <1>0, <1>1, OldEntries
<1>5. FreshAt(n + 1)' /\ ChanceAt(n + 1)'
  <2>1. CASE IsDone \/ IsSnooze
    <3>1. FreshAt(n + 1)'
      BY <1>0, <1>1, <2>1, NewIsFresh DEF IsDone, IsSnooze
    <3>2. log'[n + 1].result # "missed"
      BY <1>0, <2>1 DEF IsDone, IsSnooze
    <3> QED BY <3>1, <3>2 DEF ChanceAt
  <2>2. CASE IsFirstElapse
    BY <1>0, <2>2 DEF IsFirstElapse, FreshAt, ChanceAt
  <2>3. CASE IsMissed
    <3>1. ChanceAt(n + 1)'
      BY <1>0, <2>3, NewIsFair
    <3> QED BY <1>0, <2>3, <3>1 DEF IsMissed, FreshAt
  <2> QED BY <2>1, <2>2, <2>3
<1>6. Len(log') = n + 2 => FreshAt(n + 2)' /\ ChanceAt(n + 2)'
  <2>1. Len(log') = n + 2 => IsSnooze \/ IsFirstElapse
    BY <1>0 DEF IsDone, IsMissed
  <2>2. Len(log') = n + 2 => \/ log'[n + 2].result = "resume"
                             \/ log'[n + 2].result = "missed" /\ log'[n + 2].final = FALSE
    BY <1>0, <2>1 DEF IsSnooze, IsFirstElapse
  <2> QED BY <2>2 DEF FreshAt, ChanceAt
<1> QED BY <1>2, <1>3, <1>4, <1>5, <1>6 DEF EntriesInv

-----------------------------------------------------------------------------
(* An answer or an elapse leaves the slot true. *)
LEMMA SlotStays ==
  ASSUME TypeOK, KeptInv, IsDone \/ IsSnooze \/ IsFirstElapse \/ IsMissed
  PROVE  SlotInv'
<1> DEFINE q == pending.prompt
           n == Len(log)
<1>1. /\ Appends /\ pending # NoAck /\ clock' = clock /\ asked' = asked
      /\ n \in Nat /\ Len(log') \in {n + 1, n + 2} /\ clock \in Nat
      /\ log'[n + 1].prompt = q /\ log'[n + 1].at = clock
      /\ \A i \in 1 .. n : log'[i] = log[i]
  <2>1. Appends
    BY DEF IsDone, IsSnooze, IsFirstElapse, IsMissed
  <2>2. n \in Nat /\ clock \in Nat
    BY LogType
  <2> QED BY <2>1, <2>2 DEF Appends
<1>2. n + 1 \in 1 .. Len(log') /\ 1 .. n \subseteq 1 .. Len(log')
  BY <1>1
<1> SUFFICES ASSUME pending' # NoAck
             PROVE  /\ \E i \in AgainNext(pending'.prompt) :
                         /\ \A j \in AgainNext(pending'.prompt) : j <= i
                         /\ pending'.asked <= log'[i].at
                    /\ pending'.snoozes = Cardinality(OfNext(pending'.prompt, "snoozed"))
                    /\ pending'.reAsked =>
                         \E i \in OfNext(pending'.prompt, "reasked") :
                           log'[i].at = pending'.asked
  BY <1>1 DEF SlotInv, AgainOf, AgainNext, Of, OfNext
<1>3. pending.snoozes = Cardinality(Of(q, "snoozed"))
  BY <1>1 DEF KeptInv, SlotInv
<1> HIDE DEF n
<1>0. ASSUME log'[n + 1].result \in {"reasked", "snoozed"}, pending'.prompt = q,
             Len(log') = n + 2 => log'[n + 2].result \notin {"reasked", "snoozed"},
             pending'.asked <= clock
      PROVE  \E i \in AgainNext(pending'.prompt) :
               /\ \A j \in AgainNext(pending'.prompt) : j <= i
               /\ pending'.asked <= log'[i].at
  <2>1. n + 1 \in AgainNext(q)
    BY <1>0, <1>1, <1>2 DEF AgainNext, OfNext
  <2>2. \A j \in AgainNext(q) : j <= n + 1
    BY <1>0, <1>1 DEF AgainNext, OfNext
  <2> QED BY <1>0, <1>1, <2>1, <2>2
<1>4. CASE IsSnooze
  <2>1. /\ pending'.prompt = q /\ pending'.asked = clock /\ pending'.reAsked = FALSE
        /\ pending'.snoozes = pending.snoozes + 1 /\ log'[n + 1].result = "snoozed"
        /\ Len(log') = n + 2 => log'[n + 2].result # "snoozed"
    BY <1>4 DEF IsSnooze, n
  <2>2. Cardinality(OfNext(q, "snoozed")) = Cardinality(Of(q, "snoozed")) + 1
    BY <1>1, <2>1, CountOne DEF n
  <2>3. Len(log') = n + 2 => log'[n + 2].result \notin {"reasked", "snoozed"}
    BY <1>4 DEF IsSnooze, n
  <2>4. clock <= clock
    BY <1>1
  <2> QED BY <1>0, <1>3, <2>1, <2>2, <2>3, <2>4
<1>5. CASE IsFirstElapse
  <2>1. /\ log'[n + 1].result = "reasked" /\ log'[n + 2].result = "missed"
        /\ ~pending.reAsked
        /\ \/ /\ pending'.prompt = q /\ pending'.asked = clock
              /\ pending'.snoozes = pending.snoozes /\ pending'.reAsked = TRUE
           \/ pending' = pending
    BY <1>5 DEF IsFirstElapse, n
  <2>2. OfNext(q, "snoozed") = Of(q, "snoozed")
    BY <1>1, <2>1, CountNone DEF n
  <2>3. n + 1 \in OfNext(q, "reasked")
    BY <1>1, <1>2, <2>1 DEF OfNext
  <2>4. pending.asked <= clock /\ clock <= clock
    BY <1>1, <1>5, LogType DEF IsFirstElapse
  <2>5. CASE /\ pending'.prompt = q /\ pending'.asked = clock
             /\ pending'.snoozes = pending.snoozes /\ pending'.reAsked = TRUE
    BY <1>0, <1>1, <1>3, <2>1, <2>2, <2>3, <2>4, <2>5
  <2>6. CASE pending' = pending
    BY <1>0, <1>3, <2>1, <2>2, <2>4, <2>6
  <2> QED BY <2>1, <2>5, <2>6
<1> QED BY <1>4, <1>5 DEF IsDone, IsMissed

(* A re-ask uses up the one to spare, or is lost; a snooze earns another. *)
LEMMA NagStays ==
  ASSUME TypeOK, KeptInv, IsDone \/ IsSnooze \/ IsFirstElapse \/ IsMissed
  PROVE  NagInv'
<1> DEFINE q == pending.prompt
           n == Len(log)
           OwedNext(p) == pending' # NoAck /\ pending'.prompt = p /\ ~pending'.reAsked
<1>1. /\ Appends /\ pending # NoAck /\ asked' = asked
      /\ pending' # NoAck => pending'.prompt = q
  BY DEF IsDone, IsSnooze, IsFirstElapse, IsMissed, Appends
<1> SUFFICES ASSUME NEW p \in 1 .. Len(asked)
             PROVE  Cardinality(OfNext(p, "reasked")) <=
                      (IF OwedNext(p) THEN 0 ELSE 1)
                      + Cardinality(OfNext(p, "snoozed")) + Cardinality(LostOfNext(p))
  BY <1>1 DEF NagInv, Owed, Of, OfNext, LostOf, LostOfNext
<1>2. /\ Cardinality(Of(p, "reasked")) \in Nat /\ Cardinality(Of(p, "snoozed")) \in Nat
      /\ Cardinality(LostOf(p)) \in Nat /\ Cardinality(LostOfNext(p)) \in Nat
      /\ Cardinality(LostOf(p)) <= Cardinality(LostOfNext(p))
  BY <1>1, OfIsFinite, LostStay
<1>3. Cardinality(Of(p, "reasked")) <=
        (IF Owed(p) THEN 0 ELSE 1) + Cardinality(Of(p, "snoozed")) + Cardinality(LostOf(p))
  BY DEF KeptInv, NagInv
<1> HIDE DEF OwedNext
<1>4. CASE p # q
  <2>1. OfNext(p, "reasked") = Of(p, "reasked") /\ OfNext(p, "snoozed") = Of(p, "snoozed")
    BY <1>1, <1>4, CountNone
  <2>2. ~OwedNext(p) /\ ~Owed(p)
    BY <1>1, <1>4 DEF OwedNext, Owed
  <2> QED BY <1>2, <1>3, <2>1, <2>2
<1>5. CASE p = q /\ (IsDone \/ IsMissed)
  <2>1. /\ pending' = NoAck /\ Len(log') = n + 1
        /\ log'[n + 1].result \notin {"reasked", "snoozed"}
    BY <1>5 DEF IsDone, IsMissed
  <2>2. Len(log') # n + 2
    BY <2>1, LogType
  <2>3. OfNext(p, "reasked") = Of(p, "reasked") /\ OfNext(p, "snoozed") = Of(p, "snoozed")
    BY <1>1, <2>1, <2>2, CountNone
  <2>4. ~OwedNext(p)
    BY <2>1 DEF OwedNext
  <2> QED BY <1>2, <1>3, <2>3, <2>4
<1>6. CASE p = q /\ IsSnooze
  <2>1. /\ log'[n + 1].result = "snoozed"
        /\ Len(log') = n + 2 => log'[n + 2].result = "resume"
    BY <1>6 DEF IsSnooze
  <2>2. OfNext(q, "reasked") = Of(q, "reasked")
    BY <1>1, <2>1, CountNone
  <2>3. Cardinality(OfNext(q, "snoozed")) = Cardinality(Of(q, "snoozed")) + 1
    BY <1>1, <2>1, CountOne
  <2> QED BY <1>2, <1>3, <1>6, <2>2, <2>3
<1>7. CASE p = q /\ IsFirstElapse
  <2>1. /\ log'[n + 1].result = "reasked" /\ log'[n + 2].result = "missed"
        /\ Len(log') = n + 2 /\ ~pending.reAsked /\ log'[n + 2].final = FALSE
        /\ \/ pending'.reAsked = TRUE
           \/ log'[n + 2].sent = FALSE
    BY <1>7 DEF IsFirstElapse
  <2>2. Cardinality(OfNext(q, "reasked")) = Cardinality(Of(q, "reasked")) + 1
    BY <1>1, <2>1, CountOne
  <2>3. OfNext(q, "snoozed") = Of(q, "snoozed")
    BY <1>1, <2>1, CountNone
  <2>4. Owed(p)
    BY <1>1, <1>7, <2>1 DEF Owed
  <2>5. CASE pending'.reAsked = TRUE
    <3>1. ~OwedNext(p)
      BY <2>5 DEF OwedNext
    <3> QED BY <1>2, <1>3, <1>7, <2>2, <2>3, <2>4, <3>1
  <2>6. CASE log'[n + 2].sent = FALSE
    <3>1. Cardinality(LostOfNext(q)) = Cardinality(LostOf(q)) + 1
      BY <1>1, <2>1, <2>6, LostOne
    <3> QED BY <1>2, <1>3, <1>7, <2>2, <2>3, <2>4, <3>1
  <2> QED BY <2>1, <2>5, <2>6
<1> QED BY <1>4, <1>5, <1>6, <1>7

-----------------------------------------------------------------------------
(* A new prompt has no entry yet, and its window begins with it. *)
LEMMA DueKeeps ==
  ASSUME TypeOK, KeptInv, NEW id \in Reminder, Due(id)
  PROVE  KeptInv'
<1>0. PICK m \in Nat : m = Len(asked)
  BY LogType
<1>1. /\ Len(asked') = m + 1 /\ \A i \in 1 .. m : asked'[i] = asked[i]
      /\ asked'[m + 1].at = clock
  <2> DEFINE e == [id |-> id, at |-> clock]
  <2>1. e \in Prompt /\ e.at = clock
    BY LogType DEF Prompt
  <2>2. asked' = Append(asked, e) /\ asked \in Seq(Prompt)
    BY DEF Due, TypeOK
  <2> HIDE DEF e
  <2> QED BY <1>0, <2>1, <2>2
<1>2. log' = log /\ clock' = clock /\ pending' = FreshAck /\ clock \in Nat
  BY LogType DEF Due
<1>3. /\ pending'.prompt = m + 1 /\ pending'.asked = clock
      /\ pending'.snoozes = 0 /\ pending'.reAsked = FALSE
  BY <1>0, <1>2 DEF FreshAck
<1>4. \A i \in 1 .. Len(log) : log[i].prompt \in 1 .. m
  BY <1>0 DEF KeptInv, PromptInv
<1>5. \A result : Of(m + 1, result) = {}
  BY <1>0, <1>4 DEF Of
<1>6. Cardinality({}) = 0
  BY FS_EmptySet
<1>7. PromptInv'
  BY <1>1, <1>2, <1>3, <1>4 DEF PromptInv
<1>8. SlotInv'
  <2>1. Cardinality(Of(m + 1, "snoozed")) = 0
    BY <1>5, <1>6
  <2>2. Cardinality({i \in 1 .. Len(log) :
                       log[i].prompt = m + 1 /\ log[i].result = "snoozed"}) = 0
    BY <2>1 DEF Of
  <2>3. AgainOf(m + 1) = {}
    BY <1>5 DEF AgainOf
  <2> QED BY <1>1, <1>2, <1>3, <2>2, <2>3 DEF SlotInv, AgainOf, Of
<1>9. NagInv'
  <2> SUFFICES ASSUME NEW p \in 1 .. m + 1
               PROVE  Cardinality(Of(p, "reasked")) <=
                        (IF pending' # NoAck /\ pending'.prompt = p /\ ~pending'.reAsked
                         THEN 0 ELSE 1)
                        + Cardinality(Of(p, "snoozed")) + Cardinality(LostOf(p))
    BY <1>1, <1>2 DEF NagInv, Of, LostOf, Owed
  <2>1. /\ Cardinality(Of(p, "reasked")) \in Nat /\ Cardinality(Of(p, "snoozed")) \in Nat
        /\ Cardinality(LostOf(p)) \in Nat
    BY OfIsFinite
  <2>2. CASE p = m + 1
    <3>1. Cardinality(Of(p, "reasked")) = 0
      BY <1>5, <1>6, <2>2
    <3> QED BY <2>1, <3>1
  <2>3. CASE p \in 1 .. m
    <3>1. Cardinality(Of(p, "reasked")) <=
            (IF Owed(p) THEN 0 ELSE 1)
            + Cardinality(Of(p, "snoozed")) + Cardinality(LostOf(p))
      BY <1>0, <2>3 DEF KeptInv, NagInv
    <3>2. pending'.prompt # p
      BY <1>3, <2>3
    <3> QED BY <2>1, <3>1, <3>2
  <2> QED BY <2>2, <2>3
<1>10. EntriesInv'
  <2> SUFFICES ASSUME NEW k \in 1 .. Len(log) PROVE FreshAt(k)' /\ ChanceAt(k)'
    BY <1>2 DEF EntriesInv
  <2>1. asked'[log[k].prompt] = asked[log[k].prompt]
    BY <1>1, <1>4
  <2>2. FreshAt(k) /\ ChanceAt(k)
    BY DEF KeptInv, EntriesInv
  <2>3. FreshAt(k)'
    BY <1>2, <2>1, <2>2 DEF FreshAt, AgainBefore
  <2>4. ChanceAt(k)'
    BY <1>2, <2>2 DEF ChanceAt
  <2> QED BY <2>3, <2>4
<1> QED BY <1>7, <1>8, <1>9, <1>10 DEF KeptInv

(* So does a step that leaves the prompts and the log alone. *)
LEMMA OtherKeeps ==
  ASSUME TypeOK, KeptInv, asked' = asked, log' = log, pending' \in {pending, NoAck},
         clock' \in Nat
  PROVE  KeptInv'
<1>1. PromptInv'
  BY DEF KeptInv, PromptInv
<1>2. EntriesInv'
  <2> SUFFICES ASSUME NEW k \in 1 .. Len(log) PROVE FreshAt(k)' /\ ChanceAt(k)'
    BY DEF EntriesInv
  <2>1. FreshAt(k) /\ ChanceAt(k)
    BY DEF KeptInv, EntriesInv
  <2>2. FreshAt(k)'
    BY <2>1 DEF FreshAt, AgainBefore
  <2>3. ChanceAt(k)'
    BY <2>1 DEF ChanceAt
  <2> QED BY <2>2, <2>3
<1>3. SlotInv'
  <2>1. CASE pending' = NoAck
    BY <2>1 DEF SlotInv
  <2>2. CASE pending' = pending /\ pending # NoAck
    BY <2>2 DEF KeptInv, SlotInv, AgainOf, Of
  <2> QED BY <2>1, <2>2
<1>4. NagInv'
  <2> SUFFICES ASSUME NEW p \in 1 .. Len(asked)
               PROVE  Cardinality(Of(p, "reasked")) <=
                        (IF pending' # NoAck /\ pending'.prompt = p /\ ~pending'.reAsked
                         THEN 0 ELSE 1)
                        + Cardinality(Of(p, "snoozed")) + Cardinality(LostOf(p))
    BY DEF NagInv, Of, LostOf, Owed
  <2>1. /\ Cardinality(Of(p, "reasked")) \in Nat /\ Cardinality(Of(p, "snoozed")) \in Nat
        /\ Cardinality(LostOf(p)) \in Nat
    BY OfIsFinite
  <2>2. Cardinality(Of(p, "reasked")) <=
          (IF Owed(p) THEN 0 ELSE 1)
          + Cardinality(Of(p, "snoozed")) + Cardinality(LostOf(p))
    BY DEF KeptInv, NagInv
  <2>3. pending' # NoAck => pending' = pending
    OBVIOUS
  <2> QED BY <2>1, <2>2, <2>3 DEF Owed
<1> QED BY <1>1, <1>2, <1>3, <1>4 DEF KeptInv

(* What is at least as great as all is the greatest. *)
LEMMA GreatestIsMax ==
  ASSUME NEW S \in SUBSET Int, NEW m \in S, \A j \in S : j <= m
  PROVE  Max(S) = m
<1>1. \A x \in S : (\A y \in S : x >= y) => x = m
  OBVIOUS
<1>2. \A y \in S : m >= y
  OBVIOUS
<1> QED BY <1>1, <1>2 DEF Max

(* What the invariant says of the log is what the runs check. *)
LEMMA KeptIsKept ==
  ASSUME TypeOK, KeptInv
  PROVE  WindowsAreKept
<1>1. DOMAIN log = 1 .. Len(log) /\ DOMAIN asked = 1 .. Len(asked)
  BY LogType
<1>2. AnswersAreFresh
  <2> SUFFICES ASSUME NEW k \in 1 .. Len(log), log[k].result \in {"done", "snoozed"}
               PROVE  log[k].at <= LastAsked(k) + Patience
    BY <1>1 DEF AnswersAreFresh
  <2>1. FreshAt(k)
    BY DEF KeptInv, EntriesInv
  <2>2. CASE AgainBefore(k) = {} /\ log[k].at <= asked[log[k].prompt].at + Patience
    BY <2>2 DEF LastAsked, AgainBefore
  <2>3. CASE \E i \in AgainBefore(k) : /\ \A j \in AgainBefore(k) : j <= i
                                       /\ log[k].at <= log[i].at + Patience
    <3>1. PICK i \in AgainBefore(k) : /\ \A j \in AgainBefore(k) : j <= i
                                      /\ log[k].at <= log[i].at + Patience
      BY <2>3
    <3>2. AgainBefore(k) \subseteq Int
      BY DEF AgainBefore
    <3>3. Max(AgainBefore(k)) = i
      BY <3>1, <3>2, GreatestIsMax
    <3>4. LastAsked(k) = log[i].at
      BY <3>1, <3>3 DEF LastAsked, AgainBefore
    <3> QED BY <3>1, <3>4
  <2> QED BY <2>1, <2>2, <2>3 DEF FreshAt
<1>3. SecondChance
  <2> SUFFICES ASSUME NEW k \in 1 .. Len(log), log[k].result = "missed" /\ log[k].final
               PROVE  \/ Cardinality(Before(k, "snoozed")) = MaxSnoozes
                      \/ \E i \in Before(k, "reasked") : log[k].at > log[i].at + Patience
    BY <1>1 DEF SecondChance
  <2>1. ChanceAt(k)
    BY DEF KeptInv, EntriesInv
  <2> QED BY <2>1 DEF ChanceAt, Before
<1>4. NagsAreBounded
  <2> SUFFICES ASSUME NEW p \in 1 .. Len(asked)
               PROVE  Cardinality(Of(p, "reasked")) <=
                        1 + Cardinality(Of(p, "snoozed")) + Cardinality(LostOf(p))
    BY <1>1 DEF NagsAreBounded, Of, LostOf
  <2>1. /\ Cardinality(Of(p, "reasked")) \in Nat /\ Cardinality(Of(p, "snoozed")) \in Nat
        /\ Cardinality(LostOf(p)) \in Nat
    BY OfIsFinite
  <2>2. Cardinality(Of(p, "reasked")) <=
          (IF Owed(p) THEN 0 ELSE 1)
          + Cardinality(Of(p, "snoozed")) + Cardinality(LostOf(p))
    BY DEF KeptInv, NagInv
  <2> QED BY <2>1, <2>2
<1> QED BY <1>2, <1>3, <1>4 DEF WindowsAreKept

(***************************************************************************)
(* The windows of a reminder are kept: an answer counts inside the one     *)
(* opened last, a miss only after them, by the wall clock and however      *)
(* often it is set back, and nobody is re-asked more often than allowed,   *)
(* for every patience and allowance and whatever the bus loses.            *)
(* (WindowsAreKept; almanac.rs and tick_almanac_timeout,                   *)
(* handle_almanac_reply of daemon.rs)                                      *)
(***************************************************************************)
THEOREM WindowsHold == Spec => []WindowsAreKept
<1>1. Init => KeptInv
  BY DEF Init, KeptInv, PromptInv, SlotInv, NagInv, EntriesInv
<1>2. TypeOK /\ TypeOK' /\ KeptInv /\ [Next]_vars => KeptInv'
  <2> SUFFICES ASSUME TypeOK, TypeOK', KeptInv, [Next]_vars PROVE KeptInv'
    OBVIOUS
  <2>0. clock' \in Nat
    BY DEF TypeOK
  <2>1. ASSUME NEW firstEver \in BOOLEAN, NEW spoken \in BOOLEAN, Startup(firstEver, spoken)
        PROVE  KeptInv'
    BY <2>0, <2>1, OtherKeeps DEF Startup, ackVars
  <2>2. ASSUME NEW id \in Reminder, Due(id) PROVE KeptInv'
    BY <2>2, DueKeeps
  <2>3. ASSUME NEW u \in Utterances, Hear(u) PROVE KeptInv'
    <3>1. PICK sent \in BOOLEAN, other \in BOOLEAN :
            \/ AnswerDone(u, sent) \/ AnswerSnooze(u, sent, other)
            \/ SnoozeExhausted(u, sent) \/ FirstElapse(other, sent) \/ SecondElapse(sent)
            \/ CeremonyAnswered(u, other, sent) \/ CeremonyTimesOut(sent)
      BY <2>3 DEF Hear
    <3>2. CASE \/ AnswerDone(u, sent) \/ AnswerSnooze(u, sent, other)
               \/ SnoozeExhausted(u, sent) \/ FirstElapse(other, sent) \/ SecondElapse(sent)
      <4>1. IsDone \/ IsSnooze \/ IsFirstElapse \/ IsMissed
        BY <3>2, HearIs
      <4> QED BY <4>1, EntriesStay, SlotStays, NagStays DEF KeptInv
    <3>3. CASE CeremonyAnswered(u, other, sent) \/ CeremonyTimesOut(sent)
      BY <2>0, <3>3, OtherKeeps DEF CeremonyAnswered, CeremonyTimesOut, ackVars
    <3> QED BY <3>1, <3>2, <3>3
  <2>4. CASE Introduce
    BY <2>0, <2>4, OtherKeeps DEF Introduce, ackVars
  <2>5. ASSUME NEW on \in {"turn", "confirm"}, NEW sent \in BOOLEAN, DialogEvent(on, sent)
        PROVE  KeptInv'
    BY <2>0, <2>5, OtherKeeps DEF DialogEvent, ackVars
  <2>6. CASE ClockMoves \/ Restart \/ UNCHANGED vars
    BY <2>0, <2>6, OtherKeeps DEF ClockMoves, PassTime, SetBack, Restart, vars, ackVars
  <2> QED BY <2>1, <2>2, <2>3, <2>4, <2>5, <2>6 DEF Next, ClockMoves
<1> QED BY <1>1, <1>2, KeptIsKept, RemindersTypeCorrect, PTL DEF Spec

-----------------------------------------------------------------------------
(***************************************************************************)
(* The folds of the community modules, as recurrences, and the recursive   *)
(* functions of the model: that they exist, and their steps.               *)
(***************************************************************************)

(* A set of naturals that has 0 and what follows its members is all of     *)
(* them.                                                                   *)
LEMMA Induction ==
  ASSUME NEW S \in SUBSET Nat, 0 \in S, \A n \in S : n + 1 \in S
  PROVE  S = Nat
<1> DEFINE R == StrictSubsetOrdering(Nat)
           Lacks == Nat \ S
           Below == {0..n : n \in Lacks}
<1> SUFFICES ASSUME Lacks # {} PROVE FALSE
  OBVIOUS
<1>1. IsWellFoundedOn(R, FiniteSubsetsOf(Nat))
  BY FS_StrictSubsetOrderingWellFounded
<1>2. Below \subseteq FiniteSubsetsOf(Nat) /\ Below # {}
  <2>1. \A n \in Nat : IsFiniteSet(0..n) /\ 0..n \subseteq Nat
    BY FS_Interval
  <2> QED BY <2>1 DEF FiniteSubsetsOf
<1> HIDE DEF R
<1>3. PICK X \in Below : \A Y \in Below : ~(<<Y, X>> \in R)
  BY <1>1, <1>2, WFMin
<1>4. PICK n \in Lacks : X = 0..n
  BY <1>3
<1>5. n - 1 \in Lacks
  <2>1. n \in Nat /\ n # 0
    BY <1>4
  <2>2. n - 1 \in Nat /\ (n - 1) + 1 = n
    BY <2>1
  <2> QED BY <1>4, <2>2
<1>6. /\ 0..(n - 1) \subseteq 0..n /\ n \in 0..n
      /\ n \notin 0..(n - 1) /\ 0..(n - 1) \in SUBSET Nat
  BY <1>4
<1>7. <<0..(n - 1), 0..n>> \in R
  BY <1>4, <1>6 DEF R, StrictSubsetOrdering
<1> QED BY <1>3, <1>4, <1>5, <1>7

(* A set that has 1 and what follows its members up to m has all up to m.  *)
LEMMA UpTo ==
  ASSUME NEW m \in Nat, NEW G, 1 \in G, \A k \in 1..m - 1 : k \in G => k + 1 \in G
  PROVE  1..m \subseteq G
<1> DEFINE H == {k \in Nat : k + 1 <= m => k + 1 \in G}
<1>1. 0 \in H /\ H \in SUBSET Nat
  OBVIOUS
<1>2. ASSUME NEW k \in H PROVE k + 1 \in H
  <2>1. k \in Nat /\ (k + 1 <= m => k + 1 \in G)
    OBVIOUS
  <2>2. (k + 1) + 1 <= m => k + 1 <= m /\ k + 1 \in 1..m - 1
    BY <2>1
  <2>3. (k + 1) + 1 <= m => (k + 1) + 1 \in G
    BY <2>1, <2>2
  <2> QED BY <2>1, <2>3
<1> HIDE DEF H
<1>3. H = Nat
  BY <1>1, <1>2, Induction
<1>4. \A n \in 1..m : n - 1 \in Nat /\ (n - 1) + 1 = n
  OBVIOUS
<1>5. ASSUME NEW n \in 1..m PROVE n \in G
  <2>1. n - 1 \in H /\ (n - 1) + 1 <= m
    BY <1>3, <1>4
  <2> QED BY <1>4, <2>1 DEF H
<1> QED BY <1>5

(* What FlattenSeq goes through on its way, up to the m-th sequence.       *)
Flattens(f, ss, m) ==
  f = [n \in 1..m |-> IF n = 1 THEN ss[n] ELSE f[n - 1] \o ss[n]]

(* There is such a function: it is built a sequence at a time.             *)
LEMMA FlattensExist ==
  ASSUME NEW ss, NEW m \in Nat
  PROVE  \E f : Flattens(f, ss, m)
<1> DEFINE Good == {n \in Nat : \E f : Flattens(f, ss, n)}
<1>1. 0 \in Good
  <2>1. Flattens([n \in 1..0 |-> <<>>], ss, 0)
    BY DEF Flattens
  <2> QED BY <2>1
<1>2. ASSUME NEW k \in Good PROVE k + 1 \in Good
  <2>1. PICK f : Flattens(f, ss, k)
    OBVIOUS
  <2> DEFINE next == IF k = 0 THEN ss[1] ELSE f[k] \o ss[k + 1]
             g == [n \in 1..(k + 1) |-> IF n = k + 1 THEN next ELSE f[n]]
  <2>2. (\A n \in 1..k : g[n] = f[n]) /\ g[k + 1] = next
    <3> HIDE DEF next
    <3> QED OBVIOUS
  <2>3. \A n \in 1..k : n # 1 => n - 1 \in 1..k
    OBVIOUS
  <2>4. \A n \in 1..k : f[n] = IF n = 1 THEN ss[n] ELSE f[n - 1] \o ss[n]
    BY <2>1 DEF Flattens
  <2>5. \A n \in 1..k + 1 : g[n] = IF n = 1 THEN ss[n] ELSE g[n - 1] \o ss[n]
    <3> TAKE n \in 1..k + 1
    <3>1. CASE n = k + 1
      <4>1. n - 1 = k /\ (n = 1 <=> k = 0) /\ (k # 0 => k \in 1..k)
        BY <3>1
      <4> HIDE DEF g
      <4> QED BY <2>2, <3>1, <4>1
    <3>2. CASE n # k + 1
      <4>1. n \in 1..k
        BY <3>2
      <4> HIDE DEF g
      <4> QED BY <2>2, <2>3, <2>4, <4>1
    <3> QED BY <3>1, <3>2
  <2>6. g = [n \in 1..k + 1 |-> g[n]]
    OBVIOUS
  <2> HIDE DEF g
  <2>7. Flattens(g, ss, k + 1)
    BY <2>5, <2>6 DEF Flattens
  <2> QED BY <2>7
<1> HIDE DEF Good
<1>3. Good = Nat
  <2>1. Good \in SUBSET Nat
    BY DEF Good
  <2> QED BY <1>1, <1>2, <2>1, Induction
<1> QED BY <1>3 DEF Good

(* So it joins them one after the other.                                   *)
LEMMA FlattenSteps ==
  ASSUME NEW S, NEW ss \in Seq(Seq(S)), Len(ss) # 0
  PROVE  \E f : /\ f[1] = ss[1]
                /\ \A n \in 1..Len(ss) - 1 : f[n + 1] = f[n] \o ss[n + 1]
                /\ \A n \in 1..Len(ss) : f[n] \in Seq(S)
                /\ FlattenSeq(ss) = f[Len(ss)]
<1> DEFINE f == CHOOSE f : f = [n \in 1..Len(ss) |->
                                  IF n = 1 THEN ss[n] ELSE f[n - 1] \o ss[n]]
<1>1. Flattens(f, ss, Len(ss))
  <2>1. \E g : g = [n \in 1..Len(ss) |-> IF n = 1 THEN ss[n] ELSE g[n - 1] \o ss[n]]
    <3>1. Len(ss) \in Nat
      OBVIOUS
    <3>2. PICK g : Flattens(g, ss, Len(ss))
      BY <3>1, FlattensExist
    <3> QED BY <3>2, Zenon DEF Flattens
  <2>2. f = [n \in 1..Len(ss) |-> IF n = 1 THEN ss[n] ELSE f[n - 1] \o ss[n]]
    BY <2>1, Zenon
  <2> HIDE DEF f
  <2> QED BY <2>2, Zenon DEF Flattens
<1>2. FlattenSeq(ss) = f[Len(ss)]
  BY Zenon DEF FlattenSeq
<1> HIDE DEF f
<1>3. \A n \in 1..Len(ss) : f[n] = IF n = 1 THEN ss[n] ELSE f[n - 1] \o ss[n]
  BY <1>1 DEF Flattens
<1>4. f[1] = ss[1]
  BY <1>3
<1>5. ASSUME NEW n \in 1..Len(ss) - 1 PROVE f[n + 1] = f[n] \o ss[n + 1]
  <2>1. n + 1 \in 1..Len(ss) /\ n + 1 # 1 /\ (n + 1) - 1 = n
    OBVIOUS
  <2> QED BY <1>3, <2>1
<1>6. \A n \in 1..Len(ss) : f[n] \in Seq(S)
  <2> DEFINE Good == {n \in 1..Len(ss) : f[n] \in Seq(S)}
  <2>1. Len(ss) \in Nat /\ 1 \in 1..Len(ss) /\ \A n \in 1..Len(ss) : ss[n] \in Seq(S)
    OBVIOUS
  <2>2. 1 \in Good
    BY <1>4, <2>1
  <2>3. ASSUME NEW k \in 1..Len(ss) - 1, k \in Good PROVE k + 1 \in Good
    <3>1. k + 1 \in 1..Len(ss) /\ f[k] \in Seq(S) /\ ss[k + 1] \in Seq(S)
      BY <2>1, <2>3
    <3>2. f[k] \o ss[k + 1] \in Seq(S)
      BY <3>1
    <3> QED BY <1>5, <3>1, <3>2
  <2> HIDE DEF Good
  <2>4. 1..Len(ss) \subseteq Good
    BY <2>1, <2>2, <2>3, UpTo
  <2> QED BY <2>4 DEF Good
<1> QED BY <1>2, <1>4, <1>5, <1>6

(* Two sequences in a row, place by place.                                 *)
LEMMA ConcatIs ==
  ASSUME NEW S, NEW s \in Seq(S), NEW t \in Seq(S)
  PROVE  /\ s \o t \in Seq(S) /\ Len(s \o t) = Len(s) + Len(t)
         /\ \A i \in 1..Len(s) + Len(t) :
              (s \o t)[i] = IF i <= Len(s) THEN s[i] ELSE t[i - Len(s)]
OBVIOUS

(* What a function defined by a recursion that gets smaller says at s. *)
StepOf(g, s, last, base, next, glue) ==
  IF s \in last THEN base[s] ELSE glue[<<s, g[next[s]]>>]
(* g is that function on what is smaller than n. *)
Level(g, n, S, R, size, last, base, next, glue) ==
  /\ g \in [S -> R]
  /\ \A s \in S : size[s] < n => g[s] = StepOf(g, s, last, base, next, glue)

(* There is a function for each size: one more step of the one before. *)
LEMMA LevelExists ==
  ASSUME NEW S, NEW R, NEW size \in [S -> Nat], NEW last \in SUBSET S,
         NEW base \in [S -> R], NEW next \in [S -> S], NEW glue \in [S \X R -> R],
         \A s \in S \ last : size[next[s]] < size[s], NEW n \in Nat
  PROVE  \E g : Level(g, n, S, R, size, last, base, next, glue)
<1> DEFINE Good == {k \in Nat : \E g : Level(g, k, S, R, size, last, base, next, glue)}
<1>1. 0 \in Good
  <2>1. \A s \in S : size[s] \in Nat /\ ~(size[s] < 0)
    OBVIOUS
  <2>2. Level(base, 0, S, R, size, last, base, next, glue)
    BY <2>1 DEF Level
  <2> QED BY <2>2
<1>2. ASSUME NEW k \in Good PROVE k + 1 \in Good
  <2>1. PICK g : Level(g, k, S, R, size, last, base, next, glue)
    OBVIOUS
  <2>2. g \in [S -> R] /\ \A s \in S : size[s] < k => g[s] = StepOf(g, s, last, base, next, glue)
    BY <2>1 DEF Level
  <2> DEFINE h == [s \in S |-> StepOf(g, s, last, base, next, glue)]
  <2>3. h \in [S -> R]
    BY <2>2 DEF StepOf
  <2>4. \A s \in S : h[s] = StepOf(g, s, last, base, next, glue)
    OBVIOUS
  <2> HIDE DEF h
  <2>5. ASSUME NEW s \in S, size[s] < k + 1
        PROVE  h[s] = StepOf(h, s, last, base, next, glue)
    <3>1. CASE s \in last
      BY <2>4, <3>1 DEF StepOf
    <3>2. CASE s \notin last
      <4>1. next[s] \in S /\ size[next[s]] < size[s] /\ size[next[s]] \in Nat /\ size[s] \in Nat
        BY <3>2
      <4>2. k \in Nat
        OBVIOUS
      <4>3. size[next[s]] < k
        BY <4>1, <4>2, <2>5
      <4>4. h[next[s]] = g[next[s]]
        BY <4>1, <4>3, <2>2, <2>4
      <4> QED BY <2>4, <3>2, <4>4 DEF StepOf
    <3> QED BY <3>1, <3>2
  <2>6. Level(h, k + 1, S, R, size, last, base, next, glue)
    BY <2>3, <2>5 DEF Level
  <2> QED BY <2>6
<1> HIDE DEF Good
<1>3. Good = Nat
  <2>1. Good \in SUBSET Nat
    BY DEF Good
  <2> QED BY <1>1, <1>2, <2>1, Induction
<1> QED BY <1>3 DEF Good

(* And any two of them agree as far as both go. *)
LEMMA LevelsAgree ==
  ASSUME NEW S, NEW R, NEW size \in [S -> Nat], NEW last \in SUBSET S,
         NEW base, NEW next \in [S -> S], NEW glue,
         \A s \in S \ last : size[next[s]] < size[s], NEW n \in Nat, NEW g, NEW h,
         Level(g, n, S, R, size, last, base, next, glue),
         Level(h, n, S, R, size, last, base, next, glue)
  PROVE  \A s \in S : size[s] < n => g[s] = h[s]
<1> DEFINE Good == {k \in Nat : k <= n => \A s \in S : size[s] < k => g[s] = h[s]}
<1>1. \A s \in S : size[s] \in Nat
  OBVIOUS
<1>2. 0 \in Good
  BY <1>1
<1>3. ASSUME NEW k \in Good PROVE k + 1 \in Good
  <2>1. k \in Nat /\ (k <= n => \A s \in S : size[s] < k => g[s] = h[s])
    OBVIOUS
  <2>2. ASSUME k + 1 <= n, NEW s \in S, size[s] < k + 1 PROVE g[s] = h[s]
    <3>1. size[s] < n /\ k <= n
      BY <1>1, <2>1, <2>2
    <3>2. /\ g[s] = StepOf(g, s, last, base, next, glue)
          /\ h[s] = StepOf(h, s, last, base, next, glue)
      BY <3>1 DEF Level
    <3>3. CASE s \in last
      BY <3>2, <3>3 DEF StepOf
    <3>4. CASE s \notin last
      <4>1. next[s] \in S /\ size[next[s]] < size[s] /\ size[next[s]] \in Nat /\ size[s] \in Nat
        BY <3>4
      <4>2. size[next[s]] < k
        BY <4>1, <2>1, <2>2
      <4>3. g[next[s]] = h[next[s]]
        BY <4>1, <4>2, <2>1, <3>1
      <4> QED BY <3>2, <3>4, <4>3 DEF StepOf
    <3> QED BY <3>3, <3>4
  <2> QED BY <2>1, <2>2
<1> HIDE DEF Good
<1>4. Good = Nat
  <2>1. Good \in SUBSET Nat
    BY DEF Good
  <2> QED BY <1>2, <1>3, <2>1, Induction
<1>5. n <= n
  OBVIOUS
<1> QED BY <1>4, <1>5 DEF Good

(* A recursion that gets smaller with each step.                           *)
Shrinks(S, R, size, last, base, next, glue) ==
  /\ size \in [S -> Nat] /\ last \in SUBSET S
  /\ base \in [S -> R] /\ next \in [S -> S] /\ glue \in [S \X R -> R]
  /\ \A s \in S \ last : size[next[s]] < size[s]

(* It defines a function. *)
LEMMA RecursionExists ==
  ASSUME NEW S, NEW R, NEW size, NEW last, NEW base, NEW next, NEW glue,
         Shrinks(S, R, size, last, base, next, glue)
  PROVE  \E f \in [S -> R] : \A s \in S : f[s] = StepOf(f, s, last, base, next, glue)
<1>0. /\ size \in [S -> Nat] /\ last \in SUBSET S
      /\ base \in [S -> R] /\ next \in [S -> S] /\ glue \in [S \X R -> R]
      /\ \A s \in S \ last : size[next[s]] < size[s]
  BY DEF Shrinks
<1> DEFINE At(n) == CHOOSE g : Level(g, n, S, R, size, last, base, next, glue)
           f == [s \in S |-> At(size[s] + 1)[s]]
<1>1. ASSUME NEW n \in Nat PROVE Level(At(n), n, S, R, size, last, base, next, glue)
  <2>1. \E g : Level(g, n, S, R, size, last, base, next, glue)
    BY <1>0, LevelExists
  <2> QED BY <2>1, Zenon
<1>2. \A s \in S : f[s] = At(size[s] + 1)[s]
  OBVIOUS
<1> HIDE DEF At
<1>3. \A s \in S : size[s] \in Nat /\ size[s] + 1 \in Nat /\ size[s] < size[s] + 1
  BY <1>0
<1>4. f \in [S -> R]
  <2>1. ASSUME NEW s \in S PROVE At(size[s] + 1) \in [S -> R]
    BY <1>1, <1>3 DEF Level
  <2> QED BY <2>1
<1> HIDE DEF f
<1>5. ASSUME NEW s \in S PROVE f[s] = StepOf(f, s, last, base, next, glue)
  <2>1. At(size[s] + 1)[s] = StepOf(At(size[s] + 1), s, last, base, next, glue)
    BY <1>1, <1>3 DEF Level
  <2>2. CASE s \in last
    BY <1>2, <2>1, <2>2 DEF StepOf
  <2>3. CASE s \notin last
    <3> DEFINE m == size[next[s]] + 1
               n == size[s] + 1
    <3>1. next[s] \in S /\ size[next[s]] < size[s]
      BY <1>0, <2>3
    <3>2. m \in Nat /\ n \in Nat /\ size[next[s]] < m /\ size[next[s]] \in Nat /\ size[s] \in Nat
      BY <1>3, <3>1
    <3>3. Level(At(m), m, S, R, size, last, base, next, glue)
      <4> HIDE DEF m
      <4> QED BY <1>1, <3>2
    <3>4. Level(At(n), m, S, R, size, last, base, next, glue)
      <4>1. Level(At(n), n, S, R, size, last, base, next, glue)
        <5> HIDE DEF n
        <5> QED BY <1>1, <3>2
      <4>2. m <= n
        BY <3>1, <3>2
      <4>3. \A r \in S : size[r] < m => size[r] < n
        <5>1. \A r \in S : size[r] \in Nat
          BY <1>0
        <5> HIDE DEF m, n
        <5> QED BY <3>2, <4>2, <5>1
      <4> HIDE DEF m, n
      <4> QED BY <4>1, <4>3 DEF Level
    <3>5. At(n)[next[s]] = At(m)[next[s]]
      <4> HIDE DEF m, n
      <4>1. \A r \in S : size[r] < m => At(m)[r] = At(n)[r]
        BY <1>0, <3>2, <3>3, <3>4, LevelsAgree
      <4> QED BY <3>1, <3>2, <4>1
    <3>6. f[next[s]] = At(m)[next[s]]
      BY <1>2, <3>1
    <3>7. f[s] = At(n)[s] /\ At(n)[s] = StepOf(At(n), s, last, base, next, glue)
      BY <1>2, <2>1
    <3> HIDE DEF m, n
    <3> QED BY <2>3, <3>5, <3>6, <3>7 DEF StepOf
  <2> QED BY <2>2, <2>3
<1> QED BY <1>4, <1>5

(* What holds of a sequence when it holds of all shorter ones holds of all.*)
LEMMA ByLength ==
  ASSUME NEW S, NEW G \in SUBSET Seq(S),
         \A s \in Seq(S) : (\A r \in Seq(S) : Len(r) < Len(s) => r \in G) => s \in G
  PROVE  G = Seq(S)
<1> DEFINE Good == {n \in Nat : \A s \in Seq(S) : Len(s) < n => s \in G}
<1>1. \A s \in Seq(S) : Len(s) \in Nat
  OBVIOUS
<1>2. 0 \in Good
  BY <1>1
<1>3. ASSUME NEW n \in Good PROVE n + 1 \in Good
  <2>1. n \in Nat /\ \A s \in Seq(S) : Len(s) < n => s \in G
    OBVIOUS
  <2>2. ASSUME NEW s \in Seq(S), Len(s) < n + 1 PROVE s \in G
    <3>1. ASSUME NEW r \in Seq(S), Len(r) < Len(s) PROVE r \in G
      <4>1. Len(r) < n
        BY <1>1, <2>1, <2>2, <3>1
      <4> QED BY <2>1, <4>1
    <3> QED BY <3>1
  <2> QED BY <2>1, <2>2
<1> HIDE DEF Good
<1>4. Good = Nat
  <2>1. Good \in SUBSET Nat
    BY DEF Good
  <2> QED BY <1>2, <1>3, <2>1, Induction
<1>5. ASSUME NEW s \in Seq(S) PROVE s \in G
  <2>1. Len(s) + 1 \in Nat /\ Len(s) < Len(s) + 1
    BY <1>1
  <2> QED BY <1>4, <2>1 DEF Good
<1> QED BY <1>5

(* The least and the greatest of some places.                              *)
LEMMA MinIs ==
  ASSUME NEW n \in Nat, NEW S \in SUBSET (1..n), S # {}
  PROVE  /\ Min(S) \in S
         /\ \A x \in S : Min(S) <= x
<1> SUFFICES \E m \in S : \A x \in S : m <= x
  BY Zenon DEF Min
<1> DEFINE H == {k \in Nat : (\E x \in S : x <= k) => \E m \in S : \A x \in S : m <= x}
<1>1. 0 \in H
  OBVIOUS
<1>2. ASSUME NEW k \in H PROVE k + 1 \in H
  <2>1. k \in Nat /\ ((\E x \in S : x <= k) => \E m \in S : \A x \in S : m <= x)
    OBVIOUS
  <2>2. CASE \E x \in S : x <= k
    BY <2>1, <2>2
  <2>3. CASE ~ \E x \in S : x <= k
    <3>1. \A x \in S : k + 1 <= x
      BY <2>1, <2>3
    <3>2. ASSUME NEW y \in S, y <= k + 1 PROVE \A x \in S : y <= x
      BY <2>1, <3>1, <3>2
    <3> QED BY <2>1, <3>2
  <2> QED BY <2>2, <2>3
<1> HIDE DEF H
<1>3. H = Nat
  <2>1. H \in SUBSET Nat
    BY DEF H
  <2> QED BY <1>1, <1>2, <2>1, Induction
<1>4. n \in H
  BY <1>3
<1>5. \E x \in S : x <= n
  <2>1. PICK y \in S : TRUE
    OBVIOUS
  <2> QED BY <2>1
<1> QED BY <1>4, <1>5 DEF H

(* The greatest of some positions.                                         *)
LEMMA MaxIs ==
  ASSUME NEW n \in Nat, NEW S \in SUBSET (1..n), S # {}
  PROVE  /\ Max(S) \in S
         /\ \A x \in S : Max(S) >= x
<1> SUFFICES \E m \in S : \A x \in S : m >= x
  BY Zenon DEF Max
<1> DEFINE T == {x \in 1..n : (n + 1) - x \in S}
<1>1. PICK y \in S : TRUE
  OBVIOUS
<1>2. (n + 1) - y \in 1..n /\ (n + 1) - ((n + 1) - y) = y
  OBVIOUS
<1>3. T # {} /\ T \in SUBSET (1..n)
  BY <1>2
<1> HIDE DEF T
<1>4. Min(T) \in T /\ \A x \in T : Min(T) <= x
  BY <1>3, MinIs
<1>5. PICK m \in T : \A x \in T : m <= x
  BY <1>4
<1>6. (n + 1) - m \in S /\ m \in 1..n
  BY DEF T
<1>7. ASSUME NEW x \in S PROVE (n + 1) - m >= x
  <2>1. (n + 1) - x \in 1..n /\ (n + 1) - ((n + 1) - x) = x
    OBVIOUS
  <2>2. (n + 1) - x \in T
    BY <2>1 DEF T
  <2>3. m <= (n + 1) - x
    BY <1>5, <2>2
  <2> QED BY <1>6, <2>1, <2>3
<1> QED BY <1>6, <1>7

-----------------------------------------------------------------------------
(***************************************************************************)
(* The splitter: a text is drained alike, however it arrives.              *)
(***************************************************************************)

(* Sequences can be joined in any order.                                   *)
Joins(S) == \A p, q, t \in Seq(S) : (p \o q) \o t = p \o (q \o t)
(* All sequences can.                                                      *)
LEMMA AllJoin == \A S : Joins(S)
<1> SUFFICES ASSUME NEW S PROVE Joins(S)
  OBVIOUS
<1> QED BY ConcatAssociative DEF Joins

(* Three texts in a row.                                                   *)
LEMMA InText ==
  \A p, q, t \in Seq(Character) : (p \o q) \o t = p \o (q \o t)
<1>1. Joins(Character)
  BY AllJoin
<1> QED BY <1>1 DEF Joins

(* The same of lists of sentences.                                         *)
LEMMA Associative ==
  \A p, q, t \in Seq(Seq(Character)) : (p \o q) \o t = p \o (q \o t)
<1>1. Joins(Seq(Character))
  BY AllJoin
<1> QED BY <1>1 DEF Joins

(* A sequence cut in two.                                                  *)
LEMMA Split ==
  ASSUME NEW S, NEW s \in Seq(S), NEW k \in 0..Len(s)
  PROVE  /\ SubSeq(s, 1, k) \in Seq(S) /\ Len(SubSeq(s, 1, k)) = k
         /\ SubSeq(s, k + 1, Len(s)) \in Seq(S) /\ Len(SubSeq(s, k + 1, Len(s))) = Len(s) - k
         /\ s = SubSeq(s, 1, k) \o SubSeq(s, k + 1, Len(s))
         /\ \A i \in 1..k : SubSeq(s, 1, k)[i] = s[i]
         /\ \A i \in 1..Len(s) - k : SubSeq(s, k + 1, Len(s))[i] = s[k + i]
<1>1. Len(s) \in Nat /\ k \in Nat /\ k <= Len(s)
  OBVIOUS
<1>2. \A i \in 1..Len(s) : s[i] \in S
  OBVIOUS
<1> DEFINE a == SubSeq(s, 1, k)
           b == SubSeq(s, k + 1, Len(s))
<1>3. a \in Seq(S) /\ Len(a) = k /\ \A i \in 1..k : a[i] = s[i]
  <2>1. \A i \in 1..k : s[i] \in S
    BY <1>1, <1>2
  <2> QED BY <1>1, <2>1, SubSeqProperties
<1>4. b \in Seq(S) /\ Len(b) = Len(s) - k /\ \A i \in 1..Len(s) - k : b[i] = s[k + i]
  <2>1. /\ b \in Seq(S) /\ Len(b) = IF k + 1 <= Len(s) THEN Len(s) - (k + 1) + 1 ELSE 0
        /\ \A i \in 1..Len(s) - (k + 1) + 1 : b[i] = s[(k + 1) + i - 1]
    <3>1. \A i \in (k + 1)..Len(s) : s[i] \in S
      BY <1>1, <1>2
    <3> QED BY <1>1, <3>1, SubSeqProperties
  <2>2. \A i \in 1..Len(s) - k : (k + 1) + i - 1 = k + i /\ i \in 1..Len(s) - (k + 1) + 1
    BY <1>1
  <2> HIDE DEF b
  <2> QED BY <1>1, <2>1, <2>2
<1> HIDE DEF a, b
<1>5. s = a \o b
  <2>1. /\ a \o b \in Seq(S) /\ Len(a \o b) = Len(a) + Len(b)
        /\ \A i \in 1..Len(a) + Len(b) :
             (a \o b)[i] = IF i <= Len(a) THEN a[i] ELSE b[i - Len(a)]
    BY <1>3, <1>4, ConcatIs
  <2>2. Len(a \o b) = Len(s)
    BY <1>1, <1>3, <1>4, <2>1
  <2>3. ASSUME NEW i \in 1..Len(s) PROVE s[i] = (a \o b)[i]
    <3>1. i \in 1..Len(a) + Len(b) /\ (i <= k => i \in 1..k)
          /\ (~(i <= k) => i - k \in 1..Len(s) - k /\ k + (i - k) = i)
      BY <1>1, <1>3, <1>4
    <3> QED BY <1>3, <1>4, <2>1, <3>1
  <2> QED BY <2>1, <2>2, <2>3, SeqEqual
<1> QED BY <1>3, <1>4, <1>5 DEF a, b

(* And the parts of two sequences in a row.                                *)
LEMMA SplitConcat ==
  ASSUME NEW S, NEW a \in Seq(S), NEW b \in Seq(S)
  PROVE  /\ SubSeq(a \o b, 1, Len(a)) = a
         /\ SubSeq(a \o b, Len(a) + 1, Len(a \o b)) = b
<1> DEFINE s == a \o b
           k == Len(a)
<1>1. /\ s \in Seq(S) /\ Len(s) = Len(a) + Len(b)
      /\ \A i \in 1..Len(a) + Len(b) : s[i] = IF i <= Len(a) THEN a[i] ELSE b[i - Len(a)]
  BY ConcatIs
<1>2. Len(a) \in Nat /\ Len(b) \in Nat
  OBVIOUS
<1> HIDE DEF s
<1>3. k \in 0..Len(s) /\ Len(s) - k = Len(b)
  BY <1>1, <1>2
<1>4. /\ SubSeq(s, 1, k) \in Seq(S) /\ Len(SubSeq(s, 1, k)) = k
      /\ SubSeq(s, k + 1, Len(s)) \in Seq(S) /\ Len(SubSeq(s, k + 1, Len(s))) = Len(s) - k
      /\ \A i \in 1..k : SubSeq(s, 1, k)[i] = s[i]
      /\ \A i \in 1..Len(s) - k : SubSeq(s, k + 1, Len(s))[i] = s[k + i]
  <2> HIDE DEF k
  <2> QED BY <1>1, <1>3, Split
<1>5. \A i \in 1..Len(a) : SubSeq(s, 1, k)[i] = a[i]
  <2>1. \A i \in 1..Len(a) : i \in 1..Len(a) + Len(b) /\ i <= Len(a)
    BY <1>2
  <2> QED BY <1>1, <1>4, <2>1
<1>6. \A i \in 1..Len(b) : SubSeq(s, k + 1, Len(s))[i] = b[i]
  <2>1. \A i \in 1..Len(b) : /\ k + i \in 1..Len(a) + Len(b) /\ ~(k + i <= Len(a))
                             /\ (k + i) - Len(a) = i
    BY <1>2
  <2>2. \A i \in 1..Len(b) : s[k + i] = b[i]
    <3> HIDE DEF k
    <3> QED BY <1>1, <2>1
  <2> QED BY <1>3, <1>4, <2>2
<1>7. SubSeq(s, 1, k) = a
  BY <1>4, <1>5, SeqEqual
<1>8. SubSeq(s, k + 1, Len(s)) = b
  BY <1>3, <1>4, <1>6, SeqEqual
<1> QED BY <1>7, <1>8 DEF s

(* A text that is nothing but blanks.                                      *)
Blank(w) == \A i \in 1..Len(w) : w[i] \in White

(* A text is blank if both of its parts are.                               *)
LEMMA BlankConcat ==
  ASSUME NEW S, NEW v \in Seq(S), NEW w \in Seq(S)
  PROVE  Blank(v \o w) <=> Blank(v) /\ Blank(w)
<1>1. /\ v \o w \in Seq(S) /\ Len(v \o w) = Len(v) + Len(w)
      /\ \A i \in 1..Len(v) + Len(w) :
           (v \o w)[i] = IF i <= Len(v) THEN v[i] ELSE w[i - Len(v)]
  BY ConcatIs
<1>2. Len(v) \in Nat /\ Len(w) \in Nat
  OBVIOUS
<1>3. ASSUME Blank(v), Blank(w) PROVE Blank(v \o w)
  <2> SUFFICES ASSUME NEW i \in 1..Len(v) + Len(w) PROVE (v \o w)[i] \in White
    BY <1>1 DEF Blank
  <2>1. (i <= Len(v) => i \in 1..Len(v)) /\ (~(i <= Len(v)) => i - Len(v) \in 1..Len(w))
    BY <1>2
  <2> QED BY <1>1, <1>3, <2>1 DEF Blank
<1>4. ASSUME Blank(v \o w) PROVE Blank(v)
  <2> SUFFICES ASSUME NEW i \in 1..Len(v) PROVE v[i] \in White
    BY DEF Blank
  <2>1. i \in 1..Len(v) + Len(w) /\ i <= Len(v)
    BY <1>2
  <2> QED BY <1>1, <1>4, <2>1 DEF Blank
<1>5. ASSUME Blank(v \o w) PROVE Blank(w)
  <2> SUFFICES ASSUME NEW i \in 1..Len(w) PROVE w[i] \in White
    BY DEF Blank
  <2>1. /\ Len(v) + i \in 1..Len(v) + Len(w) /\ ~(Len(v) + i <= Len(v))
        /\ (Len(v) + i) - Len(v) = i
    BY <1>2
  <2>2. (v \o w)[Len(v) + i] = w[i]
    BY <1>1, <2>1
  <2>3. (v \o w)[Len(v) + i] \in White
    BY <1>1, <1>5, <2>1 DEF Blank
  <2> QED BY <2>2, <2>3
<1> QED BY <1>3, <1>4, <1>5

(* A text between two runs of blanks.                                      *)
LEMMA TrimOf ==
  ASSUME NEW S, NEW v \in Seq(S), NEW t \in Seq(S), NEW w \in Seq(S),
         Blank(v), Blank(w), t # <<>> => t[1] \notin White /\ t[Len(t)] \notin White
  PROVE  Trim(v \o t \o w) = t
<1> DEFINE s == v \o t \o w
<1>1. Len(v) \in Nat /\ Len(t) \in Nat /\ Len(w) \in Nat
  OBVIOUS
<1>2. /\ s \in Seq(S) /\ Len(s) = Len(v) + Len(t) + Len(w)
      /\ \A i \in 1..Len(v) : s[i] = v[i]
      /\ \A i \in 1..Len(t) : s[Len(v) + i] = t[i]
      /\ \A i \in 1..Len(w) : s[Len(v) + Len(t) + i] = w[i]
  <2> DEFINE r == v \o t
  <2>1. /\ r \in Seq(S) /\ Len(r) = Len(v) + Len(t)
        /\ \A i \in 1..Len(v) + Len(t) : r[i] = IF i <= Len(v) THEN v[i] ELSE t[i - Len(v)]
    BY ConcatIs
  <2> HIDE DEF r
  <2>2. /\ r \o w \in Seq(S) /\ Len(r \o w) = Len(r) + Len(w)
        /\ \A i \in 1..Len(r) + Len(w) : (r \o w)[i] = IF i <= Len(r) THEN r[i] ELSE w[i - Len(r)]
    BY <2>1, ConcatIs
  <2>3. \A i \in 1..Len(v) : /\ i \in 1..Len(r) + Len(w) /\ i <= Len(r)
                             /\ i \in 1..Len(v) + Len(t) /\ i <= Len(v)
    BY <1>1, <2>1
  <2>4. \A i \in 1..Len(t) : LET j == Len(v) + i IN
          /\ j \in 1..Len(r) + Len(w) /\ j <= Len(r)
          /\ j \in 1..Len(v) + Len(t) /\ ~(j <= Len(v)) /\ j - Len(v) = i
    BY <1>1, <2>1
  <2>5. \A i \in 1..Len(w) : LET j == Len(v) + Len(t) + i IN
          /\ j \in 1..Len(r) + Len(w) /\ ~(j <= Len(r)) /\ j - Len(r) = i
    BY <1>1, <2>1
  <2>6. \A i \in 1..Len(v) : (r \o w)[i] = v[i]
    BY <2>1, <2>2, <2>3
  <2>7. \A i \in 1..Len(t) : (r \o w)[Len(v) + i] = t[i]
    BY <2>1, <2>2, <2>4
  <2>8. \A i \in 1..Len(w) : (r \o w)[Len(v) + Len(t) + i] = w[i]
    BY <2>2, <2>5
  <2> QED BY <1>1, <2>1, <2>2, <2>6, <2>7, <2>8 DEF r
<1> HIDE DEF s
<1>3. Len(s) \in Nat /\ DOMAIN s = 1..Len(s) /\ Solid(s) \in SUBSET (1..Len(s))
  BY <1>2 DEF Solid
<1>4. ASSUME NEW i \in Solid(s) PROVE i \in Len(v) + 1..Len(v) + Len(t)
  <2>1. i \in 1..Len(s) /\ s[i] \notin White
    BY DEF Solid
  <2>2. i \notin 1..Len(v)
    BY <1>2, <2>1 DEF Blank
  <2>3. i - (Len(v) + Len(t)) \notin 1..Len(w)
    <3> SUFFICES ASSUME i - (Len(v) + Len(t)) \in 1..Len(w) PROVE FALSE
      OBVIOUS
    <3>1. Len(v) + Len(t) + (i - (Len(v) + Len(t))) = i
      BY <1>1, <2>1
    <3>2. s[Len(v) + Len(t) + (i - (Len(v) + Len(t)))] \in White
      BY <1>2 DEF Blank
    <3> QED BY <2>1, <3>1, <3>2
  <2> QED BY <1>1, <1>2, <2>1, <2>2, <2>3
<1>5. CASE t = <<>>
  <2>1. \A i \in Solid(s) : FALSE
    BY <1>1, <1>4, <1>5
  <2> QED BY <1>5, <2>1 DEF Trim, s
<1>6. CASE t # <<>>
  <2>1. 1 \in 1..Len(t) /\ Len(t) \in 1..Len(t)
    BY <1>1, <1>6
  <2>2. s[Len(v) + 1] = t[1] /\ s[Len(v) + Len(t)] = t[Len(t)]
    BY <1>2, <2>1
  <2>3. Len(v) + 1 \in 1..Len(s) /\ Len(v) + Len(t) \in 1..Len(s)
    BY <1>1, <1>2, <2>1
  <2>4. Len(v) + 1 \in Solid(s) /\ Len(v) + Len(t) \in Solid(s)
    BY <1>3, <1>6, <2>2, <2>3 DEF Solid
  <2>5. Min(Solid(s)) \in Solid(s) /\ \A x \in Solid(s) : Min(Solid(s)) <= x
    BY <1>3, <2>4, MinIs
  <2>6. Max(Solid(s)) \in Solid(s) /\ \A x \in Solid(s) : Max(Solid(s)) >= x
    BY <1>3, <2>4, MaxIs
  <2>7. Min(Solid(s)) = Len(v) + 1 /\ Max(Solid(s)) = Len(v) + Len(t)
    <3>1. Min(Solid(s)) \in Len(v) + 1..Len(v) + Len(t) /\ Max(Solid(s)) \in Len(v) + 1..Len(v) + Len(t)
      BY <1>4, <2>5, <2>6
    <3>2. Min(Solid(s)) <= Len(v) + 1 /\ Max(Solid(s)) >= Len(v) + Len(t)
      BY <2>4, <2>5, <2>6
    <3> QED BY <1>1, <3>1, <3>2
  <2> DEFINE m == Len(v) + 1
             n == Len(v) + Len(t)
             u == SubSeq(s, m, n)
  <2>8. /\ u \in Seq(S) /\ Len(u) = IF m <= n THEN n - m + 1 ELSE 0
        /\ \A i \in 1..n - m + 1 : u[i] = s[m + i - 1]
    <3>1. m \in Int /\ n \in Int /\ \A i \in m..n : i \in 1..Len(s)
      BY <1>1, <1>2
    <3>2. \A i \in m..n : s[i] \in S
      <4> HIDE DEF m, n
      <4> QED BY <1>2, <3>1
    <3> HIDE DEF m, n
    <3> QED BY <3>1, <3>2, SubSeqProperties
  <2>9. Len(u) = Len(t)
    <3> HIDE DEF u
    <3> QED BY <1>1, <2>1, <2>8
  <2>10. \A i \in 1..Len(t) : i \in 1..n - m + 1 /\ m + i - 1 = Len(v) + i
    BY <1>1
  <2>11. \A i \in 1..Len(u) : u[i] = t[i]
    <3> HIDE DEF u, m, n
    <3> QED BY <1>2, <2>8, <2>9, <2>10
  <2>12. u = t
    <3> HIDE DEF u
    <3> QED BY <2>8, <2>9, <2>11, SeqEqual
  <2> QED BY <2>4, <2>7, <2>12 DEF Trim, s
<1> QED BY <1>5, <1>6

(* A text behind a run of blanks.                                          *)
LEMMA StartOf ==
  ASSUME NEW S, NEW v \in Seq(S), NEW t \in Seq(S),
         Blank(v), t # <<>> => t[1] \notin White
  PROVE  TrimStart(v \o t) = t
<1> DEFINE s == v \o t
<1>1. Len(v) \in Nat /\ Len(t) \in Nat
  OBVIOUS
<1>2. /\ s \in Seq(S) /\ Len(s) = Len(v) + Len(t)
      /\ \A i \in 1..Len(v) + Len(t) : s[i] = IF i <= Len(v) THEN v[i] ELSE t[i - Len(v)]
  BY ConcatIs
<1>3. SubSeq(s, Len(v) + 1, Len(s)) = t
  BY SplitConcat
<1> HIDE DEF s
<1>4. Len(s) \in Nat /\ DOMAIN s = 1..Len(s) /\ Solid(s) \in SUBSET (1..Len(s))
  BY <1>2 DEF Solid
<1>5. ASSUME NEW i \in Solid(s) PROVE i \in Len(v) + 1..Len(s)
  <2>1. i \in 1..Len(s) /\ s[i] \notin White
    BY DEF Solid
  <2>2. i <= Len(v) => i \in 1..Len(v) /\ i \in 1..Len(v) + Len(t)
    BY <1>1, <2>1
  <2>3. i <= Len(v) => s[i] \in White
    BY <1>2, <2>2 DEF Blank
  <2> QED BY <1>1, <2>1, <2>3
<1>6. CASE t = <<>>
  <2>1. \A i \in Solid(s) : FALSE
    BY <1>1, <1>2, <1>5, <1>6
  <2> QED BY <1>6, <2>1 DEF TrimStart, s
<1>7. CASE t # <<>>
  <2>1. 1 \in 1..Len(t)
    BY <1>1, <1>7
  <2>2. /\ Len(v) + 1 \in 1..Len(v) + Len(t) /\ ~(Len(v) + 1 <= Len(v))
        /\ (Len(v) + 1) - Len(v) = 1
    BY <1>1, <2>1
  <2>3. s[Len(v) + 1] = t[1]
    BY <1>2, <2>2
  <2>4. Len(v) + 1 \in Solid(s)
    BY <1>2, <1>4, <1>7, <2>2, <2>3 DEF Solid
  <2>5. Min(Solid(s)) \in Solid(s) /\ \A x \in Solid(s) : Min(Solid(s)) <= x
    BY <1>4, <2>4, MinIs
  <2>6. Min(Solid(s)) = Len(v) + 1
    <3>1. Min(Solid(s)) \in Len(v) + 1..Len(s)
      BY <1>5, <2>5
    <3>2. Min(Solid(s)) <= Len(v) + 1
      BY <2>4, <2>5
    <3> QED BY <1>1, <3>1, <3>2
  <2> QED BY <1>3, <2>4, <2>6 DEF TrimStart, s
<1> QED BY <1>6, <1>7

(* Every text is one.                                                      *)
LEMMA StartExists ==
  ASSUME NEW S, NEW s \in Seq(S)
  PROVE  \E v, t \in Seq(S) : s = v \o t /\ Blank(v) /\ (t # <<>> => t[1] \notin White)
<1>1. /\ Len(s) \in Nat /\ DOMAIN s = 1..Len(s) /\ Solid(s) \in SUBSET (1..Len(s))
      /\ \A i \in 1..Len(s) : s[i] \notin White => i \in Solid(s)
  BY DEF Solid
<1>2. CASE Solid(s) = {}
  <2>1. s \o <<>> = s /\ <<>> \in Seq(S)
    OBVIOUS
  <2>2. Blank(s)
    BY <1>1, <1>2 DEF Blank
  <2> QED BY <2>1, <2>2
<1>3. CASE Solid(s) # {}
  <2>1. Min(Solid(s)) \in Solid(s) /\ \A x \in Solid(s) : Min(Solid(s)) <= x
    BY <1>1, <1>3, MinIs
  <2>2. PICK m \in Solid(s) : \A x \in Solid(s) : m <= x
    BY <2>1
  <2>3. m \in 1..Len(s) /\ s[m] \notin White
    BY <1>1 DEF Solid
  <2>4. PICK k \in 0..Len(s) : m = k + 1
    <3>1. m - 1 \in 0..Len(s) /\ m = (m - 1) + 1
      BY <1>1, <2>3
    <3> QED BY <3>1
  <2> DEFINE v == SubSeq(s, 1, k)
             t == SubSeq(s, k + 1, Len(s))
  <2>5. /\ v \in Seq(S) /\ Len(v) = k /\ t \in Seq(S) /\ Len(t) = Len(s) - k /\ s = v \o t
        /\ \A i \in 1..k : v[i] = s[i]
        /\ \A i \in 1..Len(s) - k : t[i] = s[k + i]
    BY Split, Zenon
  <2> HIDE DEF v, t
  <2>6. \A i \in 1..k : i \in 1..Len(s) /\ ~(m <= i)
    BY <1>1, <2>3, <2>4
  <2>7. \A i \in 1..k : s[i] \in White
    BY <1>1, <2>2, <2>6
  <2>8. Blank(v)
    BY <2>5, <2>7 DEF Blank
  <2>9. 1 \in 1..Len(s) - k /\ k + 1 = m
    BY <1>1, <2>3, <2>4
  <2>10. t[1] \notin White
    BY <2>3, <2>5, <2>9
  <2> QED BY <2>5, <2>8, <2>10
<1> QED BY <1>2, <1>3

(* Any text is blanks, what Trim keeps of it, and blanks.                  *)
LEMMA TrimExists ==
  ASSUME NEW S, NEW s \in Seq(S)
  PROVE  \E v, t, w \in Seq(S) : /\ s = v \o t \o w /\ Blank(v) /\ Blank(w)
                                 /\ t # <<>> => t[1] \notin White /\ t[Len(t)] \notin White
<1>1. PICK v \in Seq(S), r \in Seq(S) : s = v \o r /\ Blank(v) /\ (r # <<>> => r[1] \notin White)
  BY StartExists
<1>2. CASE r = <<>>
  <2>1. <<>> \in Seq(S) /\ (v \o r) \o <<>> = s /\ Blank(<<>>)
    BY <1>1 DEF Blank
  <2> QED BY <1>1, <1>2, <2>1
<1>3. CASE r # <<>>
  <2>1. Len(r) \in Nat /\ 1 \in 1..Len(r) /\ DOMAIN r = 1..Len(r)
    BY <1>3
  <2>2. /\ Solid(r) \in SUBSET (1..Len(r)) /\ 1 \in Solid(r)
        /\ \A i \in 1..Len(r) : r[i] \notin White => i \in Solid(r)
    BY <1>1, <1>3, <2>1 DEF Solid
  <2>3. Max(Solid(r)) \in Solid(r) /\ \A x \in Solid(r) : Max(Solid(r)) >= x
    BY <2>1, <2>2, MaxIs
  <2>4. PICK m \in Solid(r) : \A x \in Solid(r) : m >= x
    BY <2>3
  <2>5. m \in 1..Len(r) /\ r[m] \notin White
    BY <2>2 DEF Solid
  <2> DEFINE t == SubSeq(r, 1, m)
             w == SubSeq(r, m + 1, Len(r))
  <2>6. /\ t \in Seq(S) /\ Len(t) = m /\ w \in Seq(S) /\ Len(w) = Len(r) - m /\ r = t \o w
        /\ \A i \in 1..m : t[i] = r[i]
        /\ \A i \in 1..Len(r) - m : w[i] = r[m + i]
    <3>1. m \in 0..Len(r)
      BY <2>5
    <3> QED BY <3>1, Split, Zenon
  <2> HIDE DEF t, w
  <2>7. \A i \in 1..Len(r) - m : m + i \in 1..Len(r) /\ ~(m >= m + i)
    BY <2>1, <2>5
  <2>8. Blank(w)
    BY <2>2, <2>4, <2>6, <2>7 DEF Blank
  <2>9. 1 \in 1..m /\ m \in 1..m
    BY <2>5
  <2>10. t[1] \notin White /\ t[Len(t)] \notin White
    BY <1>1, <1>3, <2>5, <2>6, <2>9
  <2>11. s = v \o t \o w
    <3>1. (v \o t) \o w = v \o (t \o w)
      <4>1. Joins(S)
        BY AllJoin
      <4>2. v \in Seq(S) /\ t \in Seq(S) /\ w \in Seq(S)
        BY <1>1, <2>6
      <4> QED BY <4>1, <4>2, Zenon DEF Joins
    <3> QED BY <1>1, <2>6, <3>1
  <2> QED BY <1>1, <2>6, <2>8, <2>10, <2>11
<1> QED BY <1>2, <1>3

(* Blanks in front are trimmed away.                                       *)
LEMMA TrimBlanks ==
  ASSUME NEW S, NEW b \in Seq(S), Blank(b), NEW s \in Seq(S)
  PROVE  Trim(b \o s) = Trim(s) /\ TrimStart(b \o s) = TrimStart(s)
<1>1. Trim(b \o s) = Trim(s)
  <2>1. PICK v \in Seq(S), t \in Seq(S), w \in Seq(S) :
          /\ s = v \o t \o w /\ Blank(v) /\ Blank(w)
          /\ t # <<>> => t[1] \notin White /\ t[Len(t)] \notin White
    BY TrimExists
  <2>2. Trim(s) = t
    BY <2>1, TrimOf
  <2>3. b \o v \in Seq(S) /\ Blank(b \o v)
    BY <2>1, BlankConcat
  <2>4. b \o s = (b \o v) \o t \o w
    <3>1. v \o t \in Seq(S)
      OBVIOUS
    <3>2. \A r \in Seq(S) : (b \o r) \o w = b \o (r \o w)
      <4>1. Joins(S)
        BY AllJoin
      <4> QED BY <4>1, Zenon DEF Joins
    <3>3. (b \o v) \o t = b \o (v \o t)
      <4>1. Joins(S)
        BY AllJoin
      <4> QED BY <4>1, Zenon DEF Joins
    <3> QED BY <2>1, <3>1, <3>2, <3>3, Zenon
  <2>5. Trim((b \o v) \o t \o w) = t
    BY <2>1, <2>3, TrimOf
  <2> QED BY <2>2, <2>4, <2>5
<1>2. TrimStart(b \o s) = TrimStart(s)
  <2>1. PICK v \in Seq(S), t \in Seq(S) : s = v \o t /\ Blank(v) /\ (t # <<>> => t[1] \notin White)
    BY StartExists
  <2>2. TrimStart(s) = t
    BY <2>1, StartOf
  <2>3. b \o v \in Seq(S) /\ Blank(b \o v)
    BY <2>1, BlankConcat
  <2>4. b \o s = (b \o v) \o t
    <3>1. Joins(S)
      BY AllJoin
    <3> QED BY <2>1, <3>1, Zenon DEF Joins
  <2>5. TrimStart((b \o v) \o t) = t
    BY <2>1, <2>3, StartOf
  <2> QED BY <2>2, <2>4, <2>5
<1> QED BY <1>1, <1>2

(* What TrimStart leaves of a text, and of one that goes on.               *)
LEMMA StartFacts ==
  ASSUME NEW S, NEW s \in Seq(S)
  PROVE  /\ TrimStart(s) \in Seq(S) /\ Len(TrimStart(s)) <= Len(s)
         /\ \E v \in Seq(S) : s = v \o TrimStart(s) /\ Blank(v)
         /\ \A z \in Seq(S) : TrimStart(s \o z) = IF TrimStart(s) = <<>> THEN TrimStart(z)
                                                  ELSE TrimStart(s) \o z
<1>1. PICK v \in Seq(S), t \in Seq(S) : s = v \o t /\ Blank(v) /\ (t # <<>> => t[1] \notin White)
  BY StartExists
<1>2. TrimStart(s) = t
  BY <1>1, StartOf
<1>3. Len(t) <= Len(s)
  <2>1. Len(s) = Len(v) + Len(t) /\ Len(v) \in Nat /\ Len(t) \in Nat
    BY <1>1
  <2> QED BY <2>1
<1>4. ASSUME NEW z \in Seq(S)
      PROVE  TrimStart(s \o z) = IF t = <<>> THEN TrimStart(z) ELSE t \o z
  <2>1. CASE t = <<>>
    <3>1. s = v
      BY <1>1, <2>1
    <3> QED BY <1>1, <2>1, <3>1, TrimBlanks
  <2>2. CASE t # <<>>
    <3>1. s \o z = v \o (t \o z)
      <4>1. Joins(S)
        BY AllJoin
      <4> QED BY <1>1, <4>1, Zenon DEF Joins
    <3>2. t \o z \in Seq(S) /\ (t \o z)[1] = t[1]
      <4>1. Len(t) \in Nat /\ Len(z) \in Nat /\ 1 <= Len(t)
        BY <2>2
      <4>2. 1 \in 1..Len(t) + Len(z)
        BY <4>1
      <4> QED BY <4>1, <4>2, ConcatIs
    <3>3. TrimStart(v \o (t \o z)) = t \o z
      BY <1>1, <2>2, <3>2, StartOf
    <3> QED BY <2>2, <3>1, <3>3
  <2> QED BY <2>1, <2>2
<1> QED BY <1>1, <1>2, <1>3, <1>4

(* What Trim leaves of it.                                                 *)
LEMMA TrimFacts ==
  ASSUME NEW S, NEW s \in Seq(S)
  PROVE  /\ Trim(s) \in Seq(S)
         /\ \E v, w \in Seq(S) : s = v \o Trim(s) \o w /\ Blank(v) /\ Blank(w)
<1>1. PICK v \in Seq(S), t \in Seq(S), w \in Seq(S) :
        /\ s = v \o t \o w /\ Blank(v) /\ Blank(w)
        /\ t # <<>> => t[1] \notin White /\ t[Len(t)] \notin White
  BY TrimExists
<1>2. Trim(s) = t
  BY <1>1, TrimOf
<1> QED BY <1>1, <1>2

(* Whether a text is cut behind c, from the two characters before it and   *)
(* the one after it.                                                       *)
CutBehind(p2, p1, c, n) ==
  /\ IsTerminator(c) /\ n \in White
  /\ ~(c = "." /\ p1 = "." /\ p2 = ".")
  /\ ~(c = "." /\ p1 \in Capitals /\ p2 \notin Letters)

(* A boundary, position by position.                                       *)
LEMMA BoundaryIs ==
  ASSUME NEW S, NEW s \in Seq(S), NEW i \in 1..Len(s) - 1
  PROVE  i \in Boundaries(s) <=> CutBehind(CharAt(s, i - 2), CharAt(s, i - 1), s[i], s[i + 1])
<1>1. Len(s) \in Nat /\ i \in Nat /\ i \in DOMAIN s /\ i + 1 \in DOMAIN s
  OBVIOUS
<1>2. CharAt(s, i) = s[i] /\ CharAt(s, i + 1) = s[i + 1]
  BY <1>1 DEF CharAt
<1>3. CASE s[i + 1] \notin White
  BY <1>3 DEF Boundaries, CutBehind
<1>4. CASE s[i + 1] \in White
  <2>1. s[i + 1] = " "
    BY <1>4 DEF White
  <2>2. ~IsDecimal(s, i)
    BY <1>2, <2>1 DEF IsDecimal, Digits
  <2>3. IsEllipsis(s, i) <=> s[i] = "." /\ CharAt(s, i - 1) = "." /\ CharAt(s, i - 2) = "."
    <3>1. ASSUME s[i] = ".", CharAt(s, i - 1) = ".", CharAt(s, i - 2) = "."
          PROVE  IsEllipsis(s, i)
      <4>1. i - 2 \in (i - 2)..i
        BY <1>1
      <4>2. \A j \in (i - 2)..(i - 2) + 2 : j = i - 2 \/ j = i - 1 \/ j = i
        BY <1>1
      <4>3. \A j \in (i - 2)..(i - 2) + 2 : CharAt(s, j) = "."
        BY <1>2, <3>1, <4>2
      <4> QED BY <4>1, <4>3 DEF IsEllipsis
    <3>2. ASSUME IsEllipsis(s, i)
          PROVE  s[i] = "." /\ CharAt(s, i - 1) = "." /\ CharAt(s, i - 2) = "."
      <4>1. PICK k \in (i - 2)..i : \A j \in k..k + 2 : CharAt(s, j) = "."
        BY <3>2 DEF IsEllipsis
      <4>2. i + 1 \notin k..k + 2
        BY <1>2, <2>1, <4>1
      <4>3. i - 2 \in k..k + 2 /\ i - 1 \in k..k + 2 /\ i \in k..k + 2
        BY <1>1, <4>2
      <4> QED BY <1>2, <4>1, <4>3
    <3> QED BY <3>1, <3>2
  <2>4. IsInitial(s, i) <=> s[i] = "." /\ CharAt(s, i - 1) \in Capitals
                                       /\ CharAt(s, i - 2) \notin Letters
    BY DEF IsInitial
  <2> QED BY <1>4, <2>2, <2>3, <2>4 DEF Boundaries, CutBehind
<1> QED BY <1>3, <1>4

(* The characters of two texts in a row.                                   *)
LEMMA CharAtConcat ==
  ASSUME NEW S, NEW s \in Seq(S), NEW t \in Seq(S), NEW i \in Int
  PROVE  /\ i <= Len(s) => CharAt(s \o t, i) = CharAt(s, i)
         /\ i > 0 => CharAt(s \o t, Len(s) + i) = CharAt(t, i)
         /\ i <= 0 => CharAt(t, i) = ""
<1>1. /\ Len(s) \in Nat /\ Len(t) \in Nat /\ DOMAIN s = 1..Len(s) /\ DOMAIN t = 1..Len(t)
      /\ DOMAIN (s \o t) = 1..Len(s) + Len(t)
  <2>1. s \o t \in Seq(S) /\ Len(s \o t) = Len(s) + Len(t)
    OBVIOUS
  <2> QED BY <2>1
<1>2. \A j \in 1..Len(s) + Len(t) : (s \o t)[j] = IF j <= Len(s) THEN s[j] ELSE t[j - Len(s)]
  BY ConcatIs
<1>3. i <= Len(s) => CharAt(s \o t, i) = CharAt(s, i)
  <2> SUFFICES ASSUME i <= Len(s) PROVE CharAt(s \o t, i) = CharAt(s, i)
    OBVIOUS
  <2>1. CASE i \in 1..Len(s)
    <3>1. i \in 1..Len(s) + Len(t)
      BY <1>1, <2>1
    <3>2. (s \o t)[i] = s[i]
      BY <1>2, <3>1
    <3> QED BY <1>1, <2>1, <3>1, <3>2 DEF CharAt
  <2>2. CASE i \notin 1..Len(s)
    <3>1. i \notin 1..Len(s) + Len(t)
      BY <1>1, <2>2
    <3> QED BY <1>1, <2>2, <3>1 DEF CharAt
  <2> QED BY <2>1, <2>2
<1>4. i > 0 => CharAt(s \o t, Len(s) + i) = CharAt(t, i)
  <2> SUFFICES ASSUME i > 0 PROVE CharAt(s \o t, Len(s) + i) = CharAt(t, i)
    OBVIOUS
  <2>1. CASE i \in 1..Len(t)
    <3>1. Len(s) + i \in 1..Len(s) + Len(t) /\ ~(Len(s) + i <= Len(s)) /\ (Len(s) + i) - Len(s) = i
      BY <1>1, <2>1
    <3>2. (s \o t)[Len(s) + i] = t[i]
      BY <1>2, <3>1
    <3> QED BY <1>1, <2>1, <3>1, <3>2 DEF CharAt
  <2>2. CASE i \notin 1..Len(t)
    <3>1. Len(s) + i \notin 1..Len(s) + Len(t)
      BY <1>1, <2>2
    <3> QED BY <1>1, <2>2, <3>1 DEF CharAt
  <2> QED BY <2>1, <2>2
<1>5. i <= 0 => CharAt(t, i) = ""
  <2>1. i <= 0 => i \notin 1..Len(t)
    OBVIOUS
  <2> QED BY <1>1, <2>1 DEF CharAt
<1> QED BY <1>3, <1>4, <1>5

(* Where a text may be cut is not changed by what follows it.              *)
LEMMA BoundsGoOn ==
  ASSUME NEW S, NEW s \in Seq(S), NEW z \in Seq(S), NEW i \in 1..Len(s) - 1
  PROVE  i \in Boundaries(s \o z) <=> i \in Boundaries(s)
<1>1. Len(s) \in Nat /\ Len(z) \in Nat /\ s \o z \in Seq(S) /\ Len(s \o z) = Len(s) + Len(z)
  OBVIOUS
<1>2. /\ i \in 1..Len(s \o z) - 1 /\ i - 2 \in Int /\ i - 2 <= Len(s)
      /\ i - 1 \in Int /\ i - 1 <= Len(s)
  BY <1>1
<1>3. CharAt(s \o z, i - 2) = CharAt(s, i - 2) /\ CharAt(s \o z, i - 1) = CharAt(s, i - 1)
  BY <1>2, CharAtConcat
<1>4. (s \o z)[i] = s[i] /\ (s \o z)[i + 1] = s[i + 1]
  <2>1. /\ i \in 1..Len(s) + Len(z) /\ i <= Len(s)
        /\ i + 1 \in 1..Len(s) + Len(z) /\ i + 1 <= Len(s)
    BY <1>1
  <2> QED BY <2>1, ConcatIs
<1>5. i \in Boundaries(s \o z) <=>
        CutBehind(CharAt(s \o z, i - 2), CharAt(s \o z, i - 1), (s \o z)[i], (s \o z)[i + 1])
  BY <1>1, <1>2, BoundaryIs
<1>6. i \in Boundaries(s) <=> CutBehind(CharAt(s, i - 2), CharAt(s, i - 1), s[i], s[i + 1])
  BY BoundaryIs
<1> QED BY <1>3, <1>4, <1>5, <1>6

(* A blank before the start of a text is like no character at all.         *)
Alike(p, q) == p = q \/ (p \in {"", " "} /\ q = "")

(* Where the characters around a position agree, a cut may be made         *)
(* there in both texts or in none.                                         *)
LEMMA CutsAlike ==
  ASSUME NEW p2, NEW p1, NEW q2, NEW q1, NEW c, NEW n, Alike(p2, q2), Alike(p1, q1)
  PROVE  CutBehind(p2, p1, c, n) <=> CutBehind(q2, q1, c, n)
<1>1. p2 = "." <=> q2 = "."
  BY DEF Alike
<1>2. p1 = "." <=> q1 = "."
  BY DEF Alike
<1>3. p1 \in Capitals <=> q1 \in Capitals
  BY DEF Alike, Capitals
<1>4. p2 \in Letters <=> q2 \in Letters
  BY DEF Alike, Letters, Capitals
<1> QED BY <1>1, <1>2, <1>3, <1>4 DEF CutBehind

(* So blanks before a text do not change where it may be cut.              *)
LEMMA BoundsBehind ==
  ASSUME NEW S, NEW w \in Seq(S), Blank(w), NEW s \in Seq(S)
  PROVE  /\ \A i \in 1..Len(s) - 1 : Len(w) + i \in Boundaries(w \o s) <=> i \in Boundaries(s)
         /\ \A j \in Boundaries(w \o s) : \E i \in 1..Len(s) - 1 : j = Len(w) + i
<1>1. /\ Len(s) \in Nat /\ Len(w) \in Nat /\ w \o s \in Seq(S)
      /\ Len(w \o s) = Len(w) + Len(s)
  OBVIOUS
<1>2. \A j \in 1..Len(w) + Len(s) : (w \o s)[j] = IF j <= Len(w) THEN w[j] ELSE s[j - Len(w)]
  BY ConcatIs
<1>3. ASSUME NEW d \in Int PROVE Alike(CharAt(w \o s, Len(w) + d), CharAt(s, d))
  <2>1. CASE d > 0
    <3>1. CharAt(w \o s, Len(w) + d) = CharAt(s, d)
      BY <2>1, CharAtConcat
    <3> QED BY <3>1 DEF Alike
  <2>2. CASE ~(d > 0)
    <3>1. d <= 0 /\ Len(w) + d \in Int /\ Len(w) + d <= Len(w)
      BY <1>1, <2>2
    <3>2. CharAt(s, d) = ""
      BY <3>1, CharAtConcat
    <3>3. CharAt(w \o s, Len(w) + d) = CharAt(w, Len(w) + d)
      BY <3>1, CharAtConcat
    <3>4. CharAt(w, Len(w) + d) \in {"", " "}
      <4>1. DOMAIN w = 1..Len(w)
        OBVIOUS
      <4> QED BY <4>1 DEF CharAt, Blank, White
    <3> QED BY <3>2, <3>3, <3>4 DEF Alike
  <2> QED BY <2>1, <2>2
<1>4. ASSUME NEW i \in 1..Len(s) - 1
      PROVE  Len(w) + i \in Boundaries(w \o s) <=> i \in Boundaries(s)
  <2> DEFINE j == Len(w) + i
  <2>1. /\ j \in 1..Len(w \o s) - 1 /\ i - 2 \in Int /\ i - 1 \in Int
        /\ j - 2 = Len(w) + (i - 2) /\ j - 1 = Len(w) + (i - 1)
    BY <1>1
  <2>2. (w \o s)[j] = s[i] /\ (w \o s)[j + 1] = s[i + 1]
    <3>1. /\ j \in 1..Len(w) + Len(s) /\ ~(j <= Len(w)) /\ j - Len(w) = i
          /\ j + 1 \in 1..Len(w) + Len(s) /\ ~(j + 1 <= Len(w)) /\ (j + 1) - Len(w) = i + 1
      BY <1>1
    <3> QED BY <1>2, <3>1
  <2>3. j \in Boundaries(w \o s) <=>
          CutBehind(CharAt(w \o s, j - 2), CharAt(w \o s, j - 1), (w \o s)[j], (w \o s)[j + 1])
    <3> HIDE DEF j
    <3> QED BY <1>1, <2>1, BoundaryIs
  <2>4. i \in Boundaries(s) <=> CutBehind(CharAt(s, i - 2), CharAt(s, i - 1), s[i], s[i + 1])
    BY BoundaryIs
  <2>5. Alike(CharAt(w \o s, j - 2), CharAt(s, i - 2)) /\ Alike(CharAt(w \o s, j - 1), CharAt(s, i - 1))
    <3> HIDE DEF j
    <3> QED BY <1>3, <2>1
  <2> HIDE DEF j
  <2>8. CutBehind(CharAt(w \o s, j - 2), CharAt(w \o s, j - 1), s[i], s[i + 1])
          <=> CutBehind(CharAt(s, i - 2), CharAt(s, i - 1), s[i], s[i + 1])
    BY <2>5, CutsAlike
  <2>9. j \in Boundaries(w \o s) <=> i \in Boundaries(s)
    BY <2>2, <2>3, <2>4, <2>8
  <2> QED BY <2>9 DEF j
<1>5. ASSUME NEW j \in Boundaries(w \o s) PROVE \E i \in 1..Len(s) - 1 : j = Len(w) + i
  <2>1. j \in 1..Len(w) + Len(s) - 1 /\ IsTerminator((w \o s)[j])
    BY <1>1 DEF Boundaries
  <2>2. j > Len(w)
    <3> SUFFICES ASSUME j <= Len(w) PROVE FALSE
      BY <1>1, <2>1
    <3>1. j \in 1..Len(w) /\ j \in 1..Len(w) + Len(s)
      BY <1>1, <2>1
    <3>2. (w \o s)[j] = w[j]
      BY <1>2, <3>1
    <3>3. w[j] = " "
      BY <3>1 DEF Blank, White
    <3> QED BY <2>1, <3>2, <3>3 DEF IsTerminator
  <2>3. j - Len(w) \in 1..Len(s) - 1 /\ j = Len(w) + (j - Len(w))
    BY <1>1, <2>1, <2>2
  <2> QED BY <2>3
<1> QED BY <1>4, <1>5

(* The first place a text may be cut at, if there is one.                  *)
LEMMA EndFacts ==
  ASSUME NEW S, NEW s \in Seq(S)
  PROVE  /\ SentenceEnd(s) \in 0..Len(s) - 1 \/ (SentenceEnd(s) = 0)
         /\ SentenceEnd(s) = 0 => Boundaries(s) = {}
         /\ SentenceEnd(s) # 0 => /\ SentenceEnd(s) \in Boundaries(s)
                                  /\ \A x \in Boundaries(s) : SentenceEnd(s) <= x
         /\ Boundaries(s) \in SUBSET (1..Len(s) - 1)
<1>1. Len(s) \in Nat
  OBVIOUS
<1>2. Boundaries(s) \in SUBSET (1..Len(s) - 1)
  BY DEF Boundaries
<1>3. CASE Boundaries(s) = {}
  BY <1>2, <1>3 DEF SentenceEnd
<1>4. CASE Boundaries(s) # {}
  <2>1. Boundaries(s) \in SUBSET (1..Len(s))
    BY <1>1, <1>2
  <2>2. Min(Boundaries(s)) \in Boundaries(s) /\ \A x \in Boundaries(s) : Min(Boundaries(s)) <= x
    BY <1>1, <1>4, <2>1, MinIs
  <2>3. SentenceEnd(s) = Min(Boundaries(s))
    BY <1>4 DEF SentenceEnd
  <2>4. SentenceEnd(s) \in 1..Len(s) - 1
    BY <1>2, <2>2, <2>3
  <2>5. SentenceEnd(s) # 0 /\ SentenceEnd(s) \in 0..Len(s) - 1
    BY <1>1, <2>4
  <2> QED BY <1>2, <2>2, <2>3, <2>5
<1> QED BY <1>3, <1>4

(* The sentence ends at the first boundary.                                *)
LEMMA EndIs ==
  ASSUME NEW S, NEW s \in Seq(S), NEW n \in Boundaries(s), \A x \in Boundaries(s) : n <= x
  PROVE  SentenceEnd(s) = n
<1>1. /\ SentenceEnd(s) = 0 => Boundaries(s) = {}
      /\ SentenceEnd(s) # 0 => /\ SentenceEnd(s) \in Boundaries(s)
                               /\ \A x \in Boundaries(s) : SentenceEnd(s) <= x
      /\ Boundaries(s) \in SUBSET (1..Len(s) - 1)
  BY EndFacts
<1>2. SentenceEnd(s) # 0
  BY <1>1
<1>3. SentenceEnd(s) <= n /\ n <= SentenceEnd(s) /\ SentenceEnd(s) \in Int /\ n \in Int
  BY <1>1, <1>2
<1> QED BY <1>3

(* A sentence that has ended stays as it is when the text goes on.         *)
LEMMA EndGoesOn ==
  ASSUME NEW S, NEW s \in Seq(S), NEW z \in Seq(S), SentenceEnd(s) # 0
  PROVE  SentenceEnd(s \o z) = SentenceEnd(s)
<1> DEFINE n == SentenceEnd(s)
<1>1. /\ n \in Boundaries(s) /\ \A x \in Boundaries(s) : n <= x
      /\ Boundaries(s) \in SUBSET (1..Len(s) - 1)
  BY EndFacts
<1> HIDE DEF n
<1>2. /\ Len(s) \in Nat /\ Len(z) \in Nat /\ n \in 1..Len(s) - 1 /\ s \o z \in Seq(S)
      /\ Len(s \o z) = Len(s) + Len(z)
  BY <1>1
<1>3. n \in Boundaries(s \o z)
  BY <1>1, <1>2, BoundsGoOn
<1>4. ASSUME NEW x \in Boundaries(s \o z) PROVE n <= x
  <2>1. x \in 1..Len(s \o z) - 1
    BY <1>2, EndFacts
  <2>2. CASE x \in 1..Len(s) - 1
    <3>1. x \in Boundaries(s)
      BY <2>2, BoundsGoOn
    <3> QED BY <1>1, <3>1
  <2>3. CASE x \notin 1..Len(s) - 1
    BY <1>2, <2>1, <2>3
  <2> QED BY <2>2, <2>3
<1>5. SentenceEnd(s \o z) = n
  BY <1>2, <1>3, <1>4, EndIs
<1> QED BY <1>5 DEF n

(* And with blanks before it.                                              *)
LEMMA EndBehind ==
  ASSUME NEW S, NEW w \in Seq(S), Blank(w), NEW s \in Seq(S)
  PROVE  SentenceEnd(w \o s) = IF SentenceEnd(s) = 0 THEN 0 ELSE Len(w) + SentenceEnd(s)
<1>1. /\ Len(s) \in Nat /\ Len(w) \in Nat /\ w \o s \in Seq(S)
      /\ Boundaries(s) \in SUBSET (1..Len(s) - 1)
  BY EndFacts
<1>2. /\ \A i \in 1..Len(s) - 1 : Len(w) + i \in Boundaries(w \o s) <=> i \in Boundaries(s)
      /\ \A j \in Boundaries(w \o s) : \E i \in 1..Len(s) - 1 : j = Len(w) + i
  BY BoundsBehind
<1>3. CASE SentenceEnd(s) = 0
  <2>1. Boundaries(s) = {}
    BY <1>3, EndFacts
  <2>2. \A j \in Boundaries(w \o s) : FALSE
    BY <1>2, <2>1
  <2>3. SentenceEnd(w \o s) = 0
    BY <2>2 DEF SentenceEnd
  <2> QED BY <1>3, <2>3
<1>4. CASE SentenceEnd(s) # 0
  <2>1. PICK n \in Boundaries(s) : SentenceEnd(s) = n /\ \A x \in Boundaries(s) : n <= x
    BY <1>4, EndFacts
  <2>2. n \in 1..Len(s) - 1
    BY <1>1
  <2>3. Len(w) + n \in Boundaries(w \o s)
    BY <1>2, <2>2
  <2>4. ASSUME NEW x \in Boundaries(w \o s) PROVE Len(w) + n <= x
    <3>1. PICK i \in 1..Len(s) - 1 : x = Len(w) + i
      BY <1>2
    <3>2. i \in Boundaries(s)
      BY <1>2, <3>1
    <3>3. n <= i
      BY <2>1, <3>2
    <3> QED BY <1>1, <2>2, <3>1, <3>3
  <2>5. SentenceEnd(w \o s) = Len(w) + n
    BY <1>1, <2>3, <2>4, EndIs
  <2> QED BY <1>4, <2>1, <2>5
<1> QED BY <1>3, <1>4

-----------------------------------------------------------------------------
(* What stays of a text when its first sentence is taken away.             *)
Later(s) == TrimStart(SubSeq(s, SentenceEnd(s) + 1, Len(s)))
First(s) == Trim(SubSeq(s, 1, SentenceEnd(s)))
Drains == [out : Seq(Seq(Character)), rest : Seq(Character)]

(* What is left behind a sentence is shorter.                              *)
LEMMA LaterIs ==
  ASSUME NEW S, NEW s \in Seq(S)
  PROVE  /\ First(s) \in Seq(S) /\ Later(s) \in Seq(S)
         /\ SentenceEnd(s) # 0 => Len(Later(s)) < Len(s)
<1>1. Len(s) \in Nat
  OBVIOUS
<1>2. SentenceEnd(s) \in 0..Len(s)
  BY <1>1, EndFacts
<1> DEFINE n == SentenceEnd(s)
           a == SubSeq(s, 1, n)
           b == SubSeq(s, n + 1, Len(s))
<1>3. a \in Seq(S) /\ b \in Seq(S) /\ Len(b) = Len(s) - n
  <2> HIDE DEF n
  <2> QED BY <1>2, Split DEF n
<1>4. Trim(a) \in Seq(S)
  <2> HIDE DEF a
  <2> QED BY <1>3, TrimFacts
<1>5. TrimStart(b) \in Seq(S) /\ Len(TrimStart(b)) <= Len(b)
  <2> HIDE DEF b
  <2> QED BY <1>3, StartFacts
<1>6. n # 0 => Len(TrimStart(b)) < Len(s)
  <2>1. Len(TrimStart(b)) \in Nat
    <3> HIDE DEF b
    <3> QED BY <1>5
  <2> HIDE DEF b, n
  <2> QED BY <1>1, <1>2, <1>3, <1>5, <2>1 DEF n
<1> QED BY <1>4, <1>5, <1>6 DEF First, Later

(* drain_sentences is defined by its recursion.                            *)
LEMMA DrainedDef ==
  Drained = [s \in Seq(Character) |->
               IF SentenceEnd(s) = 0 THEN [out |-> <<>>, rest |-> s]
               ELSE [out |-> <<First(s)>> \o Drained[Later(s)].out,
                     rest |-> Drained[Later(s)].rest]]
<1> DEFINE S == Seq(Character)
           size == [s \in S |-> Len(s)]
           last == {s \in S : SentenceEnd(s) = 0}
           base == [s \in S |-> [out |-> <<>>, rest |-> s]]
           next == [s \in S |-> Later(s)]
           glue == [p \in S \X Drains |-> [out |-> <<First(p[1])>> \o p[2].out, rest |-> p[2].rest]]
<1>1. size \in [S -> Nat] /\ last \in SUBSET S /\ base \in [S -> Drains]
  BY DEF Drains
<1>2. next \in [S -> S]
  BY LaterIs
<1>3. glue \in [S \X Drains -> Drains]
  <2> SUFFICES ASSUME NEW p \in S \X Drains
               PROVE  [out |-> <<First(p[1])>> \o p[2].out, rest |-> p[2].rest] \in Drains
    OBVIOUS
  <2>1. p[1] \in S /\ p[2].out \in Seq(S) /\ p[2].rest \in S
    BY DEF Drains
  <2>2. First(p[1]) \in S
    BY <2>1, LaterIs
  <2>3. <<First(p[1])>> \o p[2].out \in Seq(S)
    BY <2>1, <2>2
  <2> QED BY <2>1, <2>3 DEF Drains
<1>4. \A s \in S \ last : size[next[s]] < size[s]
  <2>1. \A s \in S \ last : Later(s) \in S /\ Len(Later(s)) < Len(s)
    BY LaterIs
  <2> QED BY <2>1
<1>5. PICK f \in [S -> Drains] : \A s \in S : f[s] = StepOf(f, s, last, base, next, glue)
  <2>0. Shrinks(S, Drains, size, last, base, next, glue)
    <3> HIDE DEF S, size, last, base, next, glue
    <3> QED BY <1>1, <1>2, <1>3, <1>4 DEF Shrinks
  <2> HIDE DEF S, size, last, base, next, glue
  <2>1. \E f \in [S -> Drains] : \A s \in S : f[s] = StepOf(f, s, last, base, next, glue)
    BY <2>0, RecursionExists
  <2> QED BY <2>1
<1>6. ASSUME NEW s \in S
      PROVE  f[s] = IF SentenceEnd(s) = 0 THEN [out |-> <<>>, rest |-> s]
                    ELSE [out |-> <<First(s)>> \o f[Later(s)].out, rest |-> f[Later(s)].rest]
  <2>1. s \in last <=> SentenceEnd(s) = 0
    OBVIOUS
  <2>2. base[s] = [out |-> <<>>, rest |-> s] /\ next[s] = Later(s)
    OBVIOUS
  <2>3. Later(s) \in S /\ f[Later(s)] \in Drains
    BY LaterIs
  <2>4. <<s, f[Later(s)]>> \in S \X Drains
    BY <2>3
  <2>5. glue[<<s, f[Later(s)]>>] = [out |-> <<First(s)>> \o f[Later(s)].out, rest |-> f[Later(s)].rest]
    <3> HIDE DEF S
    <3> QED BY <2>4
  <2> HIDE DEF last, base, next, glue
  <2> QED BY <1>5, <2>1, <2>2, <2>5 DEF StepOf
<1>7. f = [s \in S |->
             IF SentenceEnd(s) = 0 THEN [out |-> <<>>, rest |-> s]
             ELSE [out |-> <<First(s)>> \o f[Later(s)].out, rest |-> f[Later(s)].rest]]
  <2> HIDE DEF S
  <2> QED BY <1>6
<1>8. \E g : g = [s \in S |->
                    IF SentenceEnd(s) = 0 THEN [out |-> <<>>, rest |-> s]
                    ELSE [out |-> <<First(s)>> \o g[Later(s)].out, rest |-> g[Later(s)].rest]]
  BY <1>7, Zenon
<1>9. Drained = CHOOSE g : g = [s \in S |->
                    IF SentenceEnd(s) = 0 THEN [out |-> <<>>, rest |-> s]
                    ELSE [out |-> <<First(s)>> \o g[Later(s)].out, rest |-> g[Later(s)].rest]]
  BY Zenon DEF Drained, First, Later
<1> QED BY <1>8, <1>9, Zenon

(* What drain_sentences makes of a text, one sentence at a time.           *)
LEMMA DrainedStep ==
  ASSUME NEW s \in Seq(Character)
  PROVE  /\ SentenceEnd(s) = 0 => Drained[s].out = <<>> /\ Drained[s].rest = s
         /\ SentenceEnd(s) # 0 => /\ Drained[s].out = <<First(s)>> \o Drained[Later(s)].out
                                  /\ Drained[s].rest = Drained[Later(s)].rest
<1>1. Drained[s] = IF SentenceEnd(s) = 0 THEN [out |-> <<>>, rest |-> s]
                   ELSE [out |-> <<First(s)>> \o Drained[Later(s)].out,
                         rest |-> Drained[Later(s)].rest]
  BY DrainedDef, Zenon
<1> QED BY <1>1

(* What is drained is sentences, and the rest holds no complete one.       *)
LEMMA DrainedIs ==
  ASSUME NEW s \in Seq(Character)
  PROVE  /\ Drained[s].out \in Seq(Seq(Character)) /\ Drained[s].rest \in Seq(Character)
         /\ SentenceEnd(Drained[s].rest) = 0
<1> DEFINE G == {r \in Seq(Character) :
                   /\ Drained[r].out \in Seq(Seq(Character)) /\ Drained[r].rest \in Seq(Character)
                   /\ SentenceEnd(Drained[r].rest) = 0}
<1>1. ASSUME NEW r \in Seq(Character),
             \A q \in Seq(Character) : Len(q) < Len(r) => q \in G
      PROVE  r \in G
  <2>1. CASE SentenceEnd(r) = 0
    <3>1. Drained[r].out = <<>> /\ Drained[r].rest = r
      BY <2>1, DrainedStep
    <3>2. <<>> \in Seq(Seq(Character))
      OBVIOUS
    <3> QED BY <2>1, <3>1, <3>2
  <2>2. CASE SentenceEnd(r) # 0
    <3>1. First(r) \in Seq(Character) /\ Later(r) \in Seq(Character) /\ Len(Later(r)) < Len(r)
      BY <2>2, LaterIs
    <3>2. Later(r) \in G
      BY <1>1, <3>1
    <3>3. /\ Drained[r].out = <<First(r)>> \o Drained[Later(r)].out
          /\ Drained[r].rest = Drained[Later(r)].rest
      BY <2>2, DrainedStep
    <3>4. /\ Drained[Later(r)].out \in Seq(Seq(Character))
          /\ Drained[Later(r)].rest \in Seq(Character)
          /\ SentenceEnd(Drained[Later(r)].rest) = 0
      BY <3>2
    <3>5. <<First(r)>> \o Drained[Later(r)].out \in Seq(Seq(Character))
      BY <3>1, <3>4
    <3> QED BY <3>3, <3>4, <3>5
  <2> QED BY <2>1, <2>2
<1> HIDE DEF G
<1>2. G = Seq(Character)
  <2>1. G \in SUBSET Seq(Character)
    BY DEF G
  <2> QED BY <1>1, <2>1, ByLength
<1> QED BY <1>2 DEF G

(* The sentences of a text, one at a time.                                 *)
LEMMA FlushedIs ==
  ASSUME NEW s \in Seq(Character)
  PROVE  Flushed(s) \in Seq(Seq(Character))
<1>1. Trim(s) \in Seq(Character)
  BY TrimFacts
<1> QED BY <1>1 DEF Flushed

(* The sentences of a text are its first and those of what is left.        *)
LEMMA SentencesStep ==
  ASSUME NEW s \in Seq(Character)
  PROVE  /\ SentencesOf(s) \in Seq(Seq(Character))
         /\ SentenceEnd(s) = 0 => SentencesOf(s) = Flushed(s)
         /\ SentenceEnd(s) # 0 => SentencesOf(s) = <<First(s)>> \o SentencesOf(Later(s))
<1>1. /\ Drained[s].out \in Seq(Seq(Character)) /\ Drained[s].rest \in Seq(Character)
      /\ Flushed(Drained[s].rest) \in Seq(Seq(Character))
  BY DrainedIs, FlushedIs
<1>2. SentencesOf(s) \in Seq(Seq(Character))
  BY <1>1 DEF SentencesOf
<1>3. ASSUME SentenceEnd(s) = 0 PROVE SentencesOf(s) = Flushed(s)
  <2>1. Drained[s].out = <<>> /\ Drained[s].rest = s
    BY <1>3, DrainedStep
  <2>2. <<>> \o Flushed(s) = Flushed(s)
    BY <1>1, <2>1
  <2> QED BY <2>1, <2>2 DEF SentencesOf
<1>4. ASSUME SentenceEnd(s) # 0 PROVE SentencesOf(s) = <<First(s)>> \o SentencesOf(Later(s))
  <2>1. /\ Drained[s].out = <<First(s)>> \o Drained[Later(s)].out
        /\ Drained[s].rest = Drained[Later(s)].rest
    BY <1>4, DrainedStep
  <2>2. First(s) \in Seq(Character) /\ Later(s) \in Seq(Character)
    BY LaterIs
  <2>3. <<First(s)>> \in Seq(Seq(Character)) /\ Drained[Later(s)].out \in Seq(Seq(Character))
    BY <2>2, DrainedIs
  <2>4. (<<First(s)>> \o Drained[Later(s)].out) \o Flushed(Drained[s].rest)
          = <<First(s)>> \o (Drained[Later(s)].out \o Flushed(Drained[s].rest))
    <3> DEFINE x == <<First(s)>>
               y == Drained[Later(s)].out
               z == Flushed(Drained[s].rest)
    <3>1. x \in Seq(Seq(Character)) /\ y \in Seq(Seq(Character)) /\ z \in Seq(Seq(Character))
      BY <1>1, <2>3
    <3> HIDE DEF x, y, z
    <3>2. (x \o y) \o z = x \o (y \o z)
      BY <3>1, Associative, Zenon
    <3> QED BY <3>2 DEF x, y, z
  <2> QED BY <2>1, <2>4 DEF SentencesOf
<1> QED BY <1>2, <1>3, <1>4

(* Blanks before a text are no part of its sentences.                      *)
LEMMA LeadingBlanks ==
  ASSUME NEW w \in Seq(Character), Blank(w), NEW s \in Seq(Character)
  PROVE  SentencesOf(w \o s) = SentencesOf(s)
<1>1. /\ w \o s \in Seq(Character) /\ Len(w) \in Nat /\ Len(s) \in Nat
      /\ Len(w \o s) = Len(w) + Len(s)
  OBVIOUS
<1>2. SentenceEnd(w \o s) = IF SentenceEnd(s) = 0 THEN 0 ELSE Len(w) + SentenceEnd(s)
  BY EndBehind
<1>3. CASE SentenceEnd(s) = 0
  <2>1. SentencesOf(w \o s) = Flushed(w \o s) /\ SentencesOf(s) = Flushed(s)
    BY <1>1, <1>2, <1>3, SentencesStep
  <2>2. Trim(w \o s) = Trim(s)
    BY TrimBlanks
  <2> QED BY <2>1, <2>2 DEF Flushed
<1>4. CASE SentenceEnd(s) # 0
  <2>1. PICK n \in 1..Len(s) - 1 : SentenceEnd(s) = n
    <3>1. SentenceEnd(s) \in 0..Len(s) - 1
      BY <1>4, EndFacts
    <3>2. SentenceEnd(s) \in 1..Len(s) - 1
      BY <1>1, <1>4, <3>1
    <3> QED BY <3>2
  <2>2. SentenceEnd(w \o s) = Len(w) + n /\ Len(w) + n # 0 /\ n # 0
    BY <1>1, <1>2, <2>1
  <2> DEFINE a == SubSeq(s, 1, n)
             b == SubSeq(s, n + 1, Len(s))
  <2>3. a \in Seq(Character) /\ b \in Seq(Character) /\ s = a \o b /\ Len(a) = n
    <3>1. n \in 0..Len(s)
      BY <1>1
    <3> QED BY <3>1, Split
  <2> HIDE DEF a, b
  <2>4. w \o a \in Seq(Character) /\ Len(w \o a) = Len(w) + n
    BY <2>3, ConcatIs
  <2>5. w \o s = (w \o a) \o b
    <3>1. (w \o a) \o b = w \o (a \o b)
      BY <2>3, InText, Zenon
    <3> QED BY <2>3, <3>1
  <2>6. /\ SubSeq(w \o s, 1, Len(w) + n) = w \o a
        /\ SubSeq(w \o s, Len(w) + n + 1, Len(w \o s)) = b
    BY <2>3, <2>4, <2>5, SplitConcat
  <2>7. Trim(w \o a) = Trim(a)
    BY <2>3, TrimBlanks
  <2>8. First(w \o s) = First(s) /\ Later(w \o s) = Later(s)
    BY <2>1, <2>2, <2>6, <2>7 DEF First, Later, a, b
  <2>9. /\ SentencesOf(w \o s) = <<First(w \o s)>> \o SentencesOf(Later(w \o s))
        /\ SentencesOf(s) = <<First(s)>> \o SentencesOf(Later(s))
    BY <1>1, <1>4, <2>2, SentencesStep
  <2> QED BY <2>8, <2>9
<1> QED BY <1>3, <1>4

(* The blanks before a text say nothing.                                   *)
LEMMA StartIsEnough ==
  ASSUME NEW s \in Seq(Character)
  PROVE  SentencesOf(TrimStart(s)) = SentencesOf(s)
<1>1. PICK v \in Seq(Character) : s = v \o TrimStart(s) /\ Blank(v)
  BY StartFacts
<1>2. TrimStart(s) \in Seq(Character)
  BY StartFacts
<1> QED BY <1>1, <1>2, LeadingBlanks

(* A text that goes on has the sentences that were drained from it, and    *)
(* then those of what was left of it and what follows.                     *)
LEMMA DrainGoesOn ==
  ASSUME NEW s \in Seq(Character), NEW z \in Seq(Character)
  PROVE  SentencesOf(s \o z) = Drained[s].out \o SentencesOf(Drained[s].rest \o z)
<1> DEFINE G == {r \in Seq(Character) :
                   SentencesOf(r \o z) = Drained[r].out \o SentencesOf(Drained[r].rest \o z)}
<1>1. ASSUME NEW r \in Seq(Character),
             \A q \in Seq(Character) : Len(q) < Len(r) => q \in G
      PROVE  r \in G
  <2>0. r \o z \in Seq(Character) /\ SentencesOf(r \o z) \in Seq(Seq(Character))
    <3>1. r \o z \in Seq(Character)
      OBVIOUS
    <3> QED BY <3>1, SentencesStep
  <2>1. CASE SentenceEnd(r) = 0
    <3>1. Drained[r].out = <<>> /\ Drained[r].rest = r
      BY <2>1, DrainedStep
    <3>2. <<>> \o SentencesOf(r \o z) = SentencesOf(r \o z)
      BY <2>0
    <3> QED BY <3>1, <3>2
  <2>2. CASE SentenceEnd(r) # 0
    <3>1. First(r) \in Seq(Character) /\ Later(r) \in Seq(Character) /\ Len(Later(r)) < Len(r)
      BY <2>2, LaterIs
    <3>2. /\ Drained[r].out = <<First(r)>> \o Drained[Later(r)].out
          /\ Drained[r].rest = Drained[Later(r)].rest
      BY <2>2, DrainedStep
    <3>3. SentenceEnd(r \o z) = SentenceEnd(r)
      BY <2>2, EndGoesOn
    <3>4. PICK n \in 0..Len(r) : SentenceEnd(r) = n
      <4>1. SentenceEnd(r) \in 0..Len(r) - 1 /\ Len(r) \in Nat
        BY <2>2, EndFacts
      <4>2. SentenceEnd(r) \in 0..Len(r)
        BY <4>1
      <4> QED BY <4>2
    <3> DEFINE a == SubSeq(r, 1, n)
               b == SubSeq(r, n + 1, Len(r))
    <3>5. a \in Seq(Character) /\ b \in Seq(Character) /\ r = a \o b /\ Len(a) = n
      BY Split, Zenon
    <3> HIDE DEF a, b
    <3>6. b \o z \in Seq(Character) /\ r \o z = a \o (b \o z)
      <4>1. (a \o b) \o z = a \o (b \o z)
        <5>1. a \in Seq(Character) /\ b \in Seq(Character)
          BY <3>5
        <5> QED BY <5>1, InText, Zenon
      <4> QED BY <3>5, <4>1
    <3>7. SubSeq(r \o z, 1, n) = a /\ SubSeq(r \o z, n + 1, Len(r \o z)) = b \o z
      <4> DEFINE c == b \o z
      <4>1. c \in Seq(Character) /\ r \o z = a \o c
        BY <3>6
      <4> HIDE DEF c
      <4>2. SubSeq(a \o c, 1, Len(a)) = a /\ SubSeq(a \o c, Len(a) + 1, Len(a \o c)) = c
        BY <3>5, <4>1, SplitConcat
      <4> QED BY <3>5, <4>1, <4>2 DEF c
    <3>8. First(r \o z) = First(r) /\ Later(r \o z) = TrimStart(b \o z) /\ Later(r) = TrimStart(b)
      BY <3>3, <3>4, <3>7 DEF First, Later, a, b
    <3>9. SentencesOf(r \o z) = <<First(r)>> \o SentencesOf(TrimStart(b \o z))
      BY <2>0, <2>2, <3>3, <3>8, SentencesStep
    <3>10. SentencesOf(TrimStart(b \o z))
             = Drained[Later(r)].out \o SentencesOf(Drained[Later(r)].rest \o z)
      <4>1. TrimStart(b \o z) = IF TrimStart(b) = <<>> THEN TrimStart(z) ELSE TrimStart(b) \o z
        BY <3>5, StartFacts
      <4>2. Later(r) \in G
        BY <1>1, <3>1
      <4>3. CASE TrimStart(b) # <<>>
        BY <3>8, <4>1, <4>2, <4>3
      <4>4. CASE TrimStart(b) = <<>>
        <5>1. Later(r) \o z = z
          BY <3>8, <4>4
        <5>2. SentencesOf(TrimStart(z)) = SentencesOf(z)
          BY StartIsEnough
        <5>3. SentencesOf(z) = Drained[Later(r)].out \o SentencesOf(Drained[Later(r)].rest \o z)
          BY <4>2, <5>1
        <5> QED BY <4>1, <4>4, <5>2, <5>3
      <4> QED BY <4>3, <4>4
    <3>11. /\ <<First(r)>> \in Seq(Seq(Character)) /\ Drained[Later(r)].out \in Seq(Seq(Character))
           /\ SentencesOf(Drained[Later(r)].rest \o z) \in Seq(Seq(Character))
      <4>1. Drained[Later(r)].out \in Seq(Seq(Character)) /\ Drained[Later(r)].rest \in Seq(Character)
        BY <3>1, DrainedIs
      <4>2. Drained[Later(r)].rest \o z \in Seq(Character)
        BY <4>1
      <4>3. SentencesOf(Drained[Later(r)].rest \o z) \in Seq(Seq(Character))
        BY <4>2, SentencesStep
      <4>4. <<First(r)>> \in Seq(Seq(Character))
        BY <3>1
      <4> QED BY <4>1, <4>3, <4>4
    <3>12. <<First(r)>> \o (Drained[Later(r)].out \o SentencesOf(Drained[Later(r)].rest \o z))
             = (<<First(r)>> \o Drained[Later(r)].out) \o SentencesOf(Drained[Later(r)].rest \o z)
      <4> DEFINE x == <<First(r)>>
                 y == Drained[Later(r)].out
                 u == SentencesOf(Drained[Later(r)].rest \o z)
      <4>1. x \in Seq(Seq(Character)) /\ y \in Seq(Seq(Character)) /\ u \in Seq(Seq(Character))
        BY <3>11
      <4> HIDE DEF x, y, u
      <4>2. (x \o y) \o u = x \o (y \o u)
        BY <4>1, Associative, Zenon
      <4> QED BY <4>2 DEF x, y, u
    <3>13. SentencesOf(r \o z) = Drained[r].out \o SentencesOf(Drained[r].rest \o z)
      BY <3>2, <3>9, <3>10, <3>12, Zenon
    <3> QED BY <3>13
  <2> QED BY <2>1, <2>2
<1> HIDE DEF G
<1>2. G = Seq(Character)
  <2>1. G \in SUBSET Seq(Character)
    BY DEF G
  <2> QED BY <1>1, <2>1, ByLength
<1> QED BY <1>2 DEF G

-----------------------------------------------------------------------------
(***************************************************************************)
(* Texts put together from pieces.                                         *)
(***************************************************************************)

(* The sequence that has one more is joined from the one before and that.  *)
LEMMA FlattenAppend ==
  ASSUME NEW S, NEW ss \in Seq(Seq(S)), FlattenSeq(ss) \in Seq(S), NEW x \in Seq(S)
  PROVE  FlattenSeq(ss \o <<x>>) = FlattenSeq(ss) \o x
<1> DEFINE tt == ss \o <<x>>
           k == Len(ss)
<1>1. /\ tt \in Seq(Seq(S)) /\ Len(tt) = k + 1 /\ tt[k + 1] = x
      /\ \A i \in 1..k : tt[i] = ss[i]
  OBVIOUS
<1>2. k \in Nat
  OBVIOUS
<1>3. Len(tt) # 0
  BY <1>1, <1>2
<1> HIDE DEF tt
<1>4. PICK f : /\ f[1] = tt[1]
               /\ \A n \in 1..Len(tt) - 1 : f[n + 1] = f[n] \o tt[n + 1]
               /\ FlattenSeq(tt) = f[Len(tt)]
  BY <1>1, <1>3, FlattenSteps
<1>5. CASE k = 0
  <2>1. FlattenSeq(ss) = <<>>
    BY <1>5 DEF FlattenSeq
  <2>2. FlattenSeq(tt) = x
    BY <1>1, <1>4, <1>5
  <2>3. <<>> \o x = x
    OBVIOUS
  <2> QED BY <2>1, <2>2, <2>3 DEF tt
<1>6. CASE k # 0
  <2>1. PICK g : /\ g[1] = ss[1]
                 /\ \A n \in 1..k - 1 : g[n + 1] = g[n] \o ss[n + 1]
                 /\ FlattenSeq(ss) = g[k]
    BY <1>6, FlattenSteps
  <2> DEFINE Good == {n \in 1..k : f[n] = g[n]}
  <2>2. 1 \in Good
    <3>1. 1 \in 1..k
      BY <1>2, <1>6
    <3> QED BY <1>1, <1>4, <2>1, <3>1
  <2>3. ASSUME NEW n \in 1..k - 1, n \in Good PROVE n + 1 \in Good
    <3>1. n + 1 \in 1..k /\ n \in 1..Len(tt) - 1
      BY <1>1, <1>2
    <3>2. f[n] = g[n]
      BY <2>3
    <3>3. f[n + 1] = f[n] \o tt[n + 1] /\ g[n + 1] = g[n] \o ss[n + 1] /\ tt[n + 1] = ss[n + 1]
      BY <1>1, <1>4, <2>1, <3>1
    <3> QED BY <3>1, <3>2, <3>3
  <2> HIDE DEF Good
  <2>4. 1..k \subseteq Good
    BY <1>2, <2>2, <2>3, UpTo
  <2>5. f[k] = g[k]
    <3>1. k \in 1..k
      BY <1>2, <1>6
    <3> QED BY <2>4, <3>1 DEF Good
  <2>6. k \in 1..Len(tt) - 1 /\ k + 1 = Len(tt)
    BY <1>1, <1>2, <1>6
  <2>7. f[k + 1] = f[k] \o x
    BY <1>1, <1>4, <2>6
  <2>8. FlattenSeq(tt) = FlattenSeq(ss) \o x
    BY <1>4, <2>1, <2>5, <2>6, <2>7
  <2> QED BY <2>8 DEF tt
<1> QED BY <1>5, <1>6

(* The pieces of a text put together are a text.                           *)
LEMMA FlattenIs ==
  ASSUME NEW S, NEW ss \in Seq(Seq(S))
  PROVE  FlattenSeq(ss) \in Seq(S)
<1>1. CASE Len(ss) = 0
  BY <1>1 DEF FlattenSeq
<1>2. CASE Len(ss) # 0
  <2>1. PICK f : /\ \A n \in 1..Len(ss) : f[n] \in Seq(S)
                 /\ FlattenSeq(ss) = f[Len(ss)]
    BY <1>2, FlattenSteps
  <2>2. Len(ss) \in 1..Len(ss)
    <3>1. Len(ss) \in Nat
      OBVIOUS
    <3> QED BY <1>2, <3>1
  <2> QED BY <2>1, <2>2
<1> QED BY <1>1, <1>2

(* A sequence that is not empty ends with its last element.                *)
LEMMA LastOf ==
  ASSUME NEW S, NEW s \in Seq(S), Len(s) # 0
  PROVE  \E r \in Seq(S), x \in S : s = r \o <<x>> /\ Len(r) < Len(s)
<1>1. PICK k \in 0..Len(s) : k + 1 = Len(s)
  <2>1. Len(s) \in Nat
    OBVIOUS
  <2>2. Len(s) - 1 \in 0..Len(s) /\ (Len(s) - 1) + 1 = Len(s)
    BY <2>1
  <2> QED BY <2>2
<1> DEFINE r == SubSeq(s, 1, k)
           t == SubSeq(s, k + 1, Len(s))
<1>2. r \in Seq(S) /\ Len(r) = k /\ t \in Seq(S) /\ Len(t) = Len(s) - k /\ s = r \o t
  BY Split, Zenon
<1> HIDE DEF r, t
<1>3. Len(t) = 1 /\ k < Len(s)
  BY <1>1, <1>2
<1>4. t = <<t[1]>> /\ t[1] \in S
  <2>1. t[1] \in S
    BY <1>2, <1>3
  <2>2. <<t[1]>> \in Seq(S) /\ Len(<<t[1]>>) = 1 /\ \A i \in 1..1 : t[i] = <<t[1]>>[i]
    BY <2>1
  <2> QED BY <1>2, <1>3, <2>1, <2>2, SeqEqual
<1> QED BY <1>2, <1>3, <1>4

(* What is joined from two lists in a row.                                 *)
LEMMA FlattenConcat ==
  ASSUME NEW S, NEW ss \in Seq(Seq(S)), NEW tt \in Seq(Seq(S))
  PROVE  FlattenSeq(ss \o tt) = FlattenSeq(ss) \o FlattenSeq(tt)
<1> DEFINE L == Seq(S)
           G == {uu \in Seq(L) : FlattenSeq(ss \o uu) = FlattenSeq(ss) \o FlattenSeq(uu)}
<1>1. FlattenSeq(ss) \in Seq(S)
  BY FlattenIs
<1>2. ASSUME NEW uu \in Seq(L), \A r \in Seq(L) : Len(r) < Len(uu) => r \in G
      PROVE  uu \in G
  <2>1. CASE Len(uu) = 0
    <3>1. uu = <<>> /\ FlattenSeq(uu) = <<>>
      BY <2>1 DEF FlattenSeq
    <3>2. ss \o <<>> = ss /\ FlattenSeq(ss) \o <<>> = FlattenSeq(ss)
      BY <1>1
    <3> QED BY <3>1, <3>2
  <2>2. CASE Len(uu) # 0
    <3>1. PICK r \in Seq(L), x \in L : uu = r \o <<x>> /\ Len(r) < Len(uu)
      <4> HIDE DEF L
      <4> QED BY <2>2, LastOf
    <3>2. r \in G
      BY <1>2, <3>1
    <3>3. ss \o uu = (ss \o r) \o <<x>>
      <4> DEFINE e == <<x>>
      <4>1. e \in Seq(L) /\ ss \in Seq(L)
        OBVIOUS
      <4> HIDE DEF L, e
      <4>2. (ss \o r) \o e = ss \o (r \o e)
        <5>1. Joins(L)
          BY AllJoin
        <5> QED BY <4>1, <5>1, Zenon DEF Joins
      <4> QED BY <3>1, <4>2 DEF e
    <3>4. FlattenSeq(r) \in Seq(S) /\ FlattenSeq(ss \o r) = FlattenSeq(ss) \o FlattenSeq(r)
      BY <3>2, FlattenIs
    <3>5. ss \o r \in Seq(L)
      OBVIOUS
    <3>6. FlattenSeq((ss \o r) \o <<x>>) = FlattenSeq(ss \o r) \o x
      <4>1. FlattenSeq(ss \o r) \in Seq(S)
        BY <3>5, FlattenIs
      <4> QED BY <3>5, <4>1, FlattenAppend
    <3>7. FlattenSeq(r \o <<x>>) = FlattenSeq(r) \o x
      BY <3>4, FlattenAppend
    <3>8. (FlattenSeq(ss) \o FlattenSeq(r)) \o x = FlattenSeq(ss) \o (FlattenSeq(r) \o x)
      <4>1. Joins(S)
        BY AllJoin
      <4> QED BY <1>1, <3>4, <4>1, Zenon DEF Joins
    <3>9. FlattenSeq(ss \o uu) = FlattenSeq(ss) \o FlattenSeq(uu)
      BY <3>1, <3>3, <3>4, <3>6, <3>7, <3>8, Zenon
    <3> QED BY <3>9
  <2> QED BY <2>1, <2>2
<1>3. G = Seq(L)
  <2>1. G \in SUBSET Seq(L)
    OBVIOUS
  <2> HIDE DEF G, L
  <2> QED BY <1>2, <2>1, ByLength
<1>4. tt \in G
  BY <1>3
<1> QED BY <1>4

(* Each element is replaced by what F makes of it.                         *)
FlatMap(F, s) == FlattenSeq([i \in DOMAIN s |-> F[s[i]]])
Expands(F, S, T) == F \in [S -> Seq(T)]

(* Of no elements, nothing.                                                *)
LEMMA FlatMapEmpty ==
  ASSUME NEW F
  PROVE  FlatMap(F, <<>>) = <<>>
<1>1. [i \in DOMAIN <<>> |-> F[<<>>[i]]] = <<>>
  OBVIOUS
<1>2. FlattenSeq(<<>>) = <<>>
  BY DEF FlattenSeq
<1> QED BY <1>1, <1>2 DEF FlatMap

(* The images of the elements of a sequence, put together.                 *)
LEMMA FlatMapIs ==
  ASSUME NEW S, NEW T, NEW F, Expands(F, S, T), NEW s \in Seq(S)
  PROVE  /\ FlatMap(F, s) \in Seq(T)
         /\ \A x \in S : FlatMap(F, <<x>>) = F[x]
         /\ \A t \in Seq(S) : FlatMap(F, s \o t) = FlatMap(F, s) \o FlatMap(F, t)
<1>0. F \in [S -> Seq(T)]
  BY DEF Expands
<1> DEFINE M(r) == [i \in DOMAIN r |-> F[r[i]]]
           L == Seq(T)
<1>1. ASSUME NEW r \in Seq(S)
      PROVE  /\ M(r) \in Seq(L) /\ Len(M(r)) = Len(r)
             /\ \A i \in 1..Len(r) : M(r)[i] = F[r[i]]
  <2>1. DOMAIN r = 1..Len(r) /\ Len(r) \in Nat /\ \A i \in 1..Len(r) : r[i] \in S
    OBVIOUS
  <2>2. M(r) = [i \in 1..Len(r) |-> F[r[i]]]
    BY <2>1
  <2>3. \A i \in 1..Len(r) : F[r[i]] \in L
    BY <1>0, <2>1
  <2> HIDE DEF L
  <2>4. [i \in 1..Len(r) |-> F[r[i]]] \in Seq(L)
    BY <2>1, <2>3
  <2>5. Len([i \in 1..Len(r) |-> F[r[i]]]) = Len(r)
    BY <2>1
  <2>6. \A i \in 1..Len(r) : [j \in 1..Len(r) |-> F[r[j]]][i] = F[r[i]]
    OBVIOUS
  <2> QED BY <2>2, <2>4, <2>5, <2>6
<1>2. FlatMap(F, s) \in Seq(T)
  <2>1. FlattenSeq(M(s)) \in Seq(T)
    BY <1>1, FlattenIs
  <2> QED BY <2>1 DEF FlatMap
<1>4. ASSUME NEW x \in S PROVE FlatMap(F, <<x>>) = F[x]
  <2>1. M(<<x>>) = <<F[x]>>
    OBVIOUS
  <2>2. F[x] \in Seq(T) /\ FlattenSeq(<<>>) = <<>> /\ <<>> \in Seq(L) /\ <<>> \in Seq(T)
    BY <1>0 DEF FlattenSeq
  <2>3. FlattenSeq(<<>> \o <<F[x]>>) = <<>> \o F[x]
    BY <2>2, FlattenAppend
  <2>4. <<>> \o <<F[x]>> = <<F[x]>> /\ <<>> \o F[x] = F[x]
    BY <2>2
  <2> QED BY <2>1, <2>3, <2>4 DEF FlatMap
<1>5. ASSUME NEW t \in Seq(S) PROVE FlatMap(F, s \o t) = FlatMap(F, s) \o FlatMap(F, t)
  <2>1. /\ s \o t \in Seq(S) /\ Len(s \o t) = Len(s) + Len(t) /\ Len(s) \in Nat /\ Len(t) \in Nat
        /\ \A i \in 1..Len(s) + Len(t) : (s \o t)[i] = IF i <= Len(s) THEN s[i] ELSE t[i - Len(s)]
    BY ConcatIs
  <2>2. /\ M(s \o t) \in Seq(L) /\ Len(M(s \o t)) = Len(s) + Len(t)
        /\ \A i \in 1..Len(s) + Len(t) : M(s \o t)[i] = F[(s \o t)[i]]
    BY <1>1, <2>1
  <2>3. /\ M(s) \in Seq(L) /\ Len(M(s)) = Len(s) /\ \A i \in 1..Len(s) : M(s)[i] = F[s[i]]
        /\ M(t) \in Seq(L) /\ Len(M(t)) = Len(t) /\ \A i \in 1..Len(t) : M(t)[i] = F[t[i]]
    BY <1>1
  <2> HIDE DEF M, L
  <2>4. /\ M(s) \o M(t) \in Seq(L) /\ Len(M(s) \o M(t)) = Len(s) + Len(t)
        /\ \A i \in 1..Len(s) + Len(t) :
             (M(s) \o M(t))[i] = IF i <= Len(s) THEN M(s)[i] ELSE M(t)[i - Len(s)]
    <3> DEFINE a == M(s)
               b == M(t)
    <3>1. a \in Seq(L) /\ b \in Seq(L) /\ Len(a) = Len(s) /\ Len(b) = Len(t)
      BY <2>3
    <3> HIDE DEF a, b
    <3>2. /\ a \o b \in Seq(L) /\ Len(a \o b) = Len(a) + Len(b)
          /\ \A i \in 1..Len(a) + Len(b) : (a \o b)[i] = IF i <= Len(a) THEN a[i] ELSE b[i - Len(a)]
      BY <3>1, ConcatIs
    <3> QED BY <3>1, <3>2 DEF a, b
  <2>5. ASSUME NEW i \in 1..Len(s) + Len(t) PROVE M(s \o t)[i] = (M(s) \o M(t))[i]
    <3>1. (i <= Len(s) => i \in 1..Len(s)) /\ (~(i <= Len(s)) => i - Len(s) \in 1..Len(t))
      BY <2>1
    <3>2. CASE i <= Len(s)
      BY <2>1, <2>2, <2>3, <2>4, <3>1, <3>2
    <3>3. CASE ~(i <= Len(s))
      <4>1. (s \o t)[i] = t[i - Len(s)] /\ M(t)[i - Len(s)] = F[t[i - Len(s)]]
        BY <2>1, <2>3, <3>1, <3>3
      <4>2. (M(s) \o M(t))[i] = M(t)[i - Len(s)] /\ M(s \o t)[i] = F[(s \o t)[i]]
        BY <2>2, <2>4, <3>3
      <4> QED BY <4>1, <4>2
    <3> QED BY <3>2, <3>3
  <2>6. M(s \o t) = M(s) \o M(t)
    BY <2>2, <2>4, <2>5, SeqEqual
  <2>7. FlattenSeq(M(s) \o M(t)) = FlattenSeq(M(s)) \o FlattenSeq(M(t))
    BY <2>3, FlattenConcat DEF L
  <2> QED BY <2>6, <2>7 DEF FlatMap, M
<1> QED BY <1>2, <1>4, <1>5

(* The parts of FlatMapIs, each to be cited alone: its type, ...           *)
LEMMA FlatMapType ==
  ASSUME NEW S, NEW T, NEW F, Expands(F, S, T), NEW s \in Seq(S)
  PROVE  FlatMap(F, s) \in Seq(T)
BY FlatMapIs

(* ... one element, ...                                                    *)
LEMMA FlatMapOne ==
  ASSUME NEW S, NEW T, NEW F, Expands(F, S, T), NEW x \in S
  PROVE  FlatMap(F, <<x>>) = F[x]
<1>1. PICK s \in Seq(S) : TRUE
  <2>1. <<>> \in Seq(S)
    OBVIOUS
  <2> QED BY <2>1
<1> QED BY <1>1, FlatMapIs

(* ... and one sequence after another.                                     *)
LEMMA FlatMapConcat ==
  ASSUME NEW S, NEW T, NEW F, Expands(F, S, T), NEW s \in Seq(S), NEW t \in Seq(S)
  PROVE  FlatMap(F, s \o t) = FlatMap(F, s) \o FlatMap(F, t)
BY FlatMapIs

(* What Squeezed keeps of a character.                                     *)
Solidly == [c \in Character |-> IF c \in White THEN <<>> ELSE <<c>>]

(* Squeezed maps each character to itself or to nothing.                   *)
LEMMA SqueezedIs ==
  /\ Expands(Solidly, Character, Character)
  /\ \A s \in Seq(Character) : Squeezed(s) = FlatMap(Solidly, s)
<1>1. Expands(Solidly, Character, Character)
  BY DEF Solidly, Expands
<1>2. ASSUME NEW s \in Seq(Character) PROVE Squeezed(s) = FlatMap(Solidly, s)
  <2>1. \A i \in DOMAIN s : s[i] \in Character
    OBVIOUS
  <2>2. \A i \in DOMAIN s : Solidly[s[i]] = IF s[i] \in White THEN <<>> ELSE <<s[i]>>
    BY <2>1 DEF Solidly
  <2>3. [i \in DOMAIN s |-> Solidly[s[i]]] = [i \in DOMAIN s |-> IF s[i] \in White THEN <<>> ELSE <<s[i]>>]
    BY <2>2, Zenon
  <2> QED BY <2>3, Zenon DEF Squeezed, FlatMap
<1> QED BY <1>1, <1>2

(* Squeezing a text squeezes its parts.                                    *)
LEMMA SqueezedConcat ==
  ASSUME NEW s \in Seq(Character), NEW t \in Seq(Character)
  PROVE  /\ Squeezed(s \o t) = Squeezed(s) \o Squeezed(t)
         /\ Squeezed(s) \in Seq(Character)
<1>1. /\ FlatMap(Solidly, s) \in Seq(Character)
      /\ FlatMap(Solidly, s \o t) = FlatMap(Solidly, s) \o FlatMap(Solidly, t)
  <2>1. Expands(Solidly, Character, Character)
    BY SqueezedIs
  <2>2. FlatMap(Solidly, s) \in Seq(Character)
    BY <2>1, FlatMapType
  <2>3. FlatMap(Solidly, s \o t) = FlatMap(Solidly, s) \o FlatMap(Solidly, t)
    BY <2>1, FlatMapConcat
  <2> QED BY <2>2, <2>3
<1>2. s \o t \in Seq(Character)
  OBVIOUS
<1> QED BY <1>1, <1>2, SqueezedIs

(* Blanks are squeezed away.                                               *)
LEMMA SqueezedBlank ==
  ASSUME NEW w \in Seq(Character), Blank(w)
  PROVE  Squeezed(w) = <<>>
<1> DEFINE G == {s \in Seq(Character) : Blank(s) => Squeezed(s) = <<>>}
<1>1. ASSUME NEW s \in Seq(Character), \A r \in Seq(Character) : Len(r) < Len(s) => r \in G
      PROVE  s \in G
  <2>1. CASE Len(s) = 0
    <3>1. s = <<>>
      BY <2>1
    <3>2. FlatMap(Solidly, <<>>) = <<>>
      BY FlatMapEmpty
    <3> QED BY <3>1, <3>2, SqueezedIs
  <2>2. CASE Len(s) # 0
    <3> SUFFICES ASSUME Blank(s) PROVE Squeezed(s) = <<>>
      OBVIOUS
    <3>1. PICK r \in Seq(Character), x \in Character : s = r \o <<x>> /\ Len(r) < Len(s)
      BY <2>2, LastOf
    <3>2. <<x>> \in Seq(Character) /\ Blank(r) /\ Blank(<<x>>)
      <4>1. <<x>> \in Seq(Character)
        OBVIOUS
      <4> QED BY <3>1, <4>1, BlankConcat
    <3>3. Squeezed(r) = <<>>
      BY <1>1, <3>1, <3>2
    <3>4. x \in White
      BY <3>2 DEF Blank
    <3>5. Squeezed(<<x>>) = <<>>
      <4>1. FlatMap(Solidly, <<x>>) = Solidly[x]
        <5>1. Expands(Solidly, Character, Character)
          BY SqueezedIs
        <5>2. \A y \in Character : FlatMap(Solidly, <<y>>) = Solidly[y]
          BY <5>1, FlatMapOne
        <5> QED BY <5>2
      <4> QED BY <3>2, <3>4, <4>1, SqueezedIs DEF Solidly
    <3>6. Squeezed(s) = Squeezed(r) \o Squeezed(<<x>>)
      BY <3>1, <3>2, SqueezedConcat
    <3> QED BY <3>3, <3>5, <3>6
  <2> QED BY <2>1, <2>2
<1> HIDE DEF G
<1>2. G = Seq(Character)
  <2>1. G \in SUBSET Seq(Character)
    BY DEF G
  <2> QED BY <1>1, <2>1, ByLength
<1> QED BY <1>2 DEF G

(* Trimming takes nothing but blanks.                                      *)
LEMMA SqueezedTrim ==
  ASSUME NEW s \in Seq(Character)
  PROVE  Squeezed(Trim(s)) = Squeezed(s) /\ Squeezed(TrimStart(s)) = Squeezed(s)
<1>1. \A r \in Seq(Character) : <<>> \o Squeezed(r) = Squeezed(r) /\ Squeezed(r) \o <<>> = Squeezed(r)
  <2> TAKE r \in Seq(Character)
  <2>1. Squeezed(r) \in Seq(Character)
    BY SqueezedConcat
  <2> QED BY <2>1
<1>2. Squeezed(Trim(s)) = Squeezed(s)
  <2>1. Trim(s) \in Seq(Character)
    BY TrimFacts
  <2>2. PICK v \in Seq(Character), w \in Seq(Character) :
          s = v \o Trim(s) \o w /\ Blank(v) /\ Blank(w)
    BY TrimFacts
  <2> DEFINE t == Trim(s)
  <2>3. t \in Seq(Character) /\ s = (v \o t) \o w
    BY <2>1, <2>2
  <2> HIDE DEF t
  <2>4. v \o t \in Seq(Character)
    BY <2>3
  <2>5. Squeezed((v \o t) \o w) = Squeezed(v \o t) \o Squeezed(w)
    BY <2>4, SqueezedConcat
  <2>6. Squeezed(v \o t) = Squeezed(v) \o Squeezed(t)
    BY <2>3, SqueezedConcat
  <2>7. Squeezed(v) = <<>> /\ Squeezed(w) = <<>>
    BY <2>2, SqueezedBlank
  <2>8. <<>> \o Squeezed(t) = Squeezed(t) /\ Squeezed(t) \o <<>> = Squeezed(t)
    BY <1>1, <2>3
  <2> QED BY <2>3, <2>5, <2>6, <2>7, <2>8, Zenon DEF t
<1>3. Squeezed(TrimStart(s)) = Squeezed(s)
  <2>1. TrimStart(s) \in Seq(Character)
    BY StartFacts
  <2>2. PICK v \in Seq(Character) : s = v \o TrimStart(s) /\ Blank(v)
    BY StartFacts
  <2>3. Squeezed(v \o TrimStart(s)) = Squeezed(v) \o Squeezed(TrimStart(s))
    BY <2>1, SqueezedConcat
  <2>4. Squeezed(v) = <<>>
    BY <2>2, SqueezedBlank
  <2>5. <<>> \o Squeezed(TrimStart(s)) = Squeezed(TrimStart(s))
    BY <1>1, <2>1
  <2> QED BY <2>2, <2>3, <2>4, <2>5, Zenon
<1> QED BY <1>2, <1>3

(* The sentences of a text have its characters, blanks aside.              *)
LEMMA SentencesKeepAll ==
  ASSUME NEW whole \in Seq(Character)
  PROVE  Squeezed(FlattenSeq(SentencesOf(whole))) = Squeezed(whole)
<1> DEFINE G == {s \in Seq(Character) : Squeezed(FlattenSeq(SentencesOf(s))) = Squeezed(s)}
<1>1. ASSUME NEW x \in Seq(Character) PROVE FlattenSeq(<<x>>) = x /\ FlattenSeq(<<>>) = <<>>
  <2>1. FlattenSeq(<<>>) = <<>> /\ <<>> \in Seq(Seq(Character)) /\ <<>> \in Seq(Character)
    BY DEF FlattenSeq
  <2>2. FlattenSeq(<<>> \o <<x>>) = <<>> \o x
    BY <2>1, FlattenAppend
  <2>3. <<>> \o <<x>> = <<x>> /\ <<>> \o x = x
    OBVIOUS
  <2> QED BY <2>1, <2>2, <2>3
<1>2. ASSUME NEW s \in Seq(Character), \A r \in Seq(Character) : Len(r) < Len(s) => r \in G
      PROVE  s \in G
  <2>1. CASE SentenceEnd(s) = 0
    <3>1. SentencesOf(s) = Flushed(s)
      BY <2>1, SentencesStep
    <3>2. Trim(s) \in Seq(Character) /\ Squeezed(Trim(s)) = Squeezed(s)
      BY TrimFacts, SqueezedTrim
    <3>3. FlattenSeq(Flushed(s)) = Trim(s)
      <4>1. CASE Trim(s) = <<>>
        BY <1>1, <3>2, <4>1 DEF Flushed
      <4>2. CASE Trim(s) # <<>>
        BY <1>1, <3>2, <4>2 DEF Flushed
      <4> QED BY <4>1, <4>2
    <3> QED BY <3>1, <3>2, <3>3
  <2>2. CASE SentenceEnd(s) # 0
    <3>1. /\ First(s) \in Seq(Character) /\ Later(s) \in Seq(Character) /\ Len(Later(s)) < Len(s)
          /\ SentencesOf(Later(s)) \in Seq(Seq(Character))
          /\ SentencesOf(s) = <<First(s)>> \o SentencesOf(Later(s))
      BY <2>2, LaterIs, SentencesStep
    <3>2. Later(s) \in G
      BY <1>2, <3>1
    <3>3. PICK n \in 0..Len(s) : SentenceEnd(s) = n
      <4>1. SentenceEnd(s) \in 0..Len(s) - 1 /\ Len(s) \in Nat
        BY <2>2, EndFacts
      <4>2. SentenceEnd(s) \in 0..Len(s)
        BY <4>1
      <4> QED BY <4>2
    <3> DEFINE a == SubSeq(s, 1, n)
               b == SubSeq(s, n + 1, Len(s))
    <3>4. a \in Seq(Character) /\ b \in Seq(Character) /\ s = a \o b
      BY Split, Zenon
    <3>5. First(s) = Trim(a) /\ Later(s) = TrimStart(b)
      BY <3>3 DEF First, Later
    <3> HIDE DEF a, b
    <3>6. Squeezed(First(s)) = Squeezed(a) /\ Squeezed(Later(s)) = Squeezed(b)
      BY <3>4, <3>5, SqueezedTrim
    <3>7. Squeezed(s) = Squeezed(a) \o Squeezed(b)
      BY <3>4, SqueezedConcat
    <3> DEFINE f == First(s)
               l == SentencesOf(Later(s))
    <3>8. f \in Seq(Character) /\ l \in Seq(Seq(Character)) /\ <<f>> \in Seq(Seq(Character))
      BY <3>1
    <3> HIDE DEF f, l
    <3>9. FlattenSeq(<<f>> \o l) = FlattenSeq(<<f>>) \o FlattenSeq(l)
      BY <3>8, FlattenConcat
    <3>10. FlattenSeq(<<f>>) = f /\ FlattenSeq(l) \in Seq(Character)
      BY <1>1, <3>8, FlattenIs
    <3>11. Squeezed(f \o FlattenSeq(l)) = Squeezed(f) \o Squeezed(FlattenSeq(l))
      BY <3>8, <3>10, SqueezedConcat
    <3>12. Squeezed(FlattenSeq(l)) = Squeezed(Later(s))
      BY <3>2 DEF l
    <3>13. Squeezed(FlattenSeq(SentencesOf(s))) = Squeezed(s)
      BY <3>1, <3>6, <3>7, <3>9, <3>10, <3>11, <3>12, Zenon DEF f, l
    <3> QED BY <3>13
  <2> QED BY <2>1, <2>2
<1> HIDE DEF G
<1>3. G = Seq(Character)
  <2>1. G \in SUBSET Seq(Character)
    BY DEF G
  <2> QED BY <1>2, <2>1, ByLength
<1> QED BY <1>3 DEF G

(* A blank text has none.                                                  *)
LEMMA BlankSaysNothing ==
  ASSUME NEW s \in Seq(Character), Trim(s) = <<>>
  PROVE  SentencesOf(s) = <<>>
<1>1. PICK v \in Seq(Character), w \in Seq(Character) :
        s = v \o Trim(s) \o w /\ Blank(v) /\ Blank(w)
  BY TrimFacts
<1>2. v \o <<>> = v
  OBVIOUS
<1>3. s = v \o w /\ Blank(v \o w)
  BY <1>1, <1>2, BlankConcat
<1>4. s \o <<>> = s /\ <<>> \in Seq(Character)
  OBVIOUS
<1>5. SentenceEnd(<<>>) = 0
  <2>1. Boundaries(<<>>) = {}
    BY DEF Boundaries
  <2> QED BY <2>1 DEF SentenceEnd
<1>6. SentenceEnd(s \o <<>>) = 0
  BY <1>3, <1>4, <1>5, EndBehind
<1>7. SentencesOf(s) = Flushed(s)
  BY <1>4, <1>6, SentencesStep
<1> QED BY <1>7 DEF Flushed

-----------------------------------------------------------------------------
(***************************************************************************)
(* The decoder: blocks, characters and what a chunk adds.                  *)
(***************************************************************************)

Event == [kind : Kinds \cup {"malformed"}, text : Seq(Character)]
TextOf == [e \in Event |-> e.text]

(* A block of the event stream decodes to events.                          *)
LEMMA EventsAreEvents ==
  ASSUME NEW block \in Seq(Character)
  PROVE  EventsOf(block) \in Seq(Event)
<1>1. Payload[block] \in Seq(Character)
  <2> DEFINE parts == [i \in DOMAIN block |-> PayloadAt(block, i)]
             L == Seq(Character)
  <2>1. DOMAIN block = 1..Len(block) /\ Len(block) \in Nat /\ \A i \in 1..Len(block) : block[i] \in Character
    OBVIOUS
  <2>2. /\ \A c \in Character : <<c>> \in Seq(Character)
        /\ <<>> \in Seq(Character) /\ <<"lf">> \in Seq(Character)
    BY StreamAssumption
  <2>3. \A i \in 1..Len(block) : PayloadAt(block, i) \in L
    BY <2>1, <2>2 DEF PayloadAt
  <2>4. parts = [i \in 1..Len(block) |-> PayloadAt(block, i)]
    BY <2>1
  <2> HIDE DEF L, parts
  <2>5. [i \in 1..Len(block) |-> PayloadAt(block, i)] \in Seq(L)
    BY <2>1, <2>3
  <2>6. parts \in Seq(Seq(Character))
    BY <2>4, <2>5 DEF L
  <2>7. FlattenSeq(parts) \in Seq(Character)
    BY <2>6, FlattenIs
  <2> QED BY <2>7 DEF Payload, parts
<1>2. ASSUME NEW p \in Seq(Character) PROVE Tokens(p) \in Seq(Character)
  <2> DEFINE token(i) == IF p[i] = "lf" THEN <<>> ELSE <<p[i]>>
             parts == [i \in DOMAIN p |-> token(i)]
             L == Seq(Character)
  <2>1. DOMAIN p = 1..Len(p) /\ Len(p) \in Nat /\ \A i \in 1..Len(p) : p[i] \in Character
    OBVIOUS
  <2>2. \A c \in Character : <<c>> \in Seq(Character) /\ <<>> \in Seq(Character)
    OBVIOUS
  <2>3. \A i \in 1..Len(p) : token(i) \in L
    BY <2>1, <2>2
  <2>4. parts = [i \in 1..Len(p) |-> token(i)]
    BY <2>1
  <2>5. Tokens(p) = FlattenSeq(parts)
    BY DEF Tokens
  <2> HIDE DEF token, L, parts
  <2>6. [i \in 1..Len(p) |-> token(i)] \in Seq(L)
    BY <2>1, <2>3
  <2>7. parts \in Seq(Seq(Character))
    BY <2>4, <2>6 DEF L
  <2>8. FlattenSeq(parts) \in Seq(Character)
    BY <2>7, FlattenIs
  <2> QED BY <2>5, <2>8
<1>3. Parsed[Payload[block]] \in Event
  <2> DEFINE t == Tokens(Payload[block])
             torn == Torn(Payload[block])
  <2>1. t \in Seq(Character) /\ <<>> \in Seq(Character)
    BY <1>1, <1>2
  <2>2. Parsed[Payload[block]] =
          IF t = <<>> \/ Head(t) \notin Kinds \/ torn
          THEN [kind |-> "malformed", text |-> <<>>]
          ELSE [kind |-> Head(t), text |-> IF Head(t) = "delta" THEN Tail(t) ELSE <<>>]
    BY <1>1, Zenon DEF Parsed
  <2> HIDE DEF t, torn
  <2>3. t # <<>> => Tail(t) \in Seq(Character)
    BY <2>1
  <2> QED BY <2>1, <2>2, <2>3 DEF Event
<1> QED BY <1>3 DEF EventsOf

(* The text of some events.                                                *)
LEMMA TextIs ==
  /\ Expands(TextOf, Event, Character)
  /\ \A evs \in Seq(Event) : AssistantText(evs) = FlatMap(TextOf, evs)
<1>1. Expands(TextOf, Event, Character)
  BY DEF Expands, TextOf, Event
<1>2. ASSUME NEW evs \in Seq(Event) PROVE AssistantText(evs) = FlatMap(TextOf, evs)
  <2>1. \A i \in DOMAIN evs : evs[i] \in Event
    OBVIOUS
  <2>2. \A i \in DOMAIN evs : TextOf[evs[i]] = evs[i].text
    BY <2>1 DEF TextOf
  <2>3. [i \in DOMAIN evs |-> TextOf[evs[i]]] = [i \in DOMAIN evs |-> evs[i].text]
    BY <2>2, Zenon
  <2> QED BY <2>3, Zenon DEF AssistantText, FlatMap
<1> QED BY <1>1, <1>2

(* The text of events is the text of the first and then of the others.     *)
LEMMA TextConcat ==
  ASSUME NEW s \in Seq(Event), NEW t \in Seq(Event)
  PROVE  /\ AssistantText(s) \in Seq(Character)
         /\ AssistantText(s \o t) = AssistantText(s) \o AssistantText(t)
<1>1. Expands(TextOf, Event, Character)
  BY TextIs
<1>2. FlatMap(TextOf, s) \in Seq(Character)
  BY <1>1, FlatMapType
<1>3. FlatMap(TextOf, s \o t) = FlatMap(TextOf, s) \o FlatMap(TextOf, t)
  BY <1>1, FlatMapConcat
<1>4. s \o t \in Seq(Event)
  OBVIOUS
<1> QED BY <1>2, <1>3, <1>4, TextIs

(* The text of one event, and of none.                                     *)
LEMMA TextOne ==
  /\ \A e \in Event : AssistantText(<<e>>) = e.text
  /\ AssistantText(<<>>) = <<>>
<1>1. ASSUME NEW e \in Event PROVE AssistantText(<<e>>) = e.text
  <2>1. Expands(TextOf, Event, Character)
    BY TextIs
  <2>2. FlatMap(TextOf, <<e>>) = TextOf[e]
    BY <2>1, FlatMapOne
  <2>3. <<e>> \in Seq(Event)
    OBVIOUS
  <2> QED BY <2>2, <2>3, TextIs DEF TextOf
<1>2. AssistantText(<<>>) = <<>>
  <2>1. FlatMap(TextOf, <<>>) = <<>>
    BY FlatMapEmpty
  <2>2. <<>> \in Seq(Event)
    OBVIOUS
  <2> QED BY <2>1, <2>2, TextIs
<1> QED BY <1>1, <1>2

(* The end of the first block, if there is one, lies within the text.      *)
EndLength(s) == IF s[Min(BlockEnds(s))] = "lf" THEN 2 ELSE 4

(* The first block and what is behind it; the latter is shorter.           *)
LEMMA BlockFacts ==
  ASSUME NEW s \in Seq(Character), BlockEnds(s) # {}
  PROVE  /\ Min(BlockEnds(s)) \in BlockEnds(s) /\ Min(BlockEnds(s)) \in 1..Len(s)
         /\ \A x \in BlockEnds(s) : Min(BlockEnds(s)) <= x
         /\ EndLength(s) \in 2..4 /\ Min(BlockEnds(s)) + EndLength(s) - 1 <= Len(s)
         /\ FirstBlock(s) \in Seq(Character) /\ AfterBlock(s) \in Seq(Character)
         /\ Len(AfterBlock(s)) < Len(s)
<1>1. Len(s) \in Nat /\ DOMAIN s = 1..Len(s) /\ BlockEnds(s) \in SUBSET (1..Len(s))
  BY DEF BlockEnds
<1>2. Min(BlockEnds(s)) \in BlockEnds(s) /\ \A x \in BlockEnds(s) : Min(BlockEnds(s)) <= x
  BY <1>1, MinIs
<1> DEFINE d == EndLength(s)
<1>3. PICK m \in 1..Len(s) : m = Min(BlockEnds(s)) /\ m \in BlockEnds(s)
  BY <1>1, <1>2
<1>4. EndsAt(s, m)
  BY <1>3 DEF BlockEnds
<1>5. CharAt(s, m) = s[m]
  BY <1>1 DEF CharAt
<1>6. \A i \in Int : CharAt(s, i) = "lf" => i <= Len(s)
  BY <1>1 DEF CharAt
<1>7. d \in 2..4 /\ m + d - 1 <= Len(s)
  <2>1. CASE s[m] = "lf"
    <3>1. CharAt(s, m + 1) = "lf"
      BY <1>4, <1>5, <2>1 DEF EndsAt
    <3>2. m + 1 <= Len(s)
      BY <1>6, <3>1
    <3>3. d = 2
      BY <1>3, <2>1 DEF EndLength
    <3> HIDE DEF d
    <3> QED BY <3>2, <3>3
  <2>2. CASE s[m] # "lf"
    <3>1. CharAt(s, m + 3) = "lf"
      BY <1>4, <1>5, <2>2 DEF EndsAt
    <3>2. m + 3 <= Len(s)
      BY <1>6, <3>1
    <3>3. d = 4
      BY <1>3, <2>2 DEF EndLength
    <3> HIDE DEF d
    <3> QED BY <3>2, <3>3
  <2> QED BY <2>1, <2>2
<1> HIDE DEF d
<1>8. FirstBlock(s) \in Seq(Character)
  <2>1. m - 1 \in 0..Len(s)
    BY <1>1
  <2> QED BY <1>3, <2>1, Split DEF FirstBlock
<1>9. AfterBlock(s) \in Seq(Character) /\ Len(AfterBlock(s)) < Len(s)
  <2>1. AfterBlock(s) = SubSeq(s, m + d, Len(s))
    BY <1>3 DEF AfterBlock, EndLength, d
  <2>2. PICK k \in 0..Len(s) : k + 1 = m + d /\ k # 0
    <3>1. m + d - 1 \in 0..Len(s) /\ (m + d - 1) + 1 = m + d /\ m + d - 1 # 0
      BY <1>1, <1>7
    <3> QED BY <3>1
  <2>3. SubSeq(s, k + 1, Len(s)) \in Seq(Character) /\ Len(SubSeq(s, k + 1, Len(s))) = Len(s) - k
    BY Split, Zenon
  <2>4. Len(s) - k < Len(s)
    BY <1>1, <2>2
  <2> QED BY <2>1, <2>2, <2>3, <2>4
<1> QED BY <1>2, <1>3, <1>7, <1>8, <1>9 DEF d

(* decode_sse_body is defined by its recursion.                            *)
LEMMA DecodedDef ==
  DecodedText = [s \in Seq(Character) |->
                   IF BlockEnds(s) = {} THEN <<>>
                   ELSE EventsOf(FirstBlock(s)) \o DecodedText[AfterBlock(s)]]
<1> DEFINE S == Seq(Character)
           R == Seq(Event)
           size == [s \in S |-> Len(s)]
           last == {s \in S : BlockEnds(s) = {}}
           base == [s \in S |-> <<>>]
           next == [s \in S |-> IF BlockEnds(s) = {} THEN s ELSE AfterBlock(s)]
           glue == [p \in S \X R |-> IF BlockEnds(p[1]) = {} THEN <<>>
                                     ELSE EventsOf(FirstBlock(p[1])) \o p[2]]
<1>1. size \in [S -> Nat] /\ last \in SUBSET S /\ base \in [S -> R]
  BY DEF Event
<1>2. next \in [S -> S]
  BY BlockFacts
<1>3. glue \in [S \X R -> R]
  <2> DEFINE joined(p) == EventsOf(FirstBlock(p[1])) \o p[2]
  <2> SUFFICES ASSUME NEW p \in S \X R, BlockEnds(p[1]) # {}
               PROVE  joined(p) \in R
    <3>1. <<>> \in R
      OBVIOUS
    <3> HIDE DEF S, R, joined
    <3>2. ASSUME \A p \in S \X R : BlockEnds(p[1]) # {} => joined(p) \in R
          PROVE  [p \in S \X R |-> IF BlockEnds(p[1]) = {} THEN <<>> ELSE joined(p)] \in [S \X R -> R]
      BY <3>1, <3>2
    <3> QED BY <3>2 DEF joined
  <2>1. p[1] \in S /\ p[2] \in R
    <3> HIDE DEF S, R
    <3> QED OBVIOUS
  <2>2. EventsOf(FirstBlock(p[1])) \in R
    <3>1. FirstBlock(p[1]) \in Seq(Character)
      BY <2>1, BlockFacts
    <3> QED BY <3>1, EventsAreEvents
  <2> QED BY <2>1, <2>2
<1>4. \A s \in S \ last : size[next[s]] < size[s]
  <2>1. \A s \in S \ last : AfterBlock(s) \in S /\ Len(AfterBlock(s)) < Len(s)
    BY BlockFacts
  <2> QED BY <2>1
<1>5. PICK f \in [S -> R] : \A s \in S : f[s] = StepOf(f, s, last, base, next, glue)
  <2>0. Shrinks(S, R, size, last, base, next, glue)
    <3> HIDE DEF S, R, size, last, base, next, glue
    <3> QED BY <1>1, <1>2, <1>3, <1>4 DEF Shrinks
  <2> HIDE DEF S, R, size, last, base, next, glue
  <2>1. \E f \in [S -> R] : \A s \in S : f[s] = StepOf(f, s, last, base, next, glue)
    BY <2>0, RecursionExists
  <2> QED BY <2>1
<1>6. ASSUME NEW s \in S
      PROVE  f[s] = IF BlockEnds(s) = {} THEN <<>>
                    ELSE EventsOf(FirstBlock(s)) \o f[AfterBlock(s)]
  <2>1. f[s] = IF s \in last THEN base[s] ELSE glue[<<s, f[next[s]]>>]
    BY <1>5 DEF StepOf
  <2>2. CASE BlockEnds(s) = {}
    BY <2>1, <2>2
  <2>3. CASE BlockEnds(s) # {}
    <3>1. AfterBlock(s) \in S /\ next[s] = AfterBlock(s)
      BY <2>3, BlockFacts
    <3>2. f[AfterBlock(s)] \in R
      BY <3>1
    <3> DEFINE r == f[AfterBlock(s)]
    <3> HIDE DEF r
    <3>3. <<s, r>> \in S \X R
      BY <3>2 DEF r
    <3>4. glue[<<s, r>>] = EventsOf(FirstBlock(s)) \o r
      <4> HIDE DEF S, R
      <4> QED BY <2>3, <3>3
    <3>5. s \notin last
      BY <2>3
    <3> HIDE DEF last, base, next, glue
    <3>6. f[s] = EventsOf(FirstBlock(s)) \o f[AfterBlock(s)]
      BY <2>1, <3>1, <3>4, <3>5 DEF r
    <3> QED BY <2>3, <3>6
  <2> QED BY <2>2, <2>3
<1>7. f = [s \in S |-> IF BlockEnds(s) = {} THEN <<>>
                       ELSE EventsOf(FirstBlock(s)) \o f[AfterBlock(s)]]
  <2> HIDE DEF S
  <2> QED BY <1>6
<1>8. \E g : g = [s \in S |-> IF BlockEnds(s) = {} THEN <<>>
                              ELSE EventsOf(FirstBlock(s)) \o g[AfterBlock(s)]]
  BY <1>7, Zenon
<1>9. DecodedText = CHOOSE g : g = [s \in S |-> IF BlockEnds(s) = {} THEN <<>>
                                     ELSE EventsOf(FirstBlock(s)) \o g[AfterBlock(s)]]
  BY Zenon DEF DecodedText
<1> QED BY <1>8, <1>9, Zenon

(* One block after another: the recursion of DecodedText ...               *)
LEMMA DecodedStep ==
  ASSUME NEW s \in Seq(Character)
  PROVE  /\ BlockEnds(s) = {} => DecodedText[s] = <<>>
         /\ BlockEnds(s) # {} =>
              DecodedText[s] = EventsOf(FirstBlock(s)) \o DecodedText[AfterBlock(s)]
<1>1. DecodedText[s] = IF BlockEnds(s) = {} THEN <<>>
                       ELSE EventsOf(FirstBlock(s)) \o DecodedText[AfterBlock(s)]
  BY DecodedDef, Zenon
<1> QED BY <1>1

(* ... yields events.                                                      *)
LEMMA DecodedIs ==
  ASSUME NEW s \in Seq(Character)
  PROVE  DecodedText[s] \in Seq(Event)
<1> DEFINE G == {r \in Seq(Character) : DecodedText[r] \in Seq(Event)}
<1>1. ASSUME NEW r \in Seq(Character),
             \A q \in Seq(Character) : Len(q) < Len(r) => q \in G
      PROVE  r \in G
  <2>1. CASE BlockEnds(r) = {}
    <3>1. DecodedText[r] = <<>>
      BY <2>1, DecodedStep
    <3>2. <<>> \in Seq(Event)
      OBVIOUS
    <3>3. DecodedText[r] \in Seq(Event)
      BY <3>1, <3>2, Zenon
    <3> QED BY <3>3
  <2>2. CASE BlockEnds(r) # {}
    <3>1. FirstBlock(r) \in Seq(Character) /\ AfterBlock(r) \in Seq(Character)
          /\ Len(AfterBlock(r)) < Len(r)
      BY <2>2, BlockFacts
    <3>2. DecodedText[AfterBlock(r)] \in Seq(Event)
      BY <1>1, <3>1
    <3>3. EventsOf(FirstBlock(r)) \in Seq(Event)
      BY <3>1, EventsAreEvents
    <3>4. DecodedText[r] = EventsOf(FirstBlock(r)) \o DecodedText[AfterBlock(r)]
      BY <2>2, DecodedStep
    <3> DEFINE a == EventsOf(FirstBlock(r))
               b == DecodedText[AfterBlock(r)]
    <3>5. a \in Seq(Event) /\ b \in Seq(Event)
      BY <3>2, <3>3
    <3> HIDE DEF a, b
    <3>6. a \o b \in Seq(Event)
      BY <3>5, ConcatProperties
    <3>7. DecodedText[r] \in Seq(Event)
      BY <3>4, <3>6, Zenon DEF a, b
    <3> QED BY <3>7
  <2> QED BY <2>1, <2>2
<1> HIDE DEF G
<1>2. G = Seq(Character)
  <2>1. G \in SUBSET Seq(Character)
    BY DEF G
  <2> QED BY <1>1, <2>1, ByLength
<1> QED BY <1>2 DEF G

(* A block that is complete stays as it is when the text goes on.          *)
LEMMA BlockGoesOn ==
  ASSUME NEW s \in Seq(Character), BlockEnds(s) # {}, NEW z \in Seq(Character)
  PROVE  /\ BlockEnds(s \o z) # {}
         /\ FirstBlock(s \o z) = FirstBlock(s)
         /\ AfterBlock(s \o z) = AfterBlock(s) \o z
<1> DEFINE q == s \o z
<1>1. /\ q \in Seq(Character) /\ Len(q) = Len(s) + Len(z) /\ Len(s) \in Nat /\ Len(z) \in Nat
      /\ DOMAIN s = 1..Len(s) /\ DOMAIN q = 1..Len(q)
      /\ \A i \in 1..Len(s) + Len(z) : q[i] = IF i <= Len(s) THEN s[i] ELSE z[i - Len(s)]
  <2>1. /\ q \in Seq(Character) /\ Len(q) = Len(s) + Len(z)
        /\ \A i \in 1..Len(s) + Len(z) : q[i] = IF i <= Len(s) THEN s[i] ELSE z[i - Len(s)]
    BY ConcatIs
  <2> HIDE DEF q
  <2> QED BY <2>1
<1>2. \A i \in Int : i <= Len(s) => CharAt(q, i) = CharAt(s, i)
  BY CharAtConcat
<1> HIDE DEF q
<1>3. PICK m \in 1..Len(s) : /\ m = Min(BlockEnds(s)) /\ m \in BlockEnds(s)
                             /\ \A x \in BlockEnds(s) : m <= x
  BY BlockFacts
<1> DEFINE d == EndLength(s)
<1>4. d \in 2..4 /\ m + d - 1 <= Len(s)
  BY <1>3, BlockFacts
<1>5. d = IF s[m] = "lf" THEN 2 ELSE 4
  BY <1>3 DEF EndLength
<1> HIDE DEF d
<1>6. EndsAt(s, m) /\ CharAt(s, m) = s[m]
  BY <1>1, <1>3 DEF BlockEnds, CharAt
<1>7. EndsAt(q, m)
  <2>1. CASE s[m] = "lf"
    <3>1. CharAt(s, m) = "lf" /\ CharAt(s, m + 1) = "lf"
      BY <1>6, <2>1 DEF EndsAt
    <3>2. m + 1 <= Len(s) /\ m <= Len(s)
      BY <1>4, <1>5, <2>1
    <3>3. CharAt(q, m) = "lf" /\ CharAt(q, m + 1) = "lf"
      BY <1>2, <3>1, <3>2
    <3> QED BY <3>3 DEF EndsAt
  <2>2. CASE s[m] # "lf"
    <3>1. /\ CharAt(s, m) = "cr" /\ CharAt(s, m + 1) = "lf"
          /\ CharAt(s, m + 2) = "cr" /\ CharAt(s, m + 3) = "lf"
      BY <1>6, <2>2 DEF EndsAt
    <3>2. m <= Len(s) /\ m + 1 <= Len(s) /\ m + 2 <= Len(s) /\ m + 3 <= Len(s)
      BY <1>4, <1>5, <2>2
    <3>3. /\ CharAt(q, m) = "cr" /\ CharAt(q, m + 1) = "lf"
          /\ CharAt(q, m + 2) = "cr" /\ CharAt(q, m + 3) = "lf"
      BY <1>2, <3>1, <3>2
    <3> QED BY <3>3 DEF EndsAt
  <2> QED BY <2>1, <2>2
<1>8. m \in BlockEnds(q)
  <2>1. m \in 1..Len(q)
    BY <1>1
  <2> QED BY <1>1, <1>7, <2>1 DEF BlockEnds
<1>9. ASSUME NEW x \in BlockEnds(q) PROVE m <= x
  <2> SUFFICES ASSUME x < m PROVE FALSE
    BY <1>1 DEF BlockEnds
  <2>1. x \in 1..Len(q) /\ EndsAt(q, x)
    BY <1>1 DEF BlockEnds
  <2>2. x \in 1..Len(s) /\ x + 1 \in 1..Len(s)
    BY <1>1, <2>1
  <2>3. CharAt(q, x) = CharAt(s, x) /\ CharAt(q, x + 1) = CharAt(s, x + 1)
    BY <1>2, <2>2
  <2>4. x \notin BlockEnds(s)
    <3>1. x \in BlockEnds(s) => m <= x
      BY <1>3
    <3> QED BY <2>2, <3>1
  <2>5. ~EndsAt(s, x)
    BY <1>1, <2>2, <2>4 DEF BlockEnds
  <2>6. /\ CharAt(q, x) = "cr" /\ CharAt(q, x + 1) = "lf"
        /\ CharAt(q, x + 2) = "cr" /\ CharAt(q, x + 3) = "lf"
    BY <2>1, <2>3, <2>5 DEF EndsAt
  <2>7. CASE x + 3 <= Len(s)
    <3>1. x + 2 <= Len(s) /\ x + 2 \in Int /\ x + 3 \in Int
      BY <2>2, <2>7
    <3>2. CharAt(q, x + 2) = CharAt(s, x + 2) /\ CharAt(q, x + 3) = CharAt(s, x + 3)
      BY <1>2, <2>7, <3>1
    <3> QED BY <2>3, <2>5, <2>6, <3>2 DEF EndsAt
  <2>8. CASE ~(x + 3 <= Len(s))
    <3>1. m = x + 1 /\ d = 2 /\ x + 2 <= Len(s)
      <4>1. x \in Int /\ m \in Int /\ Len(s) \in Int
        BY <2>2
      <4>2. m + 1 <= Len(s)
        BY <1>4, <4>1
      <4>3. m = x + 1 \/ m = x + 2
        BY <2>8, <4>1, <4>2
      <4>4. CASE m = x + 1
        <5>1. m + 3 > Len(s)
          BY <2>8, <4>1, <4>4
        <5>2. d # 4
          BY <1>4, <4>1, <5>1
        <5> QED BY <1>5, <4>1, <4>2, <4>4, <5>2
      <4>5. CASE m = x + 2
        BY <2>8, <4>1, <4>2, <4>5
      <4> QED BY <4>3, <4>4, <4>5
    <3>2. CharAt(s, x + 2) = "cr"
      BY <1>2, <2>2, <2>6, <3>1
    <3>3. s[m] = "lf"
      BY <1>5, <3>1
    <3>4. CharAt(s, m + 1) = "lf"
      BY <1>6, <3>3 DEF EndsAt
    <3>5. m + 1 = x + 2
      BY <2>2, <3>1
    <3> QED BY <3>2, <3>4, <3>5
  <2> QED BY <2>7, <2>8
<1>10. Min(BlockEnds(q)) = m
  <2>1. /\ Min(BlockEnds(q)) \in BlockEnds(q) /\ Min(BlockEnds(q)) \in 1..Len(q)
        /\ \A x \in BlockEnds(q) : Min(BlockEnds(q)) <= x
    BY <1>1, <1>8, BlockFacts
  <2> HIDE DEF d
  <2> QED BY <1>8, <1>9, <2>1
<1>11. q[m] = s[m]
  <2>1. m \in 1..Len(s) + Len(z) /\ m <= Len(s)
    BY <1>1
  <2> QED BY <1>1, <2>1
<1>12. FirstBlock(q) = FirstBlock(s)
  <2>1. FirstBlock(q) = SubSeq(q, 1, m - 1) /\ FirstBlock(s) = SubSeq(s, 1, m - 1)
    BY <1>3, <1>10 DEF FirstBlock
  <2>2. CASE m = 1
    <3>1. SubSeq(q, 1, 0) = <<>> /\ SubSeq(s, 1, 0) = <<>>
      BY SubSeqEmpty
    <3> QED BY <2>1, <2>2, <3>1
  <2>3. CASE m # 1
    <3>1. 1 \in 1..Len(s) /\ m - 1 \in 1..Len(s)
      BY <1>1, <2>3
    <3>2. SubSeq(s \o z, 1, m - 1) = SubSeq(s, 1, m - 1)
      BY <3>1, SubSeqOfConcat1
    <3> QED BY <2>1, <3>2 DEF q
  <2> QED BY <2>2, <2>3
<1>13. AfterBlock(q) = AfterBlock(s) \o z
  <2>1. AfterBlock(q) = SubSeq(q, m + d, Len(q)) /\ AfterBlock(s) = SubSeq(s, m + d, Len(s))
    BY <1>3, <1>5, <1>10, <1>11 DEF AfterBlock
  <2>2. PICK k \in 0..Len(s) : k + 1 = m + d
    <3>1. m + d - 1 \in 0..Len(s) /\ (m + d - 1) + 1 = m + d
      BY <1>1, <1>4
    <3> QED BY <3>1
  <2> DEFINE a == SubSeq(s, 1, k)
             b == SubSeq(s, k + 1, Len(s))
  <2>3. a \in Seq(Character) /\ b \in Seq(Character) /\ s = a \o b /\ Len(a) = k
    BY Split, Zenon
  <2> HIDE DEF a, b
  <2> DEFINE c == b \o z
  <2>4. c \in Seq(Character) /\ q = a \o c
    <3>1. (a \o b) \o z = a \o (b \o z)
      BY <2>3, InText, Zenon
    <3> QED BY <2>3, <3>1 DEF q
  <2> HIDE DEF c
  <2>5. SubSeq(a \o c, Len(a) + 1, Len(a \o c)) = c
    BY <2>3, <2>4, SplitConcat
  <2> QED BY <2>1, <2>2, <2>3, <2>4, <2>5 DEF b, c
<1> QED BY <1>8, <1>12, <1>13 DEF q

-----------------------------------------------------------------------------
(* The bytes that belong to characters.                                    *)
Sound == Character \cup {"lead", "cont"}
CharacterOf == [b \in Sound |-> CharOf(b)]

(* Chars maps each byte of a valid text to its characters.                 *)
LEMMA CharsIs ==
  /\ Expands(CharacterOf, Sound, Character)
  /\ \A s \in Seq(Sound) : Chars(s) = FlatMap(CharacterOf, s)
<1>1. Expands(CharacterOf, Sound, Character)
  <2>1. ASSUME NEW b \in Sound PROVE CharOf(b) \in Seq(Character)
    <3>1. CASE b = "cont"
      BY <3>1 DEF CharOf
    <3>2. CASE b = "lead"
      <4>1. "uc" \in Character
        BY StreamAssumption
      <4> QED BY <3>2, <4>1 DEF CharOf
    <3>3. CASE b # "cont" /\ b # "lead"
      <4>1. b \in Character
        BY <3>3 DEF Sound
      <4> QED BY <3>3, <4>1 DEF CharOf
    <3> QED BY <3>1, <3>2, <3>3
  <2> QED BY <2>1 DEF Expands, CharacterOf
<1>2. ASSUME NEW s \in Seq(Sound) PROVE Chars(s) = FlatMap(CharacterOf, s)
  <2>1. \A i \in DOMAIN s : s[i] \in Sound
    OBVIOUS
  <2>2. \A i \in DOMAIN s : CharacterOf[s[i]] = CharOf(s[i])
    BY <2>1 DEF CharacterOf
  <2>3. [i \in DOMAIN s |-> CharacterOf[s[i]]] = [i \in DOMAIN s |-> CharOf(s[i])]
    BY <2>2, Zenon
  <2> QED BY <2>3, Zenon DEF Chars, FlatMap
<1> QED BY <1>1, <1>2

(* They are decoded one after the other.                                   *)
LEMMA CharsConcat ==
  ASSUME NEW s \in Seq(Sound), NEW t \in Seq(Sound)
  PROVE  /\ Chars(s) \in Seq(Character)
         /\ Chars(s \o t) = Chars(s) \o Chars(t)
<1>1. Expands(CharacterOf, Sound, Character)
  BY CharsIs
<1>2. FlatMap(CharacterOf, s) \in Seq(Character)
  BY <1>1, FlatMapType
<1>3. FlatMap(CharacterOf, s \o t) = FlatMap(CharacterOf, s) \o FlatMap(CharacterOf, t)
  BY <1>1, FlatMapConcat
<1>4. s \o t \in Seq(Sound)
  OBVIOUS
<1> QED BY <1>2, <1>3, <1>4, CharsIs

(* No bytes, no characters.                                                *)
LEMMA CharsNone == Chars(<<>>) = <<>>
<1>1. FlatMap(CharacterOf, <<>>) = <<>>
  BY FlatMapEmpty
<1>2. <<>> \in Seq(Sound)
  OBVIOUS
<1> QED BY <1>1, <1>2, CharsIs

(* A body in which what is no character is replaced has only characters.   *)
LEMMA ReplacedIsSound ==
  ASSUME NEW b \in Seq(Byte)
  PROVE  Chars(Replaced(b)) \in Seq(Character)
<1>1. ASSUME NEW i \in 1..Len(b)
      PROVE  (IF i \in Broken(b) THEN "rep" ELSE b[i]) \in Sound
  <2>1. b[i] \in Byte /\ i \in DOMAIN b
    OBVIOUS
  <2>2. CASE i \in Broken(b)
    BY <2>2, StreamAssumption DEF Sound
  <2>3. CASE i \notin Broken(b)
    <3>1. b[i] # "bad"
      BY <2>1, <2>3 DEF Broken
    <3> QED BY <2>1, <2>3, <3>1 DEF Byte, Sound
  <2> QED BY <2>2, <2>3
<1>2. DOMAIN b = 1..Len(b) /\ Len(b) \in Nat
  OBVIOUS
<1> DEFINE at(i) == IF i \in Broken(b) THEN "rep" ELSE b[i]
<1>3. Replaced(b) = [i \in 1..Len(b) |-> at(i)]
  BY <1>2 DEF Replaced
<1>4. \A i \in 1..Len(b) : at(i) \in Sound
  BY <1>1
<1> HIDE DEF at
<1>5. [i \in 1..Len(b) |-> at(i)] \in Seq(Sound)
  BY <1>2, <1>4
<1> QED BY <1>3, <1>5, CharsConcat

(* The bytes up to the first that is no character's.                       *)
LEMMA ValidFacts ==
  ASSUME NEW b \in Seq(Byte)
  PROVE  /\ ValidUpTo(b) \in 0..Len(b)
         /\ \A i \in 1..ValidUpTo(b) : i \notin Broken(b)
         /\ ValidUpTo(b) < Len(b) => ValidUpTo(b) + 1 \in Broken(b)
         /\ Broken(b) \in SUBSET (1..Len(b))
<1>1. Len(b) \in Nat /\ DOMAIN b = 1..Len(b) /\ Broken(b) \in SUBSET (1..Len(b))
  BY DEF Broken
<1>2. CASE Broken(b) = {}
  BY <1>1, <1>2 DEF ValidUpTo
<1>3. CASE Broken(b) # {}
  <2>1. PICK m \in Broken(b) : m = Min(Broken(b)) /\ \A x \in Broken(b) : m <= x
    BY <1>1, <1>3, MinIs
  <2>2. ValidUpTo(b) = m - 1 /\ m \in 1..Len(b)
    BY <1>1, <1>3, <2>1 DEF ValidUpTo
  <2>3. m - 1 \in 0..Len(b) /\ (m - 1) + 1 = m
    BY <1>1, <2>2
  <2>4. \A i \in 1..m - 1 : ~(m <= i)
    BY <2>2
  <2>5. \A i \in 1..m - 1 : i \notin Broken(b)
    BY <2>1, <2>4
  <2> QED BY <1>1, <2>1, <2>2, <2>3, <2>5
<1> QED BY <1>2, <1>3

(* The valid bytes end before the first broken one.                        *)
LEMMA ValidIs ==
  ASSUME NEW b \in Seq(Byte), NEW v \in 0..Len(b),
         \A i \in 1..v : i \notin Broken(b), v < Len(b) => v + 1 \in Broken(b)
  PROVE  ValidUpTo(b) = v
<1>1. /\ ValidUpTo(b) \in 0..Len(b)
      /\ \A i \in 1..ValidUpTo(b) : i \notin Broken(b)
      /\ ValidUpTo(b) < Len(b) => ValidUpTo(b) + 1 \in Broken(b)
  BY ValidFacts
<1>2. ~(ValidUpTo(b) < v)
  <2> SUFFICES ASSUME ValidUpTo(b) < v PROVE FALSE
    OBVIOUS
  <2>1. ValidUpTo(b) + 1 \in 1..v /\ ValidUpTo(b) < Len(b)
    BY <1>1
  <2> QED BY <1>1, <2>1
<1>3. ~(v < ValidUpTo(b))
  <2> SUFFICES ASSUME v < ValidUpTo(b) PROVE FALSE
    OBVIOUS
  <2>1. v + 1 \in 1..ValidUpTo(b) /\ v < Len(b)
    BY <1>1
  <2> QED BY <1>1, <2>1
<1> QED BY <1>1, <1>2, <1>3

(* The valid bytes are the bytes of characters.                            *)
LEMMA ValidIsSound ==
  ASSUME NEW b \in Seq(Byte), NEW v \in 0..ValidUpTo(b)
  PROVE  SubSeq(b, 1, v) \in Seq(Sound)
<1>1. Len(b) \in Nat /\ ValidUpTo(b) \in 0..Len(b) /\ \A i \in 1..ValidUpTo(b) : i \notin Broken(b)
  BY ValidFacts
<1>2. \A i \in 1..v : i \in 1..ValidUpTo(b) /\ i \in 1..Len(b)
  BY <1>1
<1>3. ASSUME NEW i \in 1..v PROVE b[i] \in Sound
  <2>1. b[i] \in Byte /\ i \in DOMAIN b /\ i \notin Broken(b)
    BY <1>1, <1>2
  <2>2. b[i] # "bad"
    BY <2>1 DEF Broken
  <2> QED BY <2>1, <2>2 DEF Byte, Sound
<1>4. v \in Int
  BY <1>1
<1> QED BY <1>3, <1>4, SubSeqProperties

(* The bytes behind the valid ones can be read by themselves: what was     *)
(* valid stays so when more bytes come, and ends with a character.         *)
LEMMA ValidGoesOn ==
  ASSUME NEW q \in Seq(Byte), NEW r \in 0..Len(q), NEW v, v = ValidUpTo(SubSeq(q, 1, r))
  PROVE  /\ v \in 0..r
         /\ SubSeq(q, v + 1, Len(q)) \in Seq(Byte)
         /\ ValidUpTo(q) = v + ValidUpTo(SubSeq(q, v + 1, Len(q)))
<1> DEFINE p == SubSeq(q, 1, r)
           t == SubSeq(q, r + 1, Len(q))
<1>1. /\ p \in Seq(Byte) /\ Len(p) = r /\ t \in Seq(Byte) /\ q = p \o t
      /\ \A i \in 1..r : p[i] = q[i]
  BY Split, Zenon
<1> HIDE DEF p, t
<1>2. /\ v \in 0..r /\ (\A i \in 1..v : i \notin Broken(p)) /\ (v < r => v + 1 \in Broken(p))
  <2>1. v = ValidUpTo(p)
    BY DEF p
  <2> QED BY <1>1, <2>1, ValidFacts
<1>3. r \in Nat /\ v \in Nat /\ Len(q) \in Nat /\ v <= r /\ r <= Len(q) /\ v \in 0..Len(q)
  BY <1>2
<1> DEFINE a == SubSeq(q, 1, v)
           b == SubSeq(q, v + 1, Len(q))
<1>4. /\ a \in Seq(Byte) /\ Len(a) = v /\ b \in Seq(Byte) /\ Len(b) = Len(q) - v /\ q = a \o b
      /\ \A i \in 1..Len(q) - v : b[i] = q[v + i]
  BY <1>3, Split
<1> HIDE DEF a, b
<1>5. \A i \in Int : i <= r => CharAt(q, i) = CharAt(p, i)
  BY <1>1, CharAtConcat
<1>6. \A i \in Int : i > 0 => CharAt(q, v + i) = CharAt(b, i)
  <2> TAKE i \in Int
  <2>1. i > 0 => CharAt(a \o b, Len(a) + i) = CharAt(b, i)
    BY <1>4, CharAtConcat
  <2> QED BY <1>4, <2>1
<1>7. \A i \in Int : CharAt(p, i) # "" => i \in 1..r
  <2>1. DOMAIN p = 1..r
    BY <1>1
  <2> QED BY <2>1 DEF CharAt
<1>8. DOMAIN p = 1..r /\ DOMAIN q = 1..Len(q) /\ DOMAIN b = 1..Len(b)
  <2>1. \A s \in Seq(Byte) : DOMAIN s = 1..Len(s)
    OBVIOUS
  <2> QED BY <1>1, <1>4, <2>1
<1>9. ASSUME NEW i \in 1..v PROVE i \notin Broken(q)
  <2>1. i \in 1..r /\ i \in 1..Len(q) /\ i - 1 \in Int /\ i - 1 <= r /\ i + 1 \in Int
    BY <1>3
  <2>2. q[i] = p[i] /\ i \notin Broken(p) /\ CharAt(q, i - 1) = CharAt(p, i - 1)
    BY <1>1, <1>2, <1>5, <2>1
  <2>3. /\ p[i] # "bad"
        /\ p[i] = "lead" => CharAt(p, i + 1) = "cont"
        /\ p[i] = "cont" => CharAt(p, i - 1) = "lead"
    BY <1>8, <2>1, <2>2 DEF Broken
  <2>4. CharAt(p, i + 1) = "cont" => CharAt(q, i + 1) = "cont"
    <3> SUFFICES ASSUME CharAt(p, i + 1) = "cont" PROVE CharAt(q, i + 1) = "cont"
      OBVIOUS
    <3>1. i + 1 \in 1..r
      BY <1>7, <2>1
    <3> QED BY <1>5, <3>1
  <2> QED BY <2>2, <2>3, <2>4 DEF Broken
<1>10. CharAt(q, v) # "lead"
  <2> SUFFICES ASSUME CharAt(q, v) = "lead" PROVE FALSE
    OBVIOUS
  <2>1. CharAt(p, v) = "lead" /\ v \in 1..r
    <3>1. CharAt(p, v) = "lead"
      BY <1>3, <1>5
    <3>2. v \in Int /\ "lead" # ""
      BY <1>3
    <3> QED BY <1>7, <3>1, <3>2
  <2>2. p[v] = "lead" /\ v \in 1..v
    BY <1>3, <1>8, <2>1 DEF CharAt
  <2>3. CharAt(p, v + 1) = "cont"
    BY <1>2, <1>8, <2>1, <2>2 DEF Broken
  <2>4. v + 1 \in 1..r
    <3>1. v + 1 \in Int /\ "cont" # ""
      BY <1>3
    <3> QED BY <1>7, <2>3, <3>1
  <2>5. p[v + 1] = "cont"
    BY <1>8, <2>3, <2>4 DEF CharAt
  <2>6. v + 1 \in Broken(p)
    BY <1>2, <1>3, <2>4
  <2>7. (v + 1) - 1 = v
    BY <1>3
  <2>8. CharAt(p, (v + 1) - 1) # "lead"
    BY <2>5, <2>6 DEF Broken
  <2> QED BY <2>1, <2>7, <2>8
<1>11. ASSUME NEW j \in 1..Len(b) PROVE v + j \in Broken(q) <=> j \in Broken(b)
  <2>1. /\ v + j \in 1..Len(q) /\ j \in 1..Len(q) - v /\ (v + j) + 1 = v + (j + 1)
        /\ j + 1 \in Int /\ j + 1 > 0 /\ j - 1 \in Int /\ (v + j) - 1 = v + (j - 1)
    BY <1>3, <1>4
  <2>2. q[v + j] = b[j] /\ CharAt(q, (v + j) + 1) = CharAt(b, j + 1)
    BY <1>4, <1>6, <2>1
  <2>3. CharAt(q, (v + j) - 1) = "lead" <=> CharAt(b, j - 1) = "lead"
    <3>1. CASE j > 1
      <4>1. j - 1 > 0
        BY <3>1
      <4> QED BY <1>6, <2>1, <4>1
    <3>2. CASE j = 1
      <4>1. (v + j) - 1 = v /\ 0 \notin DOMAIN b /\ j - 1 = 0
        BY <1>3, <1>8, <3>2
      <4>2. CharAt(b, j - 1) = ""
        BY <4>1 DEF CharAt
      <4> QED BY <1>10, <4>1, <4>2
    <3>3. j > 1 \/ j = 1
      OBVIOUS
    <3> QED BY <3>1, <3>2, <3>3
  <2> QED BY <1>8, <2>1, <2>2, <2>3 DEF Broken
<1> DEFINE w == ValidUpTo(b)
<1>12. /\ w \in 0..Len(b) /\ (\A i \in 1..w : i \notin Broken(b))
       /\ w < Len(b) => w + 1 \in Broken(b)
  BY <1>4, ValidFacts
<1> HIDE DEF w
<1>13. v + w \in 0..Len(q) /\ Len(b) \in Nat
  BY <1>3, <1>4, <1>12
<1>14. ASSUME NEW i \in 1..v + w PROVE i \notin Broken(q)
  <2>1. CASE i <= v
    BY <1>3, <1>9, <2>1
  <2>2. CASE ~(i <= v)
    <3>1. i - v \in 1..w /\ i - v \in 1..Len(b) /\ v + (i - v) = i
      BY <1>3, <1>12, <1>13, <2>2
    <3> QED BY <1>11, <1>12, <3>1
  <2> QED BY <2>1, <2>2
<1>15. ASSUME v + w < Len(q) PROVE (v + w) + 1 \in Broken(q)
  <2>1. w < Len(b) /\ w + 1 \in 1..Len(b) /\ v + (w + 1) = (v + w) + 1
    <3>1. Len(b) = Len(q) - v /\ w \in Nat
      BY <1>4, <1>12, <1>13
    <3> QED BY <1>3, <1>13, <1>15, <3>1
  <2> QED BY <1>11, <1>12, <2>1
<1>16. ValidUpTo(q) = v + w
  BY <1>13, <1>14, <1>15, ValidIs
<1> QED BY <1>2, <1>4, <1>16 DEF b, w

(* A part of a sequence, and a part of that.                               *)
LEMMA PartIs ==
  ASSUME NEW S, NEW s \in Seq(S), NEW n \in 0..Len(s), NEW m \in 0..n
  PROVE  /\ SubSeq(s, m + 1, n) \in Seq(S) /\ Len(SubSeq(s, m + 1, n)) = n - m
         /\ \A i \in 1..n - m : SubSeq(s, m + 1, n)[i] = s[m + i]
<1>1. Len(s) \in Nat /\ n \in Nat /\ m \in Nat /\ m <= n /\ n <= Len(s)
  OBVIOUS
<1>2. \A i \in (m + 1)..n : s[i] \in S
  <2>1. \A i \in (m + 1)..n : i \in 1..Len(s)
    BY <1>1
  <2> QED BY <2>1, ElementOfSeq
<1> DEFINE b == SubSeq(s, m + 1, n)
<1>3. /\ b \in Seq(S) /\ Len(b) = IF m + 1 <= n THEN n - (m + 1) + 1 ELSE 0
      /\ \A i \in 1..n - (m + 1) + 1 : b[i] = s[(m + 1) + i - 1]
  BY <1>1, <1>2, SubSeqProperties
<1>4. \A i \in 1..n - m : (m + 1) + i - 1 = m + i /\ i \in 1..n - (m + 1) + 1
  BY <1>1
<1> HIDE DEF b
<1>5. b \in Seq(S) /\ Len(b) = n - m /\ \A i \in 1..n - m : b[i] = s[m + i]
  BY <1>1, <1>3, <1>4
<1> QED BY <1>5 DEF b

(* A part of a part is a part of the whole.                                *)
LEMMA PartOfPart ==
  ASSUME NEW S, NEW s \in Seq(S), NEW n \in 0..Len(s), NEW m \in 0..n,
         NEW l \in 0..n - m, NEW k \in 0..l
  PROVE  SubSeq(SubSeq(s, m + 1, n), k + 1, l) = SubSeq(s, m + k + 1, m + l)
<1>1. Len(s) \in Nat /\ n \in Nat /\ m \in Nat /\ l \in Nat /\ k \in Nat /\ m <= n /\ n <= Len(s)
      /\ k <= l /\ l <= n - m
  OBVIOUS
<1>2. m + l \in 0..Len(s) /\ m + k \in 0..m + l /\ (m + l) - (m + k) = l - k
  BY <1>1
<1> DEFINE b == SubSeq(s, m + 1, n)
           c == SubSeq(b, k + 1, l)
           d == SubSeq(s, m + k + 1, m + l)
<1>3. b \in Seq(S) /\ Len(b) = n - m /\ \A i \in 1..n - m : b[i] = s[m + i]
  BY PartIs
<1>4. c \in Seq(S) /\ Len(c) = l - k /\ \A i \in 1..l - k : c[i] = b[k + i]
  <2> HIDE DEF b
  <2>1. l \in 0..Len(b)
    BY <1>3
  <2> QED BY <1>3, <2>1, PartIs
<1>5. d \in Seq(S) /\ Len(d) = l - k /\ \A i \in 1..l - k : d[i] = s[(m + k) + i]
  <2> DEFINE x == m + l
             y == m + k
  <2>1. x \in 0..Len(s) /\ y \in 0..x /\ x - y = l - k
    BY <1>2
  <2> HIDE DEF x, y
  <2>2. /\ SubSeq(s, y + 1, x) \in Seq(S) /\ Len(SubSeq(s, y + 1, x)) = x - y
        /\ \A i \in 1..x - y : SubSeq(s, y + 1, x)[i] = s[y + i]
    BY <2>1, PartIs
  <2> QED BY <2>1, <2>2 DEF x, y
<1> HIDE DEF b, c, d
<1>6. ASSUME NEW i \in 1..l - k PROVE c[i] = d[i]
  <2>1. k + i \in 1..n - m /\ m + (k + i) = (m + k) + i
    BY <1>1
  <2> QED BY <1>3, <1>4, <1>5, <2>1
<1>7. c = d
  BY <1>4, <1>5, <1>6, SeqEqual
<1> QED BY <1>7 DEF b, c, d

(* The valid bytes of the first r, of the first r + n, and what feed makes *)
(* of the n bytes between.                                                 *)
ValidOf(q, n) == ValidUpTo(SubSeq(q, 1, n))
FedOf(q, r, n, chars) == Feed(SubSeq(q, ValidOf(q, r) + 1, r), chars, SubSeq(q, r + 1, r + n))
Fed(q, r, n, chars) ==
  /\ FedOf(q, r, n, chars).held = SubSeq(q, ValidOf(q, r + n) + 1, r + n)
  /\ \E t \in Seq(Character) :
       /\ FedOf(q, r, n, chars).text = chars \o t
       /\ Chars(SubSeq(q, 1, ValidOf(q, r))) \in Seq(Character)
       /\ Chars(SubSeq(q, 1, ValidOf(q, r + n))) = Chars(SubSeq(q, 1, ValidOf(q, r))) \o t

(* What a chunk adds to the text is what it adds to the valid bytes.       *)
LEMMA FedIs ==
  ASSUME NEW q \in Seq(Byte), NEW r \in 0..Len(q), NEW n \in 0..Len(q) - r,
         NEW chars \in Seq(Character)
  PROVE  Fed(q, r, n, chars)
<1> DEFINE v == ValidOf(q, r)
           w == ValidOf(q, r + n)
           fed == FedOf(q, r, n, chars)
<1>a. v = ValidUpTo(SubSeq(q, 1, r)) /\ w = ValidUpTo(SubSeq(q, 1, r + n))
  BY DEF ValidOf
<1>b. fed = Feed(SubSeq(q, v + 1, r), chars, SubSeq(q, r + 1, r + n))
  BY DEF FedOf
<1> USE <1>a, <1>b
<1> HIDE DEF v, w, fed
<1> DEFINE e == r + n
           Q == SubSeq(q, 1, e)
<1>1. Len(q) \in Nat /\ r \in Nat /\ n \in Nat /\ e \in 0..Len(q) /\ r \in 0..e
  OBVIOUS
<1>2. Q \in Seq(Byte) /\ Len(Q) = e /\ \A i \in 1..e : Q[i] = q[i]
  <2> HIDE DEF e
  <2> QED BY <1>1, Split
<1> HIDE DEF e, Q
<1>3. SubSeq(Q, 1, r) = SubSeq(q, 1, r)
  <2>1. SubSeq(SubSeq(q, 0 + 1, e), 0 + 1, r) = SubSeq(q, 0 + 0 + 1, 0 + r)
    <3>1. 0 \in 0..e /\ r \in 0..e - 0 /\ 0 \in 0..r
      BY <1>1
    <3> QED BY <1>1, <3>1, PartOfPart
  <2>2. 0 + 1 = 1 /\ 0 + 0 + 1 = 1 /\ 0 + r = r
    BY <1>1
  <2> QED BY <2>1, <2>2 DEF Q
<1> DEFINE all == SubSeq(Q, v + 1, Len(Q))
<1>4. v \in 0..r /\ all \in Seq(Byte) /\ ValidUpTo(Q) = v + ValidUpTo(all)
  <2>1. r \in 0..Len(Q) /\ v = ValidUpTo(SubSeq(Q, 1, r))
    BY <1>1, <1>2, <1>3
  <2> QED BY <1>2, <2>1, ValidGoesOn
<1>5. v \in Nat /\ v \in 0..e
  BY <1>1, <1>4
<1>6. all = SubSeq(q, v + 1, e)
  <2>1. SubSeq(SubSeq(q, 0 + 1, e), v + 1, e) = SubSeq(q, 0 + v + 1, 0 + e)
    <3>1. 0 \in 0..e /\ e \in 0..e - 0
      BY <1>1
    <3> QED BY <1>1, <1>5, <3>1, PartOfPart
  <2>2. 0 + 1 = 1 /\ 0 + v + 1 = v + 1 /\ 0 + e = e
    BY <1>1, <1>5
  <2> QED BY <1>2, <2>1, <2>2 DEF Q
<1>7. SubSeq(q, v + 1, r) \o SubSeq(q, r + 1, e) = all
  <2>1. v + 1 \in 1..Len(q) + 1 /\ r \in (v + 1) - 1..Len(q) /\ e \in r..Len(q)
    BY <1>1, <1>4, <1>5
  <2>2. SubSeq(q, v + 1, r) \o SubSeq(q, r + 1, e) = SubSeq(q, v + 1, e)
    BY <2>1, ConcatAdjacentSubSeq
  <2> QED BY <1>6, <2>2
<1> HIDE DEF all
<1> DEFINE m == ValidUpTo(all)
<1>8. m \in 0..Len(all) /\ Len(all) = e - v /\ w = v + m
  <2>1. m \in 0..Len(all)
    BY <1>4, ValidFacts
  <2>2. Len(all) = e - v
    BY <1>1, <1>5, <1>6, PartIs
  <2>3. w = ValidUpTo(Q)
    BY DEF Q, e
  <2> QED BY <1>4, <2>1, <2>2, <2>3
<1>9. fed.text = chars \o Chars(SubSeq(all, 1, m)) /\ fed.held = SubSeq(all, m + 1, Len(all))
  BY <1>7 DEF Feed, e
<1> DEFINE t == Chars(SubSeq(all, 1, m))
<1>10. fed.held = SubSeq(q, w + 1, e)
  <2>1. Len(all) \in 0..e - v /\ m \in 0..Len(all)
    BY <1>1, <1>5, <1>8
  <2> HIDE DEF m
  <2>2. SubSeq(SubSeq(q, v + 1, e), m + 1, Len(all)) = SubSeq(q, v + m + 1, v + Len(all))
    BY <1>1, <1>5, <2>1, PartOfPart
  <2>3. v + m + 1 = w + 1 /\ v + Len(all) = e
    BY <1>1, <1>5, <1>8
  <2> QED BY <1>6, <1>9, <2>2, <2>3
<1>11. SubSeq(all, 1, m) \in Seq(Sound)
  <2>1. m \in 0..ValidUpTo(all)
    BY <1>8
  <2> QED BY <1>4, <2>1, ValidIsSound
<1>12. t \in Seq(Character)
  BY <1>11, CharsConcat
<1>13. SubSeq(q, 1, v) \in Seq(Sound)
  <2> DEFINE p == SubSeq(q, 1, r)
  <2>1. p \in Seq(Byte) /\ v = ValidUpTo(p)
    BY Split
  <2> HIDE DEF p
  <2>2. v \in 0..ValidUpTo(p)
    BY <1>5, <2>1
  <2>3. SubSeq(p, 1, v) \in Seq(Sound)
    BY <2>1, <2>2, ValidIsSound
  <2>4. SubSeq(SubSeq(q, 0 + 1, r), 0 + 1, v) = SubSeq(q, 0 + 0 + 1, 0 + v)
    <3>1. 0 \in 0..r /\ v \in 0..r - 0 /\ 0 \in 0..v
      BY <1>1, <1>4, <1>5
    <3> QED BY <3>1, PartOfPart
  <2>5. 0 + 1 = 1 /\ 0 + 0 + 1 = 1 /\ 0 + v = v
    BY <1>5
  <2> QED BY <2>3, <2>4, <2>5 DEF p
<1>14. SubSeq(q, 1, w) = SubSeq(q, 1, v) \o SubSeq(all, 1, m)
  <2> HIDE DEF m
  <2>1. SubSeq(SubSeq(q, v + 1, e), 0 + 1, m) = SubSeq(q, v + 0 + 1, v + m)
    <3>1. m \in 0..e - v /\ 0 \in 0..m
      BY <1>1, <1>5, <1>8
    <3> QED BY <1>1, <1>5, <3>1, PartOfPart
  <2>2. 0 + 1 = 1 /\ v + 0 + 1 = v + 1
    BY <1>5
  <2>3. 1 \in 1..Len(q) + 1 /\ v \in 1 - 1..Len(q) /\ w \in v..Len(q)
    BY <1>1, <1>4, <1>5, <1>8
  <2>4. SubSeq(q, 1, v) \o SubSeq(q, v + 1, w) = SubSeq(q, 1, w)
    BY <2>3, ConcatAdjacentSubSeq
  <2> QED BY <1>6, <1>8, <2>1, <2>2, <2>4
<1>15. Chars(SubSeq(q, 1, w)) = Chars(SubSeq(q, 1, v)) \o t
  <2> DEFINE a == SubSeq(q, 1, v)
             b == SubSeq(all, 1, m)
  <2>1. a \in Seq(Sound) /\ b \in Seq(Sound)
    BY <1>11, <1>13
  <2> HIDE DEF a, b
  <2>2. Chars(a \o b) = Chars(a) \o Chars(b)
    BY <2>1, CharsConcat
  <2> QED BY <1>14, <2>2 DEF a, b
<1>16. Chars(SubSeq(q, 1, v)) \in Seq(Character)
  BY <1>13, CharsConcat
<1>17. fed.held = SubSeq(q, w + 1, r + n)
  BY <1>10 DEF e
<1>18. fed.text = chars \o t
  BY <1>9
<1> HIDE DEF t
<1> QED BY <1>12, <1>15, <1>16, <1>17, <1>18 DEF Fed, v, w, fed

(* What the decoder returns of a block is what a whole text yields.        *)
LEMMA PopDecodes ==
  ASSUME NEW s \in Seq(Character), BlockEnds(s) # {}, NEW evs \in Seq(Event),
         NEW z \in Seq(Character)
  PROVE  (evs \o EventsOf(FirstBlock(s))) \o DecodedText[AfterBlock(s) \o z]
           = evs \o DecodedText[s \o z]
<1>1. s \o z \in Seq(Character)
  OBVIOUS
<1>2. /\ BlockEnds(s \o z) # {} /\ FirstBlock(s \o z) = FirstBlock(s)
      /\ AfterBlock(s \o z) = AfterBlock(s) \o z
  BY BlockGoesOn
<1>3. DecodedText[s \o z] = EventsOf(FirstBlock(s)) \o DecodedText[AfterBlock(s) \o z]
  BY <1>1, <1>2, DecodedStep
<1> DEFINE a == EventsOf(FirstBlock(s))
           b == DecodedText[AfterBlock(s) \o z]
<1>4. FirstBlock(s) \in Seq(Character) /\ AfterBlock(s) \in Seq(Character)
  BY BlockFacts
<1>5. a \in Seq(Event)
  BY <1>4, EventsAreEvents
<1>6. b \in Seq(Event)
  <2>1. AfterBlock(s) \o z \in Seq(Character)
    BY <1>4
  <2> QED BY <2>1, DecodedIs
<1> HIDE DEF a, b
<1>7. (evs \o a) \o b = evs \o (a \o b)
  <2>1. Joins(Event)
    BY AllJoin
  <2> QED BY <1>5, <1>6, <2>1, Zenon DEF Joins
<1> QED BY <1>3, <1>7 DEF a, b

-----------------------------------------------------------------------------
(***************************************************************************)
(* The stream: chunks do not matter.                                       *)
(***************************************************************************)

(* How many of the bytes that have arrived are valid, and what the bytes   *)
(* decode to, however the text goes on.                                    *)
Valid(n) == ValidUpTo(SubSeq(body, 1, n))
Decoded(s, evs, rest) ==
  \A z \in Seq(Character) : DecodedText[s \o z] = evs \o DecodedText[rest \o z]

(* The inductive invariant of the decoder: what was returned, with what    *)
(* the buffers still hold, is what the valid bytes decode to.              *)
DecoderInv ==
  /\ body \in Bodies /\ received \in 0..Len(body) /\ way \in {"collected", "streamed"}
  /\ events \in Seq(Event) /\ text \in Seq(Character) /\ uttered \in 0..Len(events)
  /\ stage \in {"reading", "streamed", "speaking", "replying", "done", "lost", "failed"}
  /\ stage = "reading" => uttered = 0
  /\ way = "collected" => undecoded = <<>> /\ text = <<>>
  /\ way = "streamed" =>
       /\ undecoded = SubSeq(body, Valid(received) + 1, received)
       /\ Decoded(Chars(SubSeq(body, 1, Valid(received))), events, text)
  /\ stage = "streamed" => way = "streamed" /\ received = Len(body) /\ BlockEnds(text) = {}

(* At first nothing has arrived and nothing was decoded.                   *)
LEMMA DecoderStarts == StreamInit => DecoderInv
<1> SUFFICES ASSUME StreamInit PROVE DecoderInv
  OBVIOUS
<1>1. body \in Bodies /\ body \in Seq(Byte) /\ Len(body) \in Nat
  BY StreamAssumption DEF StreamInit
<1>2. SubSeq(body, 1, 0) = <<>>
  BY SubSeqEmpty
<1>3. Valid(0) = 0
  <2>1. Broken(<<>>) = {}
    BY DEF Broken
  <2> QED BY <1>2, <2>1 DEF Valid, ValidUpTo
<1>4. Decoded(Chars(<<>>), <<>>, <<>>)
  <2> SUFFICES ASSUME NEW z \in Seq(Character)
               PROVE  DecodedText[<<>> \o z] = <<>> \o DecodedText[<<>> \o z]
    BY CharsNone DEF Decoded
  <2>1. <<>> \o z = z /\ DecodedText[z] \in Seq(Event)
    BY DecodedIs
  <2>2. \A d \in Seq(Event) : <<>> \o d = d
    OBVIOUS
  <2> QED BY <2>1, <2>2
<1>5. /\ received = 0 /\ undecoded = <<>> /\ text = <<>> /\ events = <<>> /\ uttered = 0
      /\ stage = "reading" /\ way \in {"collected", "streamed"}
  BY DEF StreamInit
<1>6. undecoded = SubSeq(body, Valid(received) + 1, received)
  <2>1. SubSeq(body, 0 + 1, 0) = <<>>
    BY <1>2
  <2> QED BY <1>3, <1>5, <2>1
<1>7. Decoded(Chars(SubSeq(body, 1, Valid(received))), events, text)
  BY <1>2, <1>3, <1>4, <1>5
<1>8. events \in Seq(Event) /\ text \in Seq(Character) /\ Len(events) = 0
  BY <1>5
<1>9. received \in 0..Len(body) /\ uttered \in 0..Len(events)
  BY <1>1, <1>5, <1>8
<1> QED BY <1>1, <1>5, <1>6, <1>7, <1>8, <1>9 DEF DecoderInv

(* pop_event moves a block from the buffer to the events.                  *)
LEMMA PopKeepsDecoder == DecoderInv /\ Pop => DecoderInv'
<1> SUFFICES ASSUME DecoderInv, Pop PROVE DecoderInv'
  OBVIOUS
<1>1. /\ body' = body /\ way' = way /\ received' = received /\ undecoded' = undecoded
      /\ stage' = "reading" /\ stage = "reading" /\ uttered' = uttered
      /\ BlockEnds(text) # {}
      /\ events' = events \o EventsOf(FirstBlock(text)) /\ text' = AfterBlock(text)
  BY DEF Pop, Quiet, BlockReady
<1>2. /\ body \in Bodies /\ received \in 0..Len(body) /\ way \in {"collected", "streamed"}
      /\ events \in Seq(Event) /\ text \in Seq(Character) /\ uttered = 0
  BY <1>1 DEF DecoderInv
<1>3. way = "streamed"
  <2>1. BlockEnds(<<>>) = {}
    BY DEF BlockEnds
  <2> QED BY <1>1, <1>2, <2>1 DEF DecoderInv
<1>4. /\ undecoded = SubSeq(body, Valid(received) + 1, received)
      /\ Decoded(Chars(SubSeq(body, 1, Valid(received))), events, text)
  BY <1>3 DEF DecoderInv
<1>5. FirstBlock(text) \in Seq(Character) /\ AfterBlock(text) \in Seq(Character)
  BY <1>1, <1>2, BlockFacts
<1>6. EventsOf(FirstBlock(text)) \in Seq(Event)
  BY <1>5, EventsAreEvents
<1>7. events' \in Seq(Event) /\ text' \in Seq(Character)
  BY <1>1, <1>2, <1>5, <1>6
<1>8. uttered' \in 0..Len(events')
  <2>1. Len(events') \in Nat
    BY <1>7
  <2> QED BY <1>1, <1>2, <2>1
<1>9. Decoded(Chars(SubSeq(body, 1, Valid(received))), events', text')
  <2> DEFINE s == Chars(SubSeq(body, 1, Valid(received)))
  <2>1. \A z \in Seq(Character) : DecodedText[s \o z] = events \o DecodedText[text \o z]
    BY <1>4 DEF Decoded
  <2>2. \A z \in Seq(Character) : events' \o DecodedText[text' \o z] = events \o DecodedText[text \o z]
    BY <1>1, <1>2, PopDecodes
  <2> HIDE DEF s
  <2>3. Decoded(s, events', text')
    BY <2>1, <2>2, Zenon DEF Decoded
  <2> QED BY <2>3 DEF s
<1>10. Valid(received)' = Valid(received)
  BY <1>1 DEF Valid
<1>11. /\ undecoded' = SubSeq(body', Valid(received)' + 1, received')
       /\ Decoded(Chars(SubSeq(body, 1, Valid(received))), events, text)'
  <2>1. undecoded' = SubSeq(body', Valid(received)' + 1, received')
    BY <1>1, <1>4, <1>10
  <2>2. Decoded(Chars(SubSeq(body, 1, Valid(received))), events, text)'
    BY <1>1, <1>9, <1>10, Zenon DEF Decoded
  <2> QED BY <2>1, <2>2
<1> QED BY <1>1, <1>2, <1>3, <1>7, <1>8, <1>11 DEF DecoderInv

(* A chunk completes characters that the last ones left open.              *)
LEMMA ChunkKeepsDecoder ==
  ASSUME DecoderInv, NEW n \in 1..(Len(body) - received), Chunk(n)
  PROVE  DecoderInv'
<1>1. /\ body' = body /\ way' = way /\ received' = received + n /\ way = "streamed"
      /\ stage' = "reading" /\ stage = "reading" /\ uttered' = uttered /\ events' = events
      /\ text' = Feed(undecoded, text, SubSeq(body, received + 1, received + n)).text
      /\ undecoded' = Feed(undecoded, text, SubSeq(body, received + 1, received + n)).held
  BY DEF Chunk, Quiet
<1>2. /\ body \in Bodies /\ body \in Seq(Byte) /\ received \in 0..Len(body)
      /\ events \in Seq(Event) /\ text \in Seq(Character)
      /\ uttered = 0 /\ uttered \in 0..Len(events)
  BY <1>1, StreamAssumption DEF DecoderInv
<1>3. /\ undecoded = SubSeq(body, Valid(received) + 1, received)
      /\ Decoded(Chars(SubSeq(body, 1, Valid(received))), events, text)
  BY <1>1 DEF DecoderInv
<1> DEFINE v == Valid(received)
           w == ValidOf(body, received + n)
           fed == FedOf(body, received, n, text)
<1>4. n \in 0..Len(body) - received /\ received + n \in 0..Len(body)
  BY <1>2
<1>5. /\ fed.held = SubSeq(body, w + 1, received + n)
      /\ \E t \in Seq(Character) : /\ fed.text = text \o t
                                   /\ Chars(SubSeq(body, 1, v)) \in Seq(Character)
                                   /\ Chars(SubSeq(body, 1, w)) = Chars(SubSeq(body, 1, v)) \o t
  <2>1. Fed(body, received, n, text)
    BY <1>2, <1>4, FedIs
  <2> QED BY <2>1 DEF Fed, Valid, ValidOf
<1>6. text' = fed.text /\ undecoded' = fed.held
  BY <1>1, <1>3 DEF FedOf, Valid, ValidOf
<1>7. PICK t \in Seq(Character) : /\ text' = text \o t
                                  /\ Chars(SubSeq(body, 1, v)) \in Seq(Character)
                                  /\ Chars(SubSeq(body, 1, w)) = Chars(SubSeq(body, 1, v)) \o t
  BY <1>5, <1>6
<1>8. text' \in Seq(Character)
  BY <1>2, <1>7
<1>9. Valid(received)' = w
  BY <1>1 DEF Valid, ValidOf
<1>10. undecoded' = SubSeq(body', Valid(received)' + 1, received')
  BY <1>1, <1>5, <1>6, <1>9
<1>11. Decoded(Chars(SubSeq(body, 1, Valid(received))), events, text)'
  <2> DEFINE c == Chars(SubSeq(body, 1, v))
             d == Chars(SubSeq(body, 1, w))
  <2>1. c \in Seq(Character) /\ d = c \o t
    BY <1>7
  <2>2. \A z \in Seq(Character) : DecodedText[c \o z] = events \o DecodedText[text \o z]
    BY <1>3 DEF Decoded
  <2> HIDE DEF c, d
  <2>3. ASSUME NEW z \in Seq(Character)
        PROVE  DecodedText[d \o z] = events \o DecodedText[(text \o t) \o z]
    <3>1. t \o z \in Seq(Character)
      OBVIOUS
    <3>2. (c \o t) \o z = c \o (t \o z)
      BY <2>1, InText, Zenon
    <3>3. (text \o t) \o z = text \o (t \o z)
      BY <1>2, InText, Zenon
    <3>4. DecodedText[c \o (t \o z)] = events \o DecodedText[text \o (t \o z)]
      BY <2>2, <3>1
    <3> QED BY <2>1, <3>2, <3>3, <3>4, Zenon
  <2>4. Decoded(d, events', text')
    BY <1>1, <1>7, <2>3, Zenon DEF Decoded
  <2>5. Chars(SubSeq(body, 1, Valid(received)))' = d
    BY <1>1, <1>9 DEF d
  <2> QED BY <2>4, <2>5 DEF Decoded
<1> QED BY <1>1, <1>2, <1>4, <1>8, <1>10, <1>11 DEF DecoderInv

(* What a step that leaves the decoder alone has to keep of its invariant. *)
LEMMA DecoderStays ==
  ASSUME DecoderInv, UNCHANGED decoder, uttered' \in 0..Len(events),
         stage' \in {"streamed", "speaking", "replying", "done", "lost", "failed"},
         stage' = "streamed" => way = "streamed" /\ received = Len(body) /\ BlockEnds(text) = {}
  PROVE  DecoderInv'
<1>1. /\ body' = body /\ way' = way /\ received' = received /\ undecoded' = undecoded
      /\ text' = text /\ events' = events
  BY DEF decoder
<1>2. /\ body \in Bodies /\ received \in 0..Len(body) /\ way \in {"collected", "streamed"}
      /\ events \in Seq(Event) /\ text \in Seq(Character)
      /\ way = "collected" => undecoded = <<>> /\ text = <<>>
  BY DEF DecoderInv
<1>3. /\ body' \in Bodies /\ received' \in 0..Len(body') /\ way' \in {"collected", "streamed"}
      /\ events' \in Seq(Event) /\ text' \in Seq(Character)
      /\ way' = "collected" => undecoded' = <<>> /\ text' = <<>>
  BY <1>1, <1>2
<1>4. Valid(received)' = Valid(received)
  BY <1>1 DEF Valid
<1>5. ASSUME way' = "streamed"
      PROVE  /\ undecoded' = SubSeq(body', Valid(received)' + 1, received')
             /\ Decoded(Chars(SubSeq(body, 1, Valid(received))), events, text)'
  <2>1. /\ undecoded = SubSeq(body, Valid(received) + 1, received)
        /\ Decoded(Chars(SubSeq(body, 1, Valid(received))), events, text)
    BY <1>1, <1>5 DEF DecoderInv
  <2>2. undecoded' = SubSeq(body', Valid(received)' + 1, received')
    BY <1>1, <1>4, <2>1
  <2>3. Decoded(Chars(SubSeq(body, 1, Valid(received))), events, text)'
    BY <1>1, <1>4, <2>1, Zenon DEF Decoded
  <2> QED BY <2>2, <2>3
<1>6. uttered' \in 0..Len(events') /\ (stage' = "reading" => uttered' = 0)
  BY <1>1
<1>7. stage' = "streamed" => way' = "streamed" /\ received' = Len(body') /\ BlockEnds(text)' = {}
  BY <1>1 DEF BlockEnds, EndsAt, CharAt
<1> QED BY <1>3, <1>5, <1>6, <1>7 DEF DecoderInv

(* A body that is collected never goes through the buffers.                *)
LEMMA CollectKeepsDecoder == DecoderInv /\ Collect => DecoderInv'
<1> SUFFICES ASSUME DecoderInv, Collect PROVE DecoderInv'
  OBVIOUS
<1>1. /\ body' = body /\ way' = way /\ way = "collected" /\ stage = "reading"
      /\ events' = DecodedText[Chars(Replaced(body))] /\ received' = Len(body)
      /\ undecoded' = undecoded /\ text' = text /\ uttered' = uttered
      /\ stage' \in {"speaking", "replying", "failed"}
  BY DEF Collect, Quiet
<1>2. /\ body \in Bodies /\ body \in Seq(Byte) /\ text \in Seq(Character) /\ uttered = 0
      /\ undecoded = <<>> /\ text = <<>>
  BY <1>1, StreamAssumption DEF DecoderInv
<1>3. events' \in Seq(Event)
  <2>1. Chars(Replaced(body)) \in Seq(Character)
    BY <1>2, ReplacedIsSound
  <2> QED BY <1>1, <2>1, DecodedIs
<1>4. received' \in 0..Len(body') /\ uttered' \in 0..Len(events')
  <2>1. Len(events') \in Nat
    BY <1>3
  <2>2. Len(body) \in Nat
    BY <1>2
  <2> QED BY <1>1, <1>2, <2>1, <2>2
<1> QED BY <1>1, <1>2, <1>3, <1>4 DEF DecoderInv

(* Every step keeps the invariant of the decoder.                          *)
LEMMA DecoderHoldsOn == DecoderInv /\ [StreamNext]_streamVars => DecoderInv'
<1> SUFFICES ASSUME DecoderInv, [StreamNext]_streamVars PROVE DecoderInv'
  OBVIOUS
<1> DEFINE Stages == {"streamed", "speaking", "replying", "done", "lost", "failed"}
<1>1. /\ body \in Bodies /\ received \in 0..Len(body) /\ events \in Seq(Event)
      /\ uttered \in 0..Len(events) /\ Len(events) \in Nat
      /\ stage \in Stages \cup {"reading"}
  BY DEF DecoderInv
<1>2. CASE Pop
  BY <1>2, PopKeepsDecoder
<1>3. CASE \E n \in 1..(Len(body) - received) : (n <= MaxChunk \/ n = Len(body) - received) /\ Chunk(n)
  BY <1>3, ChunkKeepsDecoder
<1>4. CASE TransportFails
  <2>1. UNCHANGED decoder /\ uttered' = uttered /\ stage' = "failed"
    BY <1>4 DEF TransportFails, Quiet
  <2> QED BY <1>1, <2>1, DecoderStays
<1>5. CASE EndOfBody
  <2>1. /\ UNCHANGED decoder /\ uttered' = uttered /\ stage' = "streamed"
        /\ way = "streamed" /\ received = Len(body) /\ BlockEnds(text) = {}
    BY <1>5 DEF EndOfBody, Quiet, BlockReady
  <2> QED BY <1>1, <2>1, DecoderStays
<1>6. CASE Collect
  BY <1>6, CollectKeepsDecoder
<1>7. CASE \E k \in 0..Len(body) : SpeakEvent(k)
  <2>1. /\ UNCHANGED decoder /\ uttered' = uttered + 1 /\ uttered < Len(events)
        /\ stage' \in {"speaking", "lost"}
    BY <1>7 DEF SpeakEvent
  <2>2. uttered' \in 0..Len(events)
    BY <1>1, <2>1
  <2> QED BY <2>1, <2>2, DecoderStays
<1>8. CASE \E published \in BOOLEAN : SpeakRest(published)
  <2>1. UNCHANGED decoder /\ uttered' = uttered /\ stage' \in {"replying", "lost"}
    BY <1>8 DEF SpeakRest
  <2> QED BY <1>1, <2>1, DecoderStays
<1>9. CASE \E published \in BOOLEAN : Reply(published)
  <2>1. UNCHANGED decoder /\ uttered' = uttered /\ stage' \in {"done", "lost"}
    BY <1>9 DEF Reply
  <2> QED BY <1>1, <2>1, DecoderStays
<1>10. CASE UNCHANGED streamVars
  <2>1. UNCHANGED decoder /\ uttered' = uttered /\ stage' = stage
    BY <1>10 DEF streamVars
  <2>2. CASE stage = "reading"
    <3>1. /\ body' = body /\ way' = way /\ received' = received /\ undecoded' = undecoded
          /\ text' = text /\ events' = events
      BY <2>1 DEF decoder
    <3>2. Valid(received)' = Valid(received)
      BY <3>1 DEF Valid
    <3>3. ASSUME way' = "streamed"
          PROVE  /\ undecoded' = SubSeq(body', Valid(received)' + 1, received')
                 /\ Decoded(Chars(SubSeq(body, 1, Valid(received))), events, text)'
      <4>1. /\ undecoded = SubSeq(body, Valid(received) + 1, received)
            /\ Decoded(Chars(SubSeq(body, 1, Valid(received))), events, text)
        BY <3>1, <3>3 DEF DecoderInv
      <4>2. undecoded' = SubSeq(body', Valid(received)' + 1, received')
        BY <3>1, <3>2, <4>1
      <4>3. Decoded(Chars(SubSeq(body, 1, Valid(received))), events, text)'
        BY <3>1, <3>2, <4>1, Zenon DEF Decoded
      <4> QED BY <4>2, <4>3
    <3> QED BY <2>1, <2>2, <3>1, <3>3 DEF DecoderInv
  <2>3. CASE stage # "reading"
    <3>1. stage' \in Stages
      BY <1>1, <2>1, <2>3
    <3>2. stage' = "streamed" => way = "streamed" /\ received = Len(body) /\ BlockEnds(text) = {}
      BY <2>1 DEF DecoderInv
    <3> QED BY <1>1, <2>1, <3>1, <3>2, DecoderStays
  <2> QED BY <2>2, <2>3
<1> QED BY <1>2, <1>3, <1>4, <1>5, <1>6, <1>7, <1>8, <1>9, <1>10 DEF StreamNext

(* The invariant of the decoder has the types in it.                       *)
LEMMA DecoderIsTyped == DecoderInv => StreamTypeOK
<1> SUFFICES ASSUME DecoderInv PROVE StreamTypeOK
  OBVIOUS
<1>1. /\ body \in Bodies /\ body \in Seq(Byte) /\ received \in 0..Len(body)
      /\ way \in {"collected", "streamed"} /\ events \in Seq(Event) /\ uttered \in 0..Len(events)
      /\ stage = "reading" => uttered = 0
      /\ stage \in {"reading", "streamed", "speaking", "replying", "done", "lost", "failed"}
  BY StreamAssumption DEF DecoderInv
<1>2. \A i \in DOMAIN events : events[i].kind \in Kinds \cup {"malformed"}
  <2>1. \A i \in DOMAIN events : events[i] \in Event
    BY <1>1
  <2> QED BY <2>1 DEF Event
<1>3. received \in Nat
  <2>1. Len(body) \in Nat
    BY <1>1
  <2> QED BY <1>1, <2>1
<1>4. Len(undecoded) <= received
  <2>1. CASE way = "collected"
    <3>1. Len(undecoded) = 0
      BY <2>1 DEF DecoderInv
    <3> QED BY <1>3, <3>1
  <2>2. CASE way = "streamed"
    <3> DEFINE p == SubSeq(body, 1, received)
    <3>1. p \in Seq(Byte) /\ Len(p) = received
      BY <1>1, Split
    <3>2. Valid(received) = ValidUpTo(p)
      BY DEF Valid
    <3> HIDE DEF p
    <3>3. Valid(received) \in 0..received
      BY <3>1, <3>2, ValidFacts
    <3>4. Len(SubSeq(body, Valid(received) + 1, received)) = received - Valid(received)
      BY <1>1, <3>3, PartIs
    <3> QED BY <1>3, <2>2, <3>3, <3>4 DEF DecoderInv
  <2> QED BY <1>1, <2>1, <2>2
<1> QED BY <1>1, <1>2, <1>4 DEF StreamTypeOK

(* At the end of the body no complete block is left in the buffer.         *)
LEMMA DecoderDecodes == DecoderInv => ChunksDoNotMatter
<1> SUFFICES ASSUME DecoderInv PROVE ChunksDoNotMatter
  OBVIOUS
<1>1. StreamTypeOK
  BY DecoderIsTyped
<1>2. ASSUME stage = "streamed"
      PROVE  events = DecodedText[Chars(SubSeq(body, 1, ValidUpTo(body)))]
  <2>1. /\ body \in Seq(Byte) /\ received = Len(body) /\ BlockEnds(text) = {}
        /\ events \in Seq(Event) /\ text \in Seq(Character)
        /\ Decoded(Chars(SubSeq(body, 1, Valid(received))), events, text)
    BY <1>2, StreamAssumption DEF DecoderInv
  <2>2. SubSeq(body, 1, Len(body)) = body
    BY <2>1, SubSeqFull
  <2>3. Valid(received) = ValidUpTo(body)
    BY <2>1, <2>2 DEF Valid
  <2> DEFINE s == Chars(SubSeq(body, 1, ValidUpTo(body)))
  <2>4. s \in Seq(Character)
    <3>1. ValidUpTo(body) \in 0..ValidUpTo(body)
      BY <2>1, ValidFacts
    <3>2. SubSeq(body, 1, ValidUpTo(body)) \in Seq(Sound)
      BY <2>1, <3>1, ValidIsSound
    <3> QED BY <3>2, CharsConcat
  <2>5. Decoded(s, events, text)
    BY <2>1, <2>3
  <2> HIDE DEF s
  <2>6. DecodedText[s \o <<>>] = events \o DecodedText[text \o <<>>]
    <3>1. <<>> \in Seq(Character)
      OBVIOUS
    <3> QED BY <2>5, <3>1, Zenon DEF Decoded
  <2>7. s \o <<>> = s /\ text \o <<>> = text
    BY <2>1, <2>4
  <2>8. DecodedText[text] = <<>>
    BY <2>1, DecodedStep
  <2>9. events \o <<>> = events
    BY <2>1
  <2> QED BY <2>6, <2>7, <2>8, <2>9 DEF s
<1> QED BY <1>1, <1>2 DEF ChunksDoNotMatter

(* However the bytes are cut into chunks, the stream yields the events a   *)
(* collected body decodes to.  (SseDecoder::feed, pop_event)               *)
THEOREM ChunksHold == StreamSpec => []ChunksDoNotMatter
<1>1. StreamInit => DecoderInv
  BY DecoderStarts
<1>2. DecoderInv /\ [StreamNext]_streamVars => DecoderInv'
  BY DecoderHoldsOn
<1>3. DecoderInv => ChunksDoNotMatter
  BY DecoderDecodes
<1> QED BY <1>1, <1>2, <1>3, PTL DEF StreamSpec

-----------------------------------------------------------------------------
(***************************************************************************)
(* The turn: what is spoken is stored.                                     *)
(***************************************************************************)

(* What is told, with what may follow it, has the sentences published and  *)
(* those of what the splitter holds, with what may follow that.            *)
Saying(told, said, rest) ==
  \A z \in Seq(Character) : SentencesOf(told \o z) = said \o SentencesOf(rest \o z)
Told(n) == AssistantText(SubSeq(events, 1, n))
Sentences == SentencesOf(AssistantText(events))

(* The inductive invariant of the turn: the sentences published so far are *)
(* those of the text told so far, and the splitter holds the rest.         *)
SpeakerInv ==
  /\ DecoderInv
  /\ buf \in Seq(Character) /\ partials \in Seq(Seq(Character))
  /\ stage \in {"reading", "streamed", "failed"} =>
       uttered = 0 /\ buf = <<>> /\ partials = <<>> /\ reply = None
  /\ stage # "done" => stored = None
  /\ stage \in {"speaking", "replying"} => reply = None
  /\ stage = "speaking" => SentenceEnd(buf) = 0 /\ Saying(Told(uttered), partials, buf)
  /\ stage \in {"replying", "done"} => partials = Sentences
  /\ stage = "done" => reply = AssistantText(events) /\ stored = reply
  /\ stage = "lost" => IsPrefix(partials, Sentences)

(* What comes first is a prefix.                                           *)
LEMMA FirstIsPrefix ==
  ASSUME NEW S, NEW s \in Seq(S), NEW t \in Seq(S)
  PROVE  IsPrefix(s, s \o t)
<1>1. Len(s \o t) = Len(s) + Len(t) /\ Len(s) \in Nat /\ Len(t) \in Nat
  OBVIOUS
<1>2. SubSeq(s \o t, 1, Len(s)) = s
  BY SplitConcat
<1>3. SubSeq(s, 1, Len(s)) = s
  BY SubSeqFull
<1> QED BY <1>1, <1>2, <1>3 DEF IsPrefix

(* A delta that goes through the splitter.                                 *)
LEMMA PushSays ==
  ASSUME NEW told \in Seq(Character), NEW said \in Seq(Seq(Character)),
         NEW rest \in Seq(Character), Saying(told, said, rest), NEW t \in Seq(Character)
  PROVE  Saying(told \o t, said \o Push(rest, t).out, Push(rest, t).rest)
<1> DEFINE drained == Drained[rest \o t]
<1>1. rest \o t \in Seq(Character)
  OBVIOUS
<1>2. drained.out \in Seq(Seq(Character)) /\ drained.rest \in Seq(Character)
  BY <1>1, DrainedIs
<1>3. ASSUME NEW z \in Seq(Character)
      PROVE  SentencesOf((told \o t) \o z) = (said \o drained.out) \o SentencesOf(drained.rest \o z)
  <2>1. t \o z \in Seq(Character) /\ drained.rest \o z \in Seq(Character)
    BY <1>2
  <2>2. (told \o t) \o z = told \o (t \o z)
    BY InText, Zenon
  <2>3. (rest \o t) \o z = rest \o (t \o z)
    BY InText, Zenon
  <2>4. SentencesOf(told \o (t \o z)) = said \o SentencesOf(rest \o (t \o z))
    BY <2>1, Zenon DEF Saying
  <2>5. SentencesOf((rest \o t) \o z) = drained.out \o SentencesOf(drained.rest \o z)
    BY <1>1, DrainGoesOn
  <2>6. SentencesOf(drained.rest \o z) \in Seq(Seq(Character))
    BY <2>1, SentencesStep
  <2> HIDE DEF drained
  <2>7. said \o (drained.out \o SentencesOf(drained.rest \o z))
          = (said \o drained.out) \o SentencesOf(drained.rest \o z)
    BY <1>2, <2>6, Associative, Zenon
  <2> QED BY <2>2, <2>3, <2>4, <2>5, <2>7, Zenon
<1> QED BY <1>3 DEF Saying, Push

(* Where all is told, the sentences are those published and the last.      *)
LEMMA AllSaid ==
  ASSUME NEW told \in Seq(Character), NEW said \in Seq(Seq(Character)),
         NEW rest \in Seq(Character), Saying(told, said, rest), SentenceEnd(rest) = 0
  PROVE  SentencesOf(told) = said \o Flushed(rest)
<1>1. <<>> \in Seq(Character)
  OBVIOUS
<1>2. SentencesOf(told \o <<>>) = said \o SentencesOf(rest \o <<>>)
  BY <1>1, Zenon DEF Saying
<1>3. told \o <<>> = told /\ rest \o <<>> = rest
  OBVIOUS
<1>4. SentencesOf(rest) = Flushed(rest)
  BY SentencesStep
<1> QED BY <1>2, <1>3, <1>4

(* What is said so far is a prefix of what the whole text says.            *)
LEMMA SaidIsPrefix ==
  ASSUME NEW told \in Seq(Character), NEW said \in Seq(Seq(Character)),
         NEW rest \in Seq(Character), Saying(told, said, rest), NEW z \in Seq(Character)
  PROVE  IsPrefix(said, SentencesOf(told \o z))
<1>1. SentencesOf(told \o z) = said \o SentencesOf(rest \o z)
  BY Zenon DEF Saying
<1>2. rest \o z \in Seq(Character)
  OBVIOUS
<1>3. SentencesOf(rest \o z) \in Seq(Seq(Character))
  BY <1>2, SentencesStep
<1> QED BY <1>1, <1>3, FirstIsPrefix

(* The text told, and the next event.                                      *)
LEMMA ToldIs ==
  ASSUME NEW evs \in Seq(Event), NEW n \in 0..Len(evs)
  PROVE  /\ AssistantText(SubSeq(evs, 1, n)) \in Seq(Character)
         /\ \E z \in Seq(Character) :
              AssistantText(evs) = AssistantText(SubSeq(evs, 1, n)) \o z
<1> DEFINE a == SubSeq(evs, 1, n)
           b == SubSeq(evs, n + 1, Len(evs))
<1>1. a \in Seq(Event) /\ b \in Seq(Event) /\ evs = a \o b
  BY Split, Zenon
<1> HIDE DEF a, b
<1>2. /\ AssistantText(a) \in Seq(Character) /\ AssistantText(b) \in Seq(Character)
      /\ AssistantText(a \o b) = AssistantText(a) \o AssistantText(b)
  BY <1>1, TextConcat
<1> QED BY <1>1, <1>2 DEF a

(* The next event adds its text to the text told.                          *)
LEMMA ToldGrows ==
  ASSUME NEW evs \in Seq(Event), NEW n \in Nat, n < Len(evs)
  PROVE  /\ evs[n + 1].text \in Seq(Character)
         /\ AssistantText(SubSeq(evs, 1, n + 1))
              = AssistantText(SubSeq(evs, 1, n)) \o evs[n + 1].text
<1>1. n \in 0..Len(evs) /\ n + 1 \in 1..Len(evs)
  OBVIOUS
<1>2. evs[n + 1] \in Event
  BY <1>1, ElementOfSeq
<1>3. SubSeq(evs, 1, n + 1) = SubSeq(evs, 1, n) \o <<evs[n + 1]>>
  <2> DEFINE m == n + 1
  <2>1. 1 \in 1..Len(evs) /\ m \in 1..Len(evs) /\ m - 1 = n
    BY <1>1
  <2> HIDE DEF m
  <2>2. SubSeq(evs, 1, m) = SubSeq(evs, 1, m - 1) \o <<evs[m]>>
    BY <2>1, SubSeqRecursiveSecond
  <2> QED BY <2>1, <2>2 DEF m
<1> DEFINE a == SubSeq(evs, 1, n)
           e == evs[n + 1]
<1>4. a \in Seq(Event) /\ <<e>> \in Seq(Event)
  <2>1. a \in Seq(Event)
    BY <1>1, Split
  <2> QED BY <1>2, <2>1
<1>5. e \in Event /\ AssistantText(<<e>>) = e.text
  BY <1>2, TextOne
<1> HIDE DEF a, e
<1>6. AssistantText(a \o <<e>>) = AssistantText(a) \o AssistantText(<<e>>)
  BY <1>4, TextConcat
<1>7. e.text \in Seq(Character)
  BY <1>5 DEF Event
<1> QED BY <1>3, <1>5, <1>6, <1>7 DEF a, e

(* At first nothing is said.                                               *)
LEMMA SpeakerStarts == StreamInit => SpeakerInv
<1> SUFFICES ASSUME StreamInit PROVE SpeakerInv
  OBVIOUS
<1>1. DecoderInv
  BY DecoderStarts
<1>2. /\ stage = "reading" /\ uttered = 0 /\ buf = <<>> /\ partials = <<>>
      /\ reply = None /\ stored = None
  BY DEF StreamInit
<1> QED BY <1>1, <1>2 DEF SpeakerInv

(* A step before anything is uttered, but for the one that decodes it all. *)
LEMMA SilenceHolds ==
  ASSUME SpeakerInv, DecoderInv', stage = "reading", Quiet,
         stage' \in {"reading", "streamed", "failed"}
  PROVE  SpeakerInv'
<1>1. /\ uttered = 0 /\ buf = <<>> /\ partials = <<>> /\ reply = None /\ stored = None
      /\ buf \in Seq(Character) /\ partials \in Seq(Seq(Character))
  BY DEF SpeakerInv
<1>2. /\ uttered' = 0 /\ buf' = <<>> /\ partials' = <<>> /\ reply' = None /\ stored' = None
      /\ buf' \in Seq(Character) /\ partials' \in Seq(Seq(Character))
  BY <1>1 DEF Quiet
<1>3. None' = None
  BY DEF None
<1> QED BY <1>2, <1>3 DEF SpeakerInv

(* A collected answer is uttered from its beginning; blanks are replied    *)
(* without a word.                                                         *)
LEMMA CollectKeepsSpeaker == SpeakerInv /\ Collect => SpeakerInv'
<1> SUFFICES ASSUME SpeakerInv, Collect PROVE SpeakerInv'
  OBVIOUS
<1>1. DecoderInv'
  BY CollectKeepsDecoder DEF SpeakerInv
<1>2. /\ stage = "reading" /\ Quiet
      /\ stage' = IF Decodes(events') /\ AssistantText(events') # <<>>
                    THEN IF Trim(AssistantText(events')) = <<>> THEN "replying" ELSE "speaking"
                    ELSE "failed"
  BY DEF Collect
<1>3. /\ uttered' = 0 /\ buf' = <<>> /\ partials' = <<>> /\ reply' = None /\ stored' = None
      /\ buf' \in Seq(Character) /\ partials' \in Seq(Seq(Character))
  BY <1>2 DEF Quiet, SpeakerInv
<1>4. events' \in Seq(Event)
  BY <1>1 DEF DecoderInv
<1>5. AssistantText(events') \in Seq(Character)
  BY <1>4, TextConcat
<1>6. CASE stage' = "failed"
  BY <1>2, <1>6, SilenceHolds, <1>1
<1>7. CASE stage' = "replying"
  <2>1. Trim(AssistantText(events')) = <<>>
    BY <1>2, <1>7
  <2>2. SentencesOf(AssistantText(events')) = <<>>
    BY <1>5, <2>1, BlankSaysNothing
  <2>3. partials' = Sentences'
    BY <1>3, <2>2 DEF Sentences
  <2> QED BY <1>1, <1>3, <1>7, <2>3 DEF SpeakerInv, None
<1>8. CASE stage' = "speaking"
  <2>1. SentenceEnd(<<>>) = 0
    <3>1. Boundaries(<<>>) = {}
      BY DEF Boundaries
    <3> QED BY <3>1 DEF SentenceEnd
  <2>2. AssistantText(SubSeq(events', 1, 0)) = <<>>
    <3>1. SubSeq(events', 1, 0) = <<>>
      BY <1>4, SubSeqEmpty
    <3> QED BY <3>1, TextOne
  <2>3. Saying(<<>>, <<>>, <<>>)
    <3> SUFFICES ASSUME NEW z \in Seq(Character)
                 PROVE  SentencesOf(<<>> \o z) = <<>> \o SentencesOf(<<>> \o z)
      BY DEF Saying
    <3>1. <<>> \o z = z
      OBVIOUS
    <3>2. SentencesOf(z) \in Seq(Seq(Character))
      BY SentencesStep
    <3>3. \A ss \in Seq(Seq(Character)) : <<>> \o ss = ss
      OBVIOUS
    <3> QED BY <3>1, <3>2, <3>3
  <2>4. SentenceEnd(buf') = 0 /\ Saying(AssistantText(SubSeq(events', 1, uttered')), partials', buf')
    BY <1>3, <2>1, <2>2, <2>3
  <2>5. (SentenceEnd(buf) = 0 /\ Saying(Told(uttered), partials, buf))'
    BY <2>4 DEF Told
  <2> QED BY <1>1, <1>3, <1>8, <2>5 DEF SpeakerInv, None
<1> QED BY <1>2, <1>6, <1>7, <1>8

(* One event goes through the splitter, and a publish may fail midway.     *)
LEMMA SpeakEventKeepsSpeaker ==
  ASSUME SpeakerInv, DecoderInv', NEW k \in 0..Len(body), SpeakEvent(k)
  PROVE  SpeakerInv'
<1> DEFINE delta == events[uttered + 1].text
           out == Push(buf, delta).out
           rest == Push(buf, delta).rest
           told == Told(uttered)
<1>1. /\ stage = "speaking" /\ uttered < Len(events) /\ k <= Len(out)
      /\ partials' = partials \o SubSeq(out, 1, k) /\ buf' = rest /\ uttered' = uttered + 1
      /\ stage' = IF k = Len(out) THEN "speaking" ELSE "lost"
      /\ UNCHANGED decoder /\ reply' = reply /\ stored' = stored
  BY DEF SpeakEvent
<1>2. /\ DecoderInv /\ buf \in Seq(Character) /\ partials \in Seq(Seq(Character))
      /\ SentenceEnd(buf) = 0 /\ Saying(told, partials, buf) /\ reply = None /\ stored = None
  BY <1>1 DEF SpeakerInv
<1>3. events \in Seq(Event) /\ uttered \in 0..Len(events) /\ uttered \in Nat /\ Len(events) \in Nat
  BY <1>2 DEF DecoderInv
<1>4. told \in Seq(Character)
  BY <1>3, ToldIs DEF Told
<1>5. delta \in Seq(Character) /\ Told(uttered + 1) = told \o delta
  BY <1>1, <1>3, ToldGrows DEF Told
<1> HIDE DEF delta, told
<1>6. /\ out \in Seq(Seq(Character)) /\ rest \in Seq(Character) /\ SentenceEnd(rest) = 0
  <2>1. buf \o delta \in Seq(Character)
    BY <1>2, <1>5
  <2> QED BY <2>1, DrainedIs DEF Push
<1>7. Saying(told \o delta, partials \o out, rest)
  BY <1>2, <1>4, <1>5, PushSays
<1>8. events' = events
  BY <1>1 DEF decoder
<1>9. Told(uttered)' = told \o delta
  BY <1>1, <1>5, <1>8 DEF Told
<1> HIDE DEF out, rest
<1>10. /\ buf' \in Seq(Character) /\ partials' \in Seq(Seq(Character))
       /\ reply' = None /\ stored' = None
  <2>1. k \in 0..Len(out)
    BY <1>1, <1>6
  <2>2. SubSeq(out, 1, k) \in Seq(Seq(Character))
    BY <1>6, <2>1, Split
  <2>3. partials \o SubSeq(out, 1, k) \in Seq(Seq(Character))
    BY <1>2, <2>2
  <2> QED BY <1>1, <1>2, <1>6, <2>3
<1>11. CASE k = Len(out)
  <2>1. SubSeq(out, 1, k) = out
    BY <1>6, <1>11, SubSeqFull
  <2>2. Saying(Told(uttered)', partials', buf')
    BY <1>1, <1>7, <1>9, <2>1
  <2>3. (SentenceEnd(buf) = 0 /\ Saying(Told(uttered), partials, buf))'
    BY <1>1, <1>6, <2>2
  <2>4. stage' = "speaking"
    BY <1>1, <1>11
  <2> QED BY <1>10, <2>3, <2>4 DEF SpeakerInv, None
<1>12. CASE k # Len(out)
  <2>1. k \in 0..Len(out) /\ uttered + 1 \in 0..Len(events)
    BY <1>1, <1>3, <1>6
  <2>2. PICK z \in Seq(Character) : AssistantText(events) = Told(uttered + 1) \o z
    BY <1>3, <2>1, ToldIs DEF Told
  <2> DEFINE a == SubSeq(out, 1, k)
             b == SubSeq(out, k + 1, Len(out))
             c == SentencesOf(rest \o z)
  <2>3. a \in Seq(Seq(Character)) /\ b \in Seq(Seq(Character)) /\ out = a \o b
    BY <1>6, <2>1, Split
  <2>4. c \in Seq(Seq(Character))
    <3>1. rest \o z \in Seq(Character)
      BY <1>6
    <3> QED BY <3>1, SentencesStep
  <2>5. Sentences = (partials \o out) \o c
    <3>1. Sentences = SentencesOf((told \o delta) \o z)
      BY <1>5, <2>2 DEF Sentences
    <3> QED BY <1>7, <3>1, Zenon DEF Saying
  <2>6. partials' = partials \o a
    BY <1>1
  <2> HIDE DEF a, b, c
  <2>7. (partials \o out) \o c = (partials \o a) \o (b \o c)
    <3>1. partials \o (a \o b) = (partials \o a) \o b
      BY <1>2, <2>3, Associative, Zenon
    <3>2. partials \o a \in Seq(Seq(Character))
      BY <1>2, <2>3
    <3>3. ((partials \o a) \o b) \o c = (partials \o a) \o (b \o c)
      BY <2>3, <2>4, <3>2, Associative, Zenon
    <3> QED BY <2>3, <3>1, <3>3, Zenon
  <2>8. IsPrefix(partials \o a, (partials \o a) \o (b \o c))
    <3>1. partials \o a \in Seq(Seq(Character)) /\ b \o c \in Seq(Seq(Character))
      BY <1>2, <2>3, <2>4
    <3> QED BY <3>1, FirstIsPrefix
  <2>9. IsPrefix(partials', Sentences)
    BY <2>5, <2>6, <2>7, <2>8
  <2>10. IsPrefix(partials, Sentences)'
    <3>1. Sentences' = Sentences
      BY <1>8 DEF Sentences
    <3> QED BY <2>9, <3>1 DEF IsPrefix
  <2>11. stage' = "lost"
    BY <1>1, <1>12
  <2> QED BY <1>10, <2>10, <2>11 DEF SpeakerInv, None
<1> QED BY <1>11, <1>12

(* What the splitter holds at the end is the last sentence.                *)
LEMMA SpeakRestKeepsSpeaker ==
  ASSUME SpeakerInv, DecoderInv', NEW published \in BOOLEAN, SpeakRest(published)
  PROVE  SpeakerInv'
<1>1. /\ stage = "speaking" /\ uttered = Len(events)
      /\ partials' = IF published THEN partials \o Flushed(buf) ELSE partials
      /\ buf' = <<>> /\ UNCHANGED decoder /\ reply' = reply /\ stored' = stored
      /\ stage' = IF published \/ Flushed(buf) = <<>> THEN "replying" ELSE "lost"
  BY DEF SpeakRest
<1>2. /\ DecoderInv /\ buf \in Seq(Character) /\ partials \in Seq(Seq(Character))
      /\ SentenceEnd(buf) = 0 /\ Saying(Told(uttered), partials, buf) /\ reply = None /\ stored = None
  BY <1>1 DEF SpeakerInv
<1>3. events \in Seq(Event) /\ events' = events
  BY <1>1, <1>2 DEF DecoderInv, decoder
<1>4. Told(uttered) = AssistantText(events)
  BY <1>1, <1>3, SubSeqFull DEF Told
<1>5. AssistantText(events) \in Seq(Character)
  BY <1>3, TextConcat
<1>6. Sentences = partials \o Flushed(buf)
  BY <1>2, <1>4, <1>5, AllSaid DEF Sentences
<1>7. Flushed(buf) \in Seq(Seq(Character))
  BY <1>2, FlushedIs
<1>8. Sentences' = Sentences
  BY <1>3 DEF Sentences
<1>9. /\ buf' \in Seq(Character) /\ partials' \in Seq(Seq(Character))
      /\ reply' = None /\ stored' = None
  BY <1>1, <1>2, <1>7
<1>10. CASE published \/ Flushed(buf) = <<>>
  <2>1. partials' = partials \o Flushed(buf)
    <3>1. partials \o <<>> = partials
      BY <1>2
    <3> QED BY <1>1, <1>10, <3>1
  <2>2. partials' = Sentences'
    BY <1>6, <1>8, <2>1
  <2>3. stage' = "replying"
    BY <1>1, <1>10
  <2> QED BY <1>9, <2>2, <2>3 DEF SpeakerInv, None
<1>11. CASE ~(published \/ Flushed(buf) = <<>>)
  <2>1. partials' = partials /\ stage' = "lost"
    BY <1>1, <1>11
  <2>2. IsPrefix(partials, Sentences)
    BY <1>2, <1>6, <1>7, FirstIsPrefix
  <2>3. IsPrefix(partials, Sentences)'
    BY <1>8, <2>1, <2>2 DEF IsPrefix
  <2> QED BY <1>9, <2>1, <2>3 DEF SpeakerInv, None
<1> QED BY <1>10, <1>11

(* The history has the text that was replied.                              *)
LEMMA ReplyKeepsSpeaker ==
  ASSUME SpeakerInv, DecoderInv', NEW published \in BOOLEAN, Reply(published)
  PROVE  SpeakerInv'
<1>1. /\ stage = "replying" /\ UNCHANGED decoder /\ buf' = buf /\ partials' = partials
      /\ reply' = IF published THEN AssistantText(events) ELSE None
      /\ stored' = reply' /\ stage' = IF published THEN "done" ELSE "lost"
  BY DEF Reply
<1>2. /\ DecoderInv /\ buf \in Seq(Character) /\ partials \in Seq(Seq(Character))
      /\ partials = Sentences
  BY <1>1 DEF SpeakerInv
<1>3. events \in Seq(Event) /\ events' = events
  BY <1>1, <1>2 DEF DecoderInv, decoder
<1>4. Sentences' = Sentences
  BY <1>3 DEF Sentences
<1>5. CASE published
  <2>1. stage' = "done" /\ reply' = AssistantText(events) /\ stored' = reply'
    BY <1>1, <1>5
  <2>2. (reply = AssistantText(events))'
    BY <1>3, <2>1
  <2> QED BY <1>1, <1>2, <1>4, <2>1, <2>2 DEF SpeakerInv
<1>6. CASE ~published
  <2>1. stage' = "lost" /\ stored' = None
    BY <1>1, <1>6
  <2>2. IsPrefix(partials, partials)
    BY DEF IsPrefix
  <2>3. IsPrefix(partials, Sentences)'
    BY <1>1, <1>2, <1>4, <2>2 DEF IsPrefix
  <2> QED BY <1>1, <1>2, <2>1, <2>3 DEF SpeakerInv, None
<1> QED BY <1>5, <1>6

(* Every step keeps the invariant of the turn.                             *)
LEMMA SpeakerHoldsOn == SpeakerInv /\ [StreamNext]_streamVars => SpeakerInv'
<1> SUFFICES ASSUME SpeakerInv, [StreamNext]_streamVars PROVE SpeakerInv'
  OBVIOUS
<1>1. DecoderInv'
  BY DecoderHoldsOn DEF SpeakerInv
<1>2. CASE Pop
  BY <1>1, <1>2, SilenceHolds DEF Pop
<1>3. CASE \E n \in 1..(Len(body) - received) : (n <= MaxChunk \/ n = Len(body) - received) /\ Chunk(n)
  BY <1>1, <1>3, SilenceHolds DEF Chunk
<1>4. CASE TransportFails
  BY <1>1, <1>4, SilenceHolds DEF TransportFails
<1>5. CASE EndOfBody
  BY <1>1, <1>5, SilenceHolds DEF EndOfBody
<1>6. CASE Collect
  BY <1>6, CollectKeepsSpeaker
<1>7. CASE \E k \in 0..Len(body) : SpeakEvent(k)
  BY <1>1, <1>7, SpeakEventKeepsSpeaker
<1>8. CASE \E published \in BOOLEAN : SpeakRest(published)
  BY <1>1, <1>8, SpeakRestKeepsSpeaker
<1>9. CASE \E published \in BOOLEAN : Reply(published)
  BY <1>1, <1>9, ReplyKeepsSpeaker
<1>10. CASE UNCHANGED streamVars
  <2>1. /\ events' = events /\ stage' = stage /\ uttered' = uttered /\ buf' = buf
        /\ partials' = partials /\ reply' = reply /\ stored' = stored
    BY <1>10 DEF streamVars, decoder
  <2>2. Told(uttered)' = Told(uttered) /\ Sentences' = Sentences
    BY <2>1 DEF Told, Sentences
  <2>3. (SentenceEnd(buf) = 0)' <=> SentenceEnd(buf) = 0
    BY <2>1
  <2>4. Saying(Told(uttered), partials, buf)' <=> Saying(Told(uttered), partials, buf)
    BY <2>1, <2>2 DEF Saying
  <2>5. IsPrefix(partials, Sentences)' <=> IsPrefix(partials, Sentences)
    BY <2>1, <2>2 DEF IsPrefix
  <2> QED BY <1>1, <2>1, <2>2, <2>3, <2>4, <2>5 DEF SpeakerInv, None
<1> QED BY <1>2, <1>3, <1>4, <1>5, <1>6, <1>7, <1>8, <1>9, <1>10 DEF StreamNext

(* The invariant of the turn has the three promises in it.                 *)
LEMMA SpeakerSays == SpeakerInv => SpokenIsStored
<1> SUFFICES ASSUME SpeakerInv PROVE SpokenIsStored
  OBVIOUS
<1>1. /\ events \in Seq(Event) /\ uttered \in 0..Len(events) /\ partials \in Seq(Seq(Character))
      /\ stage \in {"reading", "streamed", "speaking", "replying", "done", "lost", "failed"}
  BY DEF SpeakerInv, DecoderInv
<1>2. AssistantText(events) \in Seq(Character)
  BY <1>1, TextConcat
<1>3. Sentences \in Seq(Seq(Character))
  BY <1>2, SentencesStep DEF Sentences
<1>4. IsPrefix(partials, Sentences)
  <2>1. CASE stage \in {"reading", "streamed", "failed"}
    <3>1. partials = <<>>
      BY <2>1 DEF SpeakerInv
    <3>2. <<>> \o Sentences = Sentences /\ <<>> \in Seq(Seq(Character))
      BY <1>3
    <3>3. IsPrefix(<<>>, <<>> \o Sentences)
      BY <1>3, <3>2, FirstIsPrefix
    <3> QED BY <3>1, <3>2, <3>3
  <2>2. CASE stage = "speaking"
    <3>1. /\ buf \in Seq(Character) /\ Saying(Told(uttered), partials, buf)
      BY <2>2 DEF SpeakerInv
    <3>2. Told(uttered) \in Seq(Character)
      BY <1>1, ToldIs DEF Told
    <3>3. PICK z \in Seq(Character) : AssistantText(events) = Told(uttered) \o z
      BY <1>1, ToldIs DEF Told
    <3>4. IsPrefix(partials, SentencesOf(Told(uttered) \o z))
      BY <1>1, <3>1, <3>2, SaidIsPrefix
    <3> QED BY <3>3, <3>4 DEF Sentences
  <2>3. CASE stage \in {"replying", "done"}
    <3>1. partials = Sentences
      BY <2>3 DEF SpeakerInv
    <3> QED BY <3>1 DEF IsPrefix
  <2>4. CASE stage = "lost"
    BY <2>4 DEF SpeakerInv
  <2> QED BY <1>1, <2>1, <2>2, <2>3, <2>4
<1>5. PartialsAreTheReply
  <2>1. stage = "done" => partials = Sentences
    BY DEF SpeakerInv
  <2> QED BY <1>4, <2>1 DEF PartialsAreTheReply, Sentences
<1>6. NothingIsLost
  <2> SUFFICES ASSUME stage = "done"
               PROVE  stored = reply /\ Squeezed(FlattenSeq(partials)) = Squeezed(stored)
    BY DEF NothingIsLost
  <2>1. stored = reply /\ reply = AssistantText(events) /\ partials = Sentences
    BY DEF SpeakerInv
  <2>2. Squeezed(FlattenSeq(Sentences)) = Squeezed(AssistantText(events))
    BY <1>2, SentencesKeepAll DEF Sentences
  <2> QED BY <2>1, <2>2
<1>7. FailuresLeaveNoTrace
  BY DEF SpeakerInv, FailuresLeaveNoTrace
<1> QED BY <1>5, <1>6, <1>7 DEF SpokenIsStored

(* However an answer is cut into deltas and wherever a publish fails, the  *)
(* sentences uttered are those of the text stored, and a failed turn       *)
(* stores none.  (publish_partial_sentences, SentenceSplitter::push)       *)
THEOREM SpeakingHolds == StreamSpec => []SpokenIsStored
<1>1. StreamInit => SpeakerInv
  BY SpeakerStarts
<1>2. SpeakerInv /\ [StreamNext]_streamVars => SpeakerInv'
  BY SpeakerHoldsOn
<1>3. SpeakerInv => SpokenIsStored
  BY SpeakerSays
<1> QED BY <1>1, <1>2, <1>3, PTL DEF StreamSpec
=============================================================================
