------------------------- MODULE ConversationProofs -------------------------
(***************************************************************************)
(* Type correctness of Conversation and all of its safety properties, for  *)
(* every gap, ring size, clock and number of turns: the history ring never *)
(* carries an answer into another session, sessions are exactly the runs   *)
(* of turns the tracker promises, what is said of their ends is true, and  *)
(* every answer is handed to the extractor exactly once, in batches that   *)
(* end where the idle gaps are.                                            *)
(***************************************************************************)
EXTENDS Conversation, SequenceTheorems, FiniteSetTheorems, TLAPS

(* The two outcomes of SessionTracker::advance, as plain records. *)
LEMMA AdvancedIs ==
  ASSUME TypeOK
  PROVE  /\ Continues => /\ session \in Session
                         /\ Advanced = [id |-> session.id, no |-> session.no,
                                        last |-> clock, count |-> session.count + 1]
         /\ ~Continues => Advanced = [id |-> clock, no |-> SessionsOpened + 1,
                                     last |-> clock, count |-> 1]
<1>1. CASE Continues
  <2>1. session \in Session
    BY <1>1 DEF Continues, TypeOK
  <2>2. Advanced = [id |-> session.id, no |-> session.no,
                    last |-> clock, count |-> session.count + 1]
    BY <1>1, <2>1 DEF Advanced, Session
  <2> QED BY <1>1, <2>1, <2>2
<1>2. CASE ~Continues
  BY <1>2 DEF Advanced
<1> QED BY <1>1, <1>2

(* What the handler computes for the session, the ring and the write-back  *)
(* session is well typed.                                                  *)
LEMMA AdvancedType ==
  ASSUME TypeOK
  PROVE  Advanced \in Session
<1>1. SessionsOpened \in Nat
  <2>1. CASE Len(log) = 0
    BY <2>1 DEF SessionsOpened
  <2>2. CASE Len(log) # 0
    <3>1. Len(log) \in 1 .. Len(log)
      BY <2>2, LenProperties DEF TypeOK
    <3>2. log[Len(log)] \in LogEntry
      BY <3>1, ElementOfSeq DEF TypeOK
    <3> QED BY <2>2, <3>2 DEF SessionsOpened, LogEntry
  <2> QED BY <2>1, <2>2
<1> QED BY <1>1, AdvancedIs DEF TypeOK, Session

(* A ring stays one when a turn is pushed, ...                             *)
LEMMA PushType ==
  ASSUME NEW ring \in Seq(Nat), NEW turn \in Nat
  PROVE  Push(ring, turn) \in Seq(Nat)
<1>1. CASE HistoryTurns = 0
  BY <1>1 DEF Push
<1>2. CASE HistoryTurns # 0 /\ Len(ring) >= HistoryTurns
  <2>1. SubSeq(ring, Len(ring) - HistoryTurns + 2, Len(ring)) \in Seq(Nat)
    BY <1>2, HistoryAssumption, SubSeqProperties
  <2>2. Push(ring, turn)
          = Append(SubSeq(ring, Len(ring) - HistoryTurns + 2, Len(ring)), turn)
    BY <1>2 DEF Push
  <2> QED BY <2>1, <2>2
<1>3. CASE HistoryTurns # 0 /\ ~(Len(ring) >= HistoryTurns)
  BY <1>3 DEF Push
<1> QED BY <1>1, <1>2, <1>3

(* A push adds the new turn and keeps only turns that were in the ring. *)
LEMMA PushKeeps ==
  ASSUME NEW ring \in Seq(Nat), NEW turn \in Nat,
         NEW i \in DOMAIN Push(ring, turn)
  PROVE  Push(ring, turn)[i] = turn \/ \E j \in DOMAIN ring : Push(ring, turn)[i] = ring[j]
<1>1. CASE HistoryTurns = 0
  BY <1>1 DEF Push
<1>2. CASE HistoryTurns # 0 /\ Len(ring) >= HistoryTurns
  <2> DEFINE m == Len(ring) - HistoryTurns + 2
             kept == SubSeq(ring, m, Len(ring))
  <2>1. Push(ring, turn) = Append(kept, turn)
    BY <1>2 DEF Push
  <2>2. m \in 1 .. Len(ring) + 1
    BY <1>2, HistoryAssumption
  <2>3. /\ kept \in Seq(Nat)
        /\ Len(kept) = Len(ring) - m + 1
        /\ \A k \in 1 .. Len(ring) - m + 1 : kept[k] = ring[m + k - 1]
    BY <2>2, SubSeqProperties
  <2>4. i \in 1 .. Len(kept) + 1
    BY <2>1, <2>3
  <2>5. CASE i = Len(kept) + 1
    BY <2>1, <2>3, <2>5
  <2>6. CASE i \in 1 .. Len(kept)
    <3>1. Push(ring, turn)[i] = ring[m + i - 1]
      BY <2>1, <2>3, <2>6
    <3>2. m + i - 1 \in DOMAIN ring
      BY <2>2, <2>3, <2>6
    <3> QED BY <3>1, <3>2
  <2> QED BY <2>3, <2>4, <2>5, <2>6
<1>3. CASE HistoryTurns # 0 /\ ~(Len(ring) >= HistoryTurns)
  <2>1. Push(ring, turn) = Append(ring, turn)
    BY <1>3 DEF Push
  <2> QED BY <2>1
<1> QED BY <1>1, <1>2, <1>3

(* ... and so does the history of a turn, ...                              *)
LEMMA RememberedType ==
  ASSUME TypeOK, NEW turn \in Nat, NEW outcome \in Outcomes
  PROVE  Remembered(turn, outcome) \in Seq(Nat)
BY PushType, EmptySeq DEF TypeOK, Remembered

(* ... and the write-back session stays one.                               *)
LEMMA RecordedType ==
  ASSUME TypeOK, NEW turn \in Nat, NEW outcome \in Outcomes
  PROVE  Recorded(turn, outcome) \in Writeback
<1>1. CurrentWriteback \in Writeback
  <2>1. CASE writeback # NoSession /\ ~Expired
    <3>1. CurrentWriteback = [writeback EXCEPT !.last = clock]
      BY <2>1 DEF CurrentWriteback
    <3>2. writeback \in Writeback
      BY <2>1 DEF TypeOK
    <3> QED BY <3>1, <3>2 DEF TypeOK, Writeback
  <2>2. CASE ~(writeback # NoSession /\ ~Expired)
    BY <2>2, EmptySeq DEF CurrentWriteback, TypeOK, Writeback
  <2> QED BY <2>1, <2>2
<1>2. CASE outcome = "answered"
  <2>1. Recorded(turn, outcome) = [CurrentWriteback EXCEPT !.turns = Append(@, turn)]
    BY <1>2 DEF Recorded
  <2>2. Append(CurrentWriteback.turns, turn) \in Seq(Nat)
    BY <1>1 DEF Writeback
  <2> QED BY <1>1, <2>1, <2>2 DEF Writeback
<1>3. CASE outcome # "answered"
  BY <1>1, <1>3 DEF Recorded
<1> QED BY <1>2, <1>3

(* The end of a session is an end event.                                   *)
LEMMA EndType ==
  ASSUME NEW s \in Session, NEW reason \in Reasons
  PROVE  End(s, reason) \in EndEvent
BY DEF End, Session, EndEvent

(***************************************************************************)
(* Every variable keeps its type.                                          *)
(***************************************************************************)
THEOREM TypeCorrect == Spec => []TypeOK
<1>1. Init => TypeOK
  BY EmptySeq DEF Init, TypeOK
<1>2. TypeOK /\ [Next]_vars => TypeOK'
  <2> SUFFICES ASSUME TypeOK, [Next]_vars PROVE TypeOK'
    OBVIOUS
  <2>1. ASSUME NEW goodbye \in BOOLEAN, NEW outcome \in Outcomes, NEW d \in Advances,
               UserTurn(goodbye, outcome, d)
        PROVE  TypeOK'
    <3> DEFINE turn == Len(log) + 1
    <3>1. turn \in Nat
      BY DEF TypeOK
    <3>2. clock' \in Int
      BY <2>1, AdvancesAssumption DEF UserTurn, TypeOK
    <3>3. session' \in Session \cup {NoSession}
      BY <2>1, AdvancedType DEF UserTurn
    <3>4. history' \in Seq(Nat)
      BY <2>1, <3>1, RememberedType DEF UserTurn
    <3>5. writeback' \in Writeback \cup {NoSession}
      BY <2>1, <3>1, RecordedType DEF UserTurn
    <3>6. claimed' \subseteq Int /\ jobs' \subseteq Batch
      <4>1. CASE Claims
        <5>1. writeback \in Writeback
          BY <4>1 DEF Claims, Expired, TypeOK
        <5>2. [id |-> writeback.id, turns |-> writeback.turns] \in Batch
          BY <5>1 DEF Writeback, Batch
        <5>3. writeback.id \in Int
          BY <5>1 DEF Writeback
        <5>4. /\ claimed' = claimed \cup {writeback.id}
              /\ jobs' = jobs \cup {[id |-> writeback.id, turns |-> writeback.turns]}
          BY <2>1, <4>1 DEF UserTurn
        <5> QED BY <5>2, <5>3, <5>4 DEF TypeOK
      <4>2. CASE ~Claims
        BY <2>1, <4>2 DEF UserTurn, TypeOK
      <4> QED BY <4>1, <4>2
    <3>7. ended' \subseteq EndEvent
      <4>1. EndsOf(goodbye, outcome) \subseteq EndEvent
        BY AdvancedType, EndType DEF EndsOf, TypeOK, Reasons
      <4> QED BY <2>1, <4>1 DEF UserTurn, Publish, TypeOK
    <3>8. log' \in Seq(LogEntry)
      <4>1. [no |-> Advanced.no, boot |-> boots, at |-> clock,
             goodbye |-> goodbye, outcome |-> outcome] \in LogEntry
        BY AdvancedType DEF Session, LogEntry, TypeOK
      <4> QED BY <2>1, <4>1 DEF UserTurn, TypeOK
    <3>9. extracted' \subseteq Batch /\ boots' \in Nat
      BY <2>1 DEF UserTurn, TypeOK
    <3> QED BY <3>2, <3>3, <3>4, <3>5, <3>6, <3>7, <3>8, <3>9 DEF TypeOK
  <2>2. ASSUME NEW job \in jobs, RunWriteback(job)
        PROVE  TypeOK'
    BY <2>2 DEF RunWriteback, TypeOK
  <2>3. CASE Crash
    BY <2>3, EmptySeq DEF Crash, Boot, TypeOK
  <2>4. CASE Shutdown
    <3>1. ended' \subseteq EndEvent
      BY <2>4, EndType DEF Shutdown, Publish, TypeOK, Reasons
    <3> QED BY <2>4, <3>1, EmptySeq DEF Shutdown, Boot, TypeOK
  <2>5. CASE UNCHANGED vars
    BY <2>5 DEF vars, TypeOK
  <2> QED BY <2>1, <2>2, <2>3, <2>4, <2>5 DEF Next
<1> QED BY <1>1, <1>2, PTL DEF Spec

-----------------------------------------------------------------------------
(* The entry a turn appends, and the entries that were there before it. *)
LEMMA LogAfterTurn ==
  ASSUME TypeOK, NEW goodbye \in BOOLEAN, NEW outcome \in Outcomes, NEW d \in Advances,
         UserTurn(goodbye, outcome, d)
  PROVE  /\ Len(log') = Len(log) + 1
         /\ \A i \in 1 .. Len(log) : log'[i] = log[i]
         /\ log'[Len(log) + 1] = [no |-> Advanced.no, boot |-> boots, at |-> clock,
                                  goodbye |-> goodbye, outcome |-> outcome]
BY DEF UserTurn, TypeOK

(***************************************************************************)
(* The ring only ever holds answers of the open session: the proof needs   *)
(* no strengthening, because the ring is replaced in the very step that    *)
(* opens a session and is not read while none is open.                     *)
(***************************************************************************)
THEOREM HistoryStaysInSession == Spec => []HistoryIsThisSession
<1>1. Init => HistoryIsThisSession
  BY DEF Init, HistoryIsThisSession
<1>2. TypeOK /\ HistoryIsThisSession /\ [Next]_vars => HistoryIsThisSession'
  <2> SUFFICES ASSUME TypeOK, HistoryIsThisSession, [Next]_vars
               PROVE  HistoryIsThisSession'
    OBVIOUS
  <2>1. ASSUME NEW goodbye \in BOOLEAN, NEW outcome \in Outcomes, NEW d \in Advances,
               UserTurn(goodbye, outcome, d)
        PROVE  HistoryIsThisSession'
    <3> DEFINE turn == Len(log) + 1
               ring == IF Continues THEN history ELSE <<>>
    <3> SUFFICES ASSUME session' # NoSession, NEW i \in DOMAIN history'
                 PROVE  /\ history'[i] \in 1 .. Len(log')
                        /\ log'[history'[i]].no = session'.no
                        /\ log'[history'[i]].outcome = "answered"
      BY DEF HistoryIsThisSession, Handled
    <3>1. session' = Advanced /\ history' = Remembered(turn, outcome)
      BY <2>1 DEF UserTurn
    <3>2. turn \in Nat /\ ring \in Seq(Nat)
      BY EmptySeq DEF TypeOK
    <3>3. /\ Len(log') = Len(log) + 1
          /\ \A j \in 1 .. Len(log) : log'[j] = log[j]
          /\ log'[turn].no = Advanced.no
          /\ log'[turn].outcome = outcome
      <4>1. log'[turn] = [no |-> Advanced.no, boot |-> boots, at |-> clock,
                          goodbye |-> goodbye, outcome |-> outcome]
        BY <2>1, LogAfterTurn, Zenon
      <4>2. /\ Len(log') = Len(log) + 1
            /\ \A j \in 1 .. Len(log) : log'[j] = log[j]
        BY <2>1, LogAfterTurn, Zenon
      <4> QED BY <4>1, <4>2
    <3>4. ASSUME NEW j \in DOMAIN ring
          PROVE  /\ ring[j] \in 1 .. Len(log')
                 /\ log'[ring[j]].no = Advanced.no
                 /\ log'[ring[j]].outcome = "answered"
      <4>1. CASE Continues
        <5>1. session # NoSession /\ Advanced.no = session.no
          BY <4>1, AdvancedIs DEF Continues, Session
        <5>2. /\ ring[j] \in 1 .. Len(log)
              /\ log[ring[j]].no = session.no
              /\ log[ring[j]].outcome = "answered"
          BY <3>4, <4>1, <5>1 DEF HistoryIsThisSession, Handled
        <5> QED BY <3>2, <3>3, <5>1, <5>2
      <4>2. CASE ~Continues
        BY <3>4, <4>2
      <4> QED BY <4>1, <4>2
    <3>5. CASE outcome = "answered"
      <4>1. history' = Push(ring, turn)
        BY <3>1, <3>5 DEF Remembered
      <4>2. history'[i] = turn \/ \E j \in DOMAIN ring : history'[i] = ring[j]
        BY <3>2, <4>1, PushKeeps
      <4>3. turn \in 1 .. Len(log')
        BY <3>2, <3>3
      <4> QED BY <3>1, <3>3, <3>4, <3>5, <4>2, <4>3
    <3>6. CASE outcome # "answered"
      <4>1. history' = ring
        BY <3>1, <3>6 DEF Remembered
      <4> QED BY <3>1, <3>4, <4>1
    <3> QED BY <3>5, <3>6
  <2>2. ASSUME NEW job \in jobs, RunWriteback(job)
        PROVE  HistoryIsThisSession'
    BY <2>2 DEF RunWriteback, HistoryIsThisSession, Handled
  <2>3. CASE Crash
    BY <2>3 DEF Crash, Boot, HistoryIsThisSession
  <2>4. CASE Shutdown
    BY <2>4 DEF Shutdown, Boot, HistoryIsThisSession
  <2>5. CASE UNCHANGED vars
    BY <2>5 DEF vars, HistoryIsThisSession, Handled
  <2> QED BY <2>1, <2>2, <2>3, <2>4, <2>5 DEF Next
<1> QED BY <1>1, <1>2, TypeCorrect, PTL DEF Spec

-----------------------------------------------------------------------------
(***************************************************************************)
(* SessionsFollowGaps speaks of the log only, so it is not inductive: it   *)
(* needs what the tracker remembers of the last turn.  An open session is  *)
(* that of the last turn, which did not close it and was handled by this   *)
(* process; without an open session the last turn of this process, if any, *)
(* was an answered goodbye.                                                *)
(***************************************************************************)
TrackerMatchesLog ==
  /\ \A i \in 1 .. Len(log) : log[i].boot <= boots
  /\ session # NoSession =>
       /\ Len(log) # 0
       /\ session.no = log[Len(log)].no
       /\ session.last = log[Len(log)].at
       /\ log[Len(log)].boot = boots
       /\ ~ClosedBy(log[Len(log)])
  /\ session = NoSession /\ Len(log) # 0 /\ log[Len(log)].boot = boots
       => ClosedBy(log[Len(log)])

(* The entry at a position of the log. *)
LEMMA EntryType ==
  ASSUME TypeOK, NEW i \in 1 .. Len(log)
  PROVE  log[i] \in LogEntry
BY ElementOfSeq DEF TypeOK

(* Two consecutive turns share a session exactly when the tracker's gap    *)
(* test passes and the tracker was not closed or lost between them.        *)
LEMMA SameSessionAsLast ==
  ASSUME TypeOK, TrackerMatchesLog, Len(log) # 0
  PROVE  LET a == log[Len(log)]
         IN  a.no = Advanced.no <=> /\ a.boot = boots
                                    /\ clock - a.at <= IdleGap
                                    /\ ~ClosedBy(a)
<1> DEFINE a == log[Len(log)]
<1>1. a \in LogEntry
  <2>1. Len(log) \in 1 .. Len(log)
    BY LenProperties DEF TypeOK
  <2> QED BY <2>1, EntryType
<1>2. a.no \in Nat /\ a.at \in Int /\ clock \in Int /\ IdleGap \in Nat
  BY <1>1, GapAssumption DEF LogEntry, TypeOK
<1>3. CASE Continues
  <2>1. session # NoSession
    BY <1>3 DEF Continues
  <2>2. Advanced.no = session.no
    BY <1>3, AdvancedIs
  <2>3. clock - a.at <= IdleGap
    BY <1>2, <1>3, <2>1 DEF Continues, Elapsed, TrackerMatchesLog
  <2> QED BY <2>1, <2>2, <2>3 DEF TrackerMatchesLog
<1>4. CASE ~Continues
  <2>1. Advanced.no = a.no + 1
    BY <1>4, AdvancedIs DEF SessionsOpened
  <2>2. CASE session = NoSession
    BY <1>2, <2>1, <2>2 DEF TrackerMatchesLog
  <2>3. CASE session # NoSession
    <3>1. ~(clock - a.at <= IdleGap)
      BY <1>2, <1>4, <2>3 DEF Continues, Elapsed, TrackerMatchesLog
    <3> QED BY <1>2, <2>1, <3>1
  <2> QED BY <2>2, <2>3
<1> QED BY <1>3, <1>4

(* A turn leaves the tracker in step with the entry it appends. *)
LEMMA TurnKeepsTracker ==
  ASSUME TypeOK, TrackerMatchesLog,
         NEW goodbye \in BOOLEAN, NEW outcome \in Outcomes, NEW d \in Advances,
         UserTurn(goodbye, outcome, d)
  PROVE  TrackerMatchesLog'
<1> DEFINE n == Len(log) + 1
           new == [no |-> Advanced.no, boot |-> boots, at |-> clock,
                   goodbye |-> goodbye, outcome |-> outcome]
<1>1. Len(log') = n /\ n \in Nat \ {0} /\ \A i \in 1 .. Len(log) : log'[i] = log[i]
  <2>1. Len(log') = n /\ \A i \in 1 .. Len(log) : log'[i] = log[i]
    BY LogAfterTurn, Zenon
  <2>2. n \in Nat \ {0}
    BY LenProperties DEF TypeOK
  <2> QED BY <2>1, <2>2
<1>2. log'[n] = new
  BY LogAfterTurn, Zenon
<1>3. boots' = boots /\ boots \in Nat
  BY DEF UserTurn, TypeOK
<1>4. ASSUME NEW i \in 1 .. Len(log') PROVE log'[i].boot <= boots'
  <2>1. CASE i = n
    BY <1>2, <1>3, <2>1
  <2>2. CASE i # n
    <3>1. i \in 1 .. Len(log)
      BY <1>1, <2>2, LenProperties DEF TypeOK
    <3> QED BY <1>1, <1>3, <3>1 DEF TrackerMatchesLog
  <2> QED BY <2>1, <2>2
<1>5. ClosedBy(new) <=> goodbye /\ outcome # "failed"
  BY DEF ClosedBy
<1>6. session' = IF ClosedBy(new) THEN NoSession ELSE Advanced
  BY <1>5 DEF UserTurn
<1>7. Advanced.last = clock /\ Advanced # NoSession
  BY AdvancedIs, AdvancedType, NoSessionAssumption
<1>8. session' # NoSession =>
        /\ session'.no = new.no
        /\ session'.last = new.at
        /\ new.boot = boots'
        /\ ~ClosedBy(new)
  BY <1>3, <1>6, <1>7
<1>9. session' = NoSession => ClosedBy(new)
  BY <1>6, <1>7
<1>10. Len(log') # 0 /\ log'[Len(log')] = new
  BY <1>1, <1>2
<1> QED
  <2> HIDE DEF new, n
  <2>1. ClosedBy(new) <=> ClosedBy(log'[Len(log')])
    BY <1>10
  <2> QED BY <1>4, <1>8, <1>9, <1>10, <2>1 DEF TrackerMatchesLog, ClosedBy

(* A new process knows no session, and no turn of the log is its own. *)
LEMMA BootKeepsTracker ==
  ASSUME TypeOK, TrackerMatchesLog, Boot
  PROVE  TrackerMatchesLog'
<1>1. log' = log /\ session' = NoSession /\ boots' = boots + 1
  BY DEF Boot
<1>2. \A i \in 1 .. Len(log) : log[i].boot < boots + 1 /\ log[i].boot <= boots + 1
  <2> TAKE i \in 1 .. Len(log)
  <2>1. log[i].boot \in Nat
    BY EntryType DEF LogEntry
  <2> QED BY <2>1 DEF TrackerMatchesLog, TypeOK
<1>3. Len(log) # 0 => log[Len(log)].boot # boots + 1
  <2>1. Len(log) # 0 => Len(log) \in 1 .. Len(log)
    BY LenProperties DEF TypeOK
  <2>2. boots + 1 \in Nat /\ ~(boots + 1 < boots + 1)
    BY DEF TypeOK
  <2> QED BY <1>2, <2>1, <2>2
<1> QED BY <1>1, <1>2, <1>3 DEF TrackerMatchesLog

(***************************************************************************)
(* Sessions are exactly the runs of turns without a long gap, an answered  *)
(* goodbye or a restart between them, for every clock: a step back of the  *)
(* wall clock never splits a session.                                      *)
(***************************************************************************)
THEOREM SessionsAreRunsOfTurns == Spec => []SessionsFollowGaps
<1> DEFINE IInv == TrackerMatchesLog /\ SessionsFollowGaps
<1>1. Init => IInv
  BY LenProperties DEF Init, TrackerMatchesLog, SessionsFollowGaps, Handled
<1>2. TypeOK /\ IInv /\ [Next]_vars => IInv'
  <2> SUFFICES ASSUME TypeOK, IInv, [Next]_vars PROVE IInv'
    OBVIOUS
  <2>1. ASSUME NEW goodbye \in BOOLEAN, NEW outcome \in Outcomes, NEW d \in Advances,
               UserTurn(goodbye, outcome, d)
        PROVE  IInv'
    <3>1. TrackerMatchesLog'
      BY <2>1, TurnKeepsTracker
    <3>2. SessionsFollowGaps'
      <4> SUFFICES ASSUME NEW i \in 1 .. Len(log'), i + 1 \in 1 .. Len(log')
                   PROVE  log'[i].no = log'[i + 1].no <=>
                            /\ log'[i].boot = log'[i + 1].boot
                            /\ log'[i + 1].at - log'[i].at <= IdleGap
                            /\ log'[i].goodbye => log'[i].outcome = "failed"
        BY DEF SessionsFollowGaps, Handled, ClosedBy
      <4>1. /\ Len(log') = Len(log) + 1
            /\ \A j \in 1 .. Len(log) : log'[j] = log[j]
        BY <2>1, LogAfterTurn, Zenon
      <4>2. Len(log) \in Nat
        BY LenProperties DEF TypeOK
      <4>3. CASE i = Len(log)
        <5>1. log'[i + 1] = [no |-> Advanced.no, boot |-> boots, at |-> clock,
                             goodbye |-> goodbye, outcome |-> outcome]
          BY <2>1, <4>3, LogAfterTurn, Zenon
        <5>2. log'[i] = log[Len(log)] /\ Len(log) # 0
          BY <4>1, <4>2, <4>3
        <5> QED BY <5>1, <5>2, SameSessionAsLast DEF ClosedBy
      <4>4. CASE i # Len(log)
        <5>1. i \in 1 .. Len(log) /\ i + 1 \in 1 .. Len(log)
          BY <4>1, <4>2, <4>4
        <5> QED BY <4>1, <5>1 DEF SessionsFollowGaps, Handled, ClosedBy
      <4> QED BY <4>3, <4>4
    <3> QED BY <3>1, <3>2
  <2>2. ASSUME NEW job \in jobs, RunWriteback(job)
        PROVE  IInv'
    BY <2>2 DEF RunWriteback, TrackerMatchesLog, SessionsFollowGaps, Handled, ClosedBy
  <2>3. CASE Crash \/ Shutdown
    <3>1. Boot /\ log' = log
      BY <2>3 DEF Crash, Shutdown, Boot
    <3>2. TrackerMatchesLog'
      BY <3>1, BootKeepsTracker
    <3> QED BY <3>1, <3>2 DEF SessionsFollowGaps, Handled, ClosedBy
  <2>4. CASE UNCHANGED vars
    BY <2>4 DEF vars, TrackerMatchesLog, SessionsFollowGaps, Handled, ClosedBy
  <2> QED BY <2>1, <2>2, <2>3, <2>4 DEF Next
<1> QED BY <1>1, <1>2, TypeCorrect, PTL DEF Spec

-----------------------------------------------------------------------------
(* The turns of a session, as the log has them. *)
Own(no) == {i \in Handled : log[i].no = no}
OwnNext(no) == {i \in Handled' : log'[i].no = no}

(***************************************************************************)
(* What a session.end says is a matter of the open session: it counts its  *)
(* turns, none of them closed it, and no end of it was published.  Session *)
(* numbers only grow, so no later turn joins a session that has ended.     *)
(***************************************************************************)
EndInv ==
  /\ \A i \in Handled : log[i].no <= SessionsOpened
  /\ \A e \in ended : e.no <= SessionsOpened
  /\ session # NoSession =>
       /\ session.count = Cardinality(Own(session.no))
       /\ \A i \in Own(session.no) : ~ClosedBy(log[i])
       /\ \A e \in ended : e.no # session.no
  /\ \A e, f \in ended : e.no = f.no => e = f
  /\ \A e \in ended :
       /\ e.count = Cardinality(Own(e.no))
       /\ e.reason = "explicit" <=> \E i \in Own(e.no) : ClosedBy(log[i])


(* What the log says before and after a turn. *)
LEMMA TurnFacts ==
  ASSUME TypeOK, NEW goodbye \in BOOLEAN, NEW outcome \in Outcomes, NEW d \in Advances,
         UserTurn(goodbye, outcome, d)
  PROVE  /\ Len(log) + 1 \in Nat \ {0} /\ Len(log) + 1 \notin Handled
         /\ Handled \subseteq Nat
         /\ Handled' = Handled \cup {Len(log) + 1} /\ Len(log') = Len(log) + 1
         /\ \A i \in Handled : log'[i] = log[i] /\ log[i] \in LogEntry
         /\ log'[Len(log) + 1] = [no |-> Advanced.no, boot |-> boots, at |-> clock,
                                  goodbye |-> goodbye, outcome |-> outcome]
         /\ log'[Len(log) + 1].no = Advanced.no
         /\ SessionsOpened \in Nat /\ Advanced \in Session
         /\ SessionsOpened' = Advanced.no /\ boots' = boots
<1> DEFINE n == Len(log) + 1
<1>1. Len(log) \in Nat
  BY LenProperties DEF TypeOK
<1>2. /\ Len(log') = Len(log) + 1
      /\ \A i \in 1 .. Len(log) : log'[i] = log[i]
      /\ log'[Len(log) + 1] = [no |-> Advanced.no, boot |-> boots, at |-> clock,
                               goodbye |-> goodbye, outcome |-> outcome]
  BY LogAfterTurn, Zenon
<1>3. Handled' = Handled \cup {n} /\ n \notin Handled /\ Handled \subseteq Nat
  BY <1>1, <1>2 DEF Handled
<1>4. \A i \in Handled : log[i] \in LogEntry
  BY EntryType DEF Handled
<1>5. SessionsOpened \in Nat
  BY <1>1, <1>4 DEF SessionsOpened, Handled, LogEntry
<1>6. SessionsOpened' = Advanced.no
  BY <1>1, <1>2 DEF SessionsOpened
<1>7. Advanced \in Session
  BY AdvancedType
<1>8. boots' = boots
  BY DEF UserTurn
<1> QED BY <1>1, <1>2, <1>3, <1>4, <1>5, <1>6, <1>7, <1>8 DEF Handled

(* A session has finitely many turns. *)
LEMMA OwnIsFinite ==
  ASSUME TypeOK, NEW no \in Nat
  PROVE  IsFiniteSet(Own(no))
<1>1. Len(log) \in Nat
  BY LenProperties DEF TypeOK
<1>2. IsFiniteSet(Handled)
  BY <1>1, FS_Interval DEF Handled
<1> QED BY <1>2, FS_Subset DEF Own

(* A turn joins the session it is handled in and no other. *)
LEMMA OwnAfterTurn ==
  ASSUME TypeOK, NEW goodbye \in BOOLEAN, NEW outcome \in Outcomes, NEW d \in Advances,
         UserTurn(goodbye, outcome, d), NEW no \in Nat
  PROVE  /\ no # Advanced.no => OwnNext(no) = Own(no)
         /\ no = Advanced.no => /\ OwnNext(no) = Own(no) \cup {Len(log) + 1}
                                /\ Cardinality(OwnNext(no)) = Cardinality(Own(no)) + 1
<1> DEFINE n == Len(log) + 1
<1>1. /\ n \notin Handled /\ Handled' = Handled \cup {n}
      /\ \A i \in Handled : log'[i] = log[i]
      /\ log'[n].no = Advanced.no
  BY TurnFacts, Zenon
<1>2. no # Advanced.no => OwnNext(no) = Own(no)
  BY <1>1 DEF Own, OwnNext
<1>3. no = Advanced.no => OwnNext(no) = Own(no) \cup {n}
  BY <1>1 DEF Own, OwnNext
<1>4. n \notin Own(no)
  BY <1>1 DEF Own
<1>5. Cardinality(Own(no) \cup {n}) = Cardinality(Own(no)) + 1
  BY <1>4, OwnIsFinite, FS_AddElement
<1> QED BY <1>2, <1>3, <1>5

(* A turn publishes only true ends, each for the first time. *)
LEMMA TurnKeepsEnds ==
  ASSUME TypeOK, TrackerMatchesLog, EndInv,
         NEW goodbye \in BOOLEAN, NEW outcome \in Outcomes, NEW d \in Advances,
         UserTurn(goodbye, outcome, d)
  PROVE  EndInv'
<1> DEFINE n == Len(log) + 1
           closes == goodbye /\ outcome # "failed"
           new == [no |-> Advanced.no, boot |-> boots, at |-> clock,
                   goodbye |-> goodbye, outcome |-> outcome]
<1>1. /\ n \notin Handled /\ Handled' = Handled \cup {n}
      /\ \A i \in Handled : log'[i] = log[i] /\ log[i] \in LogEntry
      /\ log'[n] = new
      /\ SessionsOpened \in Nat /\ Advanced \in Session
      /\ SessionsOpened' = Advanced.no
  BY TurnFacts, Zenon
<1>2. ClosedBy(new) <=> closes
  BY DEF ClosedBy
<1>3. /\ new.no = Advanced.no /\ (ClosedBy(log'[n]) <=> closes)
      /\ \A i \in Handled : ClosedBy(log'[i]) <=> ClosedBy(log[i])
  BY <1>1 DEF ClosedBy
<1>4. /\ Continues => /\ session \in Session /\ session # NoSession
                      /\ session.no = SessionsOpened
                      /\ Advanced.no = session.no /\ Advanced.count = session.count + 1
      /\ ~Continues => Advanced.no = SessionsOpened + 1 /\ Advanced.count = 1
  <2>1. Continues => session # NoSession
    BY DEF Continues
  <2>2. session # NoSession => session.no = SessionsOpened
    BY DEF TrackerMatchesLog, SessionsOpened
  <2> QED BY <2>1, <2>2, AdvancedIs
<1>5. SessionsOpened <= Advanced.no /\ Advanced.no \in Nat
  BY <1>1, <1>4 DEF Session
<1>6. \A i \in Handled' : log'[i].no <= SessionsOpened'
  BY <1>1, <1>5 DEF EndInv, LogEntry
<1>7. \A e \in ended : /\ e \in EndEvent /\ e.no # Advanced.no
                       /\ e.no <= SessionsOpened /\ OwnNext(e.no) = Own(e.no)
  <2> TAKE e \in ended
  <2>1. e \in EndEvent /\ e.no \in Nat
    BY DEF TypeOK, EndEvent
  <2>2. e.no # Advanced.no
    BY <1>1, <1>4, <2>1 DEF EndInv
  <2> QED BY <2>1, <2>2, OwnAfterTurn DEF EndInv
<1>8. /\ Advanced.count = Cardinality(OwnNext(Advanced.no))
      /\ \A i \in Own(Advanced.no) : ~ClosedBy(log[i])
      /\ OwnNext(Advanced.no) = Own(Advanced.no) \cup {n}
  <2>1. /\ OwnNext(Advanced.no) = Own(Advanced.no) \cup {n}
        /\ Cardinality(OwnNext(Advanced.no)) = Cardinality(Own(Advanced.no)) + 1
    BY <1>5, OwnAfterTurn
  <2>2. CASE Continues
    BY <1>4, <2>1, <2>2 DEF EndInv
  <2>3. CASE ~Continues
    <3>1. Own(Advanced.no) = {}
      BY <1>1, <1>4, <2>3 DEF EndInv, Own, LogEntry
    <3> QED BY <1>4, <2>1, <2>3, <3>1, FS_EmptySet
  <2> QED BY <2>2, <2>3
<1>9. ASSUME session # NoSession, ~Continues
      PROVE  /\ session.no = SessionsOpened /\ session.no # Advanced.no
             /\ OwnNext(session.no) = Own(session.no)
             /\ session.count = Cardinality(Own(session.no))
             /\ \A i \in Own(session.no) : ~ClosedBy(log[i])
             /\ \A e \in ended : e.no # session.no
  <2>1. session \in Session /\ session.no \in Nat
    BY <1>9 DEF TypeOK, Session
  <2>2. session.no = SessionsOpened
    BY <1>9 DEF TrackerMatchesLog, SessionsOpened
  <2> QED BY <1>1, <1>4, <1>9, <2>1, <2>2, OwnAfterTurn DEF EndInv
(* Every session.end there is now: an old one, that of the session that    *)
(* had expired, or that of the goodbye.                                    *)
<1>10. \A e \in ended' : \/ e \in ended
                         \/ session # NoSession /\ ~Continues /\ e = End(session, "idle")
                         \/ closes /\ e = End(Advanced, "explicit")
  BY DEF UserTurn, Publish, EndsOf
<1>11. \A e \in ended' : e.no <= SessionsOpened'
  <2> TAKE e \in ended'
  <2>1. CASE e \in ended
    BY <1>1, <1>5, <1>7, <2>1 DEF EndEvent
  <2>2. CASE session # NoSession /\ ~Continues /\ e = End(session, "idle")
    BY <1>1, <1>5, <1>9, <2>2 DEF End
  <2>3. CASE e = End(Advanced, "explicit")
    BY <1>1, <1>5, <2>3 DEF End
  <2> QED BY <1>10, <2>1, <2>2, <2>3
<1>12. session' # NoSession => /\ ~closes /\ session' = Advanced
  BY DEF UserTurn
<1>13. session' # NoSession =>
         /\ session'.count = Cardinality(OwnNext(session'.no))
         /\ \A i \in OwnNext(session'.no) : ~ClosedBy(log'[i])
         /\ \A e \in ended' : e.no # session'.no
  <2> SUFFICES ASSUME ~closes, session' = Advanced
               PROVE  /\ Advanced.count = Cardinality(OwnNext(Advanced.no))
                      /\ \A i \in OwnNext(Advanced.no) : ~ClosedBy(log'[i])
                      /\ \A e \in ended' : e.no # Advanced.no
    BY <1>12 DEF Own
  <2>1. \A i \in Own(Advanced.no) : i \in Handled
    BY DEF Own
  <2>2. \A e \in ended' : e.no # Advanced.no
    BY <1>7, <1>9, <1>10 DEF End
  <2> HIDE DEF new, closes, n
  <2> QED BY <1>1, <1>3, <1>8, <1>12, <2>1, <2>2
<1>14. \A e, f \in ended' : e.no = f.no => e = f
  BY <1>7, <1>9, <1>10 DEF EndInv, End
<1>15. ASSUME NEW e \in ended'
       PROVE  /\ e.count = Cardinality(OwnNext(e.no))
              /\ e.reason = "explicit" <=> \E i \in OwnNext(e.no) : ClosedBy(log'[i])
  <2>1. CASE e \in ended
    <3>1. OwnNext(e.no) = Own(e.no) /\ \A i \in Own(e.no) : i \in Handled
      BY <1>7, <2>1 DEF Own
    <3> QED BY <1>1, <2>1, <3>1 DEF EndInv
  <2>2. CASE session # NoSession /\ ~Continues /\ e = End(session, "idle")
    <3>1. e.no = session.no /\ e.count = session.count /\ e.reason = "idle"
      BY <2>2 DEF End
    <3>2. \A i \in Own(session.no) : i \in Handled
      BY DEF Own
    <3> QED BY <1>1, <1>9, <2>2, <3>1, <3>2
  <2>3. CASE closes /\ e = End(Advanced, "explicit")
    <3>1. e.no = Advanced.no /\ e.count = Advanced.count /\ e.reason = "explicit"
      BY <2>3 DEF End
    <3> HIDE DEF new, closes, n
    <3> QED BY <1>1, <1>3, <1>8, <2>3, <3>1
  <2> QED BY <1>10, <2>1, <2>2, <2>3
<1> QED BY <1>6, <1>11, <1>13, <1>14, <1>15 DEF EndInv, Own, OwnNext, ClosedBy

(***************************************************************************)
(* Every session.end published is true and is the only one of its session, *)
(* for every clock, whichever publishes are lost and wherever the daemon   *)
(* crashes or is shut down.                                                *)
(***************************************************************************)
THEOREM EndsAreHonest == Spec => []EndEventsAreHonest
<1> DEFINE IInv == TrackerMatchesLog /\ EndInv
<1>1. Init => IInv
  BY LenProperties DEF Init, TrackerMatchesLog, EndInv, Handled
<1>2. TypeOK /\ IInv /\ [Next]_vars => IInv'
  <2> SUFFICES ASSUME TypeOK, IInv, [Next]_vars PROVE IInv'
    OBVIOUS
  <2>1. ASSUME NEW goodbye \in BOOLEAN, NEW outcome \in Outcomes, NEW d \in Advances,
               UserTurn(goodbye, outcome, d)
        PROVE  IInv'
    BY <2>1, TurnKeepsTracker, TurnKeepsEnds
  <2>2. ASSUME NEW job \in jobs, RunWriteback(job)
        PROVE  IInv'
    BY <2>2 DEF RunWriteback, TrackerMatchesLog, EndInv, Own, Handled, SessionsOpened,
                 ClosedBy
  <2>3. CASE Crash \/ Shutdown
    <3>1. Boot
      BY <2>3 DEF Crash, Shutdown
    <3>2. TrackerMatchesLog'
      BY <3>1, BootKeepsTracker
    <3>3. log' = log /\ session' = NoSession
      BY <3>1 DEF Boot
    <3>4. \A e \in ended' : \/ e \in ended
                            \/ session # NoSession /\ e = End(session, "shutdown")
      BY <2>3 DEF Crash, Shutdown, Publish
    <3>5. session # NoSession => /\ session.no = SessionsOpened
                                /\ SessionsOpened \in Nat
      BY DEF TrackerMatchesLog, SessionsOpened, TypeOK, Session
    <3>6. \A e \in ended' : e.no <= SessionsOpened
      BY <3>4, <3>5 DEF EndInv, End
    <3>7. \A e, f \in ended' : e.no = f.no => e = f
      BY <3>4 DEF EndInv, End
    <3>8. \A e \in ended' :
            /\ e.count = Cardinality(Own(e.no))
            /\ e.reason = "explicit" <=> \E i \in Own(e.no) : ClosedBy(log[i])
      BY <3>4 DEF EndInv, End
    <3> QED BY <3>2, <3>3, <3>6, <3>7, <3>8
            DEF EndInv, Own, Handled, SessionsOpened, ClosedBy
  <2>4. CASE UNCHANGED vars
    BY <2>4 DEF vars, TrackerMatchesLog, EndInv, Own, Handled, SessionsOpened, ClosedBy
  <2> QED BY <2>1, <2>2, <2>3, <2>4 DEF Next
<1>3. IInv => EndEventsAreHonest
  BY DEF EndInv, EndEventsAreHonest, Own
<1> QED BY <1>1, <1>2, <1>3, TypeCorrect, PTL DEF Spec

-----------------------------------------------------------------------------
(* The turns of the open write-back session, and the batches handed over.  *)
OpenTurns == IF writeback = NoSession THEN {} ELSE Turns(writeback)
HandedOver == jobs \cup extracted

(* The open write-back session goes on with this turn. *)
Kept == writeback # NoSession /\ ~Expired

(***************************************************************************)
(* What the write-back session knows of the log: it was touched by the     *)
(* last turn, which this process handled, and took its id from the clock   *)
(* of one of the turns.                                                    *)
(***************************************************************************)
WritebackMatchesLog ==
  /\ writeback # NoSession =>
       /\ Len(log) # 0
       /\ writeback.last = log[Len(log)].at
       /\ log[Len(log)].boot = boots
       /\ \E i \in Handled : log[i].at = writeback.id
  /\ OpenTurns \subseteq Handled
  /\ \A b \in HandedOver : Turns(b) \subseteq Handled

(* A goodbye lies between turns of different sessions. *)
Split(turns) ==
  \A i, j \in turns : log[i].no < log[j].no =>
    \E k \in Handled : log[k].no = log[i].no /\ ClosedBy(log[k])

SplitNext(turns) ==
  \A i, j \in turns : log'[i].no < log'[j].no =>
    \E k \in Handled' : log'[k].no = log'[i].no /\ ClosedBy(log'[k])

(***************************************************************************)
(* The batches split as promised, and so will the open one: its turns of   *)
(* sessions before the current one are already known to be closed.         *)
(***************************************************************************)
SplitInv ==
  /\ \A i \in Handled : log[i].no <= SessionsOpened
  /\ \A i \in OpenTurns : log[i].no < SessionsOpened =>
       \E k \in Handled : log[k].no = log[i].no /\ ClosedBy(log[k])
  /\ Split(OpenTurns)
  /\ \A b \in HandedOver : Split(Turns(b))

(* No turn is listed twice, in one batch or in two. *)
Distinct(turns) == \A i, j \in DOMAIN turns : i # j => turns[i] # turns[j]

OnceInv ==
  /\ writeback # NoSession => Distinct(writeback.turns)
  /\ \A b \in HandedOver : Distinct(b.turns) /\ Turns(b) \cap OpenTurns = {}
  /\ \A b, c \in HandedOver : b # c => Turns(b) \cap Turns(c) = {}

(***************************************************************************)
(* The ids the guard has let through are older than that of the open       *)
(* session, so the guard will let it through too, and no answer of this    *)
(* process has been dropped.                                               *)
(***************************************************************************)
ClaimInv ==
  /\ writeback = NoSession => claimed = {}
  /\ MovesForward => \A id \in claimed : id < writeback.id
  /\ HasExtractor /\ MovesForward =>
       \A i \in Handled : log[i].boot = boots /\ log[i].outcome = "answered" =>
         i \in OpenTurns \/ \E b \in HandedOver : i \in Turns(b)

(* What the appended turn adds to a batch. *)
LEMMA AppendTurn ==
  ASSUME NEW s \in Seq(Nat), NEW t \in Nat
  PROVE  /\ {Append(s, t)[i] : i \in DOMAIN Append(s, t)}
              = {s[i] : i \in DOMAIN s} \cup {t}
         /\ Distinct(s) /\ t \notin {s[i] : i \in DOMAIN s} => Distinct(Append(s, t))
<1>1. /\ Append(s, t) \in Seq(Nat) /\ Len(Append(s, t)) = Len(s) + 1
      /\ \A i \in 1 .. Len(s) : Append(s, t)[i] = s[i]
      /\ Append(s, t)[Len(s) + 1] = t
      /\ DOMAIN s = 1 .. Len(s) /\ Len(s) \in Nat
      /\ DOMAIN Append(s, t) = 1 .. Len(s) + 1
  BY AppendProperties, LenProperties
<1> DEFINE a == Append(s, t)
<1> HIDE DEF a
<1>2. /\ DOMAIN a = (DOMAIN s) \cup {Len(s) + 1} /\ a[Len(s) + 1] = t
      /\ \A i \in DOMAIN s : a[i] = s[i]
      /\ Len(s) + 1 \notin DOMAIN s
  BY <1>1 DEF a
<1>3. {a[i] : i \in DOMAIN a} = {s[i] : i \in DOMAIN s} \cup {t}
  BY <1>2
<1>4. Distinct(s) /\ t \notin {s[i] : i \in DOMAIN s} => Distinct(a)
  BY <1>2 DEF Distinct
<1> QED BY <1>3, <1>4 DEF a

(* The write-back session after a turn: the old one goes on, or a new one  *)
(* takes its id from the clock.                                            *)
LEMMA RecordedIs ==
  ASSUME TypeOK, NEW turn \in Nat, NEW outcome \in Outcomes
  PROVE  /\ Recorded(turn, outcome) \in Writeback
         /\ Recorded(turn, outcome) # NoSession
         /\ Recorded(turn, outcome).last = clock
         /\ Recorded(turn, outcome).id = IF Kept THEN writeback.id ELSE clock
         /\ Turns(Recorded(turn, outcome)) =
              (IF Kept THEN Turns(writeback) ELSE {})
              \cup (IF outcome = "answered" THEN {turn} ELSE {})
         /\ (Kept => Distinct(writeback.turns) /\ turn \notin Turns(writeback))
              => Distinct(Recorded(turn, outcome).turns)
<1> DEFINE old == IF Kept THEN writeback.turns ELSE <<>>
<1>1. Recorded(turn, outcome) \in Writeback /\ Recorded(turn, outcome) # NoSession
  BY RecordedType, NoSessionAssumption
<1>2. /\ CurrentWriteback.last = clock
      /\ CurrentWriteback.id = IF Kept THEN writeback.id ELSE clock
      /\ CurrentWriteback.turns = old
      /\ CurrentWriteback \in Writeback
  <2>1. CASE Kept
    <3>1. writeback \in Writeback /\ CurrentWriteback = [writeback EXCEPT !.last = clock]
      BY <2>1 DEF Kept, TypeOK, CurrentWriteback
    <3> QED BY <2>1, <3>1 DEF Writeback, TypeOK
  <2>2. CASE ~Kept
    <3>1. CurrentWriteback = [id |-> clock, last |-> clock, turns |-> <<>>]
      BY <2>2 DEF Kept, CurrentWriteback
    <3> QED BY <2>2, <3>1, EmptySeq DEF Writeback, TypeOK
  <2> QED BY <2>1, <2>2
<1>3. old \in Seq(Nat)
  BY <1>2 DEF Writeback
<1>4. Turns(writeback) = {writeback.turns[i] : i \in DOMAIN writeback.turns}
  BY DEF Turns
<1>5. {old[i] : i \in DOMAIN old} = IF Kept THEN Turns(writeback) ELSE {}
  BY <1>4, EmptySeq
<1>6. Kept \/ Distinct(old)
  BY EmptySeq DEF Distinct
<1>7. /\ Recorded(turn, outcome).last = clock
      /\ Recorded(turn, outcome).id = CurrentWriteback.id
      /\ Recorded(turn, outcome).turns =
           IF outcome = "answered" THEN Append(old, turn) ELSE old
  BY <1>2 DEF Recorded, Writeback
<1>8. Turns(Recorded(turn, outcome)) =
        {old[i] : i \in DOMAIN old} \cup (IF outcome = "answered" THEN {turn} ELSE {})
  <2> HIDE DEF old
  <2>1. CASE outcome = "answered"
    <3>1. Turns(Recorded(turn, outcome))
            = {Append(old, turn)[i] : i \in DOMAIN Append(old, turn)}
      BY <1>7, <2>1 DEF Turns
    <3>2. {Append(old, turn)[i] : i \in DOMAIN Append(old, turn)}
            = {old[i] : i \in DOMAIN old} \cup {turn}
      BY <1>3, AppendTurn, Zenon
    <3> QED BY <2>1, <3>1, <3>2
  <2>2. CASE outcome # "answered"
    BY <1>7, <2>2 DEF Turns
  <2> QED BY <2>1, <2>2
<1>9. (Kept => Distinct(writeback.turns) /\ turn \notin Turns(writeback))
        => Distinct(Recorded(turn, outcome).turns)
  <2> SUFFICES ASSUME Kept => Distinct(writeback.turns) /\ turn \notin Turns(writeback)
               PROVE  Distinct(Recorded(turn, outcome).turns)
    OBVIOUS
  <2>1. Distinct(old) /\ turn \notin {old[i] : i \in DOMAIN old}
    BY <1>5, <1>6
  <2> HIDE DEF old
  <2> QED BY <1>3, <1>7, <2>1, AppendTurn
<1> QED BY <1>1, <1>2, <1>5, <1>7, <1>8, <1>9

(* What a turn hands over: everything the expired session had, or nothing. *)
LEMMA WritebackAfterTurn ==
  ASSUME TypeOK, NEW goodbye \in BOOLEAN, NEW outcome \in Outcomes, NEW d \in Advances,
         UserTurn(goodbye, outcome, d)
  PROVE  /\ writeback' # NoSession /\ writeback'.last = clock
         /\ writeback'.id = IF Kept THEN writeback.id ELSE clock
         /\ OpenTurns' = (IF Kept THEN OpenTurns ELSE {})
                         \cup (IF outcome = "answered" THEN {Len(log) + 1} ELSE {})
         /\ (Kept => Distinct(writeback.turns) /\ Len(log) + 1 \notin OpenTurns)
              => Distinct(writeback'.turns)
         /\ OpenTurns \subseteq Nat
         /\ \A b \in HandedOver' : \/ b \in HandedOver
                               \/ /\ Claims /\ ~Kept /\ writeback # NoSession
                                  /\ b.turns = writeback.turns /\ Turns(b) = OpenTurns
                                  /\ b = [id |-> writeback.id, turns |-> writeback.turns]
         /\ HandedOver \subseteq HandedOver'
         /\ Claims => \E b \in HandedOver' : Turns(b) = OpenTurns
<1>1. Len(log) + 1 \in Nat
  BY DEF TypeOK
<1>2. writeback' = Recorded(Len(log) + 1, outcome)
  BY DEF UserTurn
<1>3. Kept => OpenTurns = Turns(writeback)
  BY DEF Kept, OpenTurns
<1>4. /\ writeback' # NoSession /\ writeback'.last = clock
      /\ writeback'.id = IF Kept THEN writeback.id ELSE clock
      /\ Turns(writeback') = (IF Kept THEN OpenTurns ELSE {})
                             \cup (IF outcome = "answered" THEN {Len(log) + 1} ELSE {})
      /\ (Kept => Distinct(writeback.turns) /\ Len(log) + 1 \notin OpenTurns)
           => Distinct(writeback'.turns)
  BY <1>1, <1>2, <1>3, RecordedIs
<1>5. OpenTurns' = Turns(writeback')
  BY <1>4 DEF OpenTurns, Turns
<1>6. OpenTurns \subseteq Nat
  BY DEF OpenTurns, Turns, TypeOK, Writeback
<1> DEFINE batch == [id |-> writeback.id, turns |-> writeback.turns]
<1>7. Claims => /\ ~Kept /\ writeback # NoSession
                /\ batch.turns = writeback.turns /\ Turns(batch) = OpenTurns
  BY DEF Claims, Expired, Kept, OpenTurns, Turns
<1>8. HandedOver' = IF Claims THEN HandedOver \cup {batch} ELSE HandedOver
  BY DEF HandedOver, UserTurn
<1> HIDE DEF batch
<1>9. Claims => \E b \in HandedOver' : Turns(b) = OpenTurns
  BY <1>7, <1>8
<1>10. HandedOver \subseteq HandedOver'
  BY <1>8
<1>11. \A b \in HandedOver' : \/ b \in HandedOver
                          \/ /\ Claims /\ ~Kept /\ writeback # NoSession
                             /\ b.turns = writeback.turns /\ Turns(b) = OpenTurns
                             /\ b = batch
  BY <1>7, <1>8
<1> QED BY <1>4, <1>5, <1>6, <1>9, <1>10, <1>11 DEF batch

(* A turn keeps the write-back session in step with the log. *)
LEMMA TurnKeepsWriteback ==
  ASSUME TypeOK, WritebackMatchesLog,
         NEW goodbye \in BOOLEAN, NEW outcome \in Outcomes, NEW d \in Advances,
         UserTurn(goodbye, outcome, d)
  PROVE  WritebackMatchesLog'
<1> DEFINE n == Len(log) + 1
<1>1. /\ n \in Nat \ {0} /\ Handled' = Handled \cup {n} /\ Len(log') = n
      /\ \A i \in Handled : log'[i] = log[i] /\ log[i] \in LogEntry
      /\ log'[n] = [no |-> Advanced.no, boot |-> boots, at |-> clock,
                    goodbye |-> goodbye, outcome |-> outcome]
      /\ boots' = boots
  BY TurnFacts, Zenon
<1>2. log'[n].at = clock /\ log'[n].boot = boots
  BY <1>1
<1>3. /\ writeback'.last = clock
      /\ writeback'.id = IF Kept THEN writeback.id ELSE clock
      /\ OpenTurns' = (IF Kept THEN OpenTurns ELSE {})
                      \cup (IF outcome = "answered" THEN {n} ELSE {})
      /\ \A b \in HandedOver' : b \in HandedOver \/ Turns(b) = OpenTurns
  BY WritebackAfterTurn
<1>4. Kept => \E i \in Handled : log[i].at = writeback.id
  BY DEF Kept, WritebackMatchesLog
<1> HIDE DEF n
<1>5. \E i \in Handled' : log'[i].at = writeback'.id
  BY <1>1, <1>2, <1>3, <1>4
<1>6. OpenTurns' \subseteq Handled'
  BY <1>1, <1>3 DEF WritebackMatchesLog
<1>7. \A b \in HandedOver' : Turns(b) \subseteq Handled'
  BY <1>1, <1>3 DEF WritebackMatchesLog
<1> QED BY <1>1, <1>2, <1>3, <1>5, <1>6, <1>7 DEF WritebackMatchesLog, Turns

(* While the write-back session goes on, a turn that opens a session finds *)
(* the one before closed by a goodbye: the tests `> gap` and `>= gap`      *)
(* never part the two at a gap.                                            *)
LEMMA KeptAreClosed ==
  ASSUME TypeOK, TrackerMatchesLog, WritebackMatchesLog, SplitInv, Kept,
         NEW i \in OpenTurns, log[i].no < Advanced.no
  PROVE  \E k \in Handled : log[k].no = log[i].no /\ ClosedBy(log[k])
<1>1. i \in Handled /\ log[i] \in LogEntry
  BY EntryType DEF WritebackMatchesLog, Handled
<1>2. CASE log[i].no < SessionsOpened
  BY <1>2 DEF SplitInv
<1>3. CASE ~(log[i].no < SessionsOpened)
  <2>1. /\ Len(log) # 0 /\ Len(log) \in Handled /\ SessionsOpened = log[Len(log)].no
    BY LenProperties DEF Kept, WritebackMatchesLog, Handled, SessionsOpened, TypeOK
  <2>2. SessionsOpened \in Nat /\ log[Len(log)] \in LogEntry
    BY <2>1, EntryType DEF Handled, LogEntry
  <2>3. log[i].no = SessionsOpened
    BY <1>1, <1>3, <2>2 DEF SplitInv, LogEntry
  <2>4. session = NoSession
    <3>1. SUFFICES ASSUME session # NoSession PROVE FALSE
      OBVIOUS
    <3>2. session.no = SessionsOpened /\ session.last = writeback.last
      BY <2>1, <3>1 DEF TrackerMatchesLog, Kept, WritebackMatchesLog
    <3>3. ~Continues
      BY <2>2, <2>3, <3>2, AdvancedIs
    <3>4. Elapsed(session.last, clock) \in Int /\ IdleGap \in Int
      BY <3>1, GapAssumption DEF Elapsed, TypeOK, Session
    <3> QED BY <3>1, <3>2, <3>3, <3>4 DEF Kept, Expired, Continues
  <2>5. ClosedBy(log[Len(log)])
    BY <2>1, <2>4 DEF TrackerMatchesLog, Kept, WritebackMatchesLog
  <2> QED BY <2>1, <2>3, <2>5
<1> QED BY <1>2, <1>3

(* A turn of a new session joins a batch only behind a goodbye. *)
LEMMA TurnKeepsSplit ==
  ASSUME TypeOK, TrackerMatchesLog, WritebackMatchesLog, SplitInv,
         NEW goodbye \in BOOLEAN, NEW outcome \in Outcomes, NEW d \in Advances,
         UserTurn(goodbye, outcome, d)
  PROVE  SplitInv'
<1> DEFINE n == Len(log) + 1
<1>1. /\ n \notin Handled /\ Handled' = Handled \cup {n}
      /\ \A i \in Handled : log'[i] = log[i] /\ log[i] \in LogEntry
      /\ log'[n].no = Advanced.no
      /\ SessionsOpened \in Nat /\ Advanced \in Session
      /\ SessionsOpened' = Advanced.no
  BY TurnFacts, Zenon
<1>2. SessionsOpened <= Advanced.no /\ Advanced.no \in Nat
  <2>1. session # NoSession => session.no = SessionsOpened
    BY DEF TrackerMatchesLog, SessionsOpened
  <2> QED BY <1>1, <2>1, AdvancedIs DEF Continues, Session
<1>3. /\ OpenTurns' = (IF Kept THEN OpenTurns ELSE {})
                      \cup (IF outcome = "answered" THEN {n} ELSE {})
      /\ \A b \in HandedOver' : b \in HandedOver \/ Turns(b) = OpenTurns
  BY WritebackAfterTurn
<1>4. OpenTurns \subseteq Handled /\ \A b \in HandedOver : Turns(b) \subseteq Handled
  BY DEF WritebackMatchesLog
<1>5. \A i \in Handled : ClosedBy(log'[i]) <=> ClosedBy(log[i])
  BY <1>1
<1>6. \A i \in Handled : log'[i].no <= SessionsOpened
  BY <1>1 DEF SplitInv
<1>7. \A i \in Handled' : log'[i].no <= SessionsOpened'
  BY <1>1, <1>2, <1>6 DEF LogEntry
<1>8. \A i \in OpenTurns' : log'[i].no < SessionsOpened' =>
        \E k \in Handled' : log'[k].no = log'[i].no /\ ClosedBy(log'[k])
  <2> SUFFICES ASSUME NEW i \in OpenTurns', log'[i].no < Advanced.no
               PROVE  \E k \in Handled' : log'[k].no = log'[i].no /\ ClosedBy(log'[k])
    BY <1>1
  <2>1. i # n
    BY <1>1, <1>2
  <2>2. Kept /\ i \in OpenTurns
    BY <1>3, <2>1
  <2>3. \E k \in Handled : log[k].no = log[i].no /\ ClosedBy(log[k])
    BY <1>1, <1>4, <2>2, KeptAreClosed
  <2> QED BY <1>1, <1>4, <1>5, <2>2, <2>3
<1>9. SplitNext(OpenTurns')
  <2> SUFFICES ASSUME NEW i \in OpenTurns', NEW j \in OpenTurns', log'[i].no < log'[j].no
               PROVE  \E k \in Handled' : log'[k].no = log'[i].no /\ ClosedBy(log'[k])
    BY DEF SplitNext
  <2>1. i \in Handled' /\ j \in Handled'
    BY <1>1, <1>3, <1>4
  <2>2. log'[i].no \in Nat /\ log'[j].no \in Nat
    BY <1>1, <1>2, <2>1 DEF LogEntry
  <2>3. log'[i].no < SessionsOpened'
    BY <1>1, <1>2, <1>7, <2>1, <2>2
  <2> QED BY <1>8, <2>3
<1>10. ASSUME NEW b \in HandedOver' PROVE SplitNext(Turns(b))
  <2>1. Split(Turns(b)) /\ Turns(b) \subseteq Handled
    BY <1>3, <1>4 DEF SplitInv
  <2> QED BY <1>1, <1>5, <2>1 DEF Split, SplitNext
<1> QED BY <1>7, <1>8, <1>9, <1>10 DEF SplitInv, Split, SplitNext, Turns, ClosedBy

(***************************************************************************)
(* A write-back batch never joins turns that the tracker parted at an idle *)
(* gap, whatever the clock does.                                           *)
(***************************************************************************)
THEOREM BatchesAreWithinGaps == Spec => []BatchesSplitAtIdleGaps
<1> DEFINE IInv == TrackerMatchesLog /\ WritebackMatchesLog /\ SplitInv
<1>1. Init => IInv
  BY LenProperties
  DEF Init, TrackerMatchesLog, WritebackMatchesLog, SplitInv, Split, Handled,
      OpenTurns, HandedOver
<1>2. TypeOK /\ IInv /\ [Next]_vars => IInv'
  <2> SUFFICES ASSUME TypeOK, IInv, [Next]_vars PROVE IInv'
    OBVIOUS
  <2>1. ASSUME NEW goodbye \in BOOLEAN, NEW outcome \in Outcomes, NEW d \in Advances,
               UserTurn(goodbye, outcome, d)
        PROVE  IInv'
    BY <2>1, TurnKeepsTracker, TurnKeepsWriteback, TurnKeepsSplit
  <2>2. ASSUME NEW job \in jobs, RunWriteback(job)
        PROVE  IInv'
    <3>1. UNCHANGED <<session, writeback, log, boots>> /\ HandedOver' \subseteq HandedOver
      BY <2>2 DEF RunWriteback, HandedOver
    <3> QED BY <3>1 DEF TrackerMatchesLog, WritebackMatchesLog, SplitInv, Split, Turns,
                        OpenTurns, Handled, SessionsOpened, ClosedBy
  <2>3. CASE Crash \/ Shutdown
    <3>1. Boot
      BY <2>3 DEF Crash, Shutdown
    <3>2. log' = log /\ writeback' = NoSession /\ HandedOver' \subseteq HandedOver
      BY <3>1 DEF Boot, HandedOver
    <3>3. TrackerMatchesLog'
      BY <3>1, BootKeepsTracker
    <3> QED BY <3>2, <3>3 DEF WritebackMatchesLog, SplitInv, Split, Turns,
                              OpenTurns, Handled, SessionsOpened, ClosedBy
  <2>4. CASE UNCHANGED vars
    BY <2>4 DEF vars, TrackerMatchesLog, WritebackMatchesLog, SplitInv, Split, Turns,
                OpenTurns, HandedOver, Handled, SessionsOpened, ClosedBy
  <2> QED BY <2>1, <2>2, <2>3, <2>4 DEF Next
<1>3. IInv => BatchesSplitAtIdleGaps
  BY DEF SplitInv, Split, BatchesSplitAtIdleGaps, Batches, OpenBatches, OpenTurns,
         HandedOver, Turns
<1> QED BY <1>1, <1>2, <1>3, TypeCorrect, PTL DEF Spec

(* A turn is added to one batch, which it was not in. *)
LEMMA TurnKeepsOnce ==
  ASSUME TypeOK, WritebackMatchesLog, OnceInv,
         NEW goodbye \in BOOLEAN, NEW outcome \in Outcomes, NEW d \in Advances,
         UserTurn(goodbye, outcome, d)
  PROVE  OnceInv'
<1> DEFINE n == Len(log) + 1
<1>1. n \notin Handled
  BY TurnFacts, Zenon
<1>2. OpenTurns \subseteq Handled /\ \A b \in HandedOver : Turns(b) \subseteq Handled
  BY DEF WritebackMatchesLog
<1>3. /\ (Kept => Distinct(writeback.turns) /\ n \notin OpenTurns)
           => Distinct(writeback'.turns)
      /\ OpenTurns' = (IF Kept THEN OpenTurns ELSE {})
                      \cup (IF outcome = "answered" THEN {n} ELSE {})
      /\ \A b \in HandedOver' : \/ b \in HandedOver
                            \/ /\ ~Kept /\ writeback # NoSession
                               /\ b.turns = writeback.turns /\ Turns(b) = OpenTurns
                               /\ b = [id |-> writeback.id, turns |-> writeback.turns]
  BY WritebackAfterTurn, Zenon
<1> DEFINE batch == [id |-> writeback.id, turns |-> writeback.turns]
<1>4. Distinct(writeback'.turns)
  BY <1>1, <1>2, <1>3 DEF OnceInv, Kept
<1> HIDE DEF n, batch
<1>5. \A b \in HandedOver' : Distinct(b.turns)
  BY <1>3 DEF OnceInv
<1>6. \A b \in HandedOver' : Turns(b) \cap OpenTurns' = {}
  BY <1>1, <1>2, <1>3 DEF OnceInv
<1>7. ASSUME NEW b \in HandedOver', NEW c \in HandedOver', b # c
      PROVE  Turns(b) \cap Turns(c) = {}
  <2>1. \A a \in HandedOver' : a \in HandedOver \/ (Turns(a) = OpenTurns /\ a = batch)
    BY <1>3 DEF batch
  <2> QED BY <1>7, <2>1 DEF OnceInv
<1> QED BY <1>4, <1>5, <1>6, <1>7 DEF OnceInv, Distinct, Turns

(* A turn leaves no answer behind: what expires is let through by the      *)
(* guard, what does not expire stays open.                                 *)
LEMMA TurnKeepsClaims ==
  ASSUME TypeOK, WritebackMatchesLog, ClaimInv,
         NEW goodbye \in BOOLEAN, NEW outcome \in Outcomes, NEW d \in Advances,
         UserTurn(goodbye, outcome, d)
  PROVE  ClaimInv'
<1> DEFINE n == Len(log) + 1
<1>1. /\ n \in Nat \ {0} /\ n \notin Handled
      /\ Handled' = Handled \cup {n} /\ Handled \subseteq Nat
      /\ \A i \in Handled : log'[i] = log[i] /\ log[i] \in LogEntry
      /\ log'[n] = [no |-> Advanced.no, boot |-> boots, at |-> clock,
                    goodbye |-> goodbye, outcome |-> outcome]
      /\ boots' = boots
  BY TurnFacts, Zenon
<1>2. log'[n].at = clock /\ log'[n].outcome = outcome
  BY <1>1
<1>3. /\ writeback' # NoSession
      /\ writeback'.id = IF Kept THEN writeback.id ELSE clock
      /\ OpenTurns' = (IF Kept THEN OpenTurns ELSE {})
                      \cup (IF outcome = "answered" THEN {n} ELSE {})
      /\ HandedOver \subseteq HandedOver'
      /\ Claims => \E b \in HandedOver' : Turns(b) = OpenTurns
  BY WritebackAfterTurn, Zenon
<1>4. claimed' = IF Claims THEN claimed \cup {writeback.id} ELSE claimed
  BY DEF UserTurn
<1>5. \A i \in Handled : i < n
  BY LenProperties DEF Handled, TypeOK
<1> HIDE DEF n
<1>6. MovesForward' => MovesForward /\ \A i \in Handled : log[i].at < clock
  BY <1>1, <1>2, <1>5 DEF MovesForward
<1>7. /\ claimed \subseteq Int /\ clock \in Int
      /\ writeback # NoSession => writeback.id \in Int
  BY DEF TypeOK, Writeback
<1>8. ASSUME MovesForward', NEW id \in claimed' PROVE id < writeback'.id
  <2>1. MovesForward /\ (writeback # NoSession => writeback.id < clock)
    BY <1>6, <1>8 DEF WritebackMatchesLog
  <2>2. id \in claimed => writeback # NoSession /\ id < writeback.id
    BY <2>1 DEF ClaimInv
  <2>3. id \in claimed \/ (Claims /\ ~Kept /\ writeback # NoSession /\ id = writeback.id)
    BY <1>4, <1>8 DEF Claims, Expired, Kept
  <2>4. CASE Kept
    BY <1>3, <2>2, <2>3, <2>4
  <2>5. CASE ~Kept
    <3>1. writeback # NoSession /\ writeback.id \in Int /\ writeback.id < clock
      BY <1>7, <2>1, <2>2, <2>3
    <3>2. id \in Int /\ (id = writeback.id \/ id < writeback.id)
      BY <1>7, <2>2, <2>3, <3>1
    <3>3. id < clock
      BY <1>7, <3>1, <3>2
    <3> QED BY <1>3, <2>5, <3>3
  <2> QED BY <2>4, <2>5
<1>9. ASSUME HasExtractor, MovesForward', NEW i \in Handled',
             log'[i].boot = boots', log'[i].outcome = "answered"
      PROVE  i \in OpenTurns' \/ \E b \in HandedOver' : i \in Turns(b)
  <2>1. CASE i = n
    BY <1>2, <1>3, <1>9, <2>1
  <2>2. CASE i # n
    <3>1. /\ MovesForward /\ i \in Handled
          /\ log[i].boot = boots /\ log[i].outcome = "answered"
      BY <1>1, <1>6, <1>9, <2>2
    <3>2. i \in OpenTurns \/ \E b \in HandedOver : i \in Turns(b)
      BY <1>9, <3>1 DEF ClaimInv
    <3>3. i \in OpenTurns /\ ~Kept => Claims
      <4>1. i \in OpenTurns /\ ~Kept => Expired
        BY DEF OpenTurns, Kept
      <4>2. Expired => writeback.id \notin claimed
        BY <1>7, <3>1 DEF Expired, ClaimInv
      <4> QED BY <1>9, <4>1, <4>2 DEF Claims
    <3> QED BY <1>3, <3>2, <3>3
  <2> QED BY <2>1, <2>2
<1>10. writeback' = NoSession => claimed' = {}
  BY <1>3
<1> QED BY <1>8, <1>9, <1>10 DEF ClaimInv, Turns

(* Without repetitions there are as many turns as positions. *)
LEMMA DistinctTurns ==
  ASSUME NEW s \in Seq(Nat), Distinct(s)
  PROVE  Cardinality({s[i] : i \in DOMAIN s}) = Len(s)
<1> DEFINE S == 1 .. Len(s)
           T == {s[i] : i \in DOMAIN s}
<1>1. Len(s) \in Nat /\ DOMAIN s = S /\ s \in [S -> Nat]
  BY LenProperties
<1>2. IsFiniteSet(S) /\ Cardinality(S) = Len(s)
  <2>1. Cardinality(S) = IF 1 > Len(s) THEN 0 ELSE Len(s) - 1 + 1
    BY <1>1, FS_Interval
  <2> QED BY <1>1, <2>1, FS_Interval
<1>3. s \in Bijection(S, T)
  <2>1. s \in [S -> T] /\ DOMAIN s = S
    BY <1>1
  <2>2. \A i, j \in S : s[i] = s[j] => i = j
    BY <1>1 DEF Distinct
  <2>3. \A t \in T : \E i \in S : s[i] = t
    BY <1>1
  <2> HIDE DEF S, T
  <2>4. s \in Injection(S, T)
    BY <2>1, <2>2 DEF Injection, IsInjective
  <2>5. s \in Surjection(S, T)
    BY <2>1, <2>3 DEF Surjection
  <2> QED BY <2>4, <2>5 DEF Bijection
<1>4. IsFiniteSet(T) /\ Cardinality(S) = Cardinality(T)
  BY <1>2, <1>3, FS_Bijection DEF ExistsBijection
<1> QED BY <1>2, <1>4

(***************************************************************************)
(* Every answer of a living process reaches the extractor's queue exactly  *)
(* once.  That the guard lets every batch through is the hard half: the    *)
(* ids it has let through are older than that of the open session as long  *)
(* as the clock moves forward.                                             *)
(***************************************************************************)
THEOREM AnswersReachTheExtractor == Spec => []AnswersAreWrittenOnce
<1> DEFINE IInv == TrackerMatchesLog /\ WritebackMatchesLog /\ OnceInv /\ ClaimInv
<1>1. Init => IInv
  BY LenProperties
  DEF Init, TrackerMatchesLog, WritebackMatchesLog, OnceInv, ClaimInv, Handled,
      OpenTurns, HandedOver
<1>2. TypeOK /\ IInv /\ [Next]_vars => IInv'
  <2> SUFFICES ASSUME TypeOK, IInv, [Next]_vars PROVE IInv'
    OBVIOUS
  <2>1. ASSUME NEW goodbye \in BOOLEAN, NEW outcome \in Outcomes, NEW d \in Advances,
               UserTurn(goodbye, outcome, d)
        PROVE  IInv'
    BY <2>1, TurnKeepsTracker, TurnKeepsWriteback, TurnKeepsOnce, TurnKeepsClaims
  <2>2. ASSUME NEW job \in jobs, RunWriteback(job)
        PROVE  IInv'
    <3>1. /\ UNCHANGED <<session, writeback, claimed, log, boots>>
          /\ HandedOver' \subseteq HandedOver
          /\ \A b \in HandedOver : b \in HandedOver' \/ b.turns = <<>>
      BY <2>2 DEF RunWriteback, HandedOver
    <3>2. \A b \in HandedOver : b.turns = <<>> => Turns(b) = {}
      BY EmptySeq DEF Turns
    <3>3. \A b \in HandedOver : Turns(b) # {} => b \in HandedOver'
      BY <3>1, <3>2
    <3>4. ClaimInv'
      BY <3>1, <3>3 DEF ClaimInv, MovesForward, Handled, OpenTurns, Turns
    <3>5. TrackerMatchesLog' /\ WritebackMatchesLog'
      BY <3>1 DEF TrackerMatchesLog, WritebackMatchesLog, Turns, OpenTurns, Handled, ClosedBy
    <3>6. OnceInv'
      BY <3>1 DEF OnceInv, OpenTurns
    <3> QED BY <3>4, <3>5, <3>6
  <2>3. CASE Crash \/ Shutdown
    <3>1. Boot
      BY <2>3 DEF Crash, Shutdown
    <3>2. /\ log' = log /\ writeback' = NoSession /\ claimed' = {}
          /\ boots' = boots + 1 /\ HandedOver' \subseteq HandedOver
      BY <3>1 DEF Boot, HandedOver
    <3>3. TrackerMatchesLog'
      BY <3>1, BootKeepsTracker
    <3>4. \A i \in Handled : log[i].boot # boots + 1
      <4> TAKE i \in Handled
      <4>1. log[i].boot \in Nat /\ log[i].boot <= boots /\ boots \in Nat
        BY EntryType DEF Handled, LogEntry, TrackerMatchesLog, TypeOK
      <4> QED BY <4>1
    <3>5. WritebackMatchesLog'
      BY <3>2 DEF WritebackMatchesLog, Turns, OpenTurns, Handled
    <3>6. OnceInv'
      BY <3>2 DEF OnceInv, OpenTurns
    <3>7. ClaimInv'
      BY <3>2, <3>4 DEF ClaimInv, Handled
    <3> QED BY <3>3, <3>5, <3>6, <3>7
  <2>4. CASE UNCHANGED vars
    <3>1. TrackerMatchesLog' /\ WritebackMatchesLog'
      BY <2>4 DEF vars, TrackerMatchesLog, WritebackMatchesLog, OpenTurns, HandedOver,
                  Handled, ClosedBy
    <3>2. OnceInv' /\ ClaimInv'
      BY <2>4 DEF vars, OnceInv, ClaimInv, MovesForward, OpenTurns, HandedOver, Handled
    <3> QED BY <3>1, <3>2
  <2> QED BY <2>1, <2>2, <2>3, <2>4 DEF Next
<1>3. TypeOK /\ IInv => TurnsWrittenOnce
  <2> SUFFICES ASSUME TypeOK, IInv PROVE TurnsWrittenOnce
    OBVIOUS
  <2>1. ASSUME NEW b \in Batches
        PROVE  /\ Distinct(b.turns) /\ b.turns \in Seq(Nat)
               /\ b \in HandedOver \/ (b \in OpenBatches /\ Turns(b) = OpenTurns)
    <3>1. CASE b \in HandedOver
      BY <3>1 DEF OnceInv, HandedOver, TypeOK, Batch
    <3>2. CASE b \notin HandedOver
      <4>1. /\ b \in OpenBatches /\ writeback # NoSession
            /\ b.turns = writeback.turns /\ writeback \in Writeback
        BY <3>2 DEF Batches, OpenBatches, HandedOver, TypeOK
      <4> QED BY <4>1 DEF OnceInv, Turns, OpenTurns, Writeback
    <3> QED BY <3>1, <3>2
  <2>2. \A b, c \in Batches : b # c => Turns(b) \cap Turns(c) = {}
    BY <2>1 DEF OnceInv, OpenBatches
  <2>3. \A b \in Batches : Cardinality(Turns(b)) = Len(b.turns)
    BY <2>1, DistinctTurns DEF Turns
  <2> QED BY <2>2, <2>3 DEF TurnsWrittenOnce
<1>4. IInv => NoAnswerForgotten
  <2> SUFFICES ASSUME IInv, HasExtractor, MovesForward, NEW i \in Handled,
                      log[i].boot = boots, log[i].outcome = "answered"
               PROVE  \E b \in Batches : i \in Turns(b)
    BY DEF NoAnswerForgotten
  <2>1. i \in OpenTurns \/ \E b \in HandedOver : i \in Turns(b)
    BY DEF ClaimInv
  <2>2. HandedOver \subseteq Batches
    BY DEF HandedOver, Batches
  <2>3. i \in OpenTurns => \E b \in OpenBatches : i \in Turns(b)
    BY DEF OpenTurns, OpenBatches, Turns
  <2> QED BY <2>1, <2>2, <2>3 DEF Batches
<1> QED BY <1>1, <1>2, <1>3, <1>4, TypeCorrect, PTL DEF Spec, AnswersAreWrittenOnce
=============================================================================
