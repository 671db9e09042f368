----------------------- MODULE DestructiveGateProofs ------------------------
(***************************************************************************)
(* For every number of offers, answers and restarts: a destructive intent  *)
(* runs at most once, only after its own offer was heard and granted, and  *)
(* never when it was cancelled.                                            *)
(***************************************************************************)
EXTENDS DestructiveGate, SequenceTheorems, TLAPS

-----------------------------------------------------------------------------
(* The properties are not inductive: they hold because an id leads to the  *)
(* intent it was minted for.  IdsAreFresh keeps ids distinct over restarts *)
(* (this is where RestartAssumption is needed), PendingIsUntouched and     *)
(* InboxIsHonest tie the map and the waiting confirms to the offers, and   *)
(* InHand says what is known of the intent between two awaits.             *)
IdsAreFresh ==
  /\ \A i, j \in Minted : offers[i].id = offers[j].id => i = j
  /\ \A i \in Minted : /\ offers[i].id[1] <= clock
                       /\ offers[i].id[1] = clock => offers[i].id[2] < seq

PendingIsUntouched ==
  \A id \in DOMAIN pending :
    /\ offers[pending[id]].id = id
    /\ pending[id] \notin Ran \cup cancelled \cup called \cup refused
    /\ pending[id] # current

InboxIsHonest ==
  \A k \in DOMAIN inbox :
    /\ inbox[k].about \in Minted
    /\ offers[inbox[k].about].id = inbox[k].id
    /\ offers[inbox[k].about].heard
    /\ inbox[k].verdict = "granted" => inbox[k].about \in approved

InHand ==
  /\ phase # "idle" => offers[current].heard /\ current \in approved
  /\ phase \in {"calling", "dispatching"} => current \notin Ran
  /\ phase = "calling" => current \notin called \cup refused
  /\ phase = "reporting" => current \in Ran
  /\ phase \in {"dispatching", "reporting"} => current \in called \cup refused

GateInv ==
  /\ IdsAreFresh
  /\ PendingIsUntouched
  /\ InboxIsHonest
  /\ InHand
  /\ RunsAtMostOnce
  /\ NothingRunsUnconfirmed
  /\ CancelledNeverRuns
  /\ RunsAreAnnounced

-----------------------------------------------------------------------------
(* Offers are only ever appended to. *)
LEMMA OffersGrow ==
  ASSUME TypeOK, NEW o \in Offer, offers' = Append(offers, o)
  PROVE  /\ Minted' = Minted \cup {Len(offers) + 1}
         /\ Len(offers) + 1 \notin Minted
         /\ offers' \in Seq(Offer)
         /\ offers'[Len(offers) + 1] = o
         /\ \A i \in Minted : offers'[i] = offers[i]
BY DEF TypeOK, Minted

(* The confirm at the head of the inbox, and those that stay behind it. *)
LEMMA ReadType ==
  ASSUME TypeOK, NEW verdict \in Verdicts, Read(verdict)
  PROVE  /\ Head(inbox) \in Confirm
         /\ Head(inbox) = inbox[1]
         /\ 1 \in DOMAIN inbox
         /\ inbox' \in Seq(Confirm)
         /\ \A k \in DOMAIN inbox' : k + 1 \in DOMAIN inbox /\ inbox'[k] = inbox[k + 1]
BY HeadTailProperties DEF TypeOK, Read

(***************************************************************************)
(* Every variable keeps its type.                                          *)
(***************************************************************************)
THEOREM GateTypeCorrect == Spec => []TypeOK
<1>1. Init => TypeOK
  BY EmptySeq DEF Init, TypeOK, Phases, Minted
<1>2. TypeOK /\ [Next]_vars => TypeOK'
  <2> SUFFICES ASSUME TypeOK, [Next]_vars PROVE TypeOK'
    OBVIOUS
  <2> USE DEF TypeOK, Phases, Minted
  <2>1. ASSUME NEW tool \in Tools, NEW heard \in BOOLEAN, OfferIntent(tool, heard)
        PROVE  TypeOK'
    <3>1. Mint \in Ids /\ [id |-> Mint, tool |-> tool, heard |-> heard] \in Offer
      BY DEF Mint, Ids, Offer
    <3>2. /\ offers' \in Seq(Offer)
          /\ DOMAIN offers' = DOMAIN offers \cup {Len(offers) + 1}
      BY <2>1, <3>1, OffersGrow DEF OfferIntent
    <3>3. ran' \in Seq(DOMAIN offers')
      BY <2>1, <3>2, SeqDef DEF OfferIntent
    <3>4. /\ DOMAIN pending' = DOMAIN pending \cup {Mint}
          /\ \A id \in DOMAIN pending' : pending'[id] \in DOMAIN offers'
      BY <2>1, <3>2 DEF OfferIntent, Insert
    <3> QED BY <2>1, <3>1, <3>2, <3>3, <3>4 DEF OfferIntent
  <2>2. ASSUME NEW i \in Minted, NEW verdict \in Verdicts, Answer(i, verdict)
        PROVE  TypeOK'
    <3>1. [id |-> offers[i].id, verdict |-> verdict, about |-> i] \in Confirm
      <4>1. offers[i] \in Offer
        BY ElementOfSeq
      <4> QED BY <4>1 DEF Offer, Confirm
    <3> QED BY <2>2, <3>1 DEF Answer
  <2>3. CASE HandleGranted
    <3>1. inbox' \in Seq(Confirm)
      BY <2>3, ReadType DEF HandleGranted, Verdicts
    <3>2. CASE Known
      <4>1. /\ pending' = Restrict(pending, DOMAIN pending \ {Head(inbox).id})
            /\ current' = pending[Head(inbox).id] /\ phase' = "calling"
            /\ Head(inbox).id \in DOMAIN pending
        BY <2>3, <3>2 DEF HandleGranted, Known, Remove
      <4>2. current' # None
        BY <4>1, NoneAssumption
      <4>3. /\ DOMAIN pending' \subseteq DOMAIN pending
            /\ \A id \in DOMAIN pending' : pending'[id] = pending[id]
        BY <4>1 DEF Restrict
      <4> QED BY <2>3, <3>1, <4>1, <4>2, <4>3 DEF HandleGranted
    <3>3. CASE ~Known
      BY <2>3, <3>1, <3>3 DEF HandleGranted
    <3> QED BY <3>2, <3>3
  <2>4. CASE HandleDenied
    <3>1. inbox' \in Seq(Confirm)
      BY <2>4, ReadType DEF HandleDenied, Verdicts
    <3>2. CASE Known
      <4>1. /\ pending' = Restrict(pending, DOMAIN pending \ {Head(inbox).id})
            /\ cancelled' = cancelled \cup {pending[Head(inbox).id]}
            /\ Head(inbox).id \in DOMAIN pending
        BY <2>4, <3>2 DEF HandleDenied, Known, Remove
      <4>2. /\ DOMAIN pending' \subseteq DOMAIN pending
            /\ \A id \in DOMAIN pending' : pending'[id] = pending[id]
        BY <4>1 DEF Restrict
      <4> QED BY <2>4, <3>1, <4>1, <4>2 DEF HandleDenied
    <3>3. CASE ~Known
      BY <2>4, <3>1, <3>3 DEF HandleDenied
    <3> QED BY <3>2, <3>3
  <2>5. ASSUME NEW outcome \in Outcomes, PublishCall(outcome)
        PROVE  TypeOK'
    BY <2>5 DEF PublishCall, Announce
  <2>6. ASSUME NEW outcome \in Outcomes, PublishResult(outcome)
        PROVE  TypeOK'
    BY <2>6 DEF PublishResult
  <2>7. CASE Dispatch
    BY <2>7 DEF Dispatch
  <2>8. CASE Tick
    BY <2>8 DEF Tick
  <2>9. ASSUME NEW d \in RestartAdvances, Restart(d)
        PROVE  TypeOK'
    BY <2>9, EmptySeq, RestartAssumption DEF Restart
  <2>10. CASE UNCHANGED vars
    BY <2>10 DEF vars
  <2> QED BY <2>1, <2>2, <2>3, <2>4, <2>5, <2>6, <2>7, <2>8, <2>9, <2>10 DEF Next, Handle
<1> QED BY <1>1, <1>2, PTL DEF Spec

-----------------------------------------------------------------------------
(* An id is a time and a number. *)
LEMMA IdType ==
  ASSUME TypeOK, NEW i \in Minted
  PROVE  /\ offers[i].id \in Ids
         /\ offers[i].id[1] \in Nat
         /\ offers[i].id[2] \in Nat
<1>1. offers[i] \in Offer
  BY ElementOfSeq DEF TypeOK, Minted
<1>2. offers[i].id \in Ids
  BY <1>1 DEF Offer
<1> QED BY <1>2 DEF Ids

(* A fresh id collides with no id that was ever minted. *)
LEMMA FreshId ==
  ASSUME TypeOK, IdsAreFresh, NEW i \in Minted
  PROVE  offers[i].id # Mint
<1>1. offers[i].id[1] = clock => offers[i].id[2] < seq
  BY DEF IdsAreFresh
<1>2. seq \in Nat
  BY DEF TypeOK
<1> QED BY <1>1, <1>2 DEF Mint

(* A new intent is offered: nothing that was offered before is touched.    *)
LEMMA OfferKeeps ==
  ASSUME TypeOK, GateInv, NEW tool \in Tools, NEW heard \in BOOLEAN,
         OfferIntent(tool, heard)
  PROVE  GateInv'
<1> DEFINE n == Len(offers) + 1
           o == [id |-> Mint, tool |-> tool, heard |-> heard]
<1> USE DEF GateInv
<1>1. Mint \in Ids /\ o \in Offer /\ o.id = Mint /\ Mint[1] = clock /\ Mint[2] = seq
  BY DEF Mint, Ids, Offer, TypeOK
<1>2. /\ Minted' = Minted \cup {n} /\ n \notin Minted
      /\ offers'[n] = o
      /\ \A i \in Minted : offers'[i] = offers[i]
  <2>1. offers' = Append(offers, o)
    BY DEF OfferIntent
  <2> QED BY <1>1, <2>1, OffersGrow
<1>3. /\ UNCHANGED <<clock, inbox, current, phase, approved, called, refused,
                     ran, reported, cancelled>>
      /\ seq' = seq + 1
      /\ Ran' = Ran
  BY DEF OfferIntent, Ran
<1>4. \A i \in Minted : offers[i].id # Mint
  BY FreshId
<1> HIDE DEF n, o
<1>5. IdsAreFresh'
  <2>1. \A i, j \in Minted' : offers'[i].id = offers'[j].id => i = j
    BY <1>1, <1>2, <1>4 DEF IdsAreFresh
  <2>2. ASSUME NEW i \in Minted'
        PROVE  offers'[i].id[1] <= clock /\ (offers'[i].id[1] = clock => offers'[i].id[2] < seq')
    <3>1. CASE i = n
      BY <1>1, <1>2, <1>3, <3>1 DEF TypeOK
    <3>2. CASE i \in Minted
      <4>1. offers[i].id \in Ids
        BY <3>2, IdType
      <4> QED BY <1>2, <1>3, <3>2, <4>1 DEF IdsAreFresh, TypeOK, Ids
    <3> QED BY <1>2, <3>1, <3>2
  <2> QED BY <1>3, <2>1, <2>2 DEF IdsAreFresh
<1>6. n \notin Ran \cup cancelled \cup called \cup refused \cup {current}
  BY <1>2, NoneAssumption DEF TypeOK, Ran, Range, Minted, n
<1>7. PendingIsUntouched'
  <2>1. /\ DOMAIN pending' = DOMAIN pending \cup {Mint}
        /\ pending'[Mint] = n
        /\ \A id \in DOMAIN pending : id # Mint => pending'[id] = pending[id]
    BY DEF OfferIntent, Insert, n
  <2>2. ASSUME NEW id \in DOMAIN pending
        PROVE  /\ id # Mint
               /\ offers'[pending[id]].id = id
    BY <1>2, <1>4 DEF PendingIsUntouched, TypeOK
  <2> QED BY <1>1, <1>2, <1>3, <1>6, <2>1, <2>2 DEF PendingIsUntouched
<1>8. InboxIsHonest'
  BY <1>2, <1>3 DEF InboxIsHonest
<1>9. InHand'
  BY <1>2, <1>3 DEF InHand, OfferIntent
<1>10. RunsAtMostOnce' /\ CancelledNeverRuns' /\ RunsAreAnnounced'
  BY <1>3 DEF RunsAtMostOnce, CancelledNeverRuns, RunsAreAnnounced
<1>11. NothingRunsUnconfirmed'
  <2>1. Ran \subseteq Minted
    BY DEF TypeOK, Ran, Range
  <2> QED BY <1>2, <1>3, <2>1 DEF NothingRunsUnconfirmed
<1> QED BY <1>5, <1>7, <1>8, <1>9, <1>10, <1>11

(* The user answers: the confirm carries the id of the offer that was heard. *)
LEMMA AnswerKeeps ==
  ASSUME TypeOK, GateInv, NEW i \in Minted, NEW verdict \in Verdicts, Answer(i, verdict)
  PROVE  GateInv'
<1> DEFINE m == [id |-> offers[i].id, verdict |-> verdict, about |-> i]
<1>1. /\ UNCHANGED <<clock, seq, pending, current, phase, offers, called, refused,
                     ran, reported, cancelled>>
      /\ approved \subseteq approved'
      /\ verdict = "granted" => i \in approved'
      /\ offers[i].heard
      /\ inbox' = Append(inbox, m)
  BY DEF Answer
<1>2. InboxIsHonest'
  <2> SUFFICES ASSUME NEW k \in DOMAIN inbox'
               PROVE  /\ inbox'[k].about \in Minted
                      /\ offers[inbox'[k].about].id = inbox'[k].id
                      /\ offers[inbox'[k].about].heard
                      /\ inbox'[k].verdict = "granted" => inbox'[k].about \in approved'
    BY <1>1 DEF InboxIsHonest, Minted
  <2>1. CASE k \in DOMAIN inbox
    <3>1. inbox'[k] = inbox[k]
      BY <1>1, <2>1 DEF TypeOK
    <3> QED BY <1>1, <2>1, <3>1 DEF InboxIsHonest, GateInv
  <2>2. CASE k \notin DOMAIN inbox
    <3>1. inbox'[k] = m
      BY <1>1, <2>2 DEF TypeOK
    <3> QED BY <1>1, <3>1
  <2> QED BY <2>1, <2>2
<1> QED BY <1>1, <1>2
    DEF GateInv, IdsAreFresh, PendingIsUntouched, InHand, RunsAtMostOnce,
        NothingRunsUnconfirmed, CancelledNeverRuns, RunsAreAnnounced, Ran, Minted

(* A confirm is read: what it names, if anything, leaves the map.          *)
LEMMA ReadKeeps ==
  ASSUME TypeOK, GateInv, NEW verdict \in Verdicts, Read(verdict), UNCHANGED <<offers, approved>>
  PROVE  /\ InboxIsHonest'
         /\ Known => LET i == pending[Head(inbox).id]
                     IN  /\ i \in Minted
                         /\ i \notin Ran \cup cancelled \cup called \cup refused
                         /\ offers[i].heard
                         /\ verdict = "granted" => i \in approved
                         /\ \A id \in DOMAIN pending \ {Head(inbox).id} : pending[id] # i
<1>1. InboxIsHonest'
  BY ReadType DEF InboxIsHonest, GateInv, Minted
<1>2. ASSUME Known
      PROVE  LET i == pending[Head(inbox).id]
             IN  /\ i \in Minted
                 /\ i \notin Ran \cup cancelled \cup called \cup refused
                 /\ offers[i].heard
                 /\ verdict = "granted" => i \in approved
                 /\ \A id \in DOMAIN pending \ {Head(inbox).id} : pending[id] # i
  <2> DEFINE id0 == Head(inbox).id
             i == pending[id0]
  <2>1. id0 \in DOMAIN pending /\ i \in Minted /\ offers[i].id = id0
        /\ i \notin Ran \cup cancelled \cup called \cup refused
    BY <1>2 DEF Known, TypeOK, GateInv, PendingIsUntouched
  <2>2. /\ Head(inbox).about \in Minted
        /\ offers[Head(inbox).about].id = id0
        /\ offers[Head(inbox).about].heard
        /\ Head(inbox).verdict = "granted" => Head(inbox).about \in approved
    BY ReadType DEF InboxIsHonest, GateInv
  <2>3. Head(inbox).about = i
    BY <2>1, <2>2 DEF GateInv, IdsAreFresh
  <2>4. \A id \in DOMAIN pending \ {id0} : pending[id] # i
    BY <2>1 DEF GateInv, PendingIsUntouched
  <2> QED BY <2>1, <2>2, <2>3, <2>4 DEF Read
<1> QED BY <1>1, <1>2

(* Removing an id leaves the rest of the map as it was. *)
LEMMA RestrictKeeps ==
  ASSUME NEW id, pending' = Remove(id)
  PROVE  /\ DOMAIN pending' = DOMAIN pending \ {id}
         /\ \A k \in DOMAIN pending' : pending'[k] = pending[k]
BY DEF Remove, Restrict

(* A granted confirm takes its intent into hand.                           *)
LEMMA GrantedKeeps ==
  ASSUME TypeOK, GateInv, HandleGranted
  PROVE  GateInv'
<1>1. /\ UNCHANGED <<clock, seq, offers, approved, called, refused, ran, reported, cancelled>>
      /\ Ran' = Ran /\ Minted' = Minted
      /\ phase = "idle" /\ Head(inbox).verdict = "granted"
  BY DEF HandleGranted, Read, Ran, Minted
<1>2. Read("granted") /\ "granted" \in Verdicts
  BY DEF HandleGranted, Verdicts
<1>3. InboxIsHonest'
  BY <1>1, <1>2, ReadKeeps
<1>4. CASE Known
  <2> DEFINE i == pending[Head(inbox).id]
  <2>1. /\ pending' = Remove(Head(inbox).id) /\ current' = i /\ phase' = "calling"
    BY <1>4 DEF HandleGranted
  <2>2. /\ i \in Minted /\ i \notin Ran \cup cancelled \cup called \cup refused
        /\ offers[i].heard /\ i \in approved
        /\ \A id \in DOMAIN pending \ {Head(inbox).id} : pending[id] # i
    BY <1>1, <1>2, <1>4, ReadKeeps
  <2>3. PendingIsUntouched'
    <3>1. /\ DOMAIN pending' = DOMAIN pending \ {Head(inbox).id}
          /\ \A id \in DOMAIN pending' : pending'[id] = pending[id]
      BY <2>1, RestrictKeeps
    <3> HIDE DEF i
    <3> QED BY <1>1, <2>1, <2>2, <3>1 DEF PendingIsUntouched, GateInv
  <2>4. InHand'
    BY <1>1, <2>1, <2>2 DEF InHand
  <2>5. CancelledNeverRuns'
    BY <1>1, <2>1, <2>2 DEF CancelledNeverRuns, GateInv
  <2> QED BY <1>1, <1>3, <2>3, <2>4, <2>5
      DEF GateInv, IdsAreFresh, RunsAtMostOnce, NothingRunsUnconfirmed, RunsAreAnnounced
<1>5. CASE ~Known
  <2>1. UNCHANGED <<pending, current, phase>>
    BY <1>5 DEF HandleGranted
  <2> QED BY <1>1, <1>3, <2>1
      DEF GateInv, IdsAreFresh, PendingIsUntouched, InHand, RunsAtMostOnce,
          NothingRunsUnconfirmed, CancelledNeverRuns, RunsAreAnnounced
<1> QED BY <1>4, <1>5

(* A denied confirm drops its intent.                                      *)
LEMMA DeniedKeeps ==
  ASSUME TypeOK, GateInv, HandleDenied
  PROVE  GateInv'
<1>1. /\ UNCHANGED <<clock, seq, current, phase, offers, approved, called, refused, ran, reported>>
      /\ Ran' = Ran /\ Minted' = Minted /\ phase = "idle" /\ current = None
  BY DEF HandleDenied, Read, Ran, Minted, TypeOK
<1>2. Read("denied") /\ "denied" \in Verdicts
  BY DEF HandleDenied, Verdicts
<1>3. InboxIsHonest'
  BY <1>1, <1>2, ReadKeeps
<1>4. CASE Known
  <2> DEFINE i == pending[Head(inbox).id]
  <2>1. pending' = Remove(Head(inbox).id) /\ cancelled' = cancelled \cup {i}
    BY <1>4 DEF HandleDenied
  <2>2. /\ i \in Minted /\ i \notin Ran \cup cancelled \cup called \cup refused
        /\ \A id \in DOMAIN pending \ {Head(inbox).id} : pending[id] # i
    BY <1>1, <1>2, <1>4, ReadKeeps
  <2>3. PendingIsUntouched'
    BY <1>1, <2>1, <2>2, RestrictKeeps, Zenon DEF PendingIsUntouched, GateInv
  <2>4. CancelledNeverRuns'
    <3>1. i # current
      BY <1>1, <2>2, NoneAssumption DEF Minted, TypeOK
    <3> QED BY <1>1, <2>1, <2>2, <3>1 DEF CancelledNeverRuns, GateInv
  <2> QED BY <1>1, <1>3, <2>3, <2>4
      DEF GateInv, IdsAreFresh, InHand, RunsAtMostOnce, NothingRunsUnconfirmed,
          RunsAreAnnounced
<1>5. CASE ~Known
  <2>1. UNCHANGED <<pending, cancelled>>
    BY <1>5 DEF HandleDenied
  <2> QED BY <1>1, <1>3, <2>1
      DEF GateInv, IdsAreFresh, PendingIsUntouched, InHand, RunsAtMostOnce,
          NothingRunsUnconfirmed, CancelledNeverRuns, RunsAreAnnounced
<1> QED BY <1>4, <1>5

(* A dispatched intent joins those that ran. *)
LEMMA DispatchRuns ==
  ASSUME TypeOK, current \in Minted, ran' = Append(ran, current)
  PROVE  /\ DOMAIN ran' = DOMAIN ran \cup {Len(ran) + 1}
         /\ ran'[Len(ran) + 1] = current
         /\ \A k \in DOMAIN ran : ran'[k] = ran[k]
         /\ Len(ran) + 1 \notin DOMAIN ran
         /\ Ran' = Ran \cup {current}
<1>1. /\ DOMAIN ran' = DOMAIN ran \cup {Len(ran) + 1}
      /\ ran'[Len(ran) + 1] = current
      /\ \A k \in DOMAIN ran : ran'[k] = ran[k]
      /\ Len(ran) + 1 \notin DOMAIN ran
  BY AppendProperties DEF TypeOK
<1>2. Ran' = Ran \cup {current}
  BY <1>1 DEF Ran, Range
<1> QED BY <1>1, <1>2

(* The dispatch runs the intent in hand.                                   *)
LEMMA DispatchKeeps ==
  ASSUME TypeOK, GateInv, Dispatch
  PROVE  GateInv'
<1>1. /\ UNCHANGED <<clock, seq, pending, inbox, current, offers, approved, called,
                     refused, reported, cancelled>>
      /\ phase = "dispatching" /\ phase' = "reporting"
      /\ ran' = Append(ran, current) /\ Minted' = Minted
  BY DEF Dispatch, Minted
<1>2. current \in Minted /\ current \notin Ran
  BY <1>1 DEF TypeOK, GateInv, InHand
<1>3. /\ DOMAIN ran' = DOMAIN ran \cup {Len(ran) + 1}
      /\ ran'[Len(ran) + 1] = current
      /\ \A k \in DOMAIN ran : ran'[k] = ran[k]
      /\ Len(ran) + 1 \notin DOMAIN ran
  BY <1>1, <1>2, DispatchRuns
<1>4. Ran' = Ran \cup {current}
  BY <1>1, <1>2, DispatchRuns
<1>5. RunsAtMostOnce'
  BY <1>2, <1>3 DEF RunsAtMostOnce, GateInv, Ran, Range
<1>6. PendingIsUntouched' /\ InHand' /\ InboxIsHonest' /\ IdsAreFresh'
  BY <1>1, <1>4 DEF GateInv, PendingIsUntouched, InHand, InboxIsHonest, IdsAreFresh
<1>7. NothingRunsUnconfirmed' /\ CancelledNeverRuns' /\ RunsAreAnnounced'
  BY <1>1, <1>4 DEF GateInv, InHand, NothingRunsUnconfirmed, CancelledNeverRuns,
                    RunsAreAnnounced
<1> QED BY <1>5, <1>6, <1>7 DEF GateInv

(***************************************************************************)
(* The strengthened invariant holds in every reachable state.              *)
(***************************************************************************)
LEMMA GateInvHolds == Spec => []GateInv
<1>1. Init => GateInv
  BY DEF Init, GateInv, IdsAreFresh, PendingIsUntouched, InboxIsHonest, InHand,
         RunsAtMostOnce, NothingRunsUnconfirmed, CancelledNeverRuns, RunsAreAnnounced,
         Ran, Range, Minted
<1>2. TypeOK /\ GateInv /\ [Next]_vars => GateInv'
  <2> SUFFICES ASSUME TypeOK, GateInv, [Next]_vars PROVE GateInv'
    OBVIOUS
  <2>1. ASSUME NEW tool \in Tools, NEW heard \in BOOLEAN, OfferIntent(tool, heard)
        PROVE  GateInv'
    BY <2>1, OfferKeeps
  <2>2. ASSUME NEW i \in Minted, NEW verdict \in Verdicts, Answer(i, verdict)
        PROVE  GateInv'
    BY <2>2, AnswerKeeps
  <2>3. CASE HandleGranted
    BY <2>3, GrantedKeeps
  <2>4. CASE HandleDenied
    BY <2>4, DeniedKeeps
  <2>5. ASSUME NEW outcome \in Outcomes, PublishCall(outcome)
        PROVE  GateInv'
    <3>1. /\ UNCHANGED <<clock, seq, pending, inbox, offers, approved, ran, reported,
                         cancelled>>
          /\ Ran' = Ran /\ Minted' = Minted /\ phase = "calling"
          /\ \/ /\ phase' = "dispatching" /\ current' = current
                /\ \/ called' = called \cup {current} /\ refused' = refused
                   \/ called' = called /\ refused' = refused \cup {current}
             \/ /\ phase' = "idle" /\ current' = None
                /\ called' = called /\ refused' = refused
      BY <2>5 DEF PublishCall, Announce, Outcomes, Ran, Minted
    <3>2. None \notin Minted
      BY NoneAssumption DEF Minted, TypeOK
    <3>3. PendingIsUntouched' /\ CancelledNeverRuns'
      BY <3>1, <3>2 DEF GateInv, PendingIsUntouched, CancelledNeverRuns, TypeOK
    <3> QED BY <3>1, <3>3 DEF GateInv, IdsAreFresh, InboxIsHonest, InHand,
              RunsAtMostOnce, NothingRunsUnconfirmed, RunsAreAnnounced
  <2>6. ASSUME NEW outcome \in Outcomes, PublishResult(outcome)
        PROVE  GateInv'
    <3>1. /\ UNCHANGED <<clock, seq, pending, inbox, offers, approved, called, refused,
                         ran, cancelled>>
          /\ Ran' = Ran /\ Minted' = Minted /\ phase = "reporting"
          /\ phase' = "idle" /\ current' = None
          /\ reported' = reported \/ reported' = reported \cup {current}
      BY <2>6 DEF PublishResult, Ran, Minted
    <3>2. None \notin Minted
      BY NoneAssumption DEF Minted, TypeOK
    <3>3. PendingIsUntouched' /\ CancelledNeverRuns'
      BY <3>1, <3>2 DEF GateInv, PendingIsUntouched, CancelledNeverRuns, TypeOK
    <3> QED BY <3>1, <3>3 DEF GateInv, IdsAreFresh, InboxIsHonest, InHand,
              RunsAtMostOnce, NothingRunsUnconfirmed, RunsAreAnnounced
  <2>7. CASE Dispatch
    BY <2>7, DispatchKeeps
  <2>8. CASE Tick
    <3>1. IdsAreFresh'
      <4>1. ASSUME NEW i \in Minted
            PROVE  offers[i].id[1] < clock + 1
        <5>1. offers[i].id[1] \in Nat /\ clock \in Nat
          BY IdType DEF TypeOK
        <5> QED BY <5>1 DEF GateInv, IdsAreFresh
      <4>2. clock' = clock + 1 /\ UNCHANGED <<offers, seq>> /\ clock \in Nat
        BY <2>8 DEF Tick, TypeOK
      <4>3. \A i \in Minted : offers[i].id[1] \in Nat
        BY IdType
      <4> QED BY <4>1, <4>2, <4>3 DEF GateInv, IdsAreFresh, Minted
    <3> QED BY <2>8, <3>1
        DEF Tick, GateInv, PendingIsUntouched, InboxIsHonest, InHand, RunsAtMostOnce,
            NothingRunsUnconfirmed, CancelledNeverRuns, RunsAreAnnounced, Ran, Minted
  <2>9. ASSUME NEW d \in RestartAdvances, Restart(d)
        PROVE  GateInv'
    <3>1. /\ UNCHANGED <<offers, approved, called, refused, ran, reported, cancelled>>
          /\ clock' = clock + d /\ d \in Nat \ {0} /\ clock \in Nat
          /\ pending' = <<>> /\ inbox' = <<>> /\ phase' = "idle" /\ current' = None
          /\ Ran' = Ran /\ Minted' = Minted
      BY <2>9, RestartAssumption DEF Restart, TypeOK, Ran, Minted
    <3>2. IdsAreFresh'
      <4>1. \A i \in Minted : offers[i].id[1] \in Nat
        BY IdType
      <4>2. \A i \in Minted : offers[i].id[1] < clock + d
        BY <3>1, <4>1 DEF GateInv, IdsAreFresh
      <4> QED BY <3>1, <4>1, <4>2 DEF GateInv, IdsAreFresh
    <3>3. CancelledNeverRuns'
      <4>1. None \notin cancelled
        BY NoneAssumption DEF TypeOK, Minted
      <4> QED BY <3>1, <4>1 DEF GateInv, CancelledNeverRuns
    <3> QED BY <3>1, <3>2, <3>3
        DEF GateInv, PendingIsUntouched, InboxIsHonest, InHand, RunsAtMostOnce,
            NothingRunsUnconfirmed, RunsAreAnnounced
  <2>10. CASE UNCHANGED vars
    BY <2>10
    DEF vars, GateInv, IdsAreFresh, PendingIsUntouched, InboxIsHonest, InHand,
        RunsAtMostOnce, NothingRunsUnconfirmed, CancelledNeverRuns, RunsAreAnnounced,
        Ran, Minted
  <2> QED BY <2>1, <2>2, <2>3, <2>4, <2>5, <2>6, <2>7, <2>8, <2>9, <2>10 DEF Next, Handle
<1> QED BY <1>1, <1>2, GateTypeCorrect, PTL DEF Spec

(***************************************************************************)
(* No intent is dispatched twice, however often its grant is repeated.     *)
(***************************************************************************)
THEOREM AtMostOneRun == Spec => []RunsAtMostOnce
BY GateInvHolds, PTL DEF GateInv

(***************************************************************************)
(* Nothing runs whose own offer was not heard and granted.                 *)
(***************************************************************************)
THEOREM OnlyConfirmedRuns == Spec => []NothingRunsUnconfirmed
BY GateInvHolds, PTL DEF GateInv

(***************************************************************************)
(* A cancelled intent has not run and never will.                          *)
(***************************************************************************)
THEOREM CancellationHolds == Spec => []CancelledNeverRuns
BY GateInvHolds, PTL DEF GateInv

(***************************************************************************)
(* A tool.call precedes every run: it was announced, or the bus refused    *)
(* that tool.call; and a run precedes every tool.result that is seen.      *)
(***************************************************************************)
THEOREM AnnouncementOrder == Spec => []RunsAreAnnounced
BY GateInvHolds, PTL DEF GateInv

-----------------------------------------------------------------------------
(* The status of an intent depends on five facts about it. *)
LEMMA SameStatus ==
  ASSUME NEW i,
         (i \in Ran)' <=> i \in Ran,
         (i \in cancelled)' <=> i \in cancelled,
         (i = current)' <=> i = current,
         (i \in Range(pending))' <=> i \in Range(pending),
         (i \in Minted)' <=> i \in Minted
  PROVE  Status(i)' = Status(i)
BY DEF Status

(* One intent changes its status and the others keep theirs. *)
LEMMA LedgerMove ==
  ASSUME NEW n \in 1 .. MaxOffers, NEW from, NEW to,
         Status(n) = from, Status(n)' = to, approved' = approved,
         \A i \in 1 .. MaxOffers : i # n => Status(i)' = Status(i)
  PROVE  Ledger!Move(n, from, to)
BY DEF Ledger!Move

(* Where no status changes, the ledger stutters.                           *)
LEMMA LedgerStutters ==
  ASSUME approved' = approved,
         \A i \in 1 .. MaxOffers : Status(i)' = Status(i)
  PROVE  UNCHANGED Ledger!vars
BY DEF Ledger!vars

(* What the invariant says of the places an intent can be in. *)
LEMMA Places ==
  ASSUME TypeOK, GateInv
  PROVE  /\ Ran \subseteq Minted
         /\ Range(pending) \subseteq Minted
         /\ Range(pending) \cap (Ran \cup cancelled \cup {current}) = {}
         /\ None \notin Minted
         /\ phase \in {"calling", "dispatching"} => current \in Minted \ Ran
         /\ phase = "reporting" => current \in Ran
BY NoneAssumption DEF TypeOK, GateInv, Ran, Range, Minted, PendingIsUntouched, InHand

(* The bound on the intents minted. *)
LEMMA OffersBounded == Spec => [](Len(offers) <= MaxOffers)
<1>1. Init => Len(offers) <= MaxOffers
  BY BoundsAssumption DEF Init
<1>2. TypeOK /\ Len(offers) <= MaxOffers /\ [Next]_vars => (Len(offers) <= MaxOffers)'
  <2> SUFFICES ASSUME TypeOK, Len(offers) <= MaxOffers, [Next]_vars
               PROVE  Len(offers') <= MaxOffers
    OBVIOUS
  <2>1. ASSUME NEW tool \in Tools, NEW heard \in BOOLEAN, OfferIntent(tool, heard)
        PROVE  Len(offers') <= MaxOffers
    <3>1. Len(offers') = Len(offers) + 1
      BY <2>1, OffersGrow DEF OfferIntent, TypeOK
    <3> QED BY <2>1, <3>1, BoundsAssumption DEF OfferIntent, TypeOK
  <2>2. CASE UNCHANGED offers
    BY <2>2
  <2> QED BY <2>1, <2>2
      DEF Next, Handle, Answer, HandleGranted, HandleDenied, PublishCall, PublishResult,
          Dispatch, Tick, Restart, vars
<1> QED BY <1>1, <1>2, GateTypeCorrect, PTL DEF Spec

(* A confirm that names a pending intent takes it out of the map. *)
LEMMA RemovedFromRange ==
  ASSUME TypeOK, GateInv, NEW verdict \in Verdicts, Read(verdict), Known,
         UNCHANGED <<offers, approved>>, pending' = Remove(Head(inbox).id)
  PROVE  Range(pending)' = Range(pending) \ {pending[Head(inbox).id]}
<1>1. \A id \in DOMAIN pending \ {Head(inbox).id} : pending[id] # pending[Head(inbox).id]
  BY ReadKeeps
<1>2. /\ DOMAIN pending' = DOMAIN pending \ {Head(inbox).id}
      /\ \A id \in DOMAIN pending' : pending'[id] = pending[id]
  BY RestrictKeeps
<1> QED BY <1>1, <1>2 DEF Range, Known

(***************************************************************************)
(* Every step of the gate is a step of IntentLedger or leaves the ledger   *)
(* as it is.                                                               *)
(***************************************************************************)
LEMMA GateStepRefines ==
  ASSUME TypeOK, GateInv, Len(offers) <= MaxOffers, [Next]_vars
  PROVE  [Ledger!Next]_(Ledger!vars)
<1>1. ASSUME NEW tool \in Tools, NEW heard \in BOOLEAN, OfferIntent(tool, heard)
      PROVE  Ledger!Next
  <2> DEFINE o == [id |-> Mint, tool |-> tool, heard |-> heard]
  <2>0. PICK n : n = Len(offers) + 1
    OBVIOUS
  <2>1. n \in 1 .. MaxOffers
    BY <1>1, <2>0, BoundsAssumption, LenProperties DEF OfferIntent, TypeOK
  <2>2. /\ Minted' = Minted \cup {n} /\ n \notin Minted
        /\ Ran' = Ran /\ UNCHANGED <<cancelled, current, approved>>
    <3>1. o \in Offer
      BY DEF Mint, Ids, Offer, TypeOK
    <3>2. offers' = Append(offers, o)
      BY <1>1 DEF OfferIntent
    <3> QED BY <1>1, <2>0, <3>1, <3>2, OffersGrow DEF OfferIntent, Ran
  <2>3. Range(pending)' = Range(pending) \cup {n}
    <3>1. Mint \notin DOMAIN pending
      BY FreshId DEF GateInv, PendingIsUntouched, TypeOK
    <3>2. /\ DOMAIN pending' = DOMAIN pending \cup {Mint}
          /\ pending'[Mint] = n
          /\ \A id \in DOMAIN pending : id # Mint => pending'[id] = pending[id]
      BY <1>1, <2>0 DEF OfferIntent, Insert
    <3> QED BY <3>1, <3>2 DEF Range
  <2>4. n \notin Ran \cup cancelled \cup Range(pending) \cup {current}
    BY <2>1, <2>2, Places, NoneAssumption DEF TypeOK
  <2>5. Status(n) = "unmade"
    BY <2>2, <2>4 DEF Status
  <2>6. Status(n)' = "offered"
    BY <2>2, <2>3, <2>4 DEF Status
  <2>7. \A i \in 1 .. MaxOffers : i # n => Status(i)' = Status(i)
    BY <2>2, <2>3 DEF Status
  <2>8. Ledger!Offer(n)
    BY <2>1, <2>2, <2>5, <2>6, <2>7, LedgerMove DEF Ledger!Offer
  <2> QED BY <2>1, <2>8 DEF Ledger!Next
<1>2. ASSUME NEW i \in Minted, NEW verdict \in Verdicts, Answer(i, verdict)
      PROVE  Ledger!Next \/ UNCHANGED Ledger!vars
  <2>1. \A j \in 1 .. MaxOffers : Status(j)' = Status(j)
    BY <1>2 DEF Answer, Status, Ran, Minted
  <2>2. CASE verdict = "granted"
    <3>1. i \in 1 .. MaxOffers
      BY BoundsAssumption DEF Minted, TypeOK
    <3>2. Status(i) # "unmade"
      BY DEF Status
    <3>3. approved' = approved \cup {i}
      BY <1>2, <2>2 DEF Answer
    <3>4. Ledger!Consent(i)
      BY <2>1, <3>1, <3>2, <3>3 DEF Ledger!Consent
    <3> QED BY <3>1, <3>4 DEF Ledger!Next
  <2>3. CASE verdict # "granted"
    BY <1>2, <2>1, <2>3, LedgerStutters DEF Answer
  <2> QED BY <2>2, <2>3
<1>3. ASSUME HandleGranted
      PROVE  Ledger!Next \/ UNCHANGED Ledger!vars
  <2>1. /\ Read("granted") /\ "granted" \in Verdicts /\ Head(inbox).verdict = "granted"
        /\ UNCHANGED <<offers, approved, cancelled>> /\ Ran' = Ran /\ Minted' = Minted
        /\ current = None
    BY <1>3 DEF HandleGranted, Read, Verdicts, Ran, Minted, TypeOK
  <2>2. CASE Known
    <3>0. PICK i : i = pending[Head(inbox).id]
      OBVIOUS
    <3>1. pending' = Remove(Head(inbox).id) /\ current' = i
      BY <1>3, <2>2, <3>0 DEF HandleGranted
    <3>2. i \in Range(pending) /\ i \in Minted /\ i \notin Ran \cup cancelled /\ i \in approved
      BY <2>1, <2>2, <3>0, ReadKeeps DEF Known, Range
    <3>3. Range(pending)' = Range(pending) \ {i}
      BY <2>1, <2>2, <3>0, <3>1, RemovedFromRange
    <3>4. i \in 1 .. MaxOffers /\ None \notin 1 .. MaxOffers /\ i # None
      BY <3>2, BoundsAssumption, NoneAssumption DEF Minted, TypeOK
    <3>5. Status(i) = "offered" /\ Status(i)' = "taken"
      BY <2>1, <3>1, <3>2, <3>3, <3>4 DEF Status
    <3>6. \A j \in 1 .. MaxOffers : j # i => Status(j)' = Status(j)
      BY <2>1, <3>1, <3>3, <3>4 DEF Status
    <3>7. Ledger!Take(i)
      BY <2>1, <3>2, <3>4, <3>5, <3>6, LedgerMove DEF Ledger!Take
    <3> QED BY <3>4, <3>7 DEF Ledger!Next
  <2>3. CASE ~Known
    <3>1. \A j \in 1 .. MaxOffers : Status(j)' = Status(j)
      BY <1>3, <2>1, <2>3 DEF HandleGranted, Status
    <3> QED BY <2>1, <3>1, LedgerStutters
  <2> QED BY <2>2, <2>3
<1>4. ASSUME HandleDenied
      PROVE  Ledger!Next \/ UNCHANGED Ledger!vars
  <2>1. /\ Read("denied") /\ "denied" \in Verdicts
        /\ UNCHANGED <<offers, approved, current>> /\ Ran' = Ran /\ Minted' = Minted
    BY <1>4 DEF HandleDenied, Verdicts, Ran, Minted
  <2>2. CASE Known
    <3>0. PICK i : i = pending[Head(inbox).id]
      OBVIOUS
    <3>1. pending' = Remove(Head(inbox).id) /\ cancelled' = cancelled \cup {i}
      BY <1>4, <2>2, <3>0 DEF HandleDenied
    <3>2. i \in Range(pending) /\ i \in Minted /\ i \notin Ran \cup cancelled \cup called \cup refused
      BY <2>1, <2>2, <3>0, ReadKeeps DEF Known, Range
    <3>3. Range(pending)' = Range(pending) \ {i}
      BY <2>1, <2>2, <3>0, <3>1, RemovedFromRange
    <3>4. i \in 1 .. MaxOffers
      BY <3>2, BoundsAssumption DEF Minted, TypeOK
    <3>5. i # current
      BY <3>2, Places
    <3>6. Status(i) = "offered" /\ Status(i)' = "declined"
      BY <2>1, <3>1, <3>2, <3>3, <3>5 DEF Status
    <3>7. \A j \in 1 .. MaxOffers : j # i => Status(j)' = Status(j)
      BY <2>1, <3>1, <3>3 DEF Status
    <3>8. Ledger!Decline(i)
      BY <2>1, <3>4, <3>6, <3>7, LedgerMove DEF Ledger!Decline
    <3> QED BY <3>4, <3>8 DEF Ledger!Next
  <2>3. CASE ~Known
    <3>1. \A j \in 1 .. MaxOffers : Status(j)' = Status(j)
      BY <1>4, <2>1, <2>3 DEF HandleDenied, Status
    <3> QED BY <2>1, <3>1, LedgerStutters
  <2> QED BY <2>2, <2>3
<1>5. ASSUME NEW outcome \in Outcomes, PublishCall(outcome)
      PROVE  Ledger!Next \/ UNCHANGED Ledger!vars
  <2>1. /\ UNCHANGED <<pending, offers, approved, cancelled>>
        /\ Ran' = Ran /\ Minted' = Minted /\ phase = "calling"
    BY <1>5 DEF PublishCall, Ran, Minted
  <2>2. CASE outcome # "failed"
    <3>1. \A j \in 1 .. MaxOffers : Status(j)' = Status(j)
      BY <1>5, <2>1, <2>2 DEF PublishCall, Status
    <3> QED BY <2>1, <3>1, LedgerStutters
  <2>3. CASE outcome = "failed"
    <3>1. current' = None
      BY <1>5, <2>3 DEF PublishCall
    <3>2. /\ current \in Minted \ (Ran \cup cancelled \cup Range(pending))
          /\ current \in 1 .. MaxOffers /\ None \notin 1 .. MaxOffers
      BY <2>1, Places, BoundsAssumption, NoneAssumption
      DEF Minted, TypeOK, GateInv, CancelledNeverRuns
    <3>3. Status(current) = "taken"
      BY <3>2 DEF Status
    <3>4. \A j \in 1 .. MaxOffers :
            Status(j)' = IF j \in {current} THEN "lost" ELSE Status(j)
      BY <2>1, <3>1, <3>2 DEF Status
    <3>5. Ledger!Lose({current})
      BY <2>1, <3>2, <3>3, <3>4 DEF Ledger!Lose
    <3> QED BY <3>2, <3>5 DEF Ledger!Next
  <2> QED BY <2>2, <2>3
<1>6. ASSUME NEW outcome \in Outcomes, PublishResult(outcome)
      PROVE  UNCHANGED Ledger!vars
  <2>1. /\ UNCHANGED <<pending, offers, approved, cancelled>> /\ current' = None
        /\ Ran' = Ran /\ Minted' = Minted /\ phase = "reporting"
    BY <1>6 DEF PublishResult, Ran, Minted
  <2>2. current \in Ran /\ None \notin 1 .. MaxOffers
    BY <2>1, Places, NoneAssumption
  <2>3. \A j \in 1 .. MaxOffers : Status(j)' = Status(j)
    BY <2>1, <2>2 DEF Status
  <2> QED BY <2>1, <2>3, LedgerStutters
<1>7. ASSUME Dispatch
      PROVE  Ledger!Next
  <2>1. /\ UNCHANGED <<pending, offers, approved, cancelled, current>>
        /\ Minted' = Minted /\ phase = "dispatching" /\ ran' = Append(ran, current)
    BY <1>7 DEF Dispatch, Minted
  <2>2. /\ current \in Minted \ (Ran \cup cancelled \cup Range(pending))
        /\ current \in 1 .. MaxOffers
    BY <2>1, Places, BoundsAssumption DEF Minted, TypeOK, GateInv, CancelledNeverRuns
  <2>3. Ran' = Ran \cup {current}
    BY <2>1, <2>2, DispatchRuns
  <2>4. PICK i : i = current
    OBVIOUS
  <2>5. /\ Status(i) = "taken"
        /\ Status(i)' = "done"
    BY <2>1, <2>2, <2>3, <2>4 DEF Status
  <2>6. \A j \in 1 .. MaxOffers : j # i => Status(j)' = Status(j)
    BY <2>1, <2>2, <2>3, <2>4 DEF Status
  <2>7. Ledger!Run(i)
    BY <2>1, <2>2, <2>4, <2>5, <2>6, LedgerMove DEF Ledger!Run
  <2> QED BY <2>2, <2>4, <2>7 DEF Ledger!Next
<1>8. ASSUME Tick
      PROVE  UNCHANGED Ledger!vars
  <2>1. approved' = approved /\ \A j \in 1 .. MaxOffers : Status(j)' = Status(j)
    BY <1>8 DEF Tick, Status, Ran, Minted
  <2> QED BY <2>1, LedgerStutters
<1>9. ASSUME NEW d \in RestartAdvances, Restart(d)
      PROVE  Ledger!Next
  <2> DEFINE S == {i \in 1 .. MaxOffers : Status(i) \in {"offered", "taken"}}
  <2>1. /\ UNCHANGED <<offers, approved, cancelled>> /\ Ran' = Ran /\ Minted' = Minted
        /\ pending' = <<>> /\ current' = None
    BY <1>9 DEF Restart, Ran, Minted
  <2>2. Range(pending)' = {} /\ None \notin 1 .. MaxOffers
    BY <2>1, NoneAssumption DEF Range
  <2>3. ASSUME NEW i \in 1 .. MaxOffers
        PROVE  Status(i)' = IF i \in S THEN "lost" ELSE Status(i)
    <3>1. current \in Minted \cup {None} /\ i # None
      BY <2>2 DEF TypeOK
    <3>2. Ran \subseteq Minted /\ Range(pending) \subseteq Minted
          /\ Range(pending) \cap (Ran \cup cancelled) = {}
          /\ cancelled \subseteq Minted /\ cancelled \cap (Ran \cup {current}) = {}
      BY Places DEF TypeOK, GateInv, CancelledNeverRuns
    <3>3. CASE i \in S
      <4>1. i \in Minted \ (Ran \cup cancelled)
        BY <3>1, <3>2, <3>3 DEF Status
      <4> QED BY <2>1, <2>2, <3>1, <3>3, <4>1 DEF Status
    <3>4. CASE i \notin S
      <4>1. i \notin Range(pending) /\ (i = current => i \in Ran)
        BY <3>1, <3>2, <3>4 DEF Status
      <4> QED BY <2>1, <2>2, <3>1, <3>4, <4>1 DEF Status
    <3> QED BY <3>3, <3>4
  <2>4. Ledger!Lose(S)
    BY <2>1, <2>3 DEF Ledger!Lose
  <2> QED BY <2>4 DEF Ledger!Next
<1>10. ASSUME UNCHANGED vars
       PROVE  UNCHANGED Ledger!vars
  <2>1. approved' = approved /\ \A j \in 1 .. MaxOffers : Status(j)' = Status(j)
    BY <1>10 DEF vars, Status, Ran, Minted
  <2> QED BY <2>1, LedgerStutters
<1> QED BY <1>1, <1>2, <1>3, <1>4, <1>5, <1>6, <1>7, <1>8, <1>9, <1>10 DEF Next, Handle

(***************************************************************************)
(* The gate implements the ledger: whatever is lost, repeated or answered  *)
(* late, no intent runs twice, unconfirmed or after it was declined.       *)
(***************************************************************************)
THEOREM GateImplementsLedger == Spec => ImplementsLedger
<1>1. Init => Ledger!Init
  BY DEF Init, Ledger!Init, Status, Ran, Range, Minted
<1>2. TypeOK /\ GateInv /\ Len(offers) <= MaxOffers /\ [Next]_vars
        => [Ledger!Next]_(Ledger!vars)
  BY GateStepRefines
<1> QED BY <1>1, <1>2, GateTypeCorrect, GateInvHolds, OffersBounded, PTL
        DEF Spec, ImplementsLedger, Ledger!Spec
=============================================================================
