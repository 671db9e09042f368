---------------------------- MODULE DaemonProofs ----------------------------
(***************************************************************************)
(* What lasts of a daemon besides its conversation: the health it shows    *)
(* and speaks of, and the configuration file it shares with the commands.  *)
(* Of health: the rate limit is exact and a snapshot is one moment's, for  *)
(* every set of components and kinds, every window and however the clock   *)
(* is corrected.  Of brain.toml: it is whole and usable, a command changes *)
(* one setting of it and an override serves one turn, for every set of     *)
(* commands, settings and files, however its writers are cut off.          *)
(***************************************************************************)
EXTENDS Health, ConfigFile, FiniteSetTheorems, SequenceTheorems,
        WellFoundedInduction, TLAPS

-----------------------------------------------------------------------------
(* Health                                                                  *)

(* Done puts one entry into the record, of the error in hand.              *)
LEMMA DoneType ==
  ASSUME TypeOK, step = "limit", NEW result \in {"spoken", "lost", "limited", "silent"},
         Done(result)
  PROVE  /\ heard' \in Seq(Handled) /\ Len(heard') = Len(heard) + 1
         /\ heard'[Len(heard')] = [component |-> inHand.component,
                                   kind |-> inHand.kind, at |-> now, result |-> result]
         /\ \A i \in DOMAIN heard : heard'[i] = heard[i]
         /\ inHand \in Error
<1> DEFINE e == [component |-> inHand.component, kind |-> inHand.kind,
                 at |-> now, result |-> result]
<1>1. inHand \in Error
  BY DEF TypeOK
<1>2. e \in Handled
  BY <1>1 DEF TypeOK, Handled, Error
<1>3. heard' = Append(heard, e)
  BY DEF Done
<1> HIDE DEF e
<1>4. heard \in Seq(Handled)
  BY DEF TypeOK
<1>5. /\ heard' \in Seq(Handled) /\ Len(heard') = Len(heard) + 1
      /\ heard'[Len(heard')] = e
      /\ \A i \in DOMAIN heard : heard'[i] = heard[i]
  BY <1>2, <1>3, <1>4
<1> QED BY <1>1, <1>5 DEF e

(* Every state of the two tasks is well-typed.  (TypeOK; degrade.rs)       *)
THEOREM HealthTypeCorrect == Spec => []TypeOK
<1>1. Init => TypeOK
  BY DEF Init, TypeOK
<1>2. TypeOK /\ [Next]_vars => TypeOK'
  <2> SUFFICES ASSUME TypeOK, [Next]_vars PROVE TypeOK'
    OBVIOUS
  <2>1. ASSUME NEW e \in Error, Receive(e) PROVE TypeOK'
    BY <2>1, NoneAssumption DEF Receive, TypeOK
  <2>2. CASE Record
    <3>1. inHand \in Error
      BY <2>2 DEF Record, TypeOK
    <3>2. health' \in [Component -> Kinds \cup {None}]
      BY <2>2, <3>1 DEF Record, TypeOK, Error
    <3> QED BY <2>2, <3>1, <3>2, NoneAssumption DEF Record, TypeOK
  <2>3. CASE Silence
    BY <2>3, DoneType DEF Silence, Done, TypeOK
  <2>4. CASE Limit
    BY <2>4, DoneType DEF Limit, Done, TypeOK
  <2>5. ASSUME NEW sent \in BOOLEAN, Speak(sent) PROVE TypeOK'
    <3>1. heard' \in Seq(Handled)
      BY <2>5, DoneType DEF Speak
    <3>2. lastSpoken' \in [Kind -> Nat \cup {None}]
      BY <2>5 DEF Speak, TypeOK
    <3> QED BY <2>5, <3>1, <3>2 DEF Speak, Done, TypeOK
  <2>6. ASSUME NEW sent \in BOOLEAN, Show(sent) PROVE TypeOK'
    BY <2>6 DEF Show, TypeOK, loopVars
  <2>7. CASE Take
    <3>1. Len(heard) + (IF step = "limit" THEN 1 ELSE 0) \in Nat
      BY DEF TypeOK
    <3>2. snapshot' \in Snapshot
      BY <2>7, <3>1 DEF Take, TypeOK, Snapshot
    <3> QED BY <2>7, <3>2 DEF Take, TypeOK, loopVars
  <2>8. ASSUME NEW d \in Advances, PassTime(d) PROVE TypeOK'
    BY <2>8, TimeAssumption, BoundsAssumption DEF PassTime, TypeOK, loopVars
  <2>9. CASE UNCHANGED vars
    BY <2>9 DEF vars, TypeOK
  <2> QED BY <2>1, <2>2, <2>3, <2>4, <2>5, <2>6, <2>7, <2>8, <2>9 DEF Next
<1> QED BY <1>1, <1>2, PTL DEF Spec

-----------------------------------------------------------------------------
(* An error whose phrase was published, or should have been.               *)
Tried(e) == e.result \in {"spoken", "lost"}

(* The table has the last try of each kind: no later one, and one at all.  *)
TableIsTheLast ==
  /\ \A i \in DOMAIN heard : Tried(heard[i]) =>
       heard[i].kind \in Kind /\ lastSpoken[heard[i].kind] \in Nat
         /\ heard[i].at <= lastSpoken[heard[i].kind]
  /\ \A k \in Kind : lastSpoken[k] # None =>
       \E i \in DOMAIN heard :
         Tried(heard[i]) /\ heard[i].kind = k /\ heard[i].at = lastSpoken[k]

TriesAreSpaced ==
  \A i, j \in DOMAIN heard :
    i < j /\ heard[i].kind = heard[j].kind /\ Tried(heard[i]) /\ Tried(heard[j]) =>
      heard[j].at - heard[i].at >= RateLimit

LimitInv == TableIsTheLast /\ TriesAreSpaced /\ SilenceHasAReason

(* A step that hears of nothing disturbs none of it. *)
LEMMA LimitUnchanged ==
  ASSUME LimitInv, UNCHANGED <<heard, lastSpoken>>
  PROVE  LimitInv'
BY DEF LimitInv, TableIsTheLast, TriesAreSpaced, SilenceHasAReason, Tried

(* An error that is not spoken of needs a reason only when it was limited. *)
LEMMA UnspokenKeeps ==
  ASSUME TypeOK, LimitInv, step = "limit", Done("silent") \/ Done("limited"),
         UNCHANGED lastSpoken,
         Done("limited") => inHand.kind \in Kind /\ ~Allowed(inHand.kind)
  PROVE  LimitInv'
<1> DEFINE n == Len(heard)
<1>1. /\ Len(heard') = n + 1 /\ n \in Nat
      /\ \A i \in 1..n : heard'[i] = heard[i] /\ heard[i] \in Handled
      /\ heard'[n + 1].kind = inHand.kind /\ heard'[n + 1].at = now
      /\ heard'[n + 1].result = "silent" \/
           (heard'[n + 1].result = "limited" /\ Done("limited"))
      /\ DOMAIN heard = 1..n /\ DOMAIN heard' = 1..(n + 1)
      /\ now \in Nat
  <2>1. CASE Done("silent")
    BY <2>1, DoneType DEF TypeOK
  <2>2. CASE Done("limited")
    BY <2>2, DoneType DEF TypeOK
  <2> QED BY <2>1, <2>2
<1>2. /\ \A i \in 1..n : Tried(heard'[i]) <=> Tried(heard[i])
      /\ ~Tried(heard'[n + 1])
  BY <1>1 DEF Tried
<1>3. TableIsTheLast'
  BY <1>1, <1>2 DEF LimitInv, TableIsTheLast
<1>4. TriesAreSpaced'
  BY <1>1, <1>2 DEF LimitInv, TriesAreSpaced
<1>5. ASSUME heard'[n + 1].result = "limited"
      PROVE  \E i \in 1..n : /\ heard'[i].kind = inHand.kind
                             /\ heard'[i].result \in {"spoken", "lost"}
                             /\ now - heard'[i].at < RateLimit
  <2>1. inHand.kind \in Kind /\ lastSpoken[inHand.kind] # None
        /\ ~(Monus(now, lastSpoken[inHand.kind]) >= RateLimit)
    BY <1>1, <1>5 DEF Allowed
  <2>2. PICK i \in 1..n : Tried(heard[i]) /\ heard[i].kind = inHand.kind
                          /\ heard[i].at = lastSpoken[inHand.kind]
    BY <1>1, <2>1 DEF LimitInv, TableIsTheLast
  <2>3. heard[i].at \in Nat
    BY <1>1 DEF Handled
  <2>4. now - heard[i].at < RateLimit
    BY <1>1, <2>1, <2>2, <2>3, TimeAssumption DEF Monus
  <2> QED BY <1>1, <2>2, <2>4 DEF Tried
<1>6. SilenceHasAReason'
  <2> SUFFICES ASSUME NEW j \in 1..(n + 1), heard'[j].result = "limited"
               PROVE  \E i \in 1..(j - 1) :
                        /\ heard'[i].kind = heard'[j].kind
                        /\ heard'[i].result \in {"spoken", "lost"}
                        /\ heard'[j].at - heard'[i].at < RateLimit
    BY <1>1 DEF SilenceHasAReason
  <2>1. CASE j = n + 1
    BY <1>1, <1>5, <2>1
  <2>2. CASE j \in 1..n
    BY <1>1, <2>2 DEF LimitInv, SilenceHasAReason
  <2> QED BY <1>1, <2>1, <2>2
<1> QED BY <1>3, <1>4, <1>6 DEF LimitInv

(* A phrase that is allowed is a window away from the last of its kind,    *)
(* and so from every one before that.                                      *)
LEMMA SpeakKeeps ==
  ASSUME TypeOK, LimitInv, NEW sent \in BOOLEAN, Speak(sent)
  PROVE  LimitInv'
<1> DEFINE n == Len(heard)
           k == inHand.kind
<1>1. /\ Len(heard') = n + 1 /\ n \in Nat
      /\ \A i \in 1..n : heard'[i] = heard[i] /\ heard[i] \in Handled
      /\ heard'[n + 1].kind = k /\ heard'[n + 1].at = now
      /\ heard'[n + 1].result \in {"spoken", "lost"}
      /\ DOMAIN heard = 1..n /\ DOMAIN heard' = 1..(n + 1)
      /\ now \in Nat
  BY DoneType DEF Speak, TypeOK
<1>2. k \in Kind /\ Allowed(k) /\ lastSpoken' = [lastSpoken EXCEPT ![k] = now]
      /\ lastSpoken \in [Kind -> Nat \cup {None}]
  BY DEF Speak, TypeOK
<1>3. /\ \A i \in 1..n : Tried(heard'[i]) <=> Tried(heard[i])
      /\ Tried(heard'[n + 1])
  BY <1>1 DEF Tried
<1>4. ASSUME NEW i \in 1..n, Tried(heard[i]), heard[i].kind = k
      PROVE  now - heard[i].at >= RateLimit
  <2>1. lastSpoken[k] \in Nat /\ heard[i].at <= lastSpoken[k]
    BY <1>1, <1>4 DEF LimitInv, TableIsTheLast
  <2>2. Monus(now, lastSpoken[k]) >= RateLimit
    BY <1>2, <2>1, NoneAssumption DEF Allowed
  <2>3. heard[i].at \in Nat
    BY <1>1 DEF Handled
  <2> QED BY <1>1, <2>1, <2>2, <2>3, TimeAssumption DEF Monus
<1>5. TableIsTheLast'
  <2>1. ASSUME NEW i \in 1..(n + 1), Tried(heard'[i])
        PROVE  heard'[i].kind \in Kind /\ lastSpoken'[heard'[i].kind] \in Nat
                 /\ heard'[i].at <= lastSpoken'[heard'[i].kind]
    <3>1. CASE i = n + 1
      BY <1>1, <1>2, <3>1
    <3>2. CASE i \in 1..n /\ heard[i].kind = k
      <4>1. heard[i].at \in Nat /\ now - heard[i].at >= RateLimit
        BY <1>1, <1>3, <1>4, <2>1, <3>2 DEF Handled
      <4> QED BY <1>1, <1>2, <3>2, <4>1, TimeAssumption
    <3>3. CASE i \in 1..n /\ heard[i].kind # k
      BY <1>1, <1>2, <1>3, <2>1, <3>3 DEF LimitInv, TableIsTheLast
    <3> QED BY <1>1, <3>1, <3>2, <3>3
  <2>2. ASSUME NEW l \in Kind, lastSpoken'[l] # None
        PROVE  \E i \in 1..(n + 1) :
                 Tried(heard'[i]) /\ heard'[i].kind = l /\ heard'[i].at = lastSpoken'[l]
    <3>1. CASE l = k
      BY <1>1, <1>2, <1>3, <3>1
    <3>2. CASE l # k
      <4>1. lastSpoken'[l] = lastSpoken[l]
        BY <1>2, <3>2
      <4>2. PICK i \in 1..n : Tried(heard[i]) /\ heard[i].kind = l /\ heard[i].at = lastSpoken[l]
        BY <1>1, <2>2, <4>1 DEF LimitInv, TableIsTheLast
      <4> QED BY <1>1, <1>3, <4>1, <4>2
    <3> QED BY <3>1, <3>2
  <2> QED BY <1>1, <2>1, <2>2 DEF TableIsTheLast
<1>6. TriesAreSpaced'
  <2> SUFFICES ASSUME NEW i \in 1..(n + 1), NEW j \in 1..(n + 1), i < j,
                      heard'[i].kind = heard'[j].kind, Tried(heard'[i]), Tried(heard'[j])
               PROVE  heard'[j].at - heard'[i].at >= RateLimit
    BY <1>1 DEF TriesAreSpaced
  <2>1. CASE j = n + 1
    BY <1>1, <1>3, <1>4, <2>1
  <2>2. CASE j \in 1..n
    BY <1>1, <1>3, <2>2 DEF LimitInv, TriesAreSpaced
  <2> QED BY <1>1, <2>1, <2>2
<1>7. SilenceHasAReason'
  <2> SUFFICES ASSUME NEW j \in 1..(n + 1), heard'[j].result = "limited"
               PROVE  \E i \in 1..(j - 1) :
                        /\ heard'[i].kind = heard'[j].kind
                        /\ heard'[i].result \in {"spoken", "lost"}
                        /\ heard'[j].at - heard'[i].at < RateLimit
    BY <1>1 DEF SilenceHasAReason
  <2>1. j \in 1..n
    BY <1>1
  <2> QED BY <1>1, <2>1 DEF LimitInv, SilenceHasAReason
<1> QED BY <1>5, <1>6, <1>7 DEF LimitInv

(* Two phrases of a kind are never closer than the window, and none is     *)
(* held back without one less than a window before it, whatever happened   *)
(* to the clock and to the phrases on the bus.  (LimitIsExact; degrade.rs, *)
(* check_and_record and process_error_envelope)                            *)
THEOREM LimitHolds == Spec => []LimitIsExact
<1>1. Init => LimitInv
  BY DEF Init, LimitInv, TableIsTheLast, TriesAreSpaced, SilenceHasAReason
<1>2. TypeOK /\ LimitInv /\ [Next]_vars => LimitInv'
  <2> SUFFICES ASSUME TypeOK, LimitInv, [Next]_vars PROVE LimitInv'
    OBVIOUS
  <2>1. CASE Silence
    BY <2>1, UnspokenKeeps, KindsAssumption DEF Silence, Done
  <2>2. CASE Limit
    BY <2>2, UnspokenKeeps DEF Limit
  <2>3. ASSUME NEW sent \in BOOLEAN, Speak(sent) PROVE LimitInv'
    BY <2>3, SpeakKeeps
  <2>4. CASE \/ Record \/ Take \/ UNCHANGED vars
             \/ \E e \in Error : Receive(e)
             \/ \E sent \in BOOLEAN : Show(sent)
             \/ \E d \in Advances : PassTime(d)
    <3>1. UNCHANGED <<heard, lastSpoken>>
      BY <2>4 DEF Record, Take, vars, Receive, Show, PassTime, loopVars
    <3> QED BY <3>1, LimitUnchanged
  <2> QED BY <2>1, <2>2, <2>3, <2>4 DEF Next
<1>3. LimitInv => LimitIsExact
  BY DEF LimitInv, LimitIsExact, TriesAreSpaced, SpeechIsSpaced, Tried
<1> QED BY <1>1, <1>2, <1>3, HealthTypeCorrect, PTL DEF Spec

-----------------------------------------------------------------------------
(* The errors on record: those handled, and the one in hand once the       *)
(* health knows of it.                                                     *)
OnRecord == Len(heard) + (IF step = "limit" THEN 1 ELSE 0)
ComponentOf(i) == IF i <= Len(heard) THEN heard[i].component ELSE inHand.component
KindOf(i) == IF i <= Len(heard) THEN heard[i].kind ELSE inHand.kind

(* What a snapshot says of a component is the last error it had till then. *)
SaysTheLast(s, c) ==
  \/ /\ s.errors[c] = None
     /\ \A i \in 1 .. s.after : ComponentOf(i) # c
  \/ \E i \in 1 .. s.after :
       /\ ComponentOf(i) = c
       /\ s.errors[c] = KindOf(i)
       /\ \A j \in i + 1 .. s.after : ComponentOf(j) # c

(***************************************************************************)
(* A snapshot is true from the moment it is taken: it is a copy of the     *)
(* health, which itself is the snapshot that could be taken now.           *)
(***************************************************************************)
Current == [errors |-> health, after |-> OnRecord]
Snapshots == {Current} \cup ({snapshot} \ {None}) \cup {shown[k] : k \in DOMAIN shown}

MomentInv ==
  \A s \in Snapshots : s.after <= OnRecord /\ \A c \in Component : SaysTheLast(s, c)

(* Snapshots are well-typed. *)
LEMMA SnapshotsType ==
  ASSUME TypeOK
  PROVE  /\ Snapshots \subseteq Snapshot
         /\ OnRecord \in Nat /\ Len(heard) \in Nat
<1>1. OnRecord \in Nat /\ Len(heard) \in Nat
  BY DEF TypeOK, OnRecord
<1>2. Current \in Snapshot
  BY <1>1 DEF TypeOK, Current, Snapshot
<1>3. \A k \in DOMAIN shown : shown[k] \in Snapshot
  BY DEF TypeOK
<1>4. snapshot # None => snapshot \in Snapshot
  BY DEF TypeOK
<1> QED BY <1>1, <1>2, <1>3, <1>4 DEF Snapshots

(* What is on record stays so, and what was said of it stays true. *)
LEMMA TruthStays ==
  ASSUME TypeOK, MomentInv,
         Len(heard) <= Len(heard'), Len(heard') \in Nat, OnRecord <= OnRecord', OnRecord' \in Nat,
         \A i \in 1 .. OnRecord :
           ComponentOf(i)' = ComponentOf(i) /\ KindOf(i)' = KindOf(i),
         NEW s \in Snapshots
  PROVE  s.after <= OnRecord' /\ \A c \in Component : SaysTheLast(s, c)'
<1>1. s \in Snapshot /\ s.after \in Nat /\ s.after <= OnRecord /\ OnRecord \in Nat
  BY SnapshotsType DEF Snapshot, MomentInv
<1>2. \A i \in 1 .. s.after : ComponentOf(i)' = ComponentOf(i) /\ KindOf(i)' = KindOf(i)
  BY <1>1
<1>3. ASSUME NEW c \in Component PROVE SaysTheLast(s, c)'
  <2>1. SaysTheLast(s, c)
    BY DEF MomentInv
  <2>2. \A i \in 1 .. s.after : i + 1 .. s.after \subseteq 1 .. s.after
    BY <1>1
  <2>3. CASE s.errors[c] = None /\ \A i \in 1 .. s.after : ComponentOf(i) # c
    BY <1>2, <2>3 DEF SaysTheLast
  <2>4. CASE \E i \in 1 .. s.after :
               /\ ComponentOf(i) = c
               /\ s.errors[c] = KindOf(i)
               /\ \A j \in i + 1 .. s.after : ComponentOf(j) # c
    <3>1. PICK i \in 1 .. s.after : /\ ComponentOf(i) = c
                                    /\ s.errors[c] = KindOf(i)
                                    /\ \A j \in i + 1 .. s.after : ComponentOf(j) # c
      BY <2>4
    <3>2. /\ ComponentOf(i)' = c /\ s.errors[c] = KindOf(i)'
          /\ \A j \in i + 1 .. s.after : ComponentOf(j)' # c
      BY <1>2, <2>2, <3>1
    <3> QED BY <3>2 DEF SaysTheLast
  <2> QED BY <2>1, <2>3, <2>4 DEF SaysTheLast
<1> QED BY <1>1, <1>3

(* The end of an error leaves the record as it is. *)
LEMMA DoneKeepsRecord ==
  ASSUME TypeOK, step = "limit", NEW result \in {"spoken", "lost", "limited", "silent"},
         Done(result)
  PROVE  /\ Len(heard') = Len(heard) + 1 /\ OnRecord' = OnRecord
         /\ \A i \in 1 .. OnRecord :
              ComponentOf(i)' = ComponentOf(i) /\ KindOf(i)' = KindOf(i)
<1>1. /\ Len(heard') = Len(heard) + 1 /\ Len(heard) \in Nat
      /\ heard'[Len(heard')] = [component |-> inHand.component,
                                kind |-> inHand.kind, at |-> now, result |-> result]
      /\ \A i \in 1 .. Len(heard) : heard'[i] = heard[i]
  BY DoneType DEF TypeOK
<1>2. heard'[Len(heard) + 1].component = inHand.component
      /\ heard'[Len(heard) + 1].kind = inHand.kind
  BY <1>1
<1>3. OnRecord = Len(heard) + 1 /\ OnRecord' = Len(heard) + 1
  BY <1>1 DEF OnRecord, Done
<1> QED BY <1>1, <1>2, <1>3 DEF ComponentOf, KindOf

(* Every step but Record leaves the record and the health as they are.  *)
LEMMA OthersKeepTruth ==
  ASSUME TypeOK, MomentInv,
         Len(heard) <= Len(heard'), Len(heard') \in Nat, OnRecord' = OnRecord,
         \A i \in 1 .. OnRecord :
           ComponentOf(i)' = ComponentOf(i) /\ KindOf(i)' = KindOf(i),
         Snapshots' \subseteq Snapshots
  PROVE  MomentInv'
<1>1. OnRecord \in Nat
  BY SnapshotsType
<1>2. \A s \in Snapshots : s.after <= OnRecord' /\ \A c \in Component : SaysTheLast(s, c)'
  BY <1>1, TruthStays
<1> QED BY <1>2 DEF MomentInv

(* Recording an error changes what is said of its component, to that error. *)
LEMMA RecordKeepsTruth ==
  ASSUME TypeOK, MomentInv, Record
  PROVE  MomentInv'
<1>1. /\ step = "record" /\ step' = "limit" /\ heard' = heard /\ inHand' = inHand
      /\ snapshot' = snapshot /\ shown' = shown
      /\ health' = [health EXCEPT ![inHand.component] = inHand.kind]
  BY DEF Record
<1>2. inHand \in Error /\ inHand.component \in Component
  BY <1>1 DEF TypeOK, Error
<1>3. /\ Len(heard) \in Nat /\ OnRecord = Len(heard) /\ OnRecord' = Len(heard) + 1
  BY <1>1 DEF OnRecord, TypeOK
<1>4. \A i \in 1 .. OnRecord : ComponentOf(i)' = ComponentOf(i) /\ KindOf(i)' = KindOf(i)
  BY <1>1 DEF ComponentOf, KindOf
<1>5. \A s \in Snapshots : s.after <= OnRecord' /\ \A c \in Component : SaysTheLast(s, c)'
  BY <1>1, <1>3, <1>4, TruthStays
<1>6. ASSUME NEW c \in Component, NEW s, s = Current'
      PROVE  s.after <= OnRecord' /\ SaysTheLast(s, c)'
  <2>0. PICK n \in Nat : n = Len(heard)
    BY <1>3
  <2>1. s.after = n + 1 /\ s.errors = health' /\ s.after <= OnRecord'
    BY <1>3, <1>6, <2>0 DEF Current
  <2>2. /\ ComponentOf(n + 1)' = inHand.component /\ KindOf(n + 1)' = inHand.kind
        /\ \A i \in 1 .. n : ComponentOf(i)' = ComponentOf(i) /\ KindOf(i)' = KindOf(i)
    BY <1>1, <1>3, <2>0 DEF ComponentOf, KindOf
  <2>3. health \in [Component -> Kinds \cup {None}]
    BY DEF TypeOK
  <2>4. CASE c = inHand.component
    <3>1. s.errors[c] = inHand.kind
      BY <1>1, <2>1, <2>3, <2>4
    <3>2. n + 1 \in 1 .. s.after /\ (n + 1) + 1 .. s.after = {}
      BY <1>3, <2>1
    <3>3. /\ n + 1 \in 1 .. s.after /\ ComponentOf(n + 1)' = c
          /\ s.errors[c] = KindOf(n + 1)'
          /\ \A j \in (n + 1) + 1 .. s.after : ComponentOf(j)' # c
      BY <2>2, <2>4, <3>1, <3>2
    <3>4. SaysTheLast(s, c)'
      BY <3>3 DEF SaysTheLast
    <3> QED BY <2>1, <3>4
  <2>5. CASE c # inHand.component
    <3>1. s.errors[c] = health[c]
      BY <1>1, <1>2, <2>1, <2>3, <2>5
    <3>2. \/ health[c] = None /\ \A i \in 1 .. n : ComponentOf(i) # c
          \/ \E i \in 1 .. n : /\ ComponentOf(i) = c /\ health[c] = KindOf(i)
                               /\ \A j \in i + 1 .. n : ComponentOf(j) # c
      <4>1. Current \in Snapshots /\ Current.errors = health /\ Current.after = n
        BY <1>3, <2>0 DEF Snapshots, Current
      <4> QED BY <4>1 DEF MomentInv, SaysTheLast
    <3>3. CASE health[c] = None /\ \A i \in 1 .. n : ComponentOf(i) # c
      <4>1. \A i \in 1 .. n + 1 : ComponentOf(i)' # c
        BY <1>3, <2>2, <2>5, <3>3
      <4> QED BY <2>1, <3>1, <3>3, <4>1 DEF SaysTheLast
    <3>4. CASE \E i \in 1 .. n : /\ ComponentOf(i) = c /\ health[c] = KindOf(i)
                                 /\ \A j \in i + 1 .. n : ComponentOf(j) # c
      <4>1. PICK i \in 1 .. n : /\ ComponentOf(i) = c /\ health[c] = KindOf(i)
                                /\ \A j \in i + 1 .. n : ComponentOf(j) # c
        BY <3>4
      <4>2. i \in 1 .. n + 1 /\ ComponentOf(i)' = c /\ health[c] = KindOf(i)'
        BY <1>3, <2>2, <4>1
      <4>3. \A j \in i + 1 .. n + 1 : ComponentOf(j)' # c
        <5> TAKE j \in i + 1 .. n + 1
        <5>1. j = n + 1 \/ (j \in i + 1 .. n /\ j \in 1 .. n)
          BY <1>3
        <5> QED BY <2>2, <2>5, <4>1, <5>1
      <4> QED BY <2>1, <3>1, <4>2, <4>3 DEF SaysTheLast
    <3> QED BY <3>2, <3>3, <3>4
  <2> QED BY <2>1, <2>4, <2>5
<1>7. Snapshots' \subseteq Snapshots \cup {Current'}
  BY <1>1 DEF Snapshots
<1> HIDE DEF Current
<1>8. ASSUME NEW s \in Snapshots', NEW c \in Component
      PROVE  s.after <= OnRecord' /\ SaysTheLast(s, c)'
  BY <1>5, <1>6, <1>7
<1>9. Component # {} 
  BY <1>2
<1> QED BY <1>8, <1>9 DEF MomentInv

(***************************************************************************)
(* Every snapshot published was the health of one moment, however the      *)
(* ticker and the event loop interleave.  (SnapshotsAreMoments)            *)
(***************************************************************************)
THEOREM SnapshotsHold == Spec => []SnapshotsAreMoments
<1>1. Init => MomentInv
  BY DEF Init, MomentInv, Snapshots, Current, OnRecord, SaysTheLast
<1>2. TypeOK /\ MomentInv /\ [Next]_vars => MomentInv'
  <2> SUFFICES ASSUME TypeOK, MomentInv, [Next]_vars PROVE MomentInv'
    OBVIOUS
  <2>1. Len(heard) \in Nat
    BY SnapshotsType
  <2>2. ASSUME NEW result \in {"spoken", "lost", "limited", "silent"}, step = "limit",
               Done(result), UNCHANGED <<health, snapshot, shown>>
        PROVE  MomentInv'
    <3>1. /\ Len(heard') = Len(heard) + 1 /\ OnRecord' = OnRecord
          /\ \A i \in 1 .. OnRecord :
               ComponentOf(i)' = ComponentOf(i) /\ KindOf(i)' = KindOf(i)
      BY <2>2, DoneKeepsRecord
    <3>2. Snapshots' \subseteq Snapshots
      BY <2>2, <3>1 DEF Snapshots, Current
    <3> QED BY <2>1, <3>1, <3>2, OthersKeepTruth
  <2>3. ASSUME UNCHANGED <<heard, health>>, OnRecord' = OnRecord,
               step = "limit" => UNCHANGED inHand,
               Snapshots' \subseteq Snapshots
        PROVE  MomentInv'
    <3>1. \A i \in 1 .. OnRecord :
            ComponentOf(i)' = ComponentOf(i) /\ KindOf(i)' = KindOf(i)
      BY <2>1, <2>3 DEF OnRecord, ComponentOf, KindOf
    <3> QED BY <2>1, <2>3, <3>1, OthersKeepTruth
  <2>4. CASE Record
    BY <2>4, RecordKeepsTruth
  <2>5. CASE Silence
    BY <2>2, <2>5 DEF Silence
  <2>6. CASE Limit
    BY <2>2, <2>6 DEF Limit
  <2>7. ASSUME NEW sent \in BOOLEAN, Speak(sent) PROVE MomentInv'
    BY <2>2, <2>7 DEF Speak
  <2>8. ASSUME NEW e \in Error, Receive(e) PROVE MomentInv'
    BY <2>3, <2>8 DEF Receive, OnRecord, Snapshots, Current
  <2>9. CASE Take
    BY <2>3, <2>9 DEF Take, loopVars, OnRecord, Snapshots, Current
  <2>10. ASSUME NEW sent \in BOOLEAN, Show(sent) PROVE MomentInv'
    <3>1. shown \in Seq(Snapshot) /\ snapshot # None /\ snapshot \in Snapshot
      BY <2>10 DEF Show, TypeOK
    <3>2. {shown'[k] : k \in DOMAIN shown'} \subseteq
            {shown[k] : k \in DOMAIN shown} \cup {snapshot}
      BY <2>10, <3>1 DEF Show
    <3>3. UNCHANGED <<health, heard, step, inHand>> /\ snapshot' = None
      BY <2>10 DEF Show, loopVars
    <3> QED BY <2>3, <3>1, <3>2, <3>3 DEF OnRecord, Snapshots, Current
  <2>11. ASSUME NEW d \in Advances, PassTime(d) PROVE MomentInv'
    BY <2>3, <2>11 DEF PassTime, loopVars, OnRecord, Snapshots, Current
  <2>12. CASE UNCHANGED vars
    BY <2>3, <2>12 DEF vars, OnRecord, Snapshots, Current
  <2> QED BY <2>4, <2>5, <2>6, <2>7, <2>8, <2>9, <2>10, <2>11, <2>12 DEF Next
<1>3. TypeOK /\ MomentInv => SnapshotsAreMoments
  <2> SUFFICES ASSUME TypeOK, MomentInv, NEW k \in DOMAIN shown,
                      shown[k].after <= Len(heard), NEW c \in Component
               PROVE  LET erred == {i \in 1 .. shown[k].after : heard[i].component = c}
                      IN IF erred = {}
                         THEN shown[k].errors[c] = None
                         ELSE shown[k].errors[c]
                                = heard[CHOOSE i \in erred : \A j \in erred : j <= i].kind
    BY DEF SnapshotsAreMoments
  <2> DEFINE m == shown[k].after
             erred == {i \in 1 .. m : heard[i].component = c}
  <2>1. shown[k] \in Snapshots /\ m \in Nat /\ Len(heard) \in Nat
    BY SnapshotsType DEF Snapshots, Snapshot
  <2>2. \A i \in 1 .. m : ComponentOf(i) = heard[i].component /\ KindOf(i) = heard[i].kind
    BY <2>1 DEF ComponentOf, KindOf
  <2>3. SaysTheLast(shown[k], c)
    BY <2>1 DEF MomentInv
  <2>4. CASE shown[k].errors[c] = None /\ \A i \in 1 .. m : ComponentOf(i) # c
    <3>1. erred = {}
      BY <2>2, <2>4
    <3> QED BY <2>4, <3>1
  <2>5. CASE \E i \in 1 .. m : /\ ComponentOf(i) = c
                              /\ shown[k].errors[c] = KindOf(i)
                              /\ \A j \in i + 1 .. m : ComponentOf(j) # c
    <3>1. PICK i \in 1 .. m : /\ ComponentOf(i) = c
                              /\ shown[k].errors[c] = KindOf(i)
                              /\ \A j \in i + 1 .. m : ComponentOf(j) # c
      BY <2>5
    <3>2. i \in erred /\ \A j \in erred : j <= i
      BY <2>1, <2>2, <3>1
    <3>3. \A l \in erred : (\A j \in erred : j <= l) => l = i
      BY <2>1, <3>2
    <3>4. (CHOOSE l \in erred : \A j \in erred : j <= l) = i
      <4> HIDE DEF erred
      <4> QED BY <3>2, <3>3
    <3> QED BY <2>2, <3>1, <3>2, <3>4
  <2> QED BY <2>3, <2>4, <2>5 DEF SaysTheLast
<1> QED BY <1>1, <1>2, <1>3, HealthTypeCorrect, PTL DEF Spec

-----------------------------------------------------------------------------
(* brain.toml: what is invariant                                           *)

(* What a file was replaced for, and what is on record.                    *)
Reasons == AllSettings \cup {ApplyProfile, NoFile} \cup Processes
Writer == [at : Saving \cup {"idle", "ready", "turn"}, cfg : Text,
           open : Inode \cup {NoFile}, why : Reasons]
Event == [what : {"found", "changed", "started", "taken", "persisted", "unsaved"},
          text : Text \cup {NoFile}, why : Reasons]

FileTypes ==
  /\ name \in [{"file", "tmp"} -> Inode \cup {NoFile}]
  /\ data \in [Inode -> Content]
  /\ writer \in [Processes -> Writer]
  /\ \A p \in Cli : writer[p].at \notin {"ready", "turn"}
  /\ writer[Daemon].cfg \in BrainConfig
  /\ events \in Seq(Event)

(* One process saves at a time, into a file of its own: not brain.toml.    *)
SavesAreApart ==
  /\ \A p, q \in Processes : writer[p].at \in Saving /\ writer[q].at \in Saving => p = q
  /\ \A p \in Processes :
       /\ writer[p].at \notin {"write", "rename"} => writer[p].open = NoFile
       /\ writer[p].at \in {"write", "rename"} =>
            writer[p].open = name["tmp"] /\ name["tmp"] \in Inode
       /\ writer[p].at = "rename" => data[name["tmp"]] = Whole(writer[p].cfg)
  /\ name["file"] # NoFile => name["file"] # name["tmp"]

(* The last save at the event k or before it                               *)
IsLast(i, k) == i \in Saves /\ i <= k /\ \A j \in Saves : j <= k => j <= i

SavesAreOnRecord ==
  /\ events # <<>> /\ events[1].what = "found"
  /\ \A k \in DOMAIN events : \E i \in Saves : IsLast(i, k)
  /\ Parses /\ Raw = FileAfter(Len(events))

(* What is valid stays valid, in the file and in hand.                     *)
AllValid ==
  /\ Valid(Meaning(Raw))
  /\ \A p \in Processes : writer[p].at # "idle" => Valid(Meaning(writer[p].cfg))

ValidOnce == Valid(Meaning(FileAfter(1))) => AllValid

(* The text says of each setting what was asked, or what the file said.    *)
Changes(was, why, text) ==
  \A key \in Keys :
    Meaning(text)[key] =
      IF key \in DOMAIN why
      THEN IF why[key] = Unset THEN Default[key] ELSE why[key]
      ELSE IF was = NoFile /\ why = ApplyProfile /\ key = "tier"
      THEN Default.model
      ELSE Meaning(was)[key]

OneSettingInHand ==
  \A p \in Cli : writer[p].at \in Saving =>
    /\ writer[p].why \in AllSettings \cup {ApplyProfile}
    /\ Changes(Raw, writer[p].why, writer[p].cfg)

(* An override was taken at i, and neither put on record as lost nor asked *)
(* for anew since.                                                         *)
Excuse(k) ==
  \/ events[k].what = "changed" /\ "pending" \in DOMAIN events[k].why
  \/ events[k].what = "unsaved" /\ events[k].why = Daemon
Outstanding(i) ==
  /\ i \in DOMAIN events /\ events[i].what = "taken"
  /\ \A k \in i .. Len(events) : ~Excuse(k)

(* Then the daemon is about to save that it is gone, or nobody has it.     *)
OverrideIsGone ==
  /\ writer[Daemon].at # "idle" => writer[Daemon].cfg.pending = Unset
  /\ \/ writer[Daemon].at \in Saving \cup {"turn"}
     \/ /\ Meaning(Raw).pending = Unset
        /\ \A p \in Cli : writer[p].at \in Saving =>
             writer[p].cfg.pending = Unset \/ "pending" \in DOMAIN writer[p].why

OutstandingIsGone == (\E i \in DOMAIN events : Outstanding(i)) => OverrideIsGone

-----------------------------------------------------------------------------
(* What configurations and commands are                                    *)

(* The settings of the file, and what its texts are.                       *)
LEMMA KeysAre ==
  /\ Keys = {"model", "tier", "pending", "prefer", "register", "redline", "lock", "gpu"}
  /\ Default \in BrainConfig /\ BrainConfig \subseteq Text
  /\ \A text \in Text : DOMAIN text = Keys
<1>1. Keys = {"model", "tier", "pending", "prefer", "register", "redline", "lock", "gpu"}
  BY DEF Keys, Default
<1>2. Default \in BrainConfig
  BY DEF Default, BrainConfig, Models, AllowedModels, CloudModels
<1>3. BrainConfig \subseteq Text
  BY DEF BrainConfig, Text
<1>4. \A text \in Text : DOMAIN text = Keys
  BY DEF Text, Keys, Default
<1> QED BY <1>1, <1>2, <1>3, <1>4

(* A function on the keys is a text if its values are.                     *)
LEMMA ConfigOf ==
  ASSUME NEW f, f = [key \in Keys |-> f[key]],
         f["model"] \in Models, f["tier"] \in Models, f["pending"] \in Models \cup {Unset},
         f["prefer"] \in {"auto", "local-only"}, f["register"] \in {"warm-elder", "brisk"},
         f["redline"] \in {"off", "safe-phrase"}, f["lock"] \in {"on", "off"},
         f["gpu"] \in {Unset, "desktop"}
  PROVE  f \in BrainConfig
BY KeysAre DEF BrainConfig

(* What is absent from a text has its default value.                       *)
LEMMA ParsedIs ==
  ASSUME NEW text \in Text
  PROVE  /\ Parsed(text) \in BrainConfig
         /\ \A key \in Keys : Parsed(text)[key] =
              IF text[key] = Unset THEN Default[key] ELSE text[key]
<1>1. \A key \in Keys : Parsed(text)[key] =
              IF text[key] = Unset THEN Default[key] ELSE text[key]
  BY DEF Parsed
<1>2. Parsed(text) = [key \in Keys |-> Parsed(text)[key]]
  BY DEF Parsed
<1> QED BY <1>1, <1>2, KeysAre, ConfigOf DEF Text, Default, Models, AllowedModels, CloudModels

(* What a file means has every setting, and what the file says is its      *)
(* meaning: of a key that is missing the default, of a missing tier the    *)
(* cloud model.                                                            *)
LEMMA MeaningIs ==
  ASSUME NEW text \in Text
  PROVE  /\ Meaning(text) \in BrainConfig
         /\ \A key \in Keys \ {"tier"} : Meaning(text)[key] =
              IF text[key] = Unset THEN Default[key] ELSE text[key]
         /\ Meaning(text)["tier"] =
              IF text["tier"] # Unset THEN text["tier"]
              ELSE IF Meaning(text)["model"] \in CloudModels THEN Meaning(text)["model"]
              ELSE Default["tier"]
<1> DEFINE parsed == Parsed(text)
<1>1. parsed \in BrainConfig /\ \A key \in Keys : parsed[key] =
        IF text[key] = Unset THEN Default[key] ELSE text[key]
  BY ParsedIs
<1>2. text # NoFile
  BY NamesAssumption
<1>3. Meaning(text) = IF text.tier = Unset /\ parsed.model \in CloudModels
                      THEN [parsed EXCEPT !.tier = parsed.model] ELSE parsed
  BY <1>2 DEF Meaning, Migrated
<1> HIDE DEF parsed
<1>4. [parsed EXCEPT !.tier = parsed.model] \in BrainConfig
  BY <1>1 DEF BrainConfig
<1>5. DOMAIN parsed = Keys
  BY <1>1, KeysAre
<1>6. /\ \A key \in Keys \ {"tier"} : Meaning(text)[key] = parsed[key]
      /\ Meaning(text)["tier"] = IF text.tier = Unset /\ parsed.model \in CloudModels
                                 THEN parsed.model ELSE parsed.tier
  BY <1>3, <1>5, KeysAre
<1> QED BY <1>1, <1>3, <1>4, <1>6, KeysAre

(* A configuration that is saved means what it says.                       *)
LEMMA ConfigMeansItself ==
  ASSUME NEW cfg \in BrainConfig
  PROVE  /\ cfg \in Text
         /\ \A key \in Keys : Meaning(cfg)[key] = cfg[key]
<1>1. cfg \in Text
  BY KeysAre
<1>2. cfg["tier"] # Unset
  BY NamesAssumption DEF BrainConfig
<1>3. \A key \in Keys : cfg[key] = Unset => Default[key] = Unset
  BY NamesAssumption, KeysAre DEF BrainConfig, Default
<1> QED BY <1>1, <1>2, <1>3, MeaningIs

(* A text without a file, too, means a configuration.                      *)
LEMMA MeaningType ==
  ASSUME NEW text \in Text \cup {NoFile}
  PROVE  Meaning(text) \in BrainConfig
BY MeaningIs, KeysAre DEF Meaning

(* Commands set what they name to a value, and touch nothing else.         *)
LEMMA SettingsAre ==
  ASSUME NEW command \in AllSettings
  PROVE  /\ command # ApplyProfile
         /\ \A key \in DOMAIN command : command[key] # Unset
         /\ \A cfg \in BrainConfig : Edited(cfg, command) \in BrainConfig
<1> DEFINE Fine(c) == /\ c # ApplyProfile
                      /\ \A key \in DOMAIN c : c[key] # Unset
                      /\ \A cfg \in BrainConfig : Edited(cfg, c) \in BrainConfig
<1>1. ASSUME NEW c, "redline" \notin DOMAIN c PROVE c # ApplyProfile
  BY <1>1 DEF ApplyProfile
<1>2. ASSUME NEW c, NEW cfg \in BrainConfig
      PROVE  /\ Edited(cfg, c) = [key \in Keys |-> Edited(cfg, c)[key]]
             /\ \A key \in Keys : Edited(cfg, c)[key] =
                  IF key \in DOMAIN c THEN c[key] ELSE cfg[key]
  BY DEF Edited
<1>3. ASSUME NEW m \in AllowedModels PROVE Fine(SwapModel(m)) /\ Fine(DefaultModel(m))
  <2>1. m \in Models /\ m # Unset
    BY <1>3, NamesAssumption DEF Models
  <2>2. \A c \in {SwapModel(m), DefaultModel(m)} :
          /\ c # ApplyProfile /\ \A key \in DOMAIN c : c[key] # Unset
    BY <1>1, <2>1 DEF SwapModel, DefaultModel
  <2>3. ASSUME NEW cfg \in BrainConfig, NEW c \in {SwapModel(m), DefaultModel(m)}
        PROVE  Edited(cfg, c) \in BrainConfig
    <3>1. \A key \in Keys : Edited(cfg, c)[key] \in {cfg[key]} \cup
            (IF key \in {"model", "tier", "pending"} THEN {m} ELSE {})
      BY <1>2, <2>1 DEF SwapModel, DefaultModel
    <3> QED BY <1>2, <2>1, <3>1, KeysAre, ConfigOf DEF BrainConfig
  <2> QED BY <2>2, <2>3
<1>4. ASSUME NEW p \in {"auto", "local-only"} PROVE Fine(RoutePrefer(p))
  <2>1. /\ RoutePrefer(p) # ApplyProfile
        /\ \A key \in DOMAIN RoutePrefer(p) : RoutePrefer(p)[key] # Unset
    BY <1>1, NamesAssumption DEF RoutePrefer
  <2>2. ASSUME NEW cfg \in BrainConfig PROVE Edited(cfg, RoutePrefer(p)) \in BrainConfig
    <3>1. \A key \in Keys : Edited(cfg, RoutePrefer(p))[key] = IF key = "prefer" THEN p ELSE cfg[key]
      BY <1>2 DEF RoutePrefer
    <3> QED BY <1>2, <3>1, KeysAre, ConfigOf DEF BrainConfig
  <2> QED BY <2>1, <2>2
<1>5. ASSUME NEW r \in {"warm-elder", "brisk"} PROVE Fine(SetRegister(r))
  <2>1. /\ SetRegister(r) # ApplyProfile
        /\ \A key \in DOMAIN SetRegister(r) : SetRegister(r)[key] # Unset
    BY <1>1, NamesAssumption DEF SetRegister
  <2>2. ASSUME NEW cfg \in BrainConfig PROVE Edited(cfg, SetRegister(r)) \in BrainConfig
    <3>1. \A key \in Keys : Edited(cfg, SetRegister(r))[key] = IF key = "register" THEN r ELSE cfg[key]
      BY <1>2 DEF SetRegister
    <3> QED BY <1>2, <3>1, KeysAre, ConfigOf DEF BrainConfig
  <2> QED BY <2>1, <2>2
<1> HIDE DEF Fine
<1>6. Fine(command)
  BY <1>3, <1>4, <1>5 DEF AllSettings
<1> QED BY <1>6 DEF Fine

(* Validation looks at three settings.                                     *)
LEMMA ValidIs ==
  ASSUME NEW a \in BrainConfig
  PROVE  /\ Valid(a) <=> /\ a["model"] \in AllowedModels /\ a["tier"] \in AllowedModels
                         /\ a["pending"] \in AllowedModels \cup {Unset}
         /\ Valid(Meaning(a)) <=> Valid(a)
         /\ \A b \in BrainConfig :
              b["model"] = a["model"] /\ b["tier"] = a["tier"]
                /\ b["pending"] \in {a["pending"], Unset} => (Valid(a) => Valid(b))
<1>1. \A b \in BrainConfig :
        Valid(b) <=> /\ b["model"] \in AllowedModels /\ b["tier"] \in AllowedModels
                     /\ b["pending"] \in AllowedModels \cup {Unset}
  BY NamesAssumption DEF Valid, BrainConfig
<1>2. \A b \in BrainConfig : Meaning(b) \in BrainConfig
                             /\ \A key \in Keys : Meaning(b)[key] = b[key]
  BY ConfigMeansItself, MeaningIs
<1> QED BY <1>1, <1>2, KeysAre

(* A command changes what it names, whatever the file said.                *)
LEMMA CommandChanges ==
  ASSUME NEW was \in Text \cup {NoFile}, NEW command \in AllSettings
  PROVE  LET text == Edited(Meaning(was), command)
         IN  /\ text \in BrainConfig
             /\ Changes(was, command, text)
             /\ Valid(Meaning(was)) => Valid(Meaning(text))
             /\ "pending" \notin DOMAIN command => text.pending = Meaning(was).pending
<1> DEFINE text == Edited(Meaning(was), command)
<1>1. Meaning(was) \in BrainConfig
  BY MeaningType
<1>2. text \in BrainConfig /\ \A key \in Keys : Meaning(text)[key] = text[key]
  BY <1>1, SettingsAre, ConfigMeansItself
<1>3. \A key \in Keys : text[key] = IF key \in DOMAIN command THEN command[key]
                                     ELSE Meaning(was)[key]
  BY DEF Edited
<1> HIDE DEF text
<1>4. Changes(was, command, text)
  BY <1>2, <1>3, SettingsAre DEF Changes
<1>5. ASSUME Valid(Meaning(was)) PROVE Valid(Meaning(text))
  <2>1. \A key \in {"model", "tier", "pending"} \cap DOMAIN command :
          command[key] \in AllowedModels
    BY DEF AllSettings, SwapModel, DefaultModel, RoutePrefer, SetRegister
  <2>2. /\ Meaning(was)["model"] \in AllowedModels /\ Meaning(was)["tier"] \in AllowedModels
        /\ Meaning(was)["pending"] \in AllowedModels \cup {Unset}
    BY <1>1, <1>5, ValidIs
  <2>3. /\ text["model"] \in AllowedModels /\ text["tier"] \in AllowedModels
        /\ text["pending"] \in AllowedModels \cup {Unset}
    BY <1>3, <2>1, <2>2, KeysAre
  <2> QED BY <1>2, <2>3, ValidIs
<1>6. "pending" \notin DOMAIN command => text.pending = Meaning(was).pending
  BY <1>3, KeysAre
<1> QED BY <1>2, <1>4, <1>5, <1>6 DEF text

(* A profile changes the persona, and gives a tier to a file that is not   *)
(* there.                                                                  *)
LEMMA ProfileChanges ==
  ASSUME NEW was \in Text \cup {NoFile}
  PROVE  LET text == Edited(IF was = NoFile THEN Blank ELSE was, ApplyProfile)
         IN  /\ text \in Text
             /\ Changes(was, ApplyProfile, text)
             /\ Valid(Meaning(was)) => Valid(Meaning(text))
             /\ Meaning(was).pending = Unset => text.pending = Unset
<1> DEFINE old == IF was = NoFile THEN Blank ELSE was
           text == Edited(old, ApplyProfile)
<1>1. Blank \in Text
  BY KeysAre DEF Blank, Text
<1>2. old \in Text
  BY <1>1
<1>3. \A key \in Keys : text[key] = IF key = "register" THEN "warm-elder"
                                     ELSE IF key = "redline" THEN Unset ELSE old[key]
  BY DEF Edited, ApplyProfile
<1>4. text = [key \in Keys |-> text[key]]
  BY DEF Edited
<1>5. /\ was = NoFile => \A key \in Keys : old[key] = Unset
      /\ was # NoFile => old = was
  BY DEF Blank
<1> HIDE DEF old
<1>6. text \in Text
  <2> HIDE DEF text
  <2>1. /\ text["model"] \in Models \cup {Unset} /\ text["tier"] \in Models \cup {Unset}
        /\ text["pending"] \in Models \cup {Unset}
        /\ text["prefer"] \in {"auto", "local-only", Unset}
        /\ text["register"] \in {"warm-elder", "brisk", Unset}
        /\ text["redline"] \in {"off", "safe-phrase", Unset}
        /\ text["lock"] \in {"on", "off", Unset} /\ text["gpu"] \in {Unset, "desktop"}
    BY <1>2, <1>3, KeysAre DEF Text
  <2> QED BY <1>4, <2>1, KeysAre DEF Text
<1> HIDE DEF text
<1>7. /\ was = NoFile => Meaning(was) = Default
      /\ Default.model = "sonnet" /\ Default.pending = Unset /\ "sonnet" \in CloudModels
      /\ "sonnet" \in AllowedModels
  BY DEF Meaning, Default, CloudModels, AllowedModels
<1>8. /\ was # NoFile => /\ Meaning(text)["model"] = Meaning(was)["model"]
                         /\ Meaning(text)["tier"] = Meaning(was)["tier"]
      /\ was = NoFile => Meaning(text)["model"] = "sonnet" /\ Meaning(text)["tier"] = "sonnet"
  BY <1>2, <1>3, <1>5, <1>6, <1>7, KeysAre, MeaningIs
<1>9. \A key \in Keys \ {"register", "redline", "tier"} : Meaning(text)[key] = Meaning(was)[key]
  <2>1. CASE was = NoFile
    BY <1>3, <1>5, <1>6, <1>7, <2>1, KeysAre, MeaningIs
  <2>2. CASE was # NoFile
    BY <1>3, <1>5, <1>6, <2>2, KeysAre, MeaningIs
  <2> QED BY <2>1, <2>2
<1>10. Meaning(text)["register"] = "warm-elder" /\ Meaning(text)["redline"] = Default["redline"]
  BY <1>3, <1>6, KeysAre, MeaningIs, NamesAssumption
<1>11. Changes(was, ApplyProfile, text)
  <2>1. /\ DOMAIN ApplyProfile = {"register", "redline"}
        /\ ApplyProfile["register"] = "warm-elder" /\ ApplyProfile["redline"] = Unset
        /\ "warm-elder" # Unset
    BY NamesAssumption DEF ApplyProfile
  <2> QED BY <1>7, <1>8, <1>9, <1>10, <2>1, KeysAre DEF Changes
<1>12. Valid(Meaning(was)) => Valid(Meaning(text))
  <2>1. Meaning(was) \in BrainConfig /\ Meaning(text) \in BrainConfig
    BY <1>6, MeaningType
  <2>2. Meaning(text)["pending"] = Meaning(was)["pending"]
    BY <1>9, KeysAre
  <2> QED BY <1>7, <1>8, <2>1, <2>2, ValidIs
<1>13. Meaning(was).pending = Unset => text.pending = Unset
  <2>1. was # NoFile => Meaning(was).pending = IF was.pending = Unset THEN Unset ELSE was.pending
    BY <1>7, KeysAre, MeaningIs
  <2> QED BY <1>3, <1>5, <2>1, KeysAre
<1> QED BY <1>6, <1>11, <1>12, <1>13 DEF text, old

(* The environment goes over a configuration without making it invalid.    *)
LEMMA EffectiveIs ==
  ASSUME NEW cfg \in BrainConfig
  PROVE  /\ Effective(cfg) \in BrainConfig
         /\ Valid(cfg) => Valid(Effective(cfg))
         /\ Effective(cfg).pending = cfg.pending
<1>1. FromEnv \in BrainConfig /\ FromEnv["model"] \in AllowedModels
  <2>1. Env.model \in AllowedModels /\ Env.lock \in BOOLEAN
    BY EnvAssumption
  <2>2. AllowedModels \subseteq Models
    BY DEF Models
  <2> QED BY <2>1, <2>2, KeysAre DEF FromEnv, BrainConfig
<1>2. Effective(cfg) \in BrainConfig
  BY <1>1 DEF Effective, BrainConfig
<1>3. /\ Effective(cfg)["model"] \in {cfg["model"], FromEnv["model"]}
      /\ Effective(cfg)["tier"] = cfg["tier"] /\ Effective(cfg)["pending"] = cfg["pending"]
  BY DEF Effective, BrainConfig
<1> QED BY <1>1, <1>2, <1>3, ValidIs

-----------------------------------------------------------------------------
(* Every state is of its types, and writers are apart.                     *)

(* brain.toml is a text or absent, and so is what a process loads.         *)
LEMMA RawType ==
  ASSUME FileTypes
  PROVE  Raw \in Text \cup {NoFile} /\ Loaded \in BrainConfig
<1>1. name["file"] # NoFile => data[name["file"]] \in Content
  BY DEF FileTypes
<1>2. \A c \in Content : c.text \in Text
  BY DEF Content
<1>3. Raw \in Text \cup {NoFile}
  BY <1>1, <1>2 DEF Raw
<1> QED BY <1>3, MeaningType DEF Loaded

(* File::create opens a file that is not brain.toml.                       *)
LEMMA OpenedIsApart ==
  ASSUME FileTypes, SavesAreApart, NEW p \in Processes, writer[p].at = "create"
  PROVE  Opened("tmp") \in Inode /\ Opened("tmp") # name["file"]
<1> DEFINE taken == {name["file"], name["tmp"]} \cup {writer[q].open : q \in Processes}
<1>1. name["tmp"] \in Inode \cup {NoFile} /\ NoFile \notin Inode
  BY NamesAssumption DEF FileTypes
<1>2. CASE name["tmp"] # NoFile
  BY <1>1, <1>2 DEF Opened, SavesAreApart
<1>3. CASE name["tmp"] = NoFile
  <2>1. \A q \in Processes : writer[q].open = NoFile
    <3> SUFFICES ASSUME NEW q \in Processes, writer[q].open # NoFile PROVE FALSE
      OBVIOUS
    <3>1. writer[q].at \in {"write", "rename"}
      BY DEF SavesAreApart
    <3>2. writer[q].at \in Saving /\ writer[p].at \in Saving
      BY <3>1 DEF Saving
    <3>3. q = p
      BY <3>2 DEF SavesAreApart
    <3> QED BY <3>1, <3>3
  <2>2. taken \subseteq {name["file"], NoFile}
    BY <1>3, <2>1
  <2>3. \E i \in Inode : i # name["file"]
    <3> SUFFICES ASSUME Inode \subseteq {name["file"]} PROVE FALSE
      OBVIOUS
    <3>1. IsFiniteSet({name["file"]}) /\ Cardinality({name["file"]}) = 1
      BY FS_Singleton
    <3>2. Cardinality(Inode) \in Nat /\ Cardinality(Inode) <= 1
      BY <3>1, FS_Subset, FS_CardinalityType
    <3>3. Cardinality(Cli) \in Nat
      BY InodesSuffice, FS_CardinalityType
    <3> QED BY <3>2, <3>3, InodesSuffice
  <2>4. \E i \in Inode : i \notin taken
    BY <1>1, <2>2, <2>3
  <2>5. Opened("tmp") = CHOOSE i \in Inode : i \notin taken
    BY <1>3 DEF Opened
  <2> HIDE DEF taken
  <2>6. Opened("tmp") \in Inode /\ Opened("tmp") \notin taken
    BY <2>4, <2>5
  <2> QED BY <2>6 DEF taken
<1> QED BY <1>2, <1>3

(* What goes on record is an event.                                        *)
LEMMA NotesAreTyped ==
  ASSUME FileTypes, NEW what, NEW text \in Text \cup {NoFile}, NEW why \in Reasons,
         what \in {"found", "changed", "started", "taken", "persisted", "unsaved"},
         Note(what, text, why)
  PROVE  events' \in Seq(Event)
<1> DEFINE e == [what |-> what, text |-> text, why |-> why]
<1>1. e \in Event
  BY DEF Event
<1>2. events' = Append(events, e) /\ events \in Seq(Event)
  BY DEF Note, FileTypes
<1> HIDE DEF e
<1> QED BY <1>1, <1>2

(* A process in its next state *)
LEMMA WritersAreTyped ==
  ASSUME FileTypes, NEW p \in Processes, NEW w \in Writer,
         writer' = [writer EXCEPT ![p] = w],
         p = Daemon => w.cfg \in BrainConfig,
         p # Daemon => w.at \notin {"ready", "turn"}
  PROVE  /\ writer' \in [Processes -> Writer]
         /\ \A q \in Cli : writer'[q].at \notin {"ready", "turn"}
         /\ writer'[Daemon].cfg \in BrainConfig
         /\ writer'[p] = w /\ \A q \in Processes \ {p} : writer'[q] = writer[q]
<1>1. writer \in [Processes -> Writer] /\ Cli \subseteq Processes /\ Daemon \in Processes
  BY DEF FileTypes, Processes
<1>2. writer'[p] = w /\ \A q \in Processes \ {p} : writer'[q] = writer[q]
  BY <1>1
<1>3. writer' \in [Processes -> Writer]
  BY <1>1
<1>4. \A q \in Cli : q # Daemon
  BY NamesAssumption
<1> QED BY <1>1, <1>2, <1>3, <1>4 DEF FileTypes

(* What every step needs of the types.                                     *)
LEMMA SmallFacts ==
  ASSUME FileTypes
  PROVE  /\ Daemon \in Processes /\ Cli \subseteq Processes /\ Daemon \notin Cli
         /\ \A p \in Processes : p \in Cli \/ p = Daemon
         /\ \A p \in Processes :
              /\ writer[p] \in Writer /\ writer[p].cfg \in Text
              /\ p = Daemon => writer[p].cfg \in BrainConfig
              /\ Rest(p) \in Writer /\ (p = Daemon => Rest(p).cfg \in BrainConfig)
              /\ Rest(p).open = NoFile /\ Rest(p).at \in {"idle", "ready"}
              /\ p # Daemon => Rest(p) = Idle
              /\ p = Daemon => Rest(p).cfg = writer[p].cfg /\ Rest(p).at = "ready"
         /\ Idle \in Writer /\ Idle.cfg \in BrainConfig
<1>1. /\ Daemon \in Processes /\ Cli \subseteq Processes /\ Daemon \notin Cli
      /\ \A p \in Processes : p \in Cli \/ p = Daemon
  BY NamesAssumption DEF Processes
<1>2. Idle \in Writer /\ Idle.cfg \in BrainConfig
  BY KeysAre DEF Idle, Writer, Reasons
<1>3. ASSUME NEW p \in Processes
      PROVE  /\ writer[p] \in Writer /\ writer[p].cfg \in Text
             /\ p = Daemon => writer[p].cfg \in BrainConfig
             /\ Rest(p) \in Writer /\ (p = Daemon => Rest(p).cfg \in BrainConfig)
             /\ Rest(p).open = NoFile /\ Rest(p).at \in {"idle", "ready"}
             /\ p # Daemon => Rest(p) = Idle
             /\ p = Daemon => Rest(p).cfg = writer[p].cfg /\ Rest(p).at = "ready"
  <2>1. writer[p] \in Writer
    BY DEF FileTypes
  <2>2. writer[p].cfg \in Text /\ (p = Daemon => writer[p].cfg \in BrainConfig)
    BY <2>1 DEF Writer, FileTypes
  <2>3. CASE p = Daemon
    <3>1. Rest(p) = [writer[p] EXCEPT !.at = "ready", !.open = NoFile]
      BY <2>3 DEF Rest
    <3> QED BY <2>1, <2>2, <2>3, <3>1 DEF Writer
  <2>4. CASE p # Daemon
    <3>1. Rest(p) = Idle /\ Idle.open = NoFile /\ Idle.at = "idle"
      BY <2>4 DEF Rest, Idle
    <3> QED BY <1>2, <2>1, <2>2, <2>4, <3>1
  <2> QED BY <2>1, <2>2, <2>3, <2>4
<1> QED BY <1>1, <1>2, <1>3

(* Every state of the file and its writers is well-typed.                  *)
LEMMA FileTypesStep ==
  ASSUME FileTypes, SavesAreApart, [FileNext]_fileVars
  PROVE  FileTypes'
<1> USE SmallFacts
<1>1. ASSUME NEW p \in Cli, NEW command \in Commands, Run(p, command) PROVE FileTypes'
  <2> DEFINE w == [writer[p] EXCEPT !.at = "create", !.why = command,
                                    !.cfg = Edited(Loaded, command)]
  <2>1. command \in AllSettings /\ Edited(Loaded, command) \in Text
    BY <1>1, CommandsAssumption, RawType, SettingsAre, KeysAre
  <2>2. w \in Writer /\ w.at = "create"
    BY <2>1 DEF Writer, Reasons, Saving
  <2>3. writer' = [writer EXCEPT ![p] = w] /\ UNCHANGED <<name, data, events>>
    BY <1>1 DEF Run
  <2> HIDE DEF w
  <2> QED BY <2>2, <2>3, WritersAreTyped DEF FileTypes
<1>2. ASSUME NEW p \in Cli, RunProfile(p) PROVE FileTypes'
  <2> DEFINE text == Edited(IF Raw = NoFile THEN Blank ELSE Raw, ApplyProfile)
             w == [writer[p] EXCEPT !.at = "create", !.why = ApplyProfile, !.cfg = text]
  <2>1. text \in Text
    BY RawType, ProfileChanges
  <2> HIDE DEF text
  <2>2. w \in Writer /\ w.at = "create"
    BY <2>1 DEF Writer, Reasons, Saving
  <2>3. writer' = [writer EXCEPT ![p] = w] /\ UNCHANGED <<name, data, events>>
    BY <1>2 DEF RunProfile, text
  <2> HIDE DEF w
  <2> QED BY <2>2, <2>3, WritersAreTyped DEF FileTypes
<1>3. ASSUME NEW p \in Processes, Create(p) PROVE FileTypes'
  <2> DEFINE i == Opened("tmp")
             w == [writer[p] EXCEPT !.at = "write", !.open = i]
  <2>1. i \in Inode
    BY <1>3, OpenedIsApart DEF Create
  <2>2. Empty \in Content
    BY DEF Empty, Content, Blank, Text, Keys, Default
  <2>3. /\ name' = [name EXCEPT !["tmp"] = i] /\ data' = [data EXCEPT ![i] = Empty]
        /\ writer' = [writer EXCEPT ![p] = w] /\ UNCHANGED events
    BY <1>3 DEF Create
  <2> HIDE DEF i
  <2>4. w \in Writer /\ w.at = "write" /\ w.cfg = writer[p].cfg
    BY <2>1 DEF Writer, Saving
  <2> HIDE DEF w
  <2> QED BY <2>1, <2>2, <2>3, <2>4, WritersAreTyped DEF FileTypes
<1>4. ASSUME NEW p \in Processes, Write(p) PROVE FileTypes'
  <2> DEFINE w == [writer[p] EXCEPT !.at = "rename"]
  <2>1. w \in Writer /\ w.at = "rename" /\ w.cfg = writer[p].cfg
    BY DEF Writer, Saving
  <2>2. Whole(writer[p].cfg) \in Content
    BY DEF Whole, Content
  <2>3. /\ data' = [data EXCEPT ![writer[p].open] = Whole(writer[p].cfg)]
        /\ writer' = [writer EXCEPT ![p] = w] /\ UNCHANGED <<name, events>>
    BY <1>4 DEF Write
  <2>4. data' \in [Inode -> Content]
    BY <2>2, <2>3 DEF FileTypes
  <2> HIDE DEF w
  <2> QED BY <2>1, <2>3, <2>4, WritersAreTyped DEF FileTypes
<1>5. ASSUME NEW p \in Processes, CutOff(p) PROVE data' \in [Inode -> Content]
  <2>1. Torn(writer[p].cfg) \in Content
    BY DEF Torn, Content
  <2> QED BY <1>5, <2>1 DEF CutOff, FileTypes
<1>6. ASSUME NEW p \in Processes, Rename(p) PROVE FileTypes'
  <2>1. name["tmp"] \in Inode
    BY <1>6 DEF Rename, FileTypes
  <2>2. data[name["tmp"]].text \in Text
    BY <2>1 DEF FileTypes, Content
  <2>3. writer[p].why \in Reasons
    BY DEF Writer
  <2>4. events' \in Seq(Event)
    BY <1>6, <2>2, <2>3, NotesAreTyped DEF Rename
  <2>5. name' \in [{"file", "tmp"} -> Inode \cup {NoFile}]
    BY <1>6, <2>1 DEF Rename, FileTypes
  <2>6. writer' = [writer EXCEPT ![p] = Rest(p)] /\ UNCHANGED data
    BY <1>6 DEF Rename
  <2>7. Rest(p) \in Writer /\ (p # Daemon => Rest(p).at \notin {"ready", "turn"})
    BY DEF Idle
  <2> QED BY <2>4, <2>5, <2>6, <2>7, WritersAreTyped DEF FileTypes
<1>7. ASSUME NEW p \in Processes, SaveFails(p) PROVE FileTypes'
  <2>1. p \in Reasons
    BY DEF Reasons
  <2>2. events' \in Seq(Event)
    BY <1>7, <2>1, NotesAreTyped DEF SaveFails
  <2>3. writer' = [writer EXCEPT ![p] = Rest(p)] /\ UNCHANGED name /\ CutOff(p)
    BY <1>7 DEF SaveFails
  <2>4. Rest(p) \in Writer /\ (p # Daemon => Rest(p).at \notin {"ready", "turn"})
    BY DEF Idle
  <2> QED BY <1>5, <2>2, <2>3, <2>4, WritersAreTyped DEF FileTypes
<1>8. CASE Start
  <2> DEFINE w == [writer[Daemon] EXCEPT !.at = "ready", !.cfg = Effective(Loaded)]
  <2>1. Effective(Loaded) \in BrainConfig
    BY RawType, EffectiveIs
  <2>2. w \in Writer /\ w.cfg \in BrainConfig
    BY <2>1, KeysAre DEF Writer
  <2>3. writer' = [writer EXCEPT ![Daemon] = w] /\ UNCHANGED <<name, data>>
    BY <1>8 DEF Start
  <2>4. events' \in Seq(Event)
    BY <1>8, RawType, NotesAreTyped DEF Start, Reasons
  <2> HIDE DEF w
  <2> QED BY <2>2, <2>3, <2>4, WritersAreTyped DEF FileTypes
<1>9. CASE TakePending
  <2> DEFINE w == [writer[Daemon] EXCEPT !.at = "turn", !.cfg.pending = Unset]
  <2>1. w.cfg \in BrainConfig
    BY DEF BrainConfig, Writer
  <2>2. w \in Writer
    BY <2>1, KeysAre DEF Writer
  <2>3. writer' = [writer EXCEPT ![Daemon] = w] /\ UNCHANGED <<name, data>>
    BY <1>9 DEF TakePending
  <2>4. events' \in Seq(Event)
    BY <1>9, NotesAreTyped DEF TakePending, Reasons
  <2> HIDE DEF w
  <2> QED BY <2>1, <2>2, <2>3, <2>4, WritersAreTyped DEF FileTypes
<1>10. CASE TurnReturns
  <2> DEFINE w == [writer[Daemon] EXCEPT !.at = "create"]
  <2>1. w \in Writer /\ w.cfg \in BrainConfig
    BY DEF Writer, Saving
  <2>2. writer' = [writer EXCEPT ![Daemon] = w] /\ UNCHANGED <<name, data, events>>
    BY <1>10 DEF TurnReturns
  <2> HIDE DEF w
  <2> QED BY <2>1, <2>2, WritersAreTyped DEF FileTypes
<1>11. CASE TurnFails
  <2> DEFINE w == [writer[Daemon] EXCEPT !.at = "ready"]
  <2>1. w \in Writer /\ w.cfg \in BrainConfig
    BY DEF Writer, Saving
  <2>2. writer' = [writer EXCEPT ![Daemon] = w] /\ UNCHANGED <<name, data>>
    BY <1>11 DEF TurnFails
  <2>3. Daemon \in Reasons
    BY DEF Reasons
  <2>4. events' \in Seq(Event)
    BY <1>11, <2>3, NotesAreTyped DEF TurnFails
  <2> HIDE DEF w
  <2> QED BY <2>1, <2>2, <2>4, WritersAreTyped DEF FileTypes
<1>12. CASE Stop
  <2>1. Daemon \in Reasons
    BY DEF Reasons
  <2>2. events' \in Seq(Event)
    BY <1>12, <2>1, NotesAreTyped DEF Stop, FileTypes
  <2>3. writer' = [writer EXCEPT ![Daemon] = Idle] /\ UNCHANGED name /\ CutOff(Daemon)
    BY <1>12 DEF Stop
  <2> QED BY <1>5, <2>2, <2>3, WritersAreTyped DEF FileTypes
<1>13. CASE UNCHANGED fileVars
  BY <1>13 DEF fileVars, FileTypes
<1> QED BY <1>1, <1>2, <1>3, <1>4, <1>6, <1>7, <1>8, <1>9, <1>10, <1>11, <1>12, <1>13
        DEF FileNext

(* A process that stops saving leaves the others as they are.              *)
LEMMA LeavingIsApart ==
  ASSUME FileTypes, SavesAreApart, NEW p \in Processes, NEW w \in Writer,
         writer' = [writer EXCEPT ![p] = w], w.at \notin Saving, w.open = NoFile,
         writer[p].at \in Saving \/ data' = data,
         \/ UNCHANGED name
         \/ /\ writer[p].at \in Saving /\ name'["tmp"] = NoFile
            /\ name'["file"] \in Inode
  PROVE  SavesAreApart'
<1>1. writer'[p] = w /\ \A q \in Processes \ {p} : writer'[q] = writer[q]
  BY DEF FileTypes
<1>2. \A q \in Processes : writer'[q].at \in Saving => q # p /\ writer[q].at \in Saving
  BY <1>1
<1>3. \A q \in Processes : writer'[q].at \in {"write", "rename"} => writer'[q].at \in Saving
  BY DEF Saving
<1>4. CASE writer[p].at \in Saving
  <2>1. \A q \in Processes : writer'[q].at \notin Saving
    BY <1>2, <1>4 DEF SavesAreApart
  <2>2. \A q \in Processes : writer'[q].open = NoFile
    <3> SUFFICES ASSUME NEW q \in Processes \ {p} PROVE writer[q].open = NoFile
      BY <1>1
    <3>1. writer[q].at \notin {"write", "rename"}
      BY <1>1, <1>3, <2>1
    <3> QED BY <3>1 DEF SavesAreApart
  <2>3. name'["file"] # NoFile => name'["file"] # name'["tmp"]
    BY NamesAssumption DEF SavesAreApart
  <2> QED BY <1>3, <2>1, <2>2, <2>3 DEF SavesAreApart
<1>5. CASE writer[p].at \notin Saving
  <2>1. UNCHANGED <<name, data>>
    BY <1>5
  <2>2. \A q \in Processes : writer'[q].at \notin {"write", "rename"} => writer'[q].open = NoFile
    BY <1>1 DEF SavesAreApart
  <2>3. ASSUME NEW q \in Processes, writer'[q].at \in {"write", "rename"} PROVE writer'[q] = writer[q]
    BY <1>1, <1>2, <1>3, <2>3
  <2> QED BY <1>2, <2>1, <2>2, <2>3 DEF SavesAreApart
<1> QED BY <1>4, <1>5

(* A process that starts to save, or goes on with something else.          *)
LEMMA EnteringIsApart ==
  ASSUME FileTypes, SavesAreApart, NEW p \in Processes, NEW w \in Writer,
         writer' = [writer EXCEPT ![p] = w], UNCHANGED <<name, data>>,
         writer[p].at \notin Saving, w.at \notin {"write", "rename"},
         w.open = writer[p].open, w.at \in Saving => Alone(p)
  PROVE  SavesAreApart'
<1>1. writer'[p] = w /\ \A q \in Processes \ {p} : writer'[q] = writer[q]
  BY DEF FileTypes
<1>2. writer[p].open = NoFile
  BY DEF SavesAreApart, Saving
<1>3. \A a, b \in Processes : writer'[a].at \in Saving /\ writer'[b].at \in Saving => a = b
  BY <1>1 DEF SavesAreApart, Alone
<1>4. \A q \in Processes : writer'[q].at \notin {"write", "rename"} => writer'[q].open = NoFile
  BY <1>1, <1>2 DEF SavesAreApart
<1>5. \A q \in Processes : writer'[q].at \in {"write", "rename"} => writer'[q] = writer[q]
  BY <1>1
<1> QED BY <1>3, <1>4, <1>5 DEF SavesAreApart

(* Saves keep apart: one process is at it, in a file that is its own until *)
(* the rename.                                                             *)
LEMMA SavesAreApartStep ==
  ASSUME FileTypes, SavesAreApart, [FileNext]_fileVars
  PROVE  SavesAreApart'
<1> USE SmallFacts
<1>1. ASSUME NEW p \in Cli, NEW command \in Commands, Run(p, command) PROVE SavesAreApart'
  <2> DEFINE w == [writer[p] EXCEPT !.at = "create", !.why = command,
                                    !.cfg = Edited(Loaded, command)]
  <2>1. command \in AllSettings /\ Edited(Loaded, command) \in Text
    BY <1>1, CommandsAssumption, RawType, SettingsAre, KeysAre
  <2>2. w \in Writer /\ w.at = "create" /\ w.open = writer[p].open
    BY <2>1 DEF Writer, Reasons, Saving
  <2>3. /\ writer' = [writer EXCEPT ![p] = w] /\ UNCHANGED <<name, data>>
        /\ writer[p].at = "idle" /\ Alone(p)
    BY <1>1 DEF Run
  <2> HIDE DEF w
  <2> QED BY <2>2, <2>3, EnteringIsApart DEF Saving
<1>2. ASSUME NEW p \in Cli, RunProfile(p) PROVE SavesAreApart'
  <2> DEFINE text == Edited(IF Raw = NoFile THEN Blank ELSE Raw, ApplyProfile)
             w == [writer[p] EXCEPT !.at = "create", !.why = ApplyProfile, !.cfg = text]
  <2>1. text \in Text
    BY RawType, ProfileChanges
  <2> HIDE DEF text
  <2>2. w \in Writer /\ w.at = "create" /\ w.open = writer[p].open
    BY <2>1 DEF Writer, Reasons, Saving
  <2>3. /\ writer' = [writer EXCEPT ![p] = w] /\ UNCHANGED <<name, data>>
        /\ writer[p].at = "idle" /\ Alone(p)
    BY <1>2 DEF RunProfile, text
  <2> HIDE DEF w
  <2> QED BY <2>2, <2>3, EnteringIsApart DEF Saving
<1>3. ASSUME NEW p \in Processes, writer[p].at \in Saving, NEW w \in Writer,
             writer' = [writer EXCEPT ![p] = w]
      PROVE  /\ writer'[p] = w
             /\ \A q \in Processes \ {p} : /\ writer'[q].at \notin Saving
                                           /\ writer'[q].at \notin {"write", "rename"}
                                           /\ writer'[q].open = NoFile
  <2>1. writer'[p] = w /\ \A q \in Processes \ {p} : writer'[q] = writer[q]
    BY <1>3 DEF FileTypes
  <2>2. \A q \in Processes \ {p} : writer[q].at \notin Saving
    BY <1>3 DEF SavesAreApart
  <2>3. \A q \in Processes \ {p} : writer[q].at \notin {"write", "rename"}
    BY <2>2 DEF Saving
  <2> QED BY <2>1, <2>2, <2>3 DEF SavesAreApart
<1>4. ASSUME NEW p \in Processes, Create(p) PROVE SavesAreApart'
  <2> DEFINE i == Opened("tmp")
             w == [writer[p] EXCEPT !.at = "write", !.open = i]
  <2>1. i \in Inode /\ i # name["file"] /\ writer[p].at \in Saving
    BY <1>4, OpenedIsApart DEF Create, Saving
  <2>2. name' = [name EXCEPT !["tmp"] = i] /\ writer' = [writer EXCEPT ![p] = w]
    BY <1>4 DEF Create
  <2> HIDE DEF i
  <2>3. name'["tmp"] = i /\ name'["file"] = name["file"]
    BY <2>2 DEF FileTypes
  <2>4. w \in Writer /\ w.at = "write" /\ w.open = i
    BY <2>1 DEF Writer, Saving
  <2> HIDE DEF w
  <2>5. /\ writer'[p].at = "write" /\ writer'[p].open = name'["tmp"]
        /\ name'["tmp"] \in Inode /\ name'["file"] # name'["tmp"]
        /\ \A q \in Processes \ {p} : /\ writer'[q].at \notin Saving
                                      /\ writer'[q].at \notin {"write", "rename"}
                                      /\ writer'[q].open = NoFile
    BY <1>3, <2>1, <2>2, <2>3, <2>4
  <2> QED BY <2>5 DEF SavesAreApart
<1>5. ASSUME NEW p \in Processes, Write(p) PROVE SavesAreApart'
  <2> DEFINE w == [writer[p] EXCEPT !.at = "rename"]
  <2>1. w \in Writer /\ w.at = "rename" /\ w.cfg = writer[p].cfg /\ w.open = writer[p].open
    BY DEF Writer, Saving
  <2>2. /\ data' = [data EXCEPT ![writer[p].open] = Whole(writer[p].cfg)]
        /\ writer' = [writer EXCEPT ![p] = w] /\ UNCHANGED name
        /\ writer[p].at = "write" /\ writer[p].at \in Saving
    BY <1>5 DEF Write, Saving
  <2>3. writer[p].open = name["tmp"] /\ name["tmp"] \in Inode
    BY <2>2 DEF SavesAreApart
  <2>4. data'[name["tmp"]] = Whole(writer[p].cfg)
    BY <2>2, <2>3 DEF FileTypes
  <2> HIDE DEF w
  <2> QED BY <1>3, <2>1, <2>2, <2>3, <2>4, Zenon DEF SavesAreApart
<1>6. ASSUME NEW p \in Processes, Rename(p) PROVE SavesAreApart'
  <2>1. /\ writer' = [writer EXCEPT ![p] = Rest(p)] /\ writer[p].at \in Saving
        /\ name' = [name EXCEPT !["file"] = name["tmp"], !["tmp"] = NoFile]
    BY <1>6 DEF Rename, Saving
  <2>2. name["tmp"] \in Inode
    BY <1>6 DEF Rename, FileTypes
  <2>3. name'["tmp"] = NoFile /\ name'["file"] \in Inode
    BY <2>1, <2>2 DEF FileTypes
  <2>4. Rest(p) \in Writer /\ Rest(p).at \notin Saving /\ Rest(p).open = NoFile
    BY DEF Saving
  <2> QED BY <2>1, <2>3, <2>4, LeavingIsApart
<1>7. ASSUME NEW p \in Processes, SaveFails(p) PROVE SavesAreApart'
  <2>1. writer' = [writer EXCEPT ![p] = Rest(p)] /\ writer[p].at \in Saving /\ UNCHANGED name
    BY <1>7 DEF SaveFails
  <2>2. Rest(p) \in Writer /\ Rest(p).at \notin Saving /\ Rest(p).open = NoFile
    BY DEF Saving
  <2> QED BY <2>1, <2>2, LeavingIsApart
<1>8. CASE Start
  <2> DEFINE w == [writer[Daemon] EXCEPT !.at = "ready", !.cfg = Effective(Loaded)]
  <2>1. Effective(Loaded) \in Text
    BY RawType, EffectiveIs, KeysAre
  <2>2. w \in Writer /\ w.at = "ready" /\ w.open = writer[Daemon].open
    BY <2>1 DEF Writer
  <2>3. /\ writer' = [writer EXCEPT ![Daemon] = w] /\ UNCHANGED <<name, data>>
        /\ writer[Daemon].at = "idle"
    BY <1>8 DEF Start
  <2> HIDE DEF w
  <2> QED BY <2>2, <2>3, EnteringIsApart DEF Saving
<1>9. CASE TakePending
  <2> DEFINE w == [writer[Daemon] EXCEPT !.at = "turn", !.cfg.pending = Unset]
  <2>1. w.cfg \in BrainConfig
    BY DEF BrainConfig, Writer
  <2>2. w \in Writer /\ w.at = "turn" /\ w.open = writer[Daemon].open
    BY <2>1, KeysAre DEF Writer
  <2>3. /\ writer' = [writer EXCEPT ![Daemon] = w] /\ UNCHANGED <<name, data>>
        /\ writer[Daemon].at = "ready"
    BY <1>9 DEF TakePending
  <2> HIDE DEF w
  <2> QED BY <2>2, <2>3, EnteringIsApart DEF Saving
<1>10. CASE TurnReturns
  <2> DEFINE w == [writer[Daemon] EXCEPT !.at = "create"]
  <2>1. w \in Writer /\ w.at = "create" /\ w.open = writer[Daemon].open
    BY DEF Writer, Saving
  <2>2. /\ writer' = [writer EXCEPT ![Daemon] = w] /\ UNCHANGED <<name, data>>
        /\ writer[Daemon].at = "turn" /\ Alone(Daemon)
    BY <1>10 DEF TurnReturns
  <2> HIDE DEF w
  <2> QED BY <2>1, <2>2, EnteringIsApart DEF Saving
<1>11. CASE TurnFails
  <2> DEFINE w == [writer[Daemon] EXCEPT !.at = "ready"]
  <2>1. w \in Writer /\ w.at = "ready" /\ w.open = writer[Daemon].open
    BY DEF Writer, Saving
  <2>2. /\ writer' = [writer EXCEPT ![Daemon] = w] /\ UNCHANGED <<name, data>>
        /\ writer[Daemon].at = "turn"
    BY <1>11 DEF TurnFails
  <2> HIDE DEF w
  <2> QED BY <2>1, <2>2, EnteringIsApart DEF Saving
<1>12. CASE Stop
  <2>1. writer' = [writer EXCEPT ![Daemon] = Idle] /\ UNCHANGED name /\ CutOff(Daemon)
    BY <1>12 DEF Stop
  <2>2. writer[Daemon].at \in Saving \/ data' = data
    BY <2>1 DEF CutOff, Saving
  <2>3. Idle.at \notin Saving /\ Idle.open = NoFile
    BY DEF Idle, Saving
  <2> QED BY <2>1, <2>2, <2>3, LeavingIsApart
<1>13. CASE UNCHANGED fileVars
  BY <1>13 DEF fileVars, SavesAreApart
<1> QED BY <1>1, <1>2, <1>4, <1>5, <1>6, <1>7, <1>8, <1>9, <1>10, <1>11, <1>12, <1>13
        DEF FileNext

-----------------------------------------------------------------------------
(* The file is the last save on record.                                    *)

(* Of what was last saved there is one answer.                             *)
LEMMA LastIs ==
  ASSUME FileTypes, NEW k, NEW i, IsLast(i, k)
  PROVE  FileAfter(k) = events[i].text
<1>1. Saves \subseteq Nat
  BY DEF Saves, FileTypes
<1>2. \A j \in Saves : (j <= k /\ \A l \in Saves : l <= k => l <= j) => j = i
  BY <1>1 DEF IsLast
<1>3. i \in Saves /\ i <= k /\ \A l \in Saves : l <= k => l <= i
  BY DEF IsLast
<1>4. (CHOOSE j \in Saves : j <= k /\ \A l \in Saves : l <= k => l <= j) = i
  BY <1>2, <1>3
<1> QED BY <1>4 DEF FileAfter

(* What is noted leaves the record of the past alone.                      *)
LEMMA NotedIs ==
  ASSUME FileTypes, FileTypes', SavesAreOnRecord,
         NEW what, NEW text, NEW why, Note(what, text, why)
  PROVE  /\ Len(events) \in Nat /\ Len(events) >= 1 /\ Len(events') = Len(events) + 1
         /\ DOMAIN events = 1..Len(events) /\ DOMAIN events' = 1..Len(events) + 1
         /\ events' # <<>> /\ events'[1] = events[1]
         /\ events'[Len(events) + 1] = [what |-> what, text |-> text, why |-> why]
         /\ \A k \in DOMAIN events : events'[k] = events[k] /\ FileAfter(k)' = FileAfter(k)
         /\ Saves' = Saves \cup (IF what \in {"found", "changed", "persisted"}
                                 THEN {Len(events) + 1} ELSE {})
         /\ \A k \in DOMAIN events' : \E i \in Saves' : IsLast(i, k)'
         /\ FileAfter(Len(events))' = IF what \in {"found", "changed", "persisted"}
                                       THEN text ELSE FileAfter(Len(events))
<1> DEFINE e == [what |-> what, text |-> text, why |-> why]
<1>1. events' = Append(events, e) /\ events \in Seq(Event) /\ events # <<>>
  BY DEF Note, FileTypes, SavesAreOnRecord
<1>2. e.what = what /\ e.text = text
  OBVIOUS
<1> HIDE DEF e
<1>3. /\ Len(events) \in Nat /\ Len(events) >= 1 /\ Len(events') = Len(events) + 1
      /\ DOMAIN events = 1..Len(events) /\ DOMAIN events' = 1..Len(events) + 1
      /\ events'[Len(events) + 1] = e /\ \A k \in DOMAIN events : events'[k] = events[k]
  <2>1. Len(events) # 0
    BY <1>1, EmptySeq
  <2>2. /\ Len(events) \in Nat /\ Len(events') = Len(events) + 1
        /\ DOMAIN events = 1..Len(events) /\ DOMAIN events' = 1..Len(events) + 1
        /\ events'[Len(events) + 1] = e /\ \A k \in 1..Len(events) : events'[k] = events[k]
    BY <1>1
  <2> QED BY <2>1, <2>2
<1>4. PICK n \in Nat : n = Len(events)
  BY <1>3
<1>5. Saves' = Saves \cup (IF what \in {"found", "changed", "persisted"} THEN {n + 1} ELSE {})
  <2>1. \A k \in 1..n : k \in Saves' <=> k \in Saves
    BY <1>3, <1>4 DEF Saves
  <2>2. n + 1 \in Saves' <=> what \in {"found", "changed", "persisted"}
    BY <1>2, <1>3, <1>4 DEF Saves
  <2>3. Saves \subseteq 1..n /\ Saves' \subseteq 1..n + 1
    BY <1>3, <1>4 DEF Saves
  <2>4. \A k \in 1..n + 1 : k \in 1..n \/ k = n + 1
    BY <1>4
  <2> QED BY <2>1, <2>2, <2>3, <2>4
<1>6. Saves \subseteq 1..n
  BY <1>3, <1>4 DEF Saves
<1>7. events' # <<>> /\ events'[1] = events[1]
  BY <1>3
<1>8. ASSUME NEW k, NEW i, IsLast(i, k)' PROVE FileAfter(k)' = events'[i].text
  <2>1. Saves' \subseteq Nat
    <3>1. \A j \in Saves' : j \in Saves \/ j = n + 1
      BY <1>5
    <3>2. Saves \subseteq Nat /\ n + 1 \in Nat
      BY <1>4, <1>6
    <3> QED BY <3>1, <3>2
  <2>2. \A j \in Saves' : (j <= k /\ \A l \in Saves' : l <= k => l <= j) => j = i
    BY <1>8, <2>1 DEF IsLast
  <2>3. i \in Saves' /\ i <= k /\ \A l \in Saves' : l <= k => l <= i
    BY <1>8 DEF IsLast
  <2>4. (CHOOSE j \in Saves' : j <= k /\ \A l \in Saves' : l <= k => l <= j) = i
    BY <2>2, <2>3
  <2> QED BY <2>4 DEF FileAfter
<1>9. ASSUME NEW k \in 1..n, NEW i, IsLast(i, k) PROVE IsLast(i, k)'
  <2>1. i \in Saves' /\ i <= k
    BY <1>5, <1>9 DEF IsLast
  <2>2. \A j \in Saves' : j <= k => j <= i
    <3> SUFFICES ASSUME NEW j \in Saves', j <= k PROVE j <= i
      OBVIOUS
    <3>1. j # n + 1
      BY <1>4
    <3> QED BY <1>5, <1>9, <3>1 DEF IsLast
  <2> QED BY <2>1, <2>2 DEF IsLast
<1>10. ASSUME NEW k \in DOMAIN events PROVE FileAfter(k)' = FileAfter(k)
  <2>1. PICK i \in Saves : IsLast(i, k)
    BY DEF SavesAreOnRecord
  <2>2. IsLast(i, k)'
    BY <1>3, <1>4, <1>9, <2>1
  <2>3. FileAfter(k)' = events'[i].text
    BY <1>8, <2>2
  <2>4. events'[i] = events[i]
    BY <1>3, <1>4, <1>6, <2>1
  <2> QED BY <2>1, <2>3, <2>4, LastIs
<1>11. CASE what \in {"found", "changed", "persisted"}
  <2>1. IsLast(n + 1, n + 1)'
    BY <1>4, <1>5, <1>6, <1>11 DEF IsLast
  <2>2. FileAfter(n + 1)' = e.text
    BY <1>3, <1>4, <1>8, <2>1
  <2>3. \A k \in 1..n + 1 : \E i \in Saves' : IsLast(i, k)'
    <3> SUFFICES ASSUME NEW k \in 1..n PROVE \E i \in Saves' : IsLast(i, k)'
      BY <1>4, <2>1 DEF IsLast
    <3>1. PICK i \in Saves : IsLast(i, k)
      BY <1>3, <1>4 DEF SavesAreOnRecord
    <3> QED BY <1>5, <1>9, <3>1
  <2>4. FileAfter(Len(events))' = text
    BY <1>2, <1>3, <1>4, <2>2
  <2> QED BY <1>3, <1>4, <1>5, <1>10, <1>11, <1>7, <2>3, <2>4 DEF e
<1>12. CASE what \notin {"found", "changed", "persisted"}
  <2>1. PICK i \in Saves : IsLast(i, n)
    BY <1>3, <1>4 DEF SavesAreOnRecord
  <2>2. IsLast(i, n + 1)'
    BY <1>4, <1>5, <1>6, <1>12, <2>1 DEF IsLast
  <2>3. FileAfter(n + 1)' = FileAfter(n)
    <3>1. FileAfter(n + 1)' = events'[i].text /\ FileAfter(n) = events[i].text
      BY <1>8, <2>1, <2>2, LastIs
    <3>2. events'[i] = events[i]
      BY <1>3, <1>4, <1>6, <2>1
    <3> QED BY <3>1, <3>2
  <2>4. \A k \in 1..n + 1 : \E j \in Saves' : IsLast(j, k)'
    <3> SUFFICES ASSUME NEW k \in 1..n PROVE \E j \in Saves' : IsLast(j, k)'
      BY <1>4, <2>2 DEF IsLast
    <3>1. PICK j \in Saves : IsLast(j, k)
      BY <1>3, <1>4 DEF SavesAreOnRecord
    <3> QED BY <1>5, <1>9, <3>1
  <2>5. FileAfter(Len(events))' = FileAfter(Len(events))
    BY <1>3, <1>4, <2>3
  <2> QED BY <1>3, <1>4, <1>5, <1>10, <1>12, <1>7, <2>4, <2>5 DEF e
<1> QED BY <1>11, <1>12

(* A write or a failure in the middle of it does not touch brain.toml.     *)
LEMMA FileStays ==
  ASSUME FileTypes, SavesAreApart, UNCHANGED name,
         \/ UNCHANGED data
         \/ \E p \in Processes : CutOff(p)
         \/ \E p \in Processes : Write(p)
  PROVE  Raw' = Raw /\ (Parses' <=> Parses)
<1>1. ASSUME NEW i \in Inode, i = name["file"] PROVE data'[i] = data[i]
  <2>1. ASSUME NEW p \in Processes, writer[p].at \in {"write", "rename"} PROVE writer[p].open # i
    BY <1>1, <2>1, NamesAssumption DEF SavesAreApart
  <2>2. \A p \in Processes : \A c : writer[p].open # i =>
          [data EXCEPT ![writer[p].open] = c][i] = data[i]
    BY DEF FileTypes
  <2>3. ASSUME NEW p \in Processes, CutOff(p) PROVE data'[i] = data[i]
    BY <2>1, <2>2, <2>3 DEF CutOff
  <2>4. ASSUME NEW p \in Processes, Write(p) PROVE data'[i] = data[i]
    BY <2>1, <2>2, <2>4 DEF Write
  <2> QED BY <2>3, <2>4
<1>2. name["file"] # NoFile => name["file"] \in Inode
  BY DEF FileTypes
<1> QED BY <1>1, <1>2 DEF Raw, Parses

(* Creating the temporary file leaves brain.toml alone.                    *)
LEMMA CreateStays ==
  ASSUME FileTypes, SavesAreApart, NEW p \in Processes, Create(p)
  PROVE  Raw' = Raw /\ (Parses' <=> Parses)
<1>1. Opened("tmp") \in Inode /\ Opened("tmp") # name["file"]
  BY OpenedIsApart DEF Create
<1>2. name'["file"] = name["file"]
  BY DEF Create, FileTypes
<1>3. name["file"] # NoFile => data'[name["file"]] = data[name["file"]]
  BY <1>1 DEF Create, FileTypes
<1> QED BY <1>2, <1>3 DEF Raw, Parses

(* What a process renames into place is what it had in hand.               *)
LEMMA RenameIs ==
  ASSUME FileTypes, SavesAreApart, NEW p \in Processes, Rename(p)
  PROVE  /\ Raw' = writer[p].cfg /\ Parses'
         /\ Note(IF p = Daemon THEN "persisted" ELSE "changed", writer[p].cfg, writer[p].why)
         /\ writer' = [writer EXCEPT ![p] = Rest(p)]
<1>1. name["tmp"] \in Inode /\ data[name["tmp"]] = Whole(writer[p].cfg)
  BY DEF Rename, SavesAreApart
<1>2. name'["file"] = name["tmp"] /\ data' = data
  BY DEF Rename, FileTypes
<1>3. Whole(writer[p].cfg).text = writer[p].cfg /\ Whole(writer[p].cfg).is = "whole"
  BY DEF Whole
<1> QED BY <1>1, <1>2, <1>3, NamesAssumption DEF Raw, Parses, Rename

(* However a save is cut off, the file is the last one that was saved.     *)
LEMMA OnRecordStep ==
  ASSUME FileTypes, FileTypes', SavesAreApart, SavesAreOnRecord, [FileNext]_fileVars
  PROVE  SavesAreOnRecord'
<1>1. ASSUME Raw' = Raw, Parses' <=> Parses,
             \/ UNCHANGED events
             \/ \E text, why : \/ Note("unsaved", text, why) \/ Note("started", text, why)
                               \/ Note("taken", text, why)
      PROVE  SavesAreOnRecord'
  <2>1. CASE UNCHANGED events
    BY <1>1, <2>1 DEF SavesAreOnRecord, IsLast, Saves, FileAfter
  <2>2. ASSUME NEW what \in {"unsaved", "started", "taken"}, NEW text, NEW why,
               Note(what, text, why)
        PROVE  SavesAreOnRecord'
    <3>1. what \notin {"found", "changed", "persisted"}
      OBVIOUS
    <3>2. events' # <<>> /\ events'[1].what = "found"
      BY <2>2, NotedIs DEF SavesAreOnRecord
    <3>3. \A k \in DOMAIN events' : \E i \in Saves' : IsLast(i, k)'
      BY <2>2, NotedIs
    <3>4. FileAfter(Len(events))' = FileAfter(Len(events))
      BY <2>2, <3>1, NotedIs
    <3> QED BY <1>1, <3>2, <3>3, <3>4 DEF SavesAreOnRecord
  <2> QED BY <1>1, <2>1, <2>2
<1>2. ASSUME NEW p \in Cli, NEW command \in Commands, Run(p, command) PROVE SavesAreOnRecord'
  BY <1>1, <1>2, FileStays DEF Run
<1>3. ASSUME NEW p \in Cli, RunProfile(p) PROVE SavesAreOnRecord'
  BY <1>1, <1>3, FileStays DEF RunProfile
<1>4. ASSUME NEW p \in Processes, Create(p) PROVE SavesAreOnRecord'
  BY <1>1, <1>4, CreateStays DEF Create
<1>5. ASSUME NEW p \in Processes, Write(p) PROVE SavesAreOnRecord'
  <2>1. UNCHANGED <<name, events>>
    BY <1>5 DEF Write
  <2> QED BY <1>1, <1>5, <2>1, FileStays
<1>6. ASSUME NEW p \in Processes, Rename(p) PROVE SavesAreOnRecord'
  <2>1. PICK what \in {"persisted", "changed"} : Note(what, writer[p].cfg, writer[p].why)
    BY <1>6, RenameIs
  <2>2. events' # <<>> /\ events'[1].what = "found"
    BY <2>1, NotedIs DEF SavesAreOnRecord
  <2>3. \A k \in DOMAIN events' : \E i \in Saves' : IsLast(i, k)'
    BY <2>1, NotedIs
  <2>4. FileAfter(Len(events))' = writer[p].cfg
    BY <2>1, NotedIs
  <2> QED BY <1>6, <2>2, <2>3, <2>4, RenameIs DEF SavesAreOnRecord
<1>7. ASSUME NEW p \in Processes, SaveFails(p) PROVE SavesAreOnRecord'
  <2>1. UNCHANGED name /\ CutOff(p) /\ Note("unsaved", writer[p].cfg, p)
    BY <1>7 DEF SaveFails
  <2> QED BY <1>1, <2>1, FileStays
<1>8. CASE Start
  <2>1. UNCHANGED <<name, data>> /\ Note("started", Raw, NoFile)
    BY <1>8 DEF Start
  <2> QED BY <1>1, <2>1, FileStays
<1>9. CASE TakePending
  <2>1. UNCHANGED <<name, data>> /\ Note("taken", writer[Daemon].cfg, NoFile)
    BY <1>9 DEF TakePending
  <2> QED BY <1>1, <2>1, FileStays
<1>10. CASE TurnReturns
  BY <1>1, <1>10, FileStays DEF TurnReturns
<1>11. CASE TurnFails
  <2>1. UNCHANGED <<name, data>> /\ Note("unsaved", writer[Daemon].cfg, Daemon)
    BY <1>11 DEF TurnFails
  <2> QED BY <1>1, <2>1, FileStays
<1>12. CASE Stop
  <2>1. /\ UNCHANGED name /\ CutOff(Daemon) /\ Daemon \in Processes
        /\ UNCHANGED events \/ Note("unsaved", writer[Daemon].cfg, Daemon)
    BY <1>12, SmallFacts DEF Stop
  <2> QED BY <1>1, <2>1, FileStays
<1>13. CASE UNCHANGED fileVars
  BY <1>1, <1>13, FileStays DEF fileVars
<1> QED BY <1>2, <1>3, <1>4, <1>5, <1>6, <1>7, <1>8, <1>9, <1>10, <1>11, <1>12, <1>13
        DEF FileNext

(* A command that starts: what it is about to save is a change of what the *)
(* file says now.                                                          *)
LEMMA CommandStarts ==
  ASSUME FileTypes, SavesAreApart, NEW p \in Cli,
         RunProfile(p) \/ \E command \in Commands : Run(p, command)
  PROVE  /\ Alone(p) /\ Raw' = Raw /\ UNCHANGED events
         /\ \E w \in Writer :
              /\ writer' = [writer EXCEPT ![p] = w] /\ w.at = "create"
              /\ w.why \in AllSettings \cup {ApplyProfile}
              /\ Changes(Raw, w.why, w.cfg)
              /\ Valid(Meaning(Raw)) => Valid(Meaning(w.cfg))
              /\ "pending" \notin DOMAIN w.why /\ Meaning(Raw).pending = Unset =>
                   w.cfg.pending = Unset
<1> USE SmallFacts
<1>1. CASE RunProfile(p)
  <2> DEFINE text == Edited(IF Raw = NoFile THEN Blank ELSE Raw, ApplyProfile)
             w == [writer[p] EXCEPT !.at = "create", !.why = ApplyProfile, !.cfg = text]
  <2>1. /\ text \in Text /\ Changes(Raw, ApplyProfile, text)
        /\ Valid(Meaning(Raw)) => Valid(Meaning(text))
        /\ Meaning(Raw).pending = Unset => text.pending = Unset
    BY RawType, ProfileChanges
  <2>2. /\ writer' = [writer EXCEPT ![p] = w] /\ UNCHANGED <<name, data, events>> /\ Alone(p)
    BY <1>1 DEF RunProfile
  <2> HIDE DEF text
  <2>3. w \in Writer /\ w.at = "create" /\ w.why = ApplyProfile /\ w.cfg = text
    BY <2>1 DEF Writer, Reasons, Saving
  <2> HIDE DEF w
  <2> QED BY <2>1, <2>2, <2>3, FileStays
<1>2. ASSUME NEW command \in Commands, Run(p, command)
      PROVE  /\ Alone(p) /\ Raw' = Raw /\ UNCHANGED events
             /\ \E w \in Writer :
                  /\ writer' = [writer EXCEPT ![p] = w] /\ w.at = "create"
                  /\ w.why \in AllSettings \cup {ApplyProfile}
                  /\ Changes(Raw, w.why, w.cfg)
                  /\ Valid(Meaning(Raw)) => Valid(Meaning(w.cfg))
                  /\ "pending" \notin DOMAIN w.why /\ Meaning(Raw).pending = Unset =>
                       w.cfg.pending = Unset
  <2> DEFINE text == Edited(Meaning(Raw), command)
             w == [writer[p] EXCEPT !.at = "create", !.why = command, !.cfg = text]
  <2>1. command \in AllSettings
    BY CommandsAssumption
  <2>2. /\ text \in Text /\ Changes(Raw, command, text)
        /\ Valid(Meaning(Raw)) => Valid(Meaning(text))
        /\ "pending" \notin DOMAIN command => text.pending = Meaning(Raw).pending
    BY <2>1, RawType, CommandChanges, KeysAre
  <2>3. /\ writer' = [writer EXCEPT ![p] = w] /\ UNCHANGED <<name, data, events>> /\ Alone(p)
    BY <1>2 DEF Run, Loaded
  <2> HIDE DEF text
  <2>4. w \in Writer /\ w.at = "create" /\ w.why = command /\ w.cfg = text
    BY <2>1, <2>2 DEF Writer, Reasons, Saving
  <2> HIDE DEF w
  <2> QED BY <2>1, <2>2, <2>3, <2>4, FileStays
<1> QED BY <1>1, <1>2

(* Between the start of a save and its end the process has the same text.  *)
LEMMA SaveGoesOn ==
  ASSUME FileTypes, SavesAreApart, NEW p \in Processes, Create(p) \/ Write(p)
  PROVE  /\ Raw' = Raw /\ UNCHANGED events /\ writer[p].at \in Saving
         /\ \E w \in Writer :
              /\ writer' = [writer EXCEPT ![p] = w] /\ w.at \in Saving
              /\ w.cfg = writer[p].cfg /\ w.why = writer[p].why
<1> USE SmallFacts
<1>1. CASE Create(p)
  <2> DEFINE i == Opened("tmp")
             w == [writer[p] EXCEPT !.at = "write", !.open = i]
  <2>1. i \in Inode
    BY <1>1, OpenedIsApart DEF Create
  <2>2. writer' = [writer EXCEPT ![p] = w] /\ UNCHANGED events /\ writer[p].at \in Saving
    BY <1>1 DEF Create, Saving
  <2> HIDE DEF i
  <2>3. w \in Writer /\ w.at \in Saving /\ w.cfg = writer[p].cfg /\ w.why = writer[p].why
    BY <2>1 DEF Writer, Saving
  <2> HIDE DEF w
  <2> QED BY <1>1, <2>2, <2>3, CreateStays
<1>2. CASE Write(p)
  <2> DEFINE w == [writer[p] EXCEPT !.at = "rename"]
  <2>1. /\ writer' = [writer EXCEPT ![p] = w] /\ UNCHANGED <<name, events>>
        /\ writer[p].at \in Saving
    BY <1>2 DEF Write, Saving
  <2>2. w \in Writer /\ w.at \in Saving /\ w.cfg = writer[p].cfg /\ w.why = writer[p].why
    BY DEF Writer, Saving
  <2> HIDE DEF w
  <2> QED BY <1>2, <2>1, <2>2, FileStays
<1> QED BY <1>1, <1>2

(* A failed save, and what the daemon does between two saves, leaves the   *)
(* file as it is.                                                          *)
LEMMA OthersLeaveTheFile ==
  ASSUME FileTypes, SavesAreApart,
         \/ \E p \in Processes : SaveFails(p)
         \/ Start \/ TakePending \/ TurnReturns \/ TurnFails \/ Stop
  PROVE  Raw' = Raw
<1>1. /\ UNCHANGED name
      /\ UNCHANGED data \/ \E p \in Processes : CutOff(p)
  BY SmallFacts DEF SaveFails, Start, TakePending, TurnReturns, TurnFails, Stop
<1> QED BY <1>1, FileStays

FileInv == FileTypes /\ SavesAreApart /\ SavesAreOnRecord

(* The first event, what the operator had, stays on record.                *)
LEMMA FirstStays ==
  ASSUME FileInv, FileTypes', [FileNext]_fileVars
  PROVE  FileAfter(1)' = FileAfter(1)
<1>1. CASE UNCHANGED events
  BY <1>1 DEF FileAfter, Saves
<1>2. CASE \E what, text, why : Note(what, text, why)
  <2>1. PICK what, text, why : Note(what, text, why)
    BY <1>2
  <2>2. DOMAIN events = 1..Len(events) /\ Len(events) \in Nat /\ Len(events) >= 1
    BY <2>1, NotedIs DEF FileInv
  <2>3. 1 \in DOMAIN events
    BY <2>2
  <2> QED BY <2>1, <2>3, NotedIs DEF FileInv
<1>3. UNCHANGED events \/ \E what, text, why : Note(what, text, why)
  <2>1. ASSUME NEW p \in Processes, Create(p) \/ Write(p) \/ Rename(p) \/ SaveFails(p)
        PROVE  UNCHANGED events \/ \E what, text, why : Note(what, text, why)
    BY <2>1 DEF Create, Write, Rename, SaveFails
  <2>2. ASSUME NEW p \in Cli, RunProfile(p) \/ \E command \in Commands : Run(p, command)
        PROVE  UNCHANGED events
    BY <2>2 DEF Run, RunProfile
  <2>3. ASSUME Start \/ TakePending \/ TurnReturns \/ TurnFails \/ Stop
        PROVE  UNCHANGED events \/ \E what, text, why : Note(what, text, why)
    BY <2>3 DEF Start, TakePending, TurnReturns, TurnFails, Stop
  <2> QED BY <2>1, <2>2, <2>3 DEF FileNext, fileVars
<1> QED BY <1>1, <1>2, <1>3

(* At first nobody saves, and the file found is on record.                 *)
LEMMA FileInitially ==
  ASSUME FileInit
  PROVE  /\ FileInv /\ writer = [p \in Processes |-> Idle]
         /\ Len(events) = 1 /\ events[1].what = "found" /\ FileAfter(1) = Raw
<1>1. PICK text \in Text \cup {NoFile} :
        /\ events = Found(text)
        /\ text = NoFile => name = [n \in {"file", "tmp"} |-> NoFile]
                            /\ data = [i \in Inode |-> Empty]
        /\ text # NoFile =>
             /\ name = [n \in {"file", "tmp"} |-> IF n = "file" THEN Oldest ELSE NoFile]
             /\ data = [i \in Inode |-> IF i = Oldest THEN Whole(text) ELSE Empty]
  <2>1. Firsts \subseteq Text
    BY FirstsAssumption
  <2> QED BY <2>1, NamesAssumption DEF FileInit
<1>2. Oldest \in Inode
  <2>1. \E i \in Inode : TRUE
    <3> SUFFICES ASSUME Inode = {} PROVE FALSE
      OBVIOUS
    <3>1. Cardinality(Inode) = 0
      BY FS_EmptySet
    <3>2. Cardinality(Cli) \in Nat
      BY InodesSuffice, FS_CardinalityType
    <3> QED BY <3>1, <3>2, InodesSuffice
  <2> QED BY <2>1 DEF Oldest
<1>3. Empty \in Content /\ \A t \in Text : Whole(t) \in Content
  BY KeysAre DEF Empty, Whole, Content, Blank, Text
<1>4. writer = [p \in Processes |-> Idle]
  BY DEF FileInit
<1>5. Idle \in Writer /\ Idle.cfg \in BrainConfig /\ Idle.at = "idle" /\ Idle.open = NoFile
  BY KeysAre DEF Idle, Writer, Reasons
<1>6. /\ name \in [{"file", "tmp"} -> Inode \cup {NoFile}] /\ data \in [Inode -> Content]
      /\ name["tmp"] = NoFile
  BY <1>1, <1>2, <1>3
<1>7. PICK e \in Event : events = <<e>> /\ e.what = "found" /\ e.text = text
  <2>1. [what |-> "found", text |-> text, why |-> NoFile] \in Event
    BY DEF Event, Reasons
  <2> QED BY <1>1, <2>1 DEF Found
<1>8. events \in Seq(Event) /\ Len(events) = 1 /\ events[1] = e /\ DOMAIN events = 1..1
  BY <1>7
<1>9. FileTypes
  <2>1. Daemon \in Processes /\ Cli \subseteq Processes
    BY DEF Processes
  <2> QED BY <1>4, <1>5, <1>6, <1>8, <2>1 DEF FileTypes
<1>10. SavesAreApart
  <2>1. \A p \in Processes : writer[p].at = "idle" /\ writer[p].open = NoFile
    BY <1>4, <1>5
  <2>2. name["file"] # NoFile => name["file"] # name["tmp"]
    BY <1>6
  <2> QED BY <2>1, <2>2 DEF SavesAreApart, Saving
<1>11. Raw = text /\ Parses
  <2>1. CASE text = NoFile
    BY <1>1, <2>1 DEF Raw, Parses
  <2>2. CASE text # NoFile
    <3>1. name["file"] = Oldest /\ data[Oldest] = Whole(text) /\ Oldest # NoFile
      BY <1>1, <1>2, <2>2, NamesAssumption
    <3> QED BY <3>1 DEF Raw, Parses, Whole
  <2> QED BY <2>1, <2>2
<1>12. Saves = {1} /\ IsLast(1, 1)
  <2>1. Saves = {1}
    BY <1>7, <1>8 DEF Saves
  <2> QED BY <2>1 DEF IsLast
<1>13. FileAfter(1) = text
  BY <1>7, <1>8, <1>9, <1>12, LastIs
<1>14. SavesAreOnRecord
  <2>1. \A k \in DOMAIN events : k = 1
    <3>1. \A k \in 1..1 : k = 1
      OBVIOUS
    <3> QED BY <1>8, <3>1
  <2>2. events # <<>>
    <3>1. events = <<>> => Len(events) = 0
      BY <1>8, EmptySeq, Zenon
    <3> QED BY <1>8, <3>1
  <2> QED BY <1>7, <1>8, <1>11, <1>12, <1>13, <2>1, <2>2 DEF SavesAreOnRecord
<1> QED BY <1>4, <1>7, <1>8, <1>9, <1>10, <1>11, <1>13, <1>14 DEF FileInv

(* brain.toml is whole and on record, one writer at a time.                *)
THEOREM FileInvariant == FileSpec => []FileInv
<1>1. FileInit => FileInv
  BY FileInitially
<1>2. FileInv /\ [FileNext]_fileVars => FileInv'
  BY FileTypesStep, SavesAreApartStep, OnRecordStep DEF FileInv
<1> QED BY <1>1, <1>2, PTL DEF FileSpec

-----------------------------------------------------------------------------
(* A step of one process leaves the others where they are.                 *)
LEMMA Moved ==
  ASSUME FileTypes, NEW p \in Processes, NEW w, writer' = [writer EXCEPT ![p] = w]
  PROVE  writer'[p] = w /\ \A q \in Processes \ {p} : writer'[q] = writer[q]
BY DEF FileTypes

(* A configuration that loaded goes on being one that loads.               *)
LEMMA ValidStep ==
  ASSUME FileInv, FileTypes', ValidOnce, [FileNext]_fileVars
  PROVE  ValidOnce'
<1> USE SmallFacts DEF FileInv
<1>1. FileAfter(1)' = FileAfter(1)
  BY FirstStays
<1> SUFFICES ASSUME Valid(Meaning(FileAfter(1)))
             PROVE  AllValid'
  BY <1>1 DEF ValidOnce
<1>2. /\ Valid(Meaning(Raw))
      /\ \A p \in Processes : writer[p].at # "idle" => Valid(Meaning(writer[p].cfg))
  BY DEF ValidOnce, AllValid
<1>3. ASSUME NEW p \in Processes, NEW w \in Writer, writer' = [writer EXCEPT ![p] = w],
             Raw' \in {Raw, writer[p].cfg}, Raw' # Raw => writer[p].at # "idle",
             w.at # "idle" => Valid(Meaning(w.cfg))
      PROVE  AllValid'
  BY <1>2, <1>3, Moved DEF AllValid
<1>4. ASSUME NEW p \in Cli, RunProfile(p) \/ \E command \in Commands : Run(p, command)
      PROVE  AllValid'
  <2>1. PICK w \in Writer :
          /\ writer' = [writer EXCEPT ![p] = w]
          /\ Valid(Meaning(Raw)) => Valid(Meaning(w.cfg))
    BY <1>4, CommandStarts
  <2>2. Raw' = Raw
    BY <1>4, CommandStarts
  <2> QED BY <1>2, <1>3, <2>1, <2>2
<1>5. ASSUME NEW p \in Processes, Create(p) \/ Write(p) PROVE AllValid'
  <2>1. PICK w \in Writer : writer' = [writer EXCEPT ![p] = w] /\ w.cfg = writer[p].cfg
    BY <1>5, SaveGoesOn
  <2>2. Raw' = Raw /\ writer[p].at # "idle"
    BY <1>5, SaveGoesOn DEF Saving
  <2> QED BY <1>2, <1>3, <2>1, <2>2
<1>6. ASSUME NEW p \in Processes, Rename(p) PROVE AllValid'
  <2>1. Raw' = writer[p].cfg /\ writer' = [writer EXCEPT ![p] = Rest(p)] /\ writer[p].at # "idle"
    BY <1>6, RenameIs DEF Rename
  <2>2. Rest(p).at # "idle" => Rest(p).cfg = writer[p].cfg
    BY DEF Idle
  <2> QED BY <1>2, <1>3, <2>1, <2>2
<1>7. ASSUME NEW p \in Processes, SaveFails(p) PROVE AllValid'
  <2>1. writer' = [writer EXCEPT ![p] = Rest(p)] /\ writer[p].at # "idle" /\ Raw' = Raw
    BY <1>7, OthersLeaveTheFile DEF SaveFails, Saving
  <2>2. Rest(p).at # "idle" => Rest(p).cfg = writer[p].cfg
    BY DEF Idle
  <2> QED BY <1>2, <1>3, <2>1, <2>2
<1>8. CASE Start
  <2> DEFINE w == [writer[Daemon] EXCEPT !.at = "ready", !.cfg = Effective(Loaded)]
  <2>1. Effective(Loaded) \in BrainConfig /\ Valid(Effective(Loaded))
    BY <1>8, RawType, EffectiveIs DEF Start, Loads, Loaded
  <2>2. w \in Writer /\ w.cfg = Effective(Loaded)
    BY <2>1, KeysAre DEF Writer
  <2>3. Valid(Meaning(w.cfg))
    BY <2>1, <2>2, ValidIs
  <2>4. writer' = [writer EXCEPT ![Daemon] = w] /\ Raw' = Raw
    BY <1>8, OthersLeaveTheFile DEF Start
  <2> HIDE DEF w
  <2> QED BY <1>3, <2>2, <2>3, <2>4
<1>9. CASE TakePending
  <2> DEFINE cfg == [writer[Daemon].cfg EXCEPT !.pending = Unset]
             w == [writer[Daemon] EXCEPT !.at = "turn", !.cfg = cfg]
  <2>1. /\ writer[Daemon].cfg \in BrainConfig /\ writer[Daemon].at # "idle"
        /\ Valid(writer[Daemon].cfg)
    BY <1>2, <1>9, ValidIs DEF TakePending
  <2>2. /\ cfg \in BrainConfig /\ cfg["pending"] = Unset
        /\ cfg["model"] = writer[Daemon].cfg["model"] /\ cfg["tier"] = writer[Daemon].cfg["tier"]
    BY <2>1 DEF BrainConfig
  <2>3. Valid(Meaning(cfg))
    <3> HIDE DEF cfg
    <3> QED BY <2>1, <2>2, ValidIs
  <2>4. w \in Writer /\ w.cfg = cfg
    <3> HIDE DEF cfg
    <3> QED BY <2>2, KeysAre DEF Writer
  <2>5. writer' = [writer EXCEPT ![Daemon] = w]
    BY <1>9 DEF TakePending, FileTypes, Writer
  <2>6. Raw' = Raw
    BY <1>9, OthersLeaveTheFile
  <2> HIDE DEF cfg, w
  <2> QED BY <1>3, <2>3, <2>4, <2>5, <2>6
<1>10. CASE TurnReturns \/ TurnFails
  <2>1. PICK at \in {"create", "ready"} : writer' = [writer EXCEPT ![Daemon].at = at]
    BY <1>10 DEF TurnReturns, TurnFails
  <2> DEFINE w == [writer[Daemon] EXCEPT !.at = at]
  <2>2. w \in Writer /\ w.cfg = writer[Daemon].cfg
    BY DEF Writer, Saving
  <2>3. writer' = [writer EXCEPT ![Daemon] = w]
    BY <2>1
  <2>4. Raw' = Raw /\ writer[Daemon].at # "idle"
    BY <1>10, OthersLeaveTheFile DEF TurnReturns, TurnFails
  <2> HIDE DEF w
  <2> QED BY <1>2, <1>3, <2>2, <2>3, <2>4
<1>11. CASE Stop
  <2>1. writer' = [writer EXCEPT ![Daemon] = Idle] /\ Raw' = Raw
    BY <1>11, OthersLeaveTheFile DEF Stop
  <2>2. Idle.at = "idle"
    BY DEF Idle
  <2> QED BY <1>3, <2>1, <2>2
<1>12. CASE UNCHANGED fileVars
  BY <1>2, <1>12, FileStays DEF fileVars, AllValid
<1> QED BY <1>4, <1>5, <1>6, <1>7, <1>8, <1>9, <1>10, <1>11, <1>12 DEF FileNext

-----------------------------------------------------------------------------
(* A command changes one setting.                                          *)

(* What a command has in hand stays a change of what the file says: nobody *)
(* else saves in between.                                                  *)
LEMMA OneSettingStep ==
  ASSUME FileInv, FileTypes', OneSettingInHand, [FileNext]_fileVars
  PROVE  OneSettingInHand'
<1> USE SmallFacts DEF FileInv
<1> DEFINE Right(w) == w.at \in Saving => w.why \in AllSettings \cup {ApplyProfile}
                                          /\ Changes(Raw', w.why, w.cfg)
<1>1. ASSUME NEW p \in Processes, NEW w \in Writer, writer' = [writer EXCEPT ![p] = w],
             Raw' = Raw \/ writer[p].at \in Saving, p \in Cli => Right(w)
      PROVE  OneSettingInHand'
  <2>1. writer'[p] = w /\ \A q \in Processes \ {p} : writer'[q] = writer[q]
    BY <1>1, Moved
  <2>2. ASSUME NEW q \in Cli, q # p, writer[q].at \in Saving PROVE Right(writer[q])
    <3>1. Raw' = Raw
      BY <1>1, <2>2 DEF SavesAreApart
    <3> QED BY <2>2, <3>1 DEF OneSettingInHand
  <2>3. \A q \in Cli : Right(writer'[q])
    BY <1>1, <2>1, <2>2
  <2> QED BY <2>3 DEF OneSettingInHand
<1>2. ASSUME NEW p \in Cli, writer[p].at \in Saving, Raw' = Raw PROVE Right(writer[p])
  BY <1>2 DEF OneSettingInHand
<1>3. ASSUME NEW p \in Cli, RunProfile(p) \/ \E command \in Commands : Run(p, command)
      PROVE  OneSettingInHand'
  <2>1. Raw' = Raw
    BY <1>3, CommandStarts
  <2>2. PICK w \in Writer :
          /\ writer' = [writer EXCEPT ![p] = w]
          /\ w.why \in AllSettings \cup {ApplyProfile} /\ Changes(Raw, w.why, w.cfg)
    BY <1>3, CommandStarts
  <2> QED BY <1>1, <2>1, <2>2
<1>4. ASSUME NEW p \in Processes, Create(p) \/ Write(p) PROVE OneSettingInHand'
  <2>1. Raw' = Raw /\ writer[p].at \in Saving
    BY <1>4, SaveGoesOn
  <2>2. PICK w \in Writer : /\ writer' = [writer EXCEPT ![p] = w]
                            /\ w.cfg = writer[p].cfg /\ w.why = writer[p].why
    BY <1>4, SaveGoesOn
  <2> QED BY <1>1, <1>2, <2>1, <2>2
<1>5. ASSUME NEW p \in Processes, Rename(p) \/ SaveFails(p) PROVE OneSettingInHand'
  <2>1. writer' = [writer EXCEPT ![p] = Rest(p)] /\ writer[p].at \in Saving
    BY <1>5 DEF Rename, SaveFails, Saving
  <2>2. Rest(p).at \notin Saving
    BY DEF Saving
  <2> QED BY <1>1, <2>1, <2>2
<1>6. CASE Start \/ TakePending \/ TurnReturns \/ TurnFails \/ Stop
  <2>1. Raw' = Raw
    BY <1>6, OthersLeaveTheFile
  <2>2. \A q \in Cli : writer'[q] = writer[q]
    BY <1>6 DEF Start, TakePending, TurnReturns, TurnFails, Stop, FileTypes
  <2> QED BY <1>2, <2>1, <2>2 DEF OneSettingInHand
<1>7. CASE UNCHANGED fileVars
  <2>1. Raw' = Raw /\ writer' = writer
    BY <1>7, FileStays DEF fileVars
  <2> QED BY <1>2, <2>1 DEF OneSettingInHand
<1> HIDE DEF Right
<1> QED BY <1>3, <1>4, <1>5, <1>6, <1>7 DEF FileNext

(* The property, one record at a time.                                     *)
LEMMA ChangesOnRecord ==
  CommandsChangeOneSetting <=>
    \A k \in Saves : events[k].what = "changed" =>
      Changes(FileAfter(k - 1), events[k].why, events[k].text)
BY DEF CommandsChangeOneSetting, Changes

(* Every step puts at most one change on record, and a right one.          *)
LEMMA ChangesStep ==
  ASSUME FileInv, FileTypes', OneSettingInHand, CommandsChangeOneSetting,
         [FileNext]_fileVars
  PROVE  CommandsChangeOneSetting'
<1> USE SmallFacts DEF FileInv
<1>1. CASE UNCHANGED events
  BY <1>1 DEF CommandsChangeOneSetting, Saves, FileAfter
<1>2. ASSUME NEW what, NEW text, NEW why, Note(what, text, why),
             what = "changed" => Changes(Raw, why, text)
      PROVE  CommandsChangeOneSetting'
  <2>1. PICK n \in Nat : n = Len(events) /\ n >= 1
    BY <1>2, NotedIs
  <2>2. /\ Len(events') = n + 1 /\ DOMAIN events = 1..n /\ DOMAIN events' = 1..n + 1
        /\ events'[n + 1] = [what |-> what, text |-> text, why |-> why]
        /\ \A k \in 1..n : events'[k] = events[k] /\ FileAfter(k)' = FileAfter(k)
    BY <1>2, <2>1, NotedIs
  <2>3. ASSUME NEW k \in Saves', events'[k].what = "changed"
        PROVE  Changes(FileAfter(k - 1)', events'[k].why, events'[k].text)
    <3>1. k \in 1..n + 1
      BY <2>2 DEF Saves
    <3>2. CASE k = n + 1
      <4>1. FileAfter(n)' = FileAfter(n) /\ FileAfter(n) = Raw /\ k - 1 = n
        BY <2>1, <2>2, <3>2 DEF SavesAreOnRecord
      <4>2. what = "changed" /\ events'[k].why = why /\ events'[k].text = text
        BY <2>2, <2>3, <3>2
      <4> QED BY <1>2, <4>1, <4>2
    <3>3. CASE k # n + 1
      <4>1. k \in 1..n /\ events'[k] = events[k] /\ k \in Saves
        BY <2>1, <2>2, <2>3, <3>1, <3>3 DEF Saves
      <4>2. k # 1
        BY <2>3, <4>1 DEF SavesAreOnRecord
      <4>3. k - 1 \in 1..n
        BY <2>1, <4>1, <4>2
      <4>4. Changes(FileAfter(k - 1), events[k].why, events[k].text)
        BY <2>3, <4>1, ChangesOnRecord
      <4> QED BY <2>2, <4>1, <4>3, <4>4
    <3> QED BY <3>2, <3>3
  <2> QED BY <2>3 DEF CommandsChangeOneSetting, Changes
<1>3. ASSUME NEW p \in Processes, Rename(p) PROVE CommandsChangeOneSetting'
  <2>1. Note(IF p = Daemon THEN "persisted" ELSE "changed", writer[p].cfg, writer[p].why)
    BY <1>3, RenameIs
  <2>2. CASE p = Daemon
    BY <1>2, <2>1, <2>2
  <2>3. CASE p # Daemon
    <3>1. Changes(Raw, writer[p].why, writer[p].cfg)
      BY <1>3, <2>3 DEF OneSettingInHand, Rename, Saving
    <3> QED BY <1>2, <2>1, <2>3, <3>1
  <2> QED BY <2>2, <2>3
<1>4. UNCHANGED events \/ (\E what \in {"unsaved", "started", "taken"} : \E text, why :
                             Note(what, text, why)) \/ \E p \in Processes : Rename(p)
  <2>1. ASSUME NEW p \in Processes, SaveFails(p)
        PROVE  \E what \in {"unsaved", "started", "taken"} : \E text, why : Note(what, text, why)
    BY <2>1 DEF SaveFails
  <2>2. ASSUME NEW p \in Cli, RunProfile(p) \/ \E command \in Commands : Run(p, command)
        PROVE  UNCHANGED events
    BY <2>2 DEF Run, RunProfile
  <2>3. ASSUME Start \/ TakePending \/ TurnFails \/ Stop
        PROVE  UNCHANGED events \/ \E what \in {"unsaved", "started", "taken"} : \E text, why :
                                     Note(what, text, why)
    BY <2>3 DEF Start, TakePending, TurnFails, Stop
  <2>4. ASSUME NEW p \in Processes, Create(p) \/ Write(p) \/ TurnReturns PROVE UNCHANGED events
    BY <2>4 DEF Create, Write, TurnReturns
  <2> QED BY <2>1, <2>2, <2>3, <2>4 DEF FileNext, fileVars
<1> QED BY <1>1, <1>2, <1>3, <1>4

SettingsInv == OneSettingInHand /\ CommandsChangeOneSetting

(* A command of `wmd` changes what it names and a profile the persona;     *)
(* every other setting goes on meaning what it meant, whoever saved when   *)
(* and however saves were cut off.  (CommandsChangeOneSetting; persist.rs, *)
(* main.rs, profile.rs)                                                    *)
THEOREM CommandsHold == FileSpec => []CommandsChangeOneSetting
<1>1. FileInit => SettingsInv
  <2> SUFFICES ASSUME FileInit PROVE SettingsInv
    OBVIOUS
  <2>1. /\ FileTypes /\ writer = [p \in Processes |-> Idle]
        /\ Len(events) = 1 /\ events[1].what = "found"
    BY FileInitially DEF FileInv
  <2>2. \A p \in Cli : writer[p].at \notin Saving
    BY <2>1 DEF Idle, Saving, Processes
  <2>3. \A k \in Saves : k = 1
    <3>1. \A k \in 1..1 : k = 1
      OBVIOUS
    <3> QED BY <2>1, <3>1 DEF Saves, FileTypes
  <2>4. \A k \in Saves : events[k].what # "changed"
    BY <2>1, <2>3
  <2> QED BY <2>2, <2>4 DEF SettingsInv, OneSettingInHand, CommandsChangeOneSetting
<1>2. FileInv /\ FileInv' /\ SettingsInv /\ [FileNext]_fileVars => SettingsInv'
  BY OneSettingStep, ChangesStep DEF SettingsInv, FileInv
<1>3. SettingsInv => CommandsChangeOneSetting
  BY DEF SettingsInv
<1> QED BY <1>1, <1>2, <1>3, FileInvariant, PTL DEF FileSpec

-----------------------------------------------------------------------------
(* An override serves one turn.                                            *)

(* What is outstanding after a step was before, unless it was taken now.   *)
LEMMA OutstandingBefore ==
  ASSUME FileInv, FileTypes', UNCHANGED events \/ \E what, text, why : Note(what, text, why)
  PROVE  /\ \A k \in DOMAIN events : /\ k \in DOMAIN events' /\ events'[k] = events[k]
                                     /\ Excuse(k)' <=> Excuse(k)
         /\ \A i \in DOMAIN events : Outstanding(i)' => Outstanding(i)
         /\ DOMAIN events = 1..Len(events) /\ Len(events) \in Nat
<1> USE DEF FileInv
<1>1. CASE UNCHANGED events
  BY <1>1 DEF Excuse, Outstanding, FileTypes
<1>2. ASSUME NEW what, NEW text, NEW why, Note(what, text, why)
      PROVE  /\ \A k \in DOMAIN events : k \in DOMAIN events' /\ events'[k] = events[k]
             /\ DOMAIN events = 1..Len(events) /\ Len(events) \in Nat
             /\ Len(events') = Len(events) + 1
  <2>1. /\ Len(events) \in Nat /\ Len(events') = Len(events) + 1
        /\ DOMAIN events = 1..Len(events) /\ DOMAIN events' = 1..Len(events) + 1
        /\ \A k \in DOMAIN events : events'[k] = events[k]
    BY <1>2, NotedIs
  <2>2. \A k \in 1..Len(events) : k \in 1..Len(events) + 1
    BY <2>1
  <2> QED BY <2>1, <2>2
<1>3. CASE \E what, text, why : Note(what, text, why)
  <2>1. /\ \A k \in DOMAIN events : k \in DOMAIN events' /\ events'[k] = events[k]
        /\ DOMAIN events = 1..Len(events) /\ Len(events) \in Nat
        /\ Len(events') = Len(events) + 1
    BY <1>2, <1>3
  <2>2. \A k \in DOMAIN events : Excuse(k)' <=> Excuse(k)
    BY <2>1 DEF Excuse
  <2>3. ASSUME NEW i \in DOMAIN events, Outstanding(i)' PROVE Outstanding(i)
    <3>1. events[i].what = "taken"
      BY <2>1, <2>3 DEF Outstanding
    <3>2. \A k \in i .. Len(events) : k \in DOMAIN events /\ k \in i .. Len(events')
      BY <2>1
    <3>3. \A k \in i .. Len(events) : ~Excuse(k)
      BY <2>2, <2>3, <3>2 DEF Outstanding
    <3> QED BY <3>1, <3>3 DEF Outstanding
  <2> QED BY <2>1, <2>2, <2>3
<1> QED BY <1>1, <1>3

(* A step that puts an excuse on record leaves nothing outstanding.        *)
LEMMA ExcusedIs ==
  ASSUME FileInv, FileTypes', NEW what \in {"changed", "unsaved"}, NEW text, NEW why,
         Note(what, text, why),
         \/ what = "changed" /\ "pending" \in DOMAIN why
         \/ what = "unsaved" /\ why = Daemon
  PROVE  ~\E i \in DOMAIN events' : Outstanding(i)'
<1> SUFFICES ASSUME NEW i \in DOMAIN events', Outstanding(i)' PROVE FALSE
  OBVIOUS
<1>1. PICK n \in Nat :
        /\ Len(events') = n /\ DOMAIN events' = 1..n
        /\ events'[n] = [what |-> what, text |-> text, why |-> why]
  <2>1. /\ Len(events) \in Nat /\ Len(events') = Len(events) + 1
        /\ DOMAIN events' = 1..Len(events) + 1
        /\ events'[Len(events) + 1] = [what |-> what, text |-> text, why |-> why]
    BY NotedIs DEF FileInv
  <2> QED BY <2>1
<1>2. events'[n].what = what /\ events'[n].why = why
  BY <1>1
<1>3. Excuse(n)'
  BY <1>2 DEF Excuse
<1>4. n \in i .. Len(events')
  BY <1>1
<1> QED BY <1>3, <1>4 DEF Outstanding

OverrideInv == OutstandingIsGone /\ OverridesAreTakenOnce

(* Nobody has an override that is outstanding: not the daemon, and not the *)
(* file nor a command that is saving it, unless the daemon is about to.    *)
LEMMA OutstandingStep ==
  ASSUME FileInv, FileTypes', OutstandingIsGone, [FileNext]_fileVars
  PROVE  OutstandingIsGone'
<1> USE SmallFacts DEF FileInv
<1> SUFFICES ASSUME NEW i \in DOMAIN events', Outstanding(i)' PROVE OverrideIsGone'
  BY DEF OutstandingIsGone
<1>1. ASSUME UNCHANGED events \/ \E what \in {"changed", "persisted", "unsaved", "started"} :
                            \E text, why : Note(what, text, why)
      PROVE  /\ OverrideIsGone
             /\ \A what \in {"changed", "unsaved"} : \A text, why : Note(what, text, why) =>
                  /\ what = "changed" => "pending" \notin DOMAIN why
                  /\ what = "unsaved" => why # Daemon
  <2>1. i \in DOMAIN events
    <3>1. CASE UNCHANGED events
      BY <3>1
    <3>2. ASSUME NEW what \in {"changed", "persisted", "unsaved", "started"}, NEW text, NEW why,
                 Note(what, text, why)
          PROVE  i \in DOMAIN events
      <4>1. /\ DOMAIN events = 1..Len(events) /\ DOMAIN events' = 1..Len(events) + 1
            /\ events'[Len(events) + 1].what = what /\ Len(events) \in Nat
        <5>1. /\ DOMAIN events = 1..Len(events) /\ DOMAIN events' = 1..Len(events) + 1
              /\ events'[Len(events) + 1] = [what |-> what, text |-> text, why |-> why]
              /\ Len(events) \in Nat
          BY <3>2, NotedIs
        <5> QED BY <5>1
      <4>2. i # Len(events) + 1
        BY <4>1 DEF Outstanding
      <4> QED BY <4>1, <4>2
    <3> QED BY <1>1, <3>1, <3>2
  <2>2. Outstanding(i)
    BY <1>1, <2>1, OutstandingBefore
  <2>3. OverrideIsGone
    BY <2>1, <2>2 DEF OutstandingIsGone
  <2> QED BY <2>3, ExcusedIs
<1>2. ASSUME NEW p \in Cli, RunProfile(p) \/ \E command \in Commands : Run(p, command)
      PROVE  OverrideIsGone'
  <2>1. OverrideIsGone /\ Raw' = Raw /\ Alone(p)
    BY <1>1, <1>2, CommandStarts
  <2>2. PICK w \in Writer :
          /\ writer' = [writer EXCEPT ![p] = w]
          /\ "pending" \notin DOMAIN w.why /\ Meaning(Raw).pending = Unset =>
               w.cfg.pending = Unset
    BY <1>2, CommandStarts
  <2>3. writer'[p] = w /\ \A q \in Processes \ {p} : writer'[q] = writer[q]
    BY <2>2, Moved
  <2> QED BY <2>1, <2>2, <2>3 DEF OverrideIsGone
<1>3. ASSUME NEW p \in Processes, Create(p) \/ Write(p) PROVE OverrideIsGone'
  <2>1. OverrideIsGone /\ Raw' = Raw /\ writer[p].at \in Saving
    BY <1>1, <1>3, SaveGoesOn
  <2>2. PICK w \in Writer : /\ writer' = [writer EXCEPT ![p] = w] /\ w.at \in Saving
                            /\ w.cfg = writer[p].cfg /\ w.why = writer[p].why
    BY <1>3, SaveGoesOn
  <2>3. writer'[p] = w /\ \A q \in Processes \ {p} : writer'[q] = writer[q]
    BY <2>2, Moved
  <2>4. writer[p].at # "idle"
    BY <2>1 DEF Saving
  <2> QED BY <2>1, <2>2, <2>3, <2>4 DEF OverrideIsGone
<1>4. ASSUME NEW p \in Processes, Rename(p) PROVE OverrideIsGone'
  <2>1. /\ Raw' = writer[p].cfg /\ writer' = [writer EXCEPT ![p] = Rest(p)]
        /\ Note(IF p = Daemon THEN "persisted" ELSE "changed", writer[p].cfg, writer[p].why)
        /\ writer[p].at \in Saving /\ writer[p].at # "idle"
    BY <1>4, RenameIs DEF Rename, Saving
  <2>2. OverrideIsGone /\ (p # Daemon => "pending" \notin DOMAIN writer[p].why)
    BY <1>1, <2>1
  <2>3. writer'[p] = Rest(p) /\ \A q \in Processes \ {p} : writer'[q] = writer[q]
    BY <2>1, Moved
  <2>4. \A q \in Processes \ {p} : writer'[q].at \notin Saving
    BY <2>1, <2>3 DEF SavesAreApart
  <2>5. CASE p = Daemon
    <3>1. writer[p].cfg.pending = Unset
      BY <2>1, <2>2, <2>5 DEF OverrideIsGone
    <3>2. Meaning(Raw').pending = Unset
      BY <2>1, <3>1, KeysAre, MeaningIs DEF Default
    <3>3. writer'[Daemon].cfg.pending = Unset
      BY <2>3, <2>5, <3>1
    <3> QED BY <2>4, <2>5, <3>2, <3>3 DEF OverrideIsGone
  <2>6. CASE p # Daemon
    <3>1. writer[Daemon].at \notin Saving /\ writer'[Daemon] = writer[Daemon]
      BY <2>1, <2>3, <2>6 DEF SavesAreApart
    <3>2. CASE writer[Daemon].at = "turn"
      BY <2>2, <3>1, <3>2 DEF OverrideIsGone
    <3>3. CASE writer[Daemon].at # "turn"
      <4>1. writer[p].cfg.pending = Unset
        BY <2>1, <2>2, <2>6, <3>1, <3>3 DEF OverrideIsGone
      <4>2. Meaning(Raw').pending = Unset
        BY <2>1, <4>1, KeysAre, MeaningIs DEF Default
      <4>3. \A q \in Cli : writer'[q].at \notin Saving
        BY <2>3, <2>4, Zenon DEF Saving
      <4> QED BY <2>2, <3>1, <4>2, <4>3 DEF OverrideIsGone
    <3> QED BY <3>2, <3>3
  <2> QED BY <2>5, <2>6
<1>5. ASSUME NEW p \in Processes, SaveFails(p) PROVE OverrideIsGone'
  <2>1. /\ Note("unsaved", writer[p].cfg, p) /\ writer' = [writer EXCEPT ![p] = Rest(p)]
        /\ Raw' = Raw
    BY <1>5, OthersLeaveTheFile DEF SaveFails
  <2>2. OverrideIsGone /\ p # Daemon
    BY <1>1, <2>1
  <2>3. writer'[p] = Idle /\ \A q \in Processes \ {p} : writer'[q] = writer[q]
    BY <2>1, <2>2, Moved
  <2>4. Idle.at \notin Saving
    BY DEF Idle, Saving
  <2> QED BY <2>1, <2>2, <2>3, <2>4 DEF OverrideIsGone
<1>6. CASE Start
  <2>1. /\ Note("started", Raw, NoFile) /\ Raw' = Raw /\ writer[Daemon].at = "idle"
        /\ writer' = [writer EXCEPT ![Daemon].at = "ready", ![Daemon].cfg = Effective(Loaded)]
    BY <1>6, OthersLeaveTheFile DEF Start
  <2>2. OverrideIsGone
    BY <1>1, <2>1
  <2>3. Meaning(Raw).pending = Unset
    BY <2>1, <2>2 DEF OverrideIsGone, Saving
  <2>4. Effective(Loaded).pending = Unset
    BY <2>3, RawType, EffectiveIs DEF Loaded
  <2>5. /\ writer'[Daemon].cfg = Effective(Loaded)
        /\ \A q \in Processes \ {Daemon} : writer'[q] = writer[q]
    BY <2>1 DEF FileTypes, Writer
  <2> QED BY <2>1, <2>2, <2>3, <2>4, <2>5 DEF OverrideIsGone, Saving
<1>7. CASE TakePending
  <2>1. /\ writer'[Daemon].at = "turn" /\ writer'[Daemon].cfg.pending = Unset
    <3>1. writer[Daemon] \in Writer /\ writer[Daemon].cfg \in BrainConfig
      OBVIOUS
    <3>2. writer'[Daemon] = [writer[Daemon] EXCEPT !.at = "turn", !.cfg.pending = Unset]
      BY <1>7 DEF TakePending, FileTypes
    <3> QED BY <3>1, <3>2 DEF Writer, BrainConfig
  <2> QED BY <2>1 DEF OverrideIsGone
<1>8. CASE TurnReturns
  <2>1. /\ UNCHANGED events /\ writer[Daemon].at = "turn"
        /\ writer' = [writer EXCEPT ![Daemon].at = "create"]
    BY <1>8 DEF TurnReturns
  <2>2. OverrideIsGone
    BY <1>1, <2>1
  <2>3. writer'[Daemon].at = "create" /\ writer'[Daemon].cfg = writer[Daemon].cfg
    BY <2>1 DEF FileTypes, Writer
  <2> QED BY <2>1, <2>2, <2>3 DEF OverrideIsGone, Saving
<1>9. CASE TurnFails
  <2>1. Note("unsaved", writer[Daemon].cfg, Daemon)
    BY <1>9 DEF TurnFails
  <2> QED BY <1>1, <2>1
<1>10. CASE Stop
  <2>1. UNCHANGED events \/ Note("unsaved", writer[Daemon].cfg, Daemon)
    BY <1>10 DEF Stop
  <2>2. OverrideIsGone /\ ~Note("unsaved", writer[Daemon].cfg, Daemon)
    BY <1>1, <2>1
  <2>3. writer[Daemon].at = "ready" /\ Raw' = Raw /\ writer' = [writer EXCEPT ![Daemon] = Idle]
    BY <1>10, <2>2, OthersLeaveTheFile DEF Stop
  <2>4. writer'[Daemon] = Idle /\ \A q \in Processes \ {Daemon} : writer'[q] = writer[q]
    BY <2>3, Moved
  <2>5. Idle.at = "idle"
    BY DEF Idle
  <2> QED BY <2>2, <2>3, <2>4, <2>5 DEF OverrideIsGone, Saving
<1>11. CASE UNCHANGED fileVars
  <2>1. UNCHANGED <<writer, events>> /\ Raw' = Raw
    BY <1>11, FileStays DEF fileVars
  <2>2. OverrideIsGone
    BY <1>1, <2>1
  <2> QED BY <2>1, <2>2 DEF OverrideIsGone
<1> QED BY <1>2, <1>3, <1>4, <1>5, <1>6, <1>7, <1>8, <1>9, <1>10, <1>11 DEF FileNext

(* Taking an override needs one, and nobody has one that is outstanding.   *)
LEMMA TakenStep ==
  ASSUME FileInv, FileTypes', OverrideInv, [FileNext]_fileVars
  PROVE  OverridesAreTakenOnce'
<1> USE DEF FileInv
<1>1. UNCHANGED events \/ \E what, text, why : Note(what, text, why)
  <2>1. ASSUME NEW p \in Processes, Create(p) \/ Write(p) \/ Rename(p) \/ SaveFails(p)
        PROVE  UNCHANGED events \/ \E what, text, why : Note(what, text, why)
    BY <2>1 DEF Create, Write, Rename, SaveFails
  <2>2. ASSUME NEW p \in Cli, RunProfile(p) \/ \E command \in Commands : Run(p, command)
        PROVE  UNCHANGED events
    BY <2>2 DEF Run, RunProfile
  <2>3. ASSUME Start \/ TakePending \/ TurnReturns \/ TurnFails \/ Stop
        PROVE  UNCHANGED events \/ \E what, text, why : Note(what, text, why)
    BY <2>3 DEF Start, TakePending, TurnReturns, TurnFails, Stop
  <2> QED BY <2>1, <2>2, <2>3 DEF FileNext, fileVars
<1>2. \A k \in DOMAIN events : events'[k] = events[k]
  BY <1>1, OutstandingBefore
<1>3. \A k \in DOMAIN events : Excuse(k)' <=> Excuse(k)
  BY <1>2 DEF Excuse
<1>4. DOMAIN events = 1..Len(events) /\ Len(events) \in Nat
  BY <1>1, OutstandingBefore
<1>5. ASSUME NEW i \in DOMAIN events, NEW j \in DOMAIN events,
             i < j, events'[i].what = "taken", events'[j].what = "taken"
      PROVE  \E k \in i .. j : Excuse(k)'
  <2>1. events[i].what = "taken" /\ events[j].what = "taken"
    BY <1>2, <1>5
  <2>2. \E k \in i .. j : Excuse(k)
    BY <1>5, <2>1 DEF OverrideInv, OverridesAreTakenOnce, Excuse
  <2>3. \A k \in i .. j : k \in DOMAIN events
    BY <1>4
  <2> QED BY <1>3, <2>2, <2>3
<1>6. ASSUME NEW i \in DOMAIN events, NEW j \in DOMAIN events', j \notin DOMAIN events,
             events'[i].what = "taken", events'[j].what = "taken"
      PROVE  \E k \in i .. j : Excuse(k)'
  <2>1. PICK what, text, why : Note(what, text, why)
    BY <1>1, <1>6
  <2>2. /\ DOMAIN events' = 1..Len(events) + 1
        /\ events'[Len(events) + 1] = [what |-> what, text |-> text, why |-> why]
    BY <2>1, NotedIs
  <2>3. j = Len(events) + 1 /\ what = "taken"
    BY <1>4, <1>6, <2>2
  <2>4. TakePending
    <3>1. ASSUME NEW a, NEW b, NEW c, Note(a, b, c) PROVE a = "taken"
      <4>1. events'[Len(events) + 1] = [what |-> a, text |-> b, why |-> c]
        BY <3>1, NotedIs
      <4> QED BY <2>2, <2>3, <4>1
    <3>2. ASSUME NEW p \in Processes, Rename(p) \/ SaveFails(p) PROVE FALSE
      BY <3>1, <3>2 DEF Rename, SaveFails
    <3>3. events' # events
      BY <1>6
    <3>4. ASSUME NEW p \in Processes, Create(p) \/ Write(p) PROVE FALSE
      BY <3>3, <3>4 DEF Create, Write
    <3>5. ASSUME NEW p \in Cli, RunProfile(p) \/ \E command \in Commands : Run(p, command)
          PROVE  FALSE
      BY <3>3, <3>5 DEF Run, RunProfile
    <3>6. ~Start /\ ~TurnReturns /\ ~TurnFails /\ ~Stop
      BY <3>1, <3>3 DEF Start, TurnReturns, TurnFails, Stop
    <3> QED BY <3>2, <3>3, <3>4, <3>5, <3>6 DEF FileNext, fileVars
  <2>5. ~OverrideIsGone
    BY <2>4 DEF TakePending, OverrideIsGone
  <2>6. ~Outstanding(i)
    BY <2>5 DEF OverrideInv, OutstandingIsGone
  <2>7. PICK k \in i .. Len(events) : Excuse(k)
    <3>1. events[i].what = "taken"
      BY <1>2, <1>6
    <3> QED BY <2>6, <3>1 DEF Outstanding
  <2>8. k \in DOMAIN events /\ k \in i .. j
    BY <1>4, <2>3
  <2> QED BY <1>3, <2>7, <2>8
<1>7. ASSUME NEW i \in DOMAIN events', NEW j \in DOMAIN events',
             i < j, events'[i].what = "taken", events'[j].what = "taken"
      PROVE  \E k \in i .. j : Excuse(k)'
  <2>1. i \in DOMAIN events
    <3>1. CASE UNCHANGED events
      BY <3>1
    <3>2. CASE \E what, text, why : Note(what, text, why)
      <4>1. DOMAIN events' = 1..Len(events) + 1
        BY <3>2, NotedIs
      <4> QED BY <1>4, <1>7, <4>1
    <3> QED BY <1>1, <3>1, <3>2
  <2> QED BY <1>5, <1>6, <1>7, <2>1
<1> QED BY <1>7 DEF OverridesAreTakenOnce, Excuse

(* A one-turn override serves one turn, unless it is asked for anew or its *)
(* taking could not be put on record; a command that loaded the file before*)
(* the daemon saved it does not bring it back.  (OverridesAreTakenOnce;    *)
(* persist_after_pending_consume, save_to_file)                            *)
THEOREM OverridesHold == FileSpec => []OverridesAreTakenOnce
<1>1. FileInit => OverrideInv
  <2> SUFFICES ASSUME FileInit PROVE OverrideInv
    OBVIOUS
  <2>1. FileTypes /\ Len(events) = 1 /\ events[1].what = "found"
    BY FileInitially DEF FileInv
  <2>2. \A k \in DOMAIN events : events[k].what # "taken"
    <3>1. \A k \in 1..1 : k = 1
      OBVIOUS
    <3> QED BY <2>1, <3>1 DEF FileTypes
  <2> QED BY <2>2 DEF OverrideInv, OutstandingIsGone, Outstanding, OverridesAreTakenOnce
<1>2. FileInv /\ FileInv' /\ OverrideInv /\ [FileNext]_fileVars => OverrideInv'
  BY OutstandingStep, TakenStep DEF OverrideInv, FileInv
<1>3. OverrideInv => OverridesAreTakenOnce
  BY DEF OverrideInv
<1> QED BY <1>1, <1>2, <1>3, FileInvariant, PTL DEF FileSpec

-----------------------------------------------------------------------------
(* The ladder of a daemon                                                  *)

(* A ladder that is climbed from the cheap rungs to the dear ones. *)
Rungs == {Order[k] : k \in DOMAIN Order}
Rung == [name : Rungs, backend : {"local", "anthropic"}]
Climbs(tiers) ==
  /\ tiers \in Seq(Rung)
  /\ \A j, k \in DOMAIN tiers : j < k =>
       /\ Rank(tiers[j].name) < Rank(tiers[k].name)
       /\ tiers[j].backend = "anthropic" => tiers[k].backend = "anthropic"

(* The ranks of the rungs, ...                                             *)
LEMMA RanksAre ==
  /\ Rank("local-3b") = 1 /\ Rank("local-8b") = 2 /\ Rank("local-gpu") = 3
  /\ Rank("haiku") = 4 /\ Rank("sonnet") = 5 /\ Rank("opus") = 6
<1>1. DOMAIN Order = 1..6
  BY DEF Order
<1>2. /\ Order[1] = "local-3b" /\ Order[2] = "local-8b" /\ Order[3] = "local-gpu"
      /\ Order[4] = "haiku" /\ Order[5] = "sonnet" /\ Order[6] = "opus"
  BY DEF Order
<1>3. \A k \in 1..6 : k = 1 \/ k = 2 \/ k = 3 \/ k = 4 \/ k = 5 \/ k = 6
  OBVIOUS
<1>4. \A j, k \in 1..6 : Order[j] = Order[k] => j = k
  BY <1>2, <1>3
<1>5. \A j \in 1..6 : Rank(Order[j]) = j
  <2> TAKE j \in 1..6
  <2>1. \E k \in DOMAIN Order : Order[k] = Order[j]
    BY <1>1
  <2>2. Rank(Order[j]) \in DOMAIN Order /\ Order[Rank(Order[j])] = Order[j]
    BY <2>1, Zenon DEF Rank
  <2> QED BY <1>1, <1>4, <2>2
<1>6. 1 \in 1..6 /\ 2 \in 1..6 /\ 3 \in 1..6 /\ 4 \in 1..6 /\ 5 \in 1..6 /\ 6 \in 1..6
  OBVIOUS
<1> QED BY <1>2, <1>5, <1>6, Zenon

(* ... and the rungs that have one.                                        *)
LEMMA RungsAre ==
  Rungs = {"local-3b", "local-8b", "local-gpu", "haiku", "sonnet", "opus"}
<1>1. DOMAIN Order = 1..6
  BY DEF Order
<1>2. /\ Order[1] = "local-3b" /\ Order[2] = "local-8b" /\ Order[3] = "local-gpu"
      /\ Order[4] = "haiku" /\ Order[5] = "sonnet" /\ Order[6] = "opus"
  BY DEF Order
<1>3. \A k \in 1..6 : k = 1 \/ k = 2 \/ k = 3 \/ k = 4 \/ k = 5 \/ k = 6
  OBVIOUS
<1>4. 1 \in 1..6 /\ 2 \in 1..6 /\ 3 \in 1..6 /\ 4 \in 1..6 /\ 5 \in 1..6 /\ 6 \in 1..6
  OBVIOUS
<1>5. \A r \in Rungs : r \in {"local-3b", "local-8b", "local-gpu", "haiku", "sonnet", "opus"}
  BY <1>1, <1>2, <1>3 DEF Rungs
<1>6. \A k \in 1..6 : Order[k] \in Rungs
  BY <1>1 DEF Rungs
<1>7. \A r \in {"local-3b", "local-8b", "local-gpu", "haiku", "sonnet", "opus"} : r \in Rungs
  BY <1>2, <1>4, <1>6
<1> QED BY <1>5, <1>7

(* The built-in ladder has the cheaper rungs first.                        *)
LEMMA DefaultClimbs ==
  /\ Climbs(DefaultLadder)
  /\ Names(DefaultLadder) = {"local-3b", "local-8b", "haiku", "sonnet", "opus"}
  /\ DefaultLadder \in Seq(Rung) /\ Len(DefaultLadder) = 5
  /\ DefaultLadder[1] = Local("local-3b") /\ DefaultLadder[2] = Local("local-8b")
  /\ DefaultLadder[3] = Anthropic("haiku") /\ DefaultLadder[4] = Anthropic("sonnet")
  /\ DefaultLadder[5] = Anthropic("opus")
<1> DEFINE s == DefaultLadder
<1>1. /\ s[1] = Local("local-3b") /\ s[2] = Local("local-8b")
      /\ s[3] = Anthropic("haiku") /\ s[4] = Anthropic("sonnet") /\ s[5] = Anthropic("opus")
  BY DEF DefaultLadder
<1>2. \A r \in Rungs : Local(r) \in Rung /\ Anthropic(r) \in Rung
  BY DEF Local, Anthropic, Rung
<1>3. Len(s) = 5 /\ DOMAIN s = 1..5
  BY DEF DefaultLadder
<1>4. s \in Seq(Rung)
  <2>1. /\ Local("local-3b") \in Rung /\ Local("local-8b") \in Rung
        /\ Anthropic("haiku") \in Rung /\ Anthropic("sonnet") \in Rung
        /\ Anthropic("opus") \in Rung
    BY <1>2, RungsAre
  <2> HIDE DEF s
  <2> QED BY <2>1 DEF DefaultLadder, s
<1>5. /\ s[1].name = "local-3b" /\ s[2].name = "local-8b"
      /\ s[3].name = "haiku" /\ s[4].name = "sonnet" /\ s[5].name = "opus"
      /\ s[1].backend = "local" /\ s[2].backend = "local"
      /\ s[3].backend = "anthropic" /\ s[4].backend = "anthropic"
      /\ s[5].backend = "anthropic"
  BY <1>1 DEF Local, Anthropic
<1> HIDE DEF s
<1>6. \A k \in 1..5 : k = 1 \/ k = 2 \/ k = 3 \/ k = 4 \/ k = 5
  OBVIOUS
<1>7. Climbs(s)
  <2> SUFFICES ASSUME NEW j \in 1..5, NEW k \in 1..5, j < k
               PROVE  /\ Rank(s[j].name) < Rank(s[k].name)
                      /\ s[j].backend = "anthropic" => s[k].backend = "anthropic"
    BY <1>3, <1>4 DEF Climbs
  <2> QED BY <1>5, <1>6, RanksAre
<1>8. Names(s) = {"local-3b", "local-8b", "haiku", "sonnet", "opus"}
  <2>1. Names(s) = {s[k].name : k \in 1..5}
    BY <1>3 DEF Names
  <2> QED BY <2>1, <1>5, <1>6
<1> QED BY <1>1, <1>3, <1>4, <1>7, <1>8 DEF s

(* It still does with the rung of the GPU put in.                          *)
LEMMA LadderClimbs ==
  ASSUME NEW gpu \in BOOLEAN
  PROVE  /\ Climbs(WithGpu(gpu))
         /\ Names(WithGpu(gpu)) = {r \in Rungs : r = "local-gpu" => gpu}
<1>1. CASE ~gpu
  <2>1. WithGpu(gpu) = DefaultLadder
    BY <1>1 DEF WithGpu
  <2> QED BY <1>1, <2>1, DefaultClimbs, RungsAre
<1>2. CASE gpu
  <2> DEFINE d == DefaultLadder
  <2>1. Min(CloudRungs(d)) = 3
    <3>1. DOMAIN d = 1..5
      BY DefaultClimbs
    <3>2. CloudRungs(d) = {k \in 1..5 : d[k].backend = "anthropic"}
      BY <3>1 DEF CloudRungs
    <3>3. \A k \in 1..5 : k = 1 \/ k = 2 \/ k = 3 \/ k = 4 \/ k = 5
      OBVIOUS
    <3>4. /\ d[1].backend = "local" /\ d[2].backend = "local"
          /\ d[3].backend = "anthropic" /\ d[4].backend = "anthropic"
          /\ d[5].backend = "anthropic"
      BY DefaultClimbs DEF Local, Anthropic
    <3> HIDE DEF d
    <3>5. 3 \in CloudRungs(d) /\ \A k \in CloudRungs(d) : k \in Nat /\ 3 <= k
      BY <3>2, <3>3, <3>4
    <3>6. \A x \in CloudRungs(d) : (\A y \in CloudRungs(d) : x =< y) => x = 3
      BY <3>5
    <3>7. Min(CloudRungs(d)) \in CloudRungs(d)
            /\ \A y \in CloudRungs(d) : Min(CloudRungs(d)) =< y
      BY <3>5, Zenon DEF Min
    <3> QED BY <3>6, <3>7
  <2> DEFINE g == Local("local-gpu")
             s == SubSeq(d, 1, 2) \o <<g>> \o SubSeq(d, 3, 5)
  <2>2. WithGpu(gpu) = s
    BY <1>2, <2>1, DefaultClimbs DEF WithGpu, InsertedBefore
  <2>3. g \in Rung
    BY RungsAre DEF Local, Rung
  <2> HIDE DEF g
  <2>4. d \in Seq(Rung) /\ Len(d) = 5
    BY DefaultClimbs
  <2> HIDE DEF d
  <2>5. /\ SubSeq(d, 1, 2) \in Seq(Rung) /\ Len(SubSeq(d, 1, 2)) = 2
        /\ SubSeq(d, 1, 2)[1] = d[1] /\ SubSeq(d, 1, 2)[2] = d[2]
    <3>1. \A i \in 1..2 : d[i] \in Rung
      <4>1. \A i \in 1..5 : d[i] \in Rung
        BY <2>4, ElementOfSeq
      <4>2. \A i \in 1..2 : i \in 1..5
        OBVIOUS
      <4> QED BY <4>1, <4>2
    <3>2. 1 \in 1..2 /\ 2 \in 1..2 /\ 2 - 1 + 1 = 2
      OBVIOUS
    <3>3. /\ SubSeq(d, 1, 2) \in Seq(Rung)
          /\ Len(SubSeq(d, 1, 2)) = IF 1 <= 2 THEN 2 - 1 + 1 ELSE 0
          /\ \A i \in 1..2 - 1 + 1 : SubSeq(d, 1, 2)[i] = d[1 + i - 1]
      BY <3>1, SubSeqProperties
    <3>4. 1 + 1 - 1 = 1 /\ 1 + 2 - 1 = 2 /\ 1 <= 2
      OBVIOUS
    <3> QED BY <3>2, <3>3, <3>4
  <2>6. /\ SubSeq(d, 3, 5) \in Seq(Rung) /\ Len(SubSeq(d, 3, 5)) = 3
        /\ SubSeq(d, 3, 5)[1] = d[3] /\ SubSeq(d, 3, 5)[2] = d[4]
        /\ SubSeq(d, 3, 5)[3] = d[5]
    <3>1. \A i \in 3..5 : d[i] \in Rung
      <4>1. \A i \in 1..5 : d[i] \in Rung
        BY <2>4, ElementOfSeq
      <4>2. \A i \in 3..5 : i \in 1..5
        OBVIOUS
      <4> QED BY <4>1, <4>2
    <3>2. 1 \in 1..3 /\ 2 \in 1..3 /\ 3 \in 1..3 /\ 5 - 3 + 1 = 3
      OBVIOUS
    <3>3. /\ SubSeq(d, 3, 5) \in Seq(Rung)
          /\ Len(SubSeq(d, 3, 5)) = IF 3 <= 5 THEN 5 - 3 + 1 ELSE 0
          /\ \A i \in 1..5 - 3 + 1 : SubSeq(d, 3, 5)[i] = d[3 + i - 1]
      BY <3>1, SubSeqProperties
    <3>4. 3 + 1 - 1 = 3 /\ 3 + 2 - 1 = 4 /\ 3 + 3 - 1 = 5 /\ 3 <= 5
      OBVIOUS
    <3> QED BY <3>2, <3>3, <3>4
  <2> DEFINE lo == SubSeq(d, 1, 2)
             hi == SubSeq(d, 3, 5)
  <2> HIDE DEF lo, hi
  <2>7. /\ s \in Seq(Rung) /\ Len(s) = 6
        /\ s[1] = d[1] /\ s[2] = d[2] /\ s[3] = g /\ s[4] = d[3] /\ s[5] = d[4] /\ s[6] = d[5]
    <3>1. /\ lo \in Seq(Rung) /\ Len(lo) = 2 /\ lo[1] = d[1] /\ lo[2] = d[2]
          /\ hi \in Seq(Rung) /\ Len(hi) = 3 /\ hi[1] = d[3] /\ hi[2] = d[4] /\ hi[3] = d[5]
      BY <2>5, <2>6 DEF lo, hi
    <3>2. PICK x : x = lo \o <<g>>
      OBVIOUS
    <3>3. /\ x \in Seq(Rung) /\ Len(x) = 3 /\ x[1] = d[1] /\ x[2] = d[2] /\ x[3] = g
      <4>1. <<g>> \in Seq(Rung) /\ Len(<<g>>) = 1 /\ <<g>>[1] = g
        BY <2>3
      <4>2. PICK u : u = <<g>>
        OBVIOUS
      <4>3. u \in Seq(Rung) /\ Len(u) = 1 /\ u[1] = g
        BY <4>1, <4>2
      <4>4. /\ x \in Seq(Rung) /\ Len(x) = Len(lo) + Len(u)
            /\ \A i \in 1 .. Len(lo) + Len(u) :
                 x[i] = IF i <= Len(lo) THEN lo[i] ELSE u[i - Len(lo)]
        BY <3>1, <3>2, <4>2, <4>3, ConcatProperties
      <4> QED BY <3>1, <4>3, <4>4
    <3>4. PICK y : y = x \o hi
      OBVIOUS
    <3>5. /\ y \in Seq(Rung) /\ Len(y) = 6
          /\ y[1] = d[1] /\ y[2] = d[2] /\ y[3] = g /\ y[4] = d[3] /\ y[5] = d[4] /\ y[6] = d[5]
      <4>1. /\ y \in Seq(Rung) /\ Len(y) = Len(x) + Len(hi)
            /\ \A i \in 1 .. Len(x) + Len(hi) :
                 y[i] = IF i <= Len(x) THEN x[i] ELSE hi[i - Len(x)]
        BY <3>1, <3>3, <3>4, ConcatProperties
      <4> QED BY <3>1, <3>3, <4>1
    <3>6. s = y
      BY <3>2, <3>4 DEF lo, hi
    <3> HIDE DEF s
    <3> QED BY <3>5, <3>6
  <2> HIDE DEF s
  <2>8. /\ s[1].name = "local-3b" /\ s[2].name = "local-8b" /\ s[3].name = "local-gpu"
        /\ s[4].name = "haiku" /\ s[5].name = "sonnet" /\ s[6].name = "opus"
        /\ s[1].backend = "local" /\ s[2].backend = "local" /\ s[3].backend = "local"
        /\ s[4].backend = "anthropic" /\ s[5].backend = "anthropic"
        /\ s[6].backend = "anthropic"
    BY <2>7, DefaultClimbs DEF Local, Anthropic, d, g
  <2>9. \A k \in 1..6 : k = 1 \/ k = 2 \/ k = 3 \/ k = 4 \/ k = 5 \/ k = 6
    OBVIOUS
  <2>10. DOMAIN s = 1..6
    BY <2>7
  <2>11. Climbs(s)
    <3> SUFFICES ASSUME NEW j \in 1..6, NEW k \in 1..6, j < k
                 PROVE  /\ Rank(s[j].name) < Rank(s[k].name)
                        /\ s[j].backend = "anthropic" => s[k].backend = "anthropic"
      BY <2>7, <2>10 DEF Climbs
    <3> QED BY <2>8, <2>9, RanksAre
  <2>12. Names(s) = Rungs
    <3>1. Names(s) = {s[k].name : k \in 1..6}
      BY <2>10 DEF Names
    <3> QED BY <3>1, <2>8, <2>9, RungsAre
  <2> QED BY <1>2, <2>2, <2>11, <2>12
<1> QED BY <1>1, <1>2

(* Cut off at a rung, it keeps the rungs up to it. *)
LEMMA CappedClimbs ==
  ASSUME NEW s, Climbs(s), NEW cap
  PROVE  /\ Climbs(Capped(s, cap))
         /\ Names(Capped(s, cap)) =
              {r \in Names(s) : cap \in Names(s) => Rank(r) <= Rank(cap)}
<1>1. CASE cap \notin Names(s)
  BY <1>1 DEF Capped
<1>2. CASE cap \in Names(s)
  <2>1. s \in Seq(Rung) /\ DOMAIN s = 1..Len(s)
    BY DEF Climbs
  <2> DEFINE K == {k \in DOMAIN s : s[k].name = cap}
             m == Min(K)
  <2>2. K # {}
    BY <1>2 DEF Names
  <2>3. \A j, k \in K : j = k
    <3>1. \A k \in K : Rank(s[k].name) = Rank(cap)
      OBVIOUS
    <3>2. \A k \in DOMAIN s : Rank(s[k].name) \in 1..6
      <4>1. \A k \in DOMAIN s : s[k].name \in Rungs
        <5>1. \A k \in DOMAIN s : s[k] \in Rung
          BY <2>1
        <5> QED BY <5>1 DEF Rung
      <4> QED BY <4>1, RungsAre, RanksAre
    <3>3. \A j, k \in DOMAIN s : j < k => Rank(s[j].name) < Rank(s[k].name)
      BY DEF Climbs
    <3>4. \A k \in K : k \in DOMAIN s /\ k \in Int
      BY <2>1
    <3> HIDE DEF K
    <3>5. \A j, k \in K : ~(j < k)
      <4> SUFFICES ASSUME NEW j \in K, NEW k \in K, j < k PROVE FALSE
        OBVIOUS
      <4>1. Rank(s[j].name) < Rank(s[k].name) /\ Rank(s[j].name) = Rank(s[k].name)
              /\ Rank(s[j].name) \in 1..6
        BY <3>1, <3>2, <3>3, <3>4
      <4> QED BY <4>1
    <3> QED BY <3>4, <3>5
  <2>4. m \in K
    <3>1. \A k \in K : k \in Int
      BY <2>1
    <3> HIDE DEF K, m
    <3>2. \E x \in K : \A y \in K : x =< y
      BY <2>2, <2>3, <3>1
    <3>3. Min(K) \in K
      BY <3>2, Zenon DEF Min
    <3> QED BY <3>3 DEF m
  <2>5. Capped(s, cap) = SubSeq(s, 1, m)
    BY <1>2 DEF Capped
  <2>6. m \in 1..Len(s) /\ s[m].name = cap
    BY <2>1, <2>4
  <2> HIDE DEF m, K
  <2>7. PICK c : c = SubSeq(s, 1, m)
    OBVIOUS
  <2>8. c \in Seq(Rung) /\ DOMAIN c = 1..m /\ \A k \in 1..m : c[k] = s[k]
    BY <2>1, <2>6, <2>7
  <2>9. 1..m \subseteq DOMAIN s
    BY <2>1, <2>6
  <2>10. Climbs(c)
    BY <2>8, <2>9 DEF Climbs
  <2>11. \A k \in DOMAIN s : Rank(s[k].name) <= Rank(cap) <=> k \in 1..m
    <3>1. \A k \in DOMAIN s : Rank(s[k].name) \in 1..6
      <4>1. \A k \in DOMAIN s : s[k].name \in Rungs
        <5>1. \A k \in DOMAIN s : s[k] \in Rung
          BY <2>1
        <5> QED BY <5>1 DEF Rung
      <4> QED BY <4>1, RungsAre, RanksAre
    <3>2. \A j, k \in DOMAIN s : j < k => Rank(s[j].name) < Rank(s[k].name)
      BY DEF Climbs
    <3> SUFFICES ASSUME NEW k \in DOMAIN s
                 PROVE  Rank(s[k].name) <= Rank(s[m].name) <=> k \in 1..m
      BY <2>6
    <3>3. m \in DOMAIN s /\ k \in Nat /\ k >= 1 /\ m \in Nat
      BY <2>1, <2>6
    <3>4. (k < m => Rank(s[k].name) < Rank(s[m].name))
            /\ (m < k => Rank(s[m].name) < Rank(s[k].name))
            /\ Rank(s[m].name) \in 1..6 /\ Rank(s[k].name) \in 1..6
      BY <3>1, <3>2, <3>3
    <3>5. k = m => Rank(s[k].name) = Rank(s[m].name)
      OBVIOUS
    <3>6. PICK x, y : x = Rank(s[k].name) /\ y = Rank(s[m].name)
      OBVIOUS
    <3> QED BY <3>3, <3>4, <3>5, <3>6
  <2>12. Names(c) = {r \in Names(s) : Rank(r) <= Rank(cap)}
    <3>1. Names(c) = {s[k].name : k \in 1..m}
      BY <2>8 DEF Names
    <3>2. Names(s) = {s[k].name : k \in DOMAIN s}
      BY DEF Names
    <3> QED BY <3>1, <3>2, <2>9, <2>11
  <2> QED BY <1>2, <2>5, <2>7, <2>10, <2>12
<1> QED BY <1>1, <1>2

(* A set of naturals that has 0 and what follows its members is all of     *)
(* them.                                                                   *)
LEMMA Induction ==
  ASSUME NEW S \in SUBSET Nat, 0 \in S, \A n \in S : n + 1 \in S
  PROVE  S = Nat
<1> DEFINE R == StrictSubsetOrdering(Nat)
           Lacks == Nat \ S
           Below == {0..n : n \in Lacks}
<1> SUFFICES ASSUME Lacks # {} PROVE FALSE
  OBVIOUS
<1>1. IsWellFoundedOn(R, FiniteSubsetsOf(Nat))
  BY FS_StrictSubsetOrderingWellFounded
<1>2. Below \subseteq FiniteSubsetsOf(Nat) /\ Below # {}
  <2>1. \A n \in Nat : IsFiniteSet(0..n) /\ 0..n \subseteq Nat
    BY FS_Interval
  <2> QED BY <2>1 DEF FiniteSubsetsOf
<1> HIDE DEF R
<1>3. PICK X \in Below : \A Y \in Below : ~(<<Y, X>> \in R)
  BY <1>1, <1>2, WFMin
<1>4. PICK n \in Lacks : X = 0..n
  BY <1>3
<1>5. n - 1 \in Lacks
  <2>1. n \in Nat /\ n # 0
    BY <1>4
  <2>2. n - 1 \in Nat /\ (n - 1) + 1 = n
    BY <2>1
  <2> QED BY <1>4, <2>2
<1>6. /\ 0..(n - 1) \subseteq 0..n /\ n \in 0..n
      /\ n \notin 0..(n - 1) /\ 0..(n - 1) \in SUBSET Nat
  BY <1>4
<1>7. <<0..(n - 1), 0..n>> \in R
  BY <1>4, <1>6 DEF R, StrictSubsetOrdering
<1> QED BY <1>3, <1>4, <1>5, <1>7

(* What Without goes through on its way. *)
Retained(f, s, skip, m) ==
  f = [k \in 0..m |->
         IF k = 0 THEN <<>>
         ELSE IF s[k].name \in skip THEN f[k - 1] ELSE Append(f[k - 1], s[k])]

(* There is such a function: it is built a position at a time. *)
LEMMA RetainedExists ==
  ASSUME NEW s, NEW skip, NEW m \in Nat
  PROVE  \E f : Retained(f, s, skip, m)
<1> DEFINE Good == {n \in Nat : \E f : Retained(f, s, skip, n)}
<1>1. 0 \in Good
  <2>1. Retained([n \in 0..0 |-> <<>>], s, skip, 0)
    BY DEF Retained
  <2> QED BY <2>1
<1>2. ASSUME NEW k \in Good PROVE k + 1 \in Good
  <2>1. PICK f : Retained(f, s, skip, k)
    OBVIOUS
  <2> DEFINE g == [n \in 0..(k + 1) |->
                     IF n = k + 1
                     THEN IF s[n].name \in skip THEN f[k] ELSE Append(f[k], s[n])
                     ELSE f[n]]
  <2>2. /\ \A n \in 0..k : g[n] = f[n]
        /\ g[k + 1] = IF s[k + 1].name \in skip THEN f[k] ELSE Append(f[k], s[k + 1])
    OBVIOUS
  <2>3. \A n \in 0..k : n # 0 => n - 1 \in 0..k
    OBVIOUS
  <2>4. \A n \in 0..k : f[n] = IF n = 0 THEN <<>>
                               ELSE IF s[n].name \in skip THEN f[n - 1]
                               ELSE Append(f[n - 1], s[n])
    BY <2>1 DEF Retained
  <2>5. \A n \in 0..k + 1 : g[n] = IF n = 0 THEN <<>>
                                   ELSE IF s[n].name \in skip THEN g[n - 1]
                                   ELSE Append(g[n - 1], s[n])
    <3> TAKE n \in 0..k + 1
    <3>1. CASE n = k + 1
      <4>1. n - 1 = k /\ k \in 0..k /\ n # 0
        BY <3>1
      <4> HIDE DEF g
      <4> QED BY <2>2, <3>1, <4>1
    <3>2. CASE n # k + 1
      <4>1. n \in 0..k
        BY <3>2
      <4> HIDE DEF g
      <4> QED BY <2>2, <2>3, <2>4, <4>1
    <3> QED BY <3>1, <3>2
  <2>6. g = [n \in 0..k + 1 |-> g[n]]
    OBVIOUS
  <2> HIDE DEF g
  <2>7. Retained(g, s, skip, k + 1)
    BY <2>5, <2>6 DEF Retained
  <2> QED BY <2>7
<1> HIDE DEF Good
<1>3. Good = Nat
  <2>1. Good \in SUBSET Nat
    BY DEF Good
  <2> QED BY <1>1, <1>2, <2>1, Induction
<1> QED BY <1>3 DEF Good

(* c keeps of the first n rungs of s those that are not skipped, in order. *)
KeepsOf(c, s, skip, n) ==
  /\ c \in Seq(Rung)
  /\ \A k \in 1..n : s[k].name \notin skip => \E j \in DOMAIN c : c[j] = s[k]
  /\ \A j \in DOMAIN c : \E k \in 1..n : c[j] = s[k] /\ s[k].name \notin skip
  /\ \A j, k \in DOMAIN c : j < k => \E a, b \in 1..n : a < b /\ c[j] = s[a] /\ c[k] = s[b]

(* Exclusions take rungs away and leave the others in order.               *)
LEMMA WithoutKeeps ==
  ASSUME NEW s \in Seq(Rung), NEW skip
  PROVE  KeepsOf(Without(s, skip), s, skip, Len(s))
<1> DEFINE kept == CHOOSE f : f = [k \in 0..Len(s) |->
                     IF k = 0 THEN <<>>
                     ELSE IF s[k].name \in skip THEN f[k - 1] ELSE Append(f[k - 1], s[k])]
           Good == {n \in Nat : n <= Len(s) => KeepsOf(kept[n], s, skip, n)}
<1>1. Retained(kept, s, skip, Len(s))
  <2>1. \E f : f = [k \in 0..Len(s) |->
                     IF k = 0 THEN <<>>
                     ELSE IF s[k].name \in skip THEN f[k - 1] ELSE Append(f[k - 1], s[k])]
    <3>1. Len(s) \in Nat
      OBVIOUS
    <3>2. PICK f : Retained(f, s, skip, Len(s))
      BY <3>1, RetainedExists
    <3> QED BY <3>2, Zenon DEF Retained
  <2>2. kept = [k \in 0..Len(s) |->
                  IF k = 0 THEN <<>>
                  ELSE IF s[k].name \in skip THEN kept[k - 1] ELSE Append(kept[k - 1], s[k])]
    BY <2>1, Zenon
  <2> HIDE DEF kept
  <2> QED BY <2>2, Zenon DEF Retained
<1>2. Without(s, skip) = kept[Len(s)]
  BY Zenon DEF Without
<1> HIDE DEF kept
<1>3. \A n \in 0..Len(s) :
        kept[n] = IF n = 0 THEN <<>>
                  ELSE IF s[n].name \in skip THEN kept[n - 1] ELSE Append(kept[n - 1], s[n])
  BY <1>1 DEF Retained
<1>4. 0 \in Good
  <2>1. kept[0] = <<>>
    BY <1>3
  <2>2. KeepsOf(<<>>, s, skip, 0)
    <3>1. <<>> \in Seq(Rung) /\ DOMAIN <<>> = {} /\ 1..0 = {}
      OBVIOUS
    <3> QED BY <3>1 DEF KeepsOf
  <2> QED BY <2>1, <2>2, Zenon
<1>5. ASSUME NEW k \in Good PROVE k + 1 \in Good
  <2> SUFFICES ASSUME k + 1 <= Len(s) PROVE KeepsOf(kept[k + 1], s, skip, k + 1)
    OBVIOUS
  <2>1. k \in Nat /\ KeepsOf(kept[k], s, skip, k) /\ k + 1 \in 1..Len(s) /\ (k + 1) - 1 = k
    OBVIOUS
  <2>2. kept[k + 1] = IF s[k + 1].name \in skip THEN kept[k] ELSE Append(kept[k], s[k + 1])
    BY <1>3, <2>1
  <2>3. PICK c, d, w : c = kept[k] /\ d = kept[k + 1] /\ w = s[k + 1]
    OBVIOUS
  <2>4. 1..k + 1 = 1..k \cup {k + 1} /\ \A a \in 1..k : a < k + 1
    BY <2>1
  <2>5. KeepsOf(c, s, skip, k)
    BY <2>1, <2>3
  <2>6. CASE w.name \in skip
    <3>1. d = c
      BY <2>2, <2>3, <2>6
    <3> QED BY <2>3, <2>4, <2>5, <2>6, <3>1 DEF KeepsOf
  <2>7. CASE w.name \notin skip
    <3>1. c \in Seq(Rung) /\ w \in Rung
      <4>1. k + 1 \in DOMAIN s
        BY <2>1
      <4> QED BY <2>3, <2>5, <4>1 DEF KeepsOf
    <3>2. d = Append(c, w)
      BY <2>2, <2>3, <2>7
    <3>3. PICK m \in Nat : m = Len(c)
      BY <3>1
    <3>4. /\ d \in Seq(Rung) /\ d[m + 1] = w /\ DOMAIN c = 1..m
          /\ DOMAIN d = DOMAIN c \cup {m + 1} /\ \A j \in DOMAIN c : d[j] = c[j]
      BY <3>1, <3>2, <3>3
    <3>5. \A j \in DOMAIN c : j \in 1..m /\ j < m + 1 /\ ~(m + 1 < j) /\ j # m + 1
      BY <3>3, <3>4
    <3>6. ~(m + 1 < m + 1)
      OBVIOUS
    <3>7. /\ \A i \in 1..k : s[i].name \notin skip => \E j \in DOMAIN c : c[j] = s[i]
          /\ \A j \in DOMAIN c : \E i \in 1..k : c[j] = s[i] /\ s[i].name \notin skip
          /\ \A i, j \in DOMAIN c : i < j =>
               \E a, b \in 1..k : a < b /\ c[i] = s[a] /\ c[j] = s[b]
      BY <2>5 DEF KeepsOf
    <3>8. \A i \in 1..k + 1 : s[i].name \notin skip => \E j \in DOMAIN d : d[j] = s[i]
      <4> SUFFICES ASSUME NEW i \in 1..k + 1, s[i].name \notin skip
                   PROVE  \E j \in DOMAIN d : d[j] = s[i]
        OBVIOUS
      <4>1. CASE i \in 1..k
        <5>1. PICK j \in DOMAIN c : c[j] = s[i]
          BY <3>7, <4>1
        <5> QED BY <3>4, <5>1
      <4>2. CASE i = k + 1
        BY <2>3, <3>4, <4>2
      <4> QED BY <2>4, <4>1, <4>2
    <3>9. \A j \in DOMAIN d : \E i \in 1..k + 1 : d[j] = s[i] /\ s[i].name \notin skip
      BY <2>3, <2>4, <2>7, <3>4, <3>7
    <3>10. ASSUME NEW i \in DOMAIN d, NEW j \in DOMAIN d, i < j
           PROVE  \E a, b \in 1..k + 1 : a < b /\ d[i] = s[a] /\ d[j] = s[b]
      <4>1. i \in DOMAIN c
        BY <3>4, <3>5, <3>6, <3>10
      <4>2. CASE j \in DOMAIN c
        <5>1. PICK a \in 1..k, b \in 1..k : a < b /\ c[i] = s[a] /\ c[j] = s[b]
          BY <3>7, <3>10, <4>1, <4>2
        <5> QED BY <2>4, <3>4, <4>1, <4>2, <5>1
      <4>3. CASE j = m + 1
        <5>1. PICK a \in 1..k : c[i] = s[a]
          BY <3>7, <4>1
        <5>2. a \in 1..k + 1 /\ k + 1 \in 1..k + 1 /\ a < k + 1
          BY <2>1, <2>4
        <5> QED BY <2>3, <3>4, <4>1, <4>3, <5>1, <5>2
      <4> QED BY <3>4, <4>2, <4>3
    <3> QED BY <2>3, <3>4, <3>8, <3>9, <3>10 DEF KeepsOf
  <2> QED BY <2>6, <2>7
<1> HIDE DEF Good
<1>6. Good = Nat
  <2>1. Good \in SUBSET Nat
    BY DEF Good
  <2> QED BY <1>4, <1>5, <2>1, Induction
<1> QED BY <1>2, <1>6 DEF Good

(* Without the rungs that are skipped, it is climbed in the same order. *)
LEMMA WithoutClimbs ==
  ASSUME NEW s, Climbs(s), NEW skip
  PROVE  /\ Climbs(Without(s, skip))
         /\ Names(Without(s, skip)) = {r \in Names(s) : r \notin skip}
<1>1. s \in Seq(Rung) /\ DOMAIN s = 1..Len(s)
  BY DEF Climbs
<1>2. PICK c : c = Without(s, skip)
  OBVIOUS
<1>3. KeepsOf(c, s, skip, Len(s))
  BY <1>1, <1>2, WithoutKeeps
<1>4. Climbs(c)
  <2> SUFFICES ASSUME NEW j \in DOMAIN c, NEW k \in DOMAIN c, j < k
               PROVE  /\ Rank(c[j].name) < Rank(c[k].name)
                      /\ c[j].backend = "anthropic" => c[k].backend = "anthropic"
    BY <1>3 DEF Climbs, KeepsOf
  <2>1. PICK a \in DOMAIN s, b \in DOMAIN s : a < b /\ c[j] = s[a] /\ c[k] = s[b]
    <3>1. \E a, b \in 1..Len(s) : a < b /\ c[j] = s[a] /\ c[k] = s[b]
      BY <1>3 DEF KeepsOf
    <3> QED BY <1>1, <3>1
  <2> QED BY <2>1 DEF Climbs
<1>5. Names(c) = {r \in Names(s) : r \notin skip}
  <2>1. /\ \A k \in DOMAIN s : s[k].name \notin skip => \E j \in DOMAIN c : c[j] = s[k]
        /\ \A j \in DOMAIN c : \E k \in DOMAIN s : c[j] = s[k] /\ s[k].name \notin skip
    BY <1>1, <1>3 DEF KeepsOf
  <2>2. ASSUME NEW r \in Names(c) PROVE r \in Names(s) /\ r \notin skip
    BY <2>1 DEF Names
  <2>3. ASSUME NEW r \in Names(s), r \notin skip PROVE r \in Names(c)
    BY <2>1, <2>3 DEF Names
  <2> QED BY <2>2, <2>3
<1> QED BY <1>2, <1>4, <1>5

(* Whatever it is cut off at and without, it is the ladder that is wanted. *)
LEMMA EveryLadderIsUsable ==
  ASSUME NEW gpu \in BOOLEAN, NEW environment
  PROVE  Usable(CappedLadder(gpu, environment), gpu, environment)
<1>1. PICK s, c, u : /\ s = WithGpu(gpu) /\ c = Capped(s, environment.cap)
                     /\ u = Without(c, environment.skip)
  OBVIOUS
<1>2. Climbs(s) /\ Names(s) = {r \in Rungs : r = "local-gpu" => gpu}
  BY <1>1, LadderClimbs
<1>3. /\ Climbs(c)
      /\ Names(c) = {r \in Names(s) :
                       environment.cap \in Names(s) => Rank(r) <= Rank(environment.cap)}
  BY <1>1, <1>2, CappedClimbs
<1>4. Climbs(u) /\ Names(u) = {r \in Names(c) : r \notin environment.skip}
  BY <1>1, <1>3, WithoutClimbs
<1>5. CappedLadder(gpu, environment) = u
  BY <1>1 DEF CappedLadder
<1>6. Names(u) = Wanted(gpu, environment)
  BY <1>1, <1>2, <1>3, <1>4 DEF Wanted, Rungs
<1>7. \A j, k \in DOMAIN u : j < k => Rank(u[j].name) < Rank(u[k].name)
  BY <1>4 DEF Climbs
<1>8. ASSUME NEW j \in DOMAIN u, NEW k \in DOMAIN u, j \in CloudRungs(u), k >= j
      PROVE  k \in CloudRungs(u)
  <2>1. u[j].backend = "anthropic" /\ j \in Nat /\ k \in Nat
    BY <1>4, <1>8 DEF CloudRungs, Climbs
  <2>2. k = j \/ j < k
    BY <1>8, <2>1
  <2> QED BY <1>4, <1>8, <2>1, <2>2 DEF CloudRungs, Climbs
<1> QED BY <1>5, <1>6, <1>7, <1>8 DEF Usable

(* The invariants have the property in them.                               *)
LEMMA UsableOnceTyped ==
  ASSUME FileInv, ValidOnce
  PROVE  FileIsUsable
<1>1. FileTypeOK
  <2>1. \A i \in Inode : data[i] \in Content
    BY DEF FileInv, FileTypes
  <2>2. \A i \in Inode : data[i].is \in {"whole", "torn"} /\ data[i].text \in Text
    BY <2>1 DEF Content
  <2>3. \A p \in Processes :
          /\ writer[p].at \in Saving \cup (IF p = Daemon THEN {"idle", "ready", "turn"}
                                                         ELSE {"idle"})
          /\ writer[p].cfg \in IF p = Daemon THEN BrainConfig ELSE Text
          /\ writer[p].open \in Inode \cup {NoFile}
    <3> TAKE p \in Processes
    <3>1. writer[p] \in Writer /\ writer[p].cfg \in Text /\ (p = Daemon => writer[p].cfg \in BrainConfig)
      BY SmallFacts DEF FileInv
    <3>2. p # Daemon => writer[p].at \notin {"ready", "turn"}
      BY SmallFacts DEF FileInv, FileTypes
    <3> QED BY <3>1, <3>2 DEF Writer
  <2>4. \A k \in DOMAIN events : events[k] \in Event
    <3>1. events \in Seq(Event)
      BY DEF FileInv, FileTypes
    <3> QED BY <3>1, ElementOfSeq
  <2>5. \A k \in DOMAIN events :
          /\ events[k].what \in {"found", "changed", "started", "taken", "persisted", "unsaved"}
          /\ events[k].text \in Text \cup {NoFile}
    BY <2>4 DEF Event
  <2> QED BY <2>2, <2>3, <2>5 DEF FileTypeOK, FileInv, FileTypes
<1>2. FileIsWhole
  BY DEF FileIsWhole, FileInv, SavesAreOnRecord, ValidOnce, AllValid, Loads
<1>3. LaddersAreUsable
  <2>1. (writer[Daemon].cfg.gpu # Unset) \in BOOLEAN
    OBVIOUS
  <2> QED BY <2>1, EveryLadderIsUsable DEF LaddersAreUsable
<1> QED BY <1>1, <1>2, <1>3 DEF FileIsUsable

(* Whoever saved last and however the others were cut off, brain.toml is   *)
(* whole and holds the last text on record; one that a daemon could start  *)
(* on once it can start on for good, and whatever its environment, a       *)
(* daemon that starts climbs the rungs it was left with, the cheaper       *)
(* first.  (FileIsUsable; save_to_file, load_from_file, capped_ladder)     *)
THEOREM FilesAreUsable == FileSpec => []FileIsUsable
<1>1. FileInit => ValidOnce
  <2> SUFFICES ASSUME FileInit PROVE ValidOnce
    OBVIOUS
  <2>1. \A p \in Processes : writer[p].at = "idle"
    BY FileInitially DEF Idle
  <2>2. FileAfter(1) = Raw
    BY FileInitially
  <2> QED BY <2>1, <2>2 DEF ValidOnce, AllValid
<1>2. FileInv /\ FileInv' /\ ValidOnce /\ [FileNext]_fileVars => ValidOnce'
  BY ValidStep DEF FileInv
<1>3. FileInv /\ ValidOnce => FileIsUsable
  BY UsableOnceTyped
<1> QED BY <1>1, <1>2, <1>3, FileInvariant, PTL DEF FileSpec
=============================================================================
