----------------------------- MODULE BrainProofs -----------------------------
(***************************************************************************)
(* What the cache may hold and serve, what a repeat repeats, what          *)
(* write-back is given, and what a model is told and shown of the          *)
(* conversation, for every cache, likeness, configuration, memory and      *)
(* budget and any number of turns and of processes.                        *)
(***************************************************************************)
EXTENDS Brain, FiniteSetTheorems, TLAPS

(* A set of naturals has a least element: sets of what is below shrink.    *)
LEMMA LeastNat ==
  ASSUME NEW S \in SUBSET Nat, S # {}
  PROVE  \E n \in S : \A m \in S : n <= m
<1> DEFINE R == StrictSubsetOrdering(Nat)
           Below == {0..n : n \in S}
<1>1. IsWellFoundedOn(R, FiniteSubsetsOf(Nat))
  BY FS_StrictSubsetOrderingWellFounded
<1>2. Below \subseteq FiniteSubsetsOf(Nat) /\ Below # {}
  <2>1. \A n \in Nat : IsFiniteSet(0..n) /\ 0..n \subseteq Nat
    BY FS_Interval
  <2> QED BY <2>1 DEF FiniteSubsetsOf
<1> HIDE DEF R
<1>3. PICK X \in Below : \A Y \in Below : ~(<<Y, X>> \in R)
  BY <1>1, <1>2, WFMin
<1>4. PICK n \in S : X = 0..n
  BY <1>3
<1>5. \A m \in S : ~(m < n)
  <2> SUFFICES ASSUME NEW m \in S, m < n PROVE FALSE
    OBVIOUS
  <2>1. 0..m \subseteq 0..n /\ n \in 0..n /\ n \notin 0..m /\ 0..m \in SUBSET Nat
    OBVIOUS
  <2>2. <<0..m, 0..n>> \in R
    BY <2>1 DEF R, StrictSubsetOrdering
  <2> QED BY <2>2, <1>3, <1>4
<1> QED BY <1>5

(* A table with entries has an oldest one.                                 *)
LEMMA OldestExists ==
  ASSUME NEW C \in SUBSET Entry, C # {}
  PROVE  Oldest(C) # {}
<1>0. \A e \in C : e.ts \in Nat /\ e.id \in Nat
  <2> TAKE e \in C
  <2>1. Stamps \subseteq Nat /\ MaxTurns \in Nat
    BY BrainAssumption
  <2>2. e.ts \in Stamps /\ e.id \in 1..MaxTurns
    BY DEF Entry
  <2>3. e.id \in Nat
    BY <2>1, <2>2
  <2>4. e.ts \in Nat
    BY <2>1, <2>2, Zenon
  <2> QED BY <2>3, <2>4
<1>1. {e.ts : e \in C} \in SUBSET Nat /\ {e.ts : e \in C} # {}
  BY <1>0
<1>2. PICK t \in {e.ts : e \in C} : \A s \in {e.ts : e \in C} : t <= s
  BY <1>1, LeastNat
<1> DEFINE Firsts == {e \in C : e.ts = t}
<1>3. {e.id : e \in Firsts} \in SUBSET Nat /\ {e.id : e \in Firsts} # {}
  BY <1>0, <1>2
<1>4. PICK i \in {e.id : e \in Firsts} : \A j \in {e.id : e \in Firsts} : i <= j
  BY <1>3, LeastNat
<1>5. PICK e \in Firsts : e.id = i
  BY <1>4
<1>6. \A f \in C : e.ts < f.ts \/ (e.ts = f.ts /\ e.id <= f.id)
  <2> TAKE f \in C
  <2>1. t <= f.ts /\ (t = f.ts => e.id <= f.id)
    BY <1>0, <1>2, <1>4, <1>5
  <2> QED BY <2>1, <1>0, <1>2, <1>5
<1> QED BY <1>5, <1>6 DEF Oldest

(* What is left by an eviction is below the bound, or one entry fewer.     *)
LEMMA EvictedFacts ==
  ASSUME NEW C \in SUBSET Entry, IsFiniteSet(C), NEW max \in Nat
  PROVE  /\ Evicted(C, max) \subseteq C /\ IsFiniteSet(Evicted(C, max))
         /\ Cardinality(C) \in Nat /\ Cardinality(Evicted(C, max)) \in Nat
         /\ Cardinality(Evicted(C, max)) <= Cardinality(C)
         /\ Cardinality(Evicted(C, max)) >= max =>
              Cardinality(Evicted(C, max)) < Cardinality(C) \/ Cardinality(C) = 0
<1>1. Evicted(C, max) \in SUBSET C
  BY DEF Evicted
<1>2. /\ IsFiniteSet(Evicted(C, max)) /\ Cardinality(Evicted(C, max)) <= Cardinality(C)
      /\ Cardinality(C) = Cardinality(Evicted(C, max)) => C = Evicted(C, max)
  BY <1>1, FS_Subset
<1>3. Cardinality(C) \in Nat /\ Cardinality(Evicted(C, max)) \in Nat
  BY <1>2, FS_CardinalityType
<1>4. CASE Cardinality(C) >= max /\ C # {}
  <2>1. Evicted(C, max) # C
    BY <1>4, OldestExists DEF Evicted, Oldest
  <2> QED BY <2>1, <1>1, <1>2, <1>3
<1>5. CASE ~(Cardinality(C) >= max)
  BY <1>5, <1>1, <1>2, <1>3 DEF Evicted
<1>6. CASE C = {}
  BY <1>6, <1>1, <1>2, <1>3, FS_EmptySet
<1> QED BY <1>4, <1>5, <1>6

(* A hit changes the age of one entry and not their number.                *)
LEMMA BumpedFacts ==
  ASSUME NEW C \in SUBSET Entry, IsFiniteSet(C), NEW e \in C, NEW n \in Stamps
  PROVE  /\ Bumped(C, e, n) \subseteq Entry /\ IsFiniteSet(Bumped(C, e, n))
         /\ Cardinality(Bumped(C, e, n)) <= Cardinality(C)
         /\ Cardinality(C) \in Nat /\ Cardinality(Bumped(C, e, n)) \in Nat
<1> DEFINE younger == [e EXCEPT !.ts = n]
<1>1. younger \in Entry
  BY DEF Entry
<1>2. IsFiniteSet(C \ {e}) /\ Cardinality(C \ {e}) = Cardinality(C) - 1
  BY FS_RemoveElement
<1>3. /\ IsFiniteSet((C \ {e}) \cup {younger})
      /\ Cardinality((C \ {e}) \cup {younger})
           = IF younger \in C \ {e} THEN Cardinality(C \ {e}) ELSE Cardinality(C \ {e}) + 1
  BY <1>2, FS_AddElement
<1>4. Cardinality(C) \in Nat /\ Cardinality(C \ {e}) \in Nat
  BY <1>2, FS_CardinalityType
<1> QED BY <1>1, <1>2, <1>3, <1>4 DEF Bumped

-----------------------------------------------------------------------------
Within(n) == n <= 1 \/ \E c \in Configs : n <= c.entries
Free(n) == n = 0 \/ \E c \in Configs : n < c.entries

(* Types, and what they rest on: the bound of a process is that of its     *)
(* configuration, there is room before an insert, and a turn in hand has a *)
(* number.                                                                 *)
BrainTypes ==
  /\ TypeOK /\ IsFiniteSet(cache)
  /\ \E c \in Configs : config.entries = c.entries
  /\ phase = "inserting" => Free(Cardinality(cache))
  /\ phase # "idle" => turn \in 1..MaxTurns

(* What may be said is of its type.                                        *)
LEMMA TextFacts ==
  ASSUME BrainTypes
  PROVE  /\ Phrase \in Text /\ Nothing \in Text
         /\ \A as \in Offers \cup {"model"}, terms \in SUBSET Term : Made(as, terms) \in Text
BY BrainAssumption DEF BrainTypes, TypeOK, Text, Phrase, Nothing, Fixed, Made, Offers

(* Topics exist, so that a turn not yet in hand is of its type.            *)
LEMMA NobodyFacts == Nobody \in Hand
<1>1. (CHOOSE t \in Topic : TRUE) \in Topic
  BY BrainAssumption
<1>2. Phrase \in Text
  BY BrainAssumption DEF Phrase, Fixed, Text
<1> QED BY <1>1, <1>2 DEF Nobody, Hand, Transcript, Kinds

(* Pushing keeps the ring within its size, with what is kept of the reply  *)
(* as its last.                                                            *)
LEMMA PushFacts ==
  ASSUME BrainTypes, NEW reply \in Text, Push(reply)
  PROVE  /\ history' \in Seq([user : Nat, reply : Text]) /\ Len(history') <= HistoryTurns
         /\ history' # <<>> /\ history'[Len(history')].reply = Kept(reply)
<1> USE BrainAssumption
<1> DEFINE Pairs == [user : Nat, reply : Text]
<1>1. /\ history \in Seq(Pairs) /\ Len(history) \in Nat /\ Len(history) <= HistoryTurns
      /\ HistoryTurns \in Nat \ {0}
  BY DEF BrainTypes, TypeOK
<1>2. Pair(reply) \in Pairs /\ Pair(reply).reply = Kept(reply)
  <2>1. Kept(reply) \in Text
    BY TextFacts DEF Kept
  <2>2. now.said.topic \in Topic
    BY DEF BrainTypes, TypeOK, Hand, Transcript
  <2> QED BY <2>1, <2>2 DEF Pair
<1> DEFINE kept == IF Len(history) = HistoryTurns THEN Tail(history) ELSE history
<1>3. kept \in Seq(Pairs) /\ Len(kept) \in Nat /\ Len(kept) < HistoryTurns
  BY <1>1
<1>4. history' = Append(kept, Pair(reply))
  BY DEF Push
<1> HIDE DEF kept, Pairs
<1>5. /\ Append(kept, Pair(reply)) \in Seq(Pairs)
      /\ Len(Append(kept, Pair(reply))) = Len(kept) + 1
      /\ Append(kept, Pair(reply))[Len(kept) + 1] = Pair(reply)
  BY <1>2, <1>3
<1> QED BY <1>1, <1>2, <1>3, <1>4, <1>5 DEF Pairs
-----------------------------------------------------------------------------
(* A process starts with an empty table and nothing in hand.               *)
LEMMA BrainTypesInitially == Init => BrainTypes
<1> SUFFICES ASSUME Init PROVE BrainTypes
  OBVIOUS
<1> USE BrainAssumption DEF Init
<1>1. IsFiniteSet(cache) /\ Cardinality(cache) = 0
  BY FS_EmptySet
<1>2. now \in Hand
  BY NobodyFacts
<1>3. Phrase \in Text
  BY DEF Phrase, Fixed, Text
<1>4. config \in Configs /\ config \in Config
  OBVIOUS
<1>5. /\ probe \in {"none", "asleep", "passed", "failed", "garbled", "dead"}
      /\ checked \in {"never", "passed", "failed"}
  BY DEF Probed
<1>6. history \in Seq([user : Nat, reply : Text]) /\ Len(history) <= HistoryTurns
  OBVIOUS
<1>7. said \in [kind : Kinds \cup {"none"}, timely : BOOLEAN, reply : Text]
  BY <1>3 DEF Silence
<1> QED BY <1>1, <1>2, <1>3, <1>4, <1>5, <1>6, <1>7 DEF BrainTypes, TypeOK

(* Saying something leaves what was said and heard of their types.         *)
LEMMA SayFacts ==
  ASSUME BrainTypes, NEW kind \in Kinds, NEW reply \in Text, Say(kind, reply)
  PROVE  /\ said' \in [kind : Kinds \cup {"none"}, timely : BOOLEAN, reply : Text]
         /\ heard' \in Text /\ thought' \in 0..turn
BY BrainAssumption DEF BrainTypes, TypeOK, Say, Hand, Transcript, Offers

(* Each action keeps the types, the bound of the table and the room in it. *)
LEMMA BrainTypesKept == BrainTypes /\ [Next]_vars => BrainTypes'
<1> SUFFICES ASSUME BrainTypes, [Next]_vars PROVE BrainTypes'
  OBVIOUS
<1> USE BrainAssumption
<1>1. ASSUME NEW t \in Transcripts, NEW opens \in BOOLEAN, Arrive(t, opens)
      PROVE  BrainTypes'
  <2>1. now' \in Hand
    <3>1. config.pending \in {"none", "opus"} /\ t \in Transcript
      BY DEF BrainTypes, TypeOK, Config
    <3> QED BY <1>1, <3>1, NobodyFacts DEF Arrive, Hand
  <2>2. config' \in Config /\ config'.entries = config.entries
    BY <1>1 DEF Arrive, BrainTypes, TypeOK, Config
  <2>3. /\ said' \in [kind : Kinds \cup {"none"}, timely : BOOLEAN, reply : Text]
        /\ heard' \in Text
    BY <1>1, TextFacts DEF Arrive, BrainTypes, TypeOK, Silence
  <2>4. history' \in Seq([user : Nat, reply : Text]) /\ Len(history') <= HistoryTurns
    BY <1>1 DEF Arrive, BrainTypes, TypeOK
  <2> QED BY <1>1, <2>1, <2>2, <2>3, <2>4 DEF Arrive, BrainTypes, TypeOK
<1>2. CASE Repeat
  <2>1. (IF history = <<>> THEN Phrase ELSE Last(history).reply) \in Text
    <3> DEFINE Pairs == [user : Nat, reply : Text]
    <3>1. CASE history # <<>>
      <4>1. history \in Seq(Pairs)
        BY DEF BrainTypes, TypeOK
      <4> HIDE DEF Pairs
      <4>2. history[Len(history)] \in Pairs
        BY <3>1, <4>1
      <4> QED BY <3>1, <4>2 DEF Last, Pairs
    <3> QED BY <3>1, TextFacts
  <2>2. "repeat" \in Kinds
    BY DEF Kinds
  <2>3. /\ said' \in [kind : Kinds \cup {"none"}, timely : BOOLEAN, reply : Text]
        /\ heard' \in Text /\ thought' \in 0..turn
    BY <1>2, <2>1, <2>2, SayFacts DEF Repeat
  <2> QED BY <1>2, <2>3, NobodyFacts DEF Repeat, End, process, BrainTypes, TypeOK
<1>3. CASE Routing
  <2>1. now' \in Hand
    BY <1>3 DEF Routing, BrainTypes, TypeOK, Hand, StartTier
  <2> QED BY <1>3, <2>1 DEF Routing, process, aux, BrainTypes, TypeOK
<1>4. ASSUME NEW e \in cache, NEW ts \in Stamps, Hit(e, ts) PROVE BrainTypes'
  <2>1. cache \subseteq Entry /\ turn \in 1..MaxTurns /\ IsFiniteSet(cache)
    BY <1>4 DEF Hit, BrainTypes, TypeOK
  <2>2. /\ cache' \subseteq Entry /\ IsFiniteSet(cache')
        /\ Cardinality(cache') <= Cardinality(cache)
        /\ Cardinality(cache) \in Nat /\ Cardinality(cache') \in Nat
    BY <1>4, <2>1, BumpedFacts DEF Hit
  <2>3. Within(Cardinality(cache'))
    BY <2>2 DEF BrainTypes, TypeOK, Within, Config
  <2>4. now' \in Hand /\ recent' \in 0..MaxTurns /\ stamped' \in Stamps
    <3>1. e.reply \in Text /\ e.id \in 1..MaxTurns
      BY <2>1 DEF Entry
    <3>2. now' = [now EXCEPT !.kind = "cache", !.reply = e.reply] /\ recent' = e.id
          /\ stamped' = ts
      BY <1>4 DEF Hit
    <3>3. "cache" \in Kinds /\ now \in Hand
      BY DEF Kinds, BrainTypes, TypeOK
    <3>4. now' \in Hand
      BY <3>1, <3>2, <3>3 DEF Hand
    <3> QED BY <3>1, <3>2, <3>4
  <2> QED BY <1>4, <2>2, <2>3, <2>4 DEF Hit, process, BrainTypes, TypeOK, Within
<1>5. CASE Miss \/ InsertFails \/ Probe \/ UNCHANGED vars
  <2>1. CASE Miss
    BY <2>1 DEF Miss, vars, process, aux, BrainTypes, TypeOK
  <2>2. CASE InsertFails
    BY <2>2 DEF InsertFails, vars, process, aux, BrainTypes, TypeOK
  <2>3. CASE Probe
    BY <2>3 DEF Probe, Ask, Store, ProbeDies, aux, BrainTypes, TypeOK
  <2>4. CASE UNCHANGED vars
    BY <2>4 DEF vars, process, aux, BrainTypes, TypeOK
  <2> QED BY <1>5, <2>1, <2>2, <2>3, <2>4
<1>6. ASSUME NEW found \in Answers, Think(found)
      PROVE  BrainTypes'
  <2> DEFINE answer == IF found.kind = "canned" THEN Phrase ELSE Made(found.kind, found.terms)
  <2>0. found.kind \in Offers \cup {"model", "canned"} /\ found.terms \in SUBSET Term
    OBVIOUS
  <2>1. answer \in Text /\ Enforced(answer) \subseteq Text
    BY <2>0, TextFacts DEF Enforced
  <2> HIDE DEF answer
  <2>2. PICK reply \in IF found.kind = "model" THEN Enforced(answer) ELSE {answer} :
          now' = [now EXCEPT !.kind = found.kind, !.answer = answer, !.reply = reply]
    BY <1>6, Zenon DEF Think, answer
  <2>3. now' \in Hand
    BY <2>0, <2>1, <2>2 DEF BrainTypes, TypeOK, Hand, Kinds
  <2> QED BY <1>6, <2>3 DEF Think, process, aux, BrainTypes, TypeOK
<1>7. CASE Fail
  BY <1>7, NobodyFacts DEF Fail, End, process, aux, BrainTypes, TypeOK
<1>8. CASE Reply
  <2>1. now.kind \in Kinds /\ now.reply \in Text
    BY DEF BrainTypes, TypeOK, Hand
  <2>2. /\ said' \in [kind : Kinds \cup {"none"}, timely : BOOLEAN, reply : Text]
        /\ heard' \in Text /\ thought' \in 0..turn
    BY <1>8, <2>1, SayFacts DEF Reply
  <2>3. history' \in Seq([user : Nat, reply : Text]) /\ Len(history') <= HistoryTurns
    <3>1. CASE Push(now.reply)
      BY <3>1, <2>1, PushFacts
    <3> QED BY <1>8, <3>1 DEF Reply, BrainTypes, TypeOK
  <2>4. now' \in Hand /\ phase' \in {"idle", "caching", "storing"} /\ recorded' \in 0..turn
    BY <1>8, NobodyFacts DEF Reply, End, BrainTypes, TypeOK
  <2> QED BY <1>8, <2>2, <2>3, <2>4 DEF Reply, process, BrainTypes, TypeOK
<1>9. CASE Evict
  <2>1. PICK c \in Configs : config.entries = c.entries
    BY DEF BrainTypes
  <2>2. config.entries \in Nat /\ \A d \in Configs : d.entries \in Nat
    BY DEF BrainTypes, TypeOK, Config
  <2>3. /\ cache' \subseteq cache /\ IsFiniteSet(cache')
        /\ Cardinality(cache) \in Nat /\ Cardinality(cache') \in Nat
        /\ Cardinality(cache') <= Cardinality(cache)
        /\ Cardinality(cache') >= config.entries =>
             Cardinality(cache') < Cardinality(cache) \/ Cardinality(cache) = 0
    BY <1>9, <2>2, EvictedFacts DEF Evict, BrainTypes, TypeOK
  <2>4. Within(Cardinality(cache))
    BY DEF BrainTypes, TypeOK, Within
  <2>5. Within(Cardinality(cache')) /\ Free(Cardinality(cache'))
    BY <2>1, <2>2, <2>3, <2>4 DEF Within, Free
  <2> QED BY <1>9, <2>3, <2>5 DEF Evict, process, aux, BrainTypes, TypeOK, Within
<1>10. ASSUME NEW ts \in Stamps, Insert(ts) PROVE BrainTypes'
  <2> DEFINE new == [id |-> turn, ts |-> ts, topic |-> now.said.topic, reply |-> now.reply]
  <2>1. new \in Entry /\ turn \in 0..MaxTurns
    BY <1>10 DEF Insert, BrainTypes, TypeOK, Hand, Transcript, Entry
  <2>2. cache' = cache \cup {new}
    BY <1>10 DEF Insert
  <2> HIDE DEF new
  <2>3. /\ IsFiniteSet(cache') /\ Cardinality(cache) \in Nat
        /\ Cardinality(cache') \in {Cardinality(cache), Cardinality(cache) + 1}
    BY <2>2, FS_AddElement, FS_CardinalityType DEF BrainTypes
  <2>4. Free(Cardinality(cache)) /\ \A d \in Configs : d.entries \in Nat
    BY <1>10 DEF Insert, BrainTypes, Config
  <2>5. Within(Cardinality(cache'))
    BY <2>3, <2>4 DEF Within, Free
  <2> QED BY <1>10, <2>1, <2>2, <2>3, <2>5 DEF Insert, process, BrainTypes, TypeOK, Within
<1>11. CASE Remember
  <2>1. history' \in Seq([user : Nat, reply : Text]) /\ Len(history') <= HistoryTurns
    <3>1. now.reply \in Text
      BY DEF BrainTypes, TypeOK, Hand
    <3> QED BY <1>11, <3>1, PushFacts DEF Remember
  <2> QED BY <1>11, <2>1, NobodyFacts DEF Remember, End, process, aux, BrainTypes, TypeOK
<1>12. CASE Restart
  <2>1. config' \in Configs /\ config' \in Config
    BY <1>12 DEF Restart
  <2>2. /\ probe' \in {"none", "asleep", "passed", "failed", "garbled", "dead"}
        /\ checked' \in {"never", "passed", "failed"}
    BY <1>12 DEF Restart, Probed
  <2>3. /\ said' \in [kind : Kinds \cup {"none"}, timely : BOOLEAN, reply : Text]
        /\ heard' \in Text /\ now' \in Hand
    BY <1>12, TextFacts, NobodyFacts DEF Restart, Silence
  <2>4. history' \in Seq([user : Nat, reply : Text]) /\ Len(history') <= HistoryTurns
    BY <1>12 DEF Restart
  <2> QED BY <1>12, <2>1, <2>2, <2>3, <2>4 DEF Restart, BrainTypes, TypeOK
<1> QED BY <1>1, <1>2, <1>3, <1>4, <1>5, <1>6, <1>7, <1>8, <1>9, <1>10, <1>11, <1>12 DEF Next

(* Every state of the brain is well-typed, and the table of the cache is   *)
(* within the widest bound it was ever opened with, or of one entry.       *)
THEOREM BrainTypeCorrect == Spec => []TypeOK
<1>1. BrainTypes => TypeOK
  BY DEF BrainTypes
<1> QED BY BrainTypesInitially, BrainTypesKept, <1>1, PTL DEF Spec
-----------------------------------------------------------------------------
(* What is kept of the answer heard last is the last of the history, but   *)
(* while it is on its way there.                                           *)
RepeatInv ==
  /\ phase \in {"caching", "inserting", "storing"} => heard = now.reply
  /\ phase \notin {"caching", "inserting", "storing"} =>
       Kept(heard) = IF history = <<>> THEN Phrase ELSE Last(history).reply
  /\ now.kind # "repeat" /\ RepeatsAreTheLastAnswer

(* A process starts with nothing heard and nothing remembered.             *)
LEMMA StartsRepeatable == Init => RepeatInv
BY DEF Init, RepeatInv, Silence, Nobody, RepeatsAreTheLastAnswer, Kept, Phrase, Fixed

(* What was heard last and what the history ends with go together.         *)
LEMMA RepeatInvKept == BrainTypes /\ RepeatInv /\ [Next]_vars => RepeatInv'
<1> SUFFICES ASSUME BrainTypes, RepeatInv, [Next]_vars PROVE RepeatInv'
  OBVIOUS
<1> USE DEF RepeatInv, RepeatsAreTheLastAnswer
<1>0. now \in Hand
  BY DEF BrainTypes, TypeOK
<1>1. Phrase' = Phrase /\ Kept(Phrase) = Phrase /\ Kept(heard)' = Kept(heard')
  BY DEF Phrase, Fixed, Kept
<1>2. ASSUME NEW t \in Transcripts, NEW opens \in BOOLEAN, Arrive(t, opens)
      PROVE  RepeatInv'
  BY <1>1, <1>2 DEF Arrive, Silence, Nobody
<1>3. CASE Repeat
  BY <1>1, <1>3 DEF Repeat, Say, End, Nobody, Offers
<1>4. CASE Routing \/ Miss \/ Evict \/ Probe \/ UNCHANGED vars
  BY <1>0, <1>1, <1>4 DEF Hand, Routing, Miss, Evict, Probe, Ask, Store, ProbeDies,
                          vars, process, aux
<1>5. ASSUME NEW e \in cache, NEW ts \in Stamps, Hit(e, ts) PROVE RepeatInv'
  BY <1>0, <1>1, <1>5 DEF Hit, Hand
<1>6. ASSUME NEW found \in Answers, Think(found)
      PROVE  RepeatInv'
  <2>1. found.kind # "repeat"
    BY BrainAssumption DEF Offers
  <2> QED BY <1>0, <1>1, <1>6, <2>1 DEF Think, aux, Hand
<1>7. CASE Fail
  BY <1>1, <1>7 DEF Fail, End, aux, Nobody
<1>8. CASE Reply
  <2>1. now.reply \in Text /\ now.kind \in Kinds
    BY DEF BrainTypes, TypeOK, Hand
  <2>2. said'.kind = now.kind /\ said'.reply = now.reply /\ phase = "replying"
    BY <1>8 DEF Reply, Say
  <2>3. CASE now.kind = "model"
    BY <1>1, <1>8, <2>2, <2>3 DEF Reply, Say
  <2>4. CASE now.kind \in Offers \cup {"cache"}
    <3>1. heard' = now.reply /\ phase' = "idle" /\ now' = Nobody /\ Push(now.reply)
      BY <1>8, <2>4 DEF Reply, Say, End, Nobody, Offers
    <3>2. history' # <<>> /\ Last(history').reply = Kept(now.reply)
      BY <2>1, <3>1, PushFacts DEF Last
    <3> QED BY <1>1, <2>2, <2>4, <3>1, <3>2 DEF Nobody, Offers
  <2>5. CASE now.kind \notin Offers \cup {"model", "cache"}
    <3>1. heard' = heard /\ phase' = "idle" /\ now' = Nobody
      BY <1>8, <2>5 DEF Reply, Say, End
    <3>2. now.kind = "canned" => history' = history
      BY <1>8 DEF Reply
    <3> QED BY <1>1, <2>1, <2>2, <2>5, <3>1, <3>2 DEF Kinds, Nobody
  <2> QED BY <2>3, <2>4, <2>5
<1>9. ASSUME InsertFails \/ \E ts \in Stamps : Insert(ts) PROVE RepeatInv'
  BY <1>1, <1>9 DEF Insert, InsertFails, aux
<1>10. CASE Remember
  <2>1. now.reply \in Text /\ Push(now.reply) /\ heard' = now.reply
    BY <1>10 DEF Remember, aux, BrainTypes, TypeOK, Hand
  <2>2. history' # <<>> /\ Last(history').reply = Kept(now.reply)
    BY <2>1, PushFacts DEF Last
  <2> QED BY <1>1, <1>10, <2>1, <2>2 DEF Remember, End, aux, Nobody
<1>11. CASE Restart
  BY <1>1, <1>11 DEF Restart, Silence, Nobody
<1> QED BY <1>2, <1>3, <1>4, <1>5, <1>6, <1>7, <1>8, <1>9, <1>10, <1>11 DEF Next

(* "Say that again" repeats what is kept of the last answer of this        *)
(* session: of an offer, what was said before its fence.                   *)
(* (handle_repair, dispatch)                                               *)
THEOREM RepeatHolds == Spec => []RepeatsAreTheLastAnswer
<1>1. RepeatInv => RepeatsAreTheLastAnswer
  BY DEF RepeatInv
<1> QED BY <1>1, StartsRepeatable, BrainTypesInitially, BrainTypesKept, RepeatInvKept, PTL DEF Spec

-----------------------------------------------------------------------------
(* A text that a process may serve: it is from before, or clean under the  *)
(* terms of this one, or the redline is off.  What is repeated may be an   *)
(* offer, too.                                                             *)
Clean(text) == config.redline # "off" => text.terms \cap config.forbidden = {}
Servable(text) == text.boot <= boot /\ (text.boot = boot => Clean(text))
Repeatable(text) == text.as \in Offers \/ Servable(text)

(* What is in the cache may be served, what is about to be said of it may, *)
(* what was heard may be repeated, and what is on its way to the cache is  *)
(* clean, was said, and not of the hour.                                   *)
CacheInv ==
  /\ \A e \in cache : Servable(e.reply)
  /\ Repeatable(heard)
  /\ phase = "looking" => ~now.said.timely
  /\ phase = "replying" /\ now.kind = "cache" => ~now.said.timely /\ Servable(now.reply)
  /\ phase = "replying" /\ now.kind = "model" => now.reply.boot <= boot /\ Clean(now.reply)
  /\ phase = "replying" /\ now.kind = "canned" => now.reply = Phrase
  /\ phase = "replying" /\ now.kind \in Offers => now.reply.as \in Offers
  /\ phase = "replying" => now.kind # "repeat"
  /\ phase \in {"caching", "inserting"} =>
       /\ now.reply.boot <= boot /\ Clean(now.reply)
       /\ said = [kind |-> "model", timely |-> FALSE, reply |-> now.reply]
  /\ DirtyRepliesAreOld /\ TimelyQuestionsReachAModel

(* What is looked up, said and stored stays servable, action by action.    *)
LEMMA CacheInvKept == BrainTypes /\ RepeatInv /\ CacheInv /\ [Next]_vars => CacheInv'
<1> SUFFICES ASSUME BrainTypes, RepeatInv, CacheInv, [Next]_vars PROVE CacheInv'
  OBVIOUS
<1> USE DEF CacheInv, DirtyRepliesAreOld, TimelyQuestionsReachAModel
<1>0. now \in Hand /\ boot \in Nat /\ cache \subseteq Entry /\ config \in Config
  BY BrainAssumption DEF BrainTypes, TypeOK
<1>1. ASSUME NEW t \in Transcripts, NEW opens \in BOOLEAN, Arrive(t, opens)
      PROVE  CacheInv'
  <2>1. config'.forbidden = config.forbidden /\ config'.redline = config.redline
    BY <1>0, <1>1 DEF Arrive, Config
  <2>2. said' = Silence /\ Silence.reply = Phrase /\ phase' \in {"routing", "repeating"}
        /\ Phrase.terms = {} /\ Phrase.boot = 0 /\ Silence.kind = "none"
    BY <1>1 DEF Arrive, Silence, Phrase, Fixed
  <2>3. heard' \in {Phrase, heard} /\ UNCHANGED <<boot, cache>>
    BY <1>1 DEF Arrive
  <2> QED BY <1>0, <2>1, <2>2, <2>3 DEF Servable, Clean, Repeatable
<1>2. CASE Repeat
  <2>1. /\ said'.kind = "repeat" /\ said'.reply = Kept(heard) /\ heard' = heard
        /\ phase' = "idle" /\ UNCHANGED <<config, boot, cache>>
    BY <1>2 DEF Repeat, Say, End, process, RepeatInv, Offers
  <2>2. Kept(heard) = heard \/ Kept(heard).terms = {}
    BY DEF Kept, Nothing, Fixed
  <2>3. heard.boot \in Nat
    BY BrainAssumption DEF BrainTypes, TypeOK, Text
  <2> QED BY <1>0, <2>1, <2>2, <2>3 DEF Servable, Clean, Repeatable
<1>3. CASE Routing
  BY <1>0, <1>3 DEF Routing, process, aux, Servable, Clean, Repeatable, Hand
<1>4. ASSUME NEW e \in cache, NEW ts \in Stamps, Hit(e, ts) PROVE CacheInv'
  <2>1. now' = [now EXCEPT !.kind = "cache", !.reply = e.reply] /\ phase' = "replying"
    BY <1>4 DEF Hit
  <2>2. now'.kind = "cache" /\ now'.reply = e.reply /\ now'.said = now.said
    BY <1>0, <2>1 DEF Hand
  <2>3. \A f \in cache' : \E g \in cache : f.reply = g.reply
    BY <1>0, <1>4 DEF Hit, Bumped, Entry
  <2>4. UNCHANGED <<config, boot, said, heard>> /\ phase = "looking"
    BY <1>4 DEF Hit, process
  <2> QED BY <2>1, <2>2, <2>3, <2>4 DEF Servable, Clean, Repeatable, Offers
<1>5. CASE Miss \/ InsertFails \/ Probe \/ UNCHANGED vars
  BY <1>5 DEF Miss, InsertFails, Probe, Ask, Store, ProbeDies, vars, process, aux,
              Servable, Clean, Repeatable
<1>6. ASSUME NEW found \in Answers, Think(found)
      PROVE  CacheInv'
  <2> DEFINE answer == IF found.kind = "canned" THEN Phrase ELSE Made(found.kind, found.terms)
  <2>1. PICK reply \in IF found.kind = "model" THEN Enforced(answer) ELSE {answer} :
          now' = [now EXCEPT !.kind = found.kind, !.answer = answer, !.reply = reply]
    BY <1>6, Zenon DEF Think
  <2>2. /\ now'.kind = found.kind /\ now'.reply = reply
        /\ found.kind \in Offers \cup {"model", "canned"}
    BY <1>0, <2>1, BrainAssumption DEF Hand
  <2>3. found.kind = "model" => reply.boot <= boot /\ Clean(reply)
    BY <1>0, <2>1 DEF Enforced, Made, Phrase, Fixed, Clean
  <2>4. /\ found.kind = "canned" => reply = Phrase
        /\ found.kind \in Offers => reply.as \in Offers
    BY <2>1 DEF Made, Offers
  <2>5. UNCHANGED <<config, boot, cache, said, heard>> /\ phase' = "replying"
    BY <1>6 DEF Think, process, aux
  <2>6. Phrase' = Phrase
    BY DEF Phrase
  <2> QED BY <2>2, <2>3, <2>4, <2>5, <2>6 DEF Servable, Clean, Repeatable, Offers
<1>7. CASE Fail
  BY <1>7 DEF Fail, End, process, aux, Servable, Clean, Repeatable
<1>8. CASE Reply
  <2>1. /\ said' = [kind |-> now.kind, timely |-> now.said.timely, reply |-> now.reply]
        /\ heard' = IF now.kind \in Offers \cup {"model", "cache"} THEN now.reply ELSE heard
    BY <1>8 DEF Reply, Say
  <2>2. UNCHANGED <<config, boot, cache>> /\ phase = "replying"
    BY <1>8 DEF Reply, process
  <2>3. now.kind \in Kinds /\ now.said.timely \in BOOLEAN /\ now.reply.boot \in Nat
    BY <1>0, BrainAssumption DEF Hand, Text, Transcript
  <2>4. CASE now.kind = "model"
    <3>1. now' = now /\ phase' \in {"caching", "storing"}
          /\ (phase' = "caching" => ~now.said.timely)
      BY <1>8, <2>4 DEF Reply
    <3> QED BY <2>1, <2>2, <2>3, <2>4, <3>1 DEF Servable, Clean, Repeatable
  <2>5. CASE now.kind # "model"
    <3>1. phase' = "idle"
      BY <1>8, <2>5 DEF Reply, End
    <3>2. now.kind = "canned" => now.reply.terms = {}
      BY <2>2 DEF Phrase, Fixed
    <3> QED BY <1>0, <2>1, <2>2, <2>3, <2>5, <3>1, <3>2
            DEF Servable, Clean, Repeatable, Kinds, Offers
  <2> QED BY <2>4, <2>5
<1>9. CASE Evict
  BY <1>9 DEF Evict, Evicted, process, aux, Servable, Clean, Repeatable
<1>10. ASSUME NEW ts \in Stamps, Insert(ts) PROVE CacheInv'
  BY <1>10 DEF Insert, process, Servable, Clean, Repeatable
<1>11. CASE Remember
  BY <1>11 DEF Remember, End, process, aux, Servable, Clean, Repeatable
<1>12. CASE Restart
  <2>1. /\ UNCHANGED cache /\ boot' = boot + 1 /\ phase' = "idle"
        /\ said'.kind = "none" /\ said'.reply.terms = {}
        /\ heard'.boot = 0 /\ heard'.terms = {}
    BY <1>12 DEF Restart, Silence, Phrase, Fixed
  <2>2. \A e \in cache : e.reply.boot \in Nat
    BY <1>0, BrainAssumption DEF Entry, Text
  <2> QED BY <1>0, <2>1, <2>2 DEF Servable, Clean, Repeatable
<1> QED BY <1>1, <1>2, <1>3, <1>4, <1>5, <1>6, <1>7, <1>8, <1>9, <1>10, <1>11, <1>12 DEF Next

(* While the redline is on, a forbidden term is heard only in an offer, in *)
(* its repetition, or in what an earlier process made; a question of the   *)
(* hour is never answered from the cache; and its table keeps its bound.   *)
(* (handle_turn_user_ladder, lookup, insert)                               *)
THEOREM CachedHolds == Spec => []CachedRepliesAreSafe
<1>1. Init => CacheInv
  BY DEF Init, CacheInv, Silence, Phrase, Fixed, Servable, Clean, Repeatable,
         DirtyRepliesAreOld, TimelyQuestionsReachAModel
<1>2. BrainTypes /\ CacheInv => CachedRepliesAreSafe
  BY DEF BrainTypes, CacheInv, CachedRepliesAreSafe
<1>3. Init => RepeatInv
  BY StartsRepeatable
<1> QED BY <1>1, <1>2, <1>3, BrainTypesInitially, BrainTypesKept, RepeatInvKept, CacheInvKept,
        PTL DEF Spec

(* No step but a hit, an eviction and an insert touches the table.         *)
LEMMA OnlyTheCacheActs ==
  ASSUME [Next]_vars, \A e \in cache, ts \in Stamps : ~Hit(e, ts), ~Evict,
         \A ts \in Stamps : ~Insert(ts)
  PROVE  cache' = cache
<1>1. ASSUME NEW t \in Transcripts, NEW opens \in BOOLEAN, Arrive(t, opens)
      PROVE  cache' = cache
  BY <1>1 DEF Arrive
<1>2. CASE Repeat \/ Routing \/ Miss \/ Fail \/ Reply \/ InsertFails \/ Remember \/ Restart
  BY <1>2 DEF Repeat, Routing, Miss, Fail, Reply, InsertFails, Remember, Restart
<1>3. ASSUME NEW found \in Answers, Think(found) PROVE cache' = cache
  BY <1>3 DEF Think
<1>4. CASE Probe \/ UNCHANGED vars
  BY <1>4 DEF Probe, Ask, Store, ProbeDies, vars
<1> QED BY <1>1, <1>2, <1>3, <1>4 DEF Next

(* An entry was there, but for its age, or is what has just been said.     *)
LEMMA EntriesAreSaid == BrainTypes /\ CacheInv /\ [Next]_vars =>
  \A e \in cache' :
    \/ \E f \in cache : [f EXCEPT !.ts = e.ts] = e
    \/ /\ said.kind = "model" /\ ~said.timely
       /\ e.topic = now.said.topic /\ e.reply = said.reply
<1> SUFFICES ASSUME BrainTypes, CacheInv, [Next]_vars, NEW e \in cache'
             PROVE  \/ \E f \in cache : [f EXCEPT !.ts = e.ts] = e
                    \/ /\ said.kind = "model" /\ ~said.timely
                       /\ e.topic = now.said.topic /\ e.reply = said.reply
  OBVIOUS
<1>1. \A f \in cache : [f EXCEPT !.ts = f.ts] = f
  BY DEF BrainTypes, TypeOK, Entry
<1>2. ASSUME NEW f \in cache, NEW ts \in Stamps, Hit(f, ts)
      PROVE  \E g \in cache : [g EXCEPT !.ts = e.ts] = e
  <2>1. CASE e \in cache
    BY <1>1, <2>1
  <2>2. CASE e = [f EXCEPT !.ts = ts]
    BY <2>2 DEF BrainTypes, TypeOK, Entry
  <2> QED BY <1>2, <2>1, <2>2 DEF Hit, Bumped
<1>3. ASSUME NEW ts \in Stamps, Insert(ts)
      PROVE  \/ e \in cache
             \/ /\ said.kind = "model" /\ ~said.timely
                /\ e.topic = now.said.topic /\ e.reply = said.reply
  BY <1>3 DEF Insert, CacheInv
<1>4. ASSUME \A f \in cache, ts \in Stamps : ~Hit(f, ts), \A ts \in Stamps : ~Insert(ts)
      PROVE  cache' \subseteq cache
  <2>1. CASE Evict
    BY <2>1 DEF Evict, Evicted
  <2>2. CASE ~Evict
    BY <1>4, <2>2, OnlyTheCacheActs
  <2> QED BY <2>1, <2>2
<1> QED BY <1>1, <1>2, <1>3, <1>4

(* What enters the cache is the reply that has just been published, after  *)
(* the redline, under its question; an entry is never rewritten.           *)
(* (handle_turn_user_ladder, insert)                                       *)
THEOREM CacheKeeps == Spec => CacheHoldsWhatWasSaid
<1>1. Init => CacheInv
  BY DEF Init, CacheInv, Silence, Phrase, Fixed, Servable, Clean, Repeatable,
         DirtyRepliesAreOld, TimelyQuestionsReachAModel
<1> QED BY <1>1, BrainTypesInitially, BrainTypesKept, StartsRepeatable, RepeatInvKept,
           CacheInvKept, EntriesAreSaid, PTL
        DEF Spec, CacheHoldsWhatWasSaid
-----------------------------------------------------------------------------
(* The entry last served or stored is stamped with what the clock read as  *)
(* it was; and the number of the turn in hand is new until it is stored.   *)
YoungestInv ==
  /\ \A e \in cache : e.id <= turn
  /\ \A e, f \in cache : e.id = f.id => e = f
  /\ \A e \in cache : e.id = recent => e.ts = stamped
  /\ phase \in {"repeating", "routing", "looking", "thinking", "replying", "caching",
                "inserting"} =>
         \A e \in cache : e.id < turn

(* A hit and an insert stamp the entry they are about, and no other.       *)
LEMMA YoungestInvKept == BrainTypes /\ YoungestInv /\ [Next]_vars => YoungestInv'
<1> SUFFICES ASSUME BrainTypes, YoungestInv, [Next]_vars PROVE YoungestInv'
  OBVIOUS
<1> USE DEF YoungestInv
<1>0. /\ now \in Hand /\ turn \in Nat
      /\ \A e \in cache : e \in Entry /\ e.id \in Nat
  BY BrainAssumption DEF BrainTypes, TypeOK, Entry
<1>1. ASSUME NEW t \in Transcripts, NEW opens \in BOOLEAN, Arrive(t, opens)
      PROVE  YoungestInv'
  BY <1>0, <1>1 DEF Arrive
<1>2. CASE Repeat
  BY <1>2 DEF Repeat, End
<1>3. CASE Routing
  BY <1>3 DEF Routing, aux
<1>4. ASSUME NEW e \in cache, NEW ts \in Stamps, Hit(e, ts) PROVE YoungestInv'
  <2> DEFINE younger == [e EXCEPT !.ts = ts]
  <2>1. younger.id = e.id /\ younger.ts = ts
    BY <1>0 DEF Entry
  <2>2. /\ cache' = (cache \ {e}) \cup {younger}
        /\ recent' = e.id /\ stamped' = ts /\ turn' = turn
    BY <1>4 DEF Hit, Bumped
  <2>3. phase = "looking"
    BY <1>4 DEF Hit
  <2> HIDE DEF younger
  <2>4. \A f \in cache' : f = younger \/ (f \in cache /\ f.id # e.id)
    BY <2>2
  <2>5. \A f \in cache' : f.id < turn'
    BY <2>1, <2>2, <2>3, <2>4
  <2>6. \A f, g \in cache' : f.id = g.id => f = g
    BY <2>1, <2>4
  <2>7. \A f \in cache' : f.id = recent' => f.ts = stamped'
    BY <2>1, <2>2, <2>4
  <2>8. \A f \in cache' : f.id <= turn'
    BY <1>0, <2>1, <2>2, <2>4
  <2> QED BY <2>5, <2>6, <2>7, <2>8
<1>5. CASE Miss \/ InsertFails \/ Probe \/ UNCHANGED vars
  BY <1>5 DEF Miss, InsertFails, Probe, Ask, Store, ProbeDies, vars, process, aux
<1>6. ASSUME NEW found \in Answers, Think(found)
      PROVE  YoungestInv'
  BY <1>6 DEF Think, aux
<1>7. CASE Fail
  BY <1>7 DEF Fail, End, aux
<1>8. CASE Reply
  BY <1>8 DEF Reply, End
<1>9. CASE Evict
  BY <1>9 DEF Evict, Evicted, aux
<1>10. ASSUME NEW ts \in Stamps, Insert(ts) PROVE YoungestInv'
  <2> DEFINE new == [id |-> turn, ts |-> ts, topic |-> now.said.topic, reply |-> now.reply]
  <2>1. new.id = turn /\ new.ts = ts
    OBVIOUS
  <2>2. /\ cache' = cache \cup {new} /\ recent' = turn /\ stamped' = ts /\ turn' = turn
        /\ phase' = "storing" /\ phase = "inserting"
    BY <1>10 DEF Insert
  <2> HIDE DEF new
  <2>3. \A f \in cache' : f = new \/ (f \in cache /\ f.id < turn)
    BY <2>2
  <2> QED BY <1>0, <2>1, <2>2, <2>3
<1>11. CASE Remember
  BY <1>11 DEF Remember, End, aux
<1>12. CASE Restart
  BY <1>12 DEF Restart
<1> QED BY <1>1, <1>2, <1>3, <1>4, <1>5, <1>6, <1>7, <1>8, <1>9, <1>10, <1>11, <1>12 DEF Next

(* So the eviction, which takes the oldest of several, takes another, when *)
(* the others have an older stamp.                                         *)
LEMMA YoungestIsKept == BrainTypes /\ YoungestInv /\ [Next]_vars =>
  (Cardinality(cache) > 1 /\ (\A e \in cache : e.id # recent => e.ts < stamped) =>
     \A e \in cache : e.id = recent => \E f \in cache' : f.id = recent)
<1> SUFFICES ASSUME BrainTypes, YoungestInv, [Next]_vars, Cardinality(cache) > 1,
                    \A e \in cache : e.id # recent => e.ts < stamped,
                    NEW e \in cache, e.id = recent
             PROVE  \E f \in cache' : f.id = recent
  OBVIOUS
<1>1. ASSUME NEW f \in cache, NEW ts \in Stamps, Hit(f, ts)
      PROVE  \E g \in cache' : g.id = recent
  <2>1. [f EXCEPT !.ts = ts].id = f.id
    BY DEF BrainTypes, TypeOK, Entry
  <2> QED BY <1>1, <2>1 DEF Hit, Bumped
<1>2. CASE Evict
  <2>1. PICK f \in cache : f # e
    BY FS_Singleton DEF BrainTypes
  <2>2. f.id # recent /\ e.ts = stamped
    BY <2>1 DEF YoungestInv
  <2>3. e.ts \in Nat /\ f.ts \in Nat /\ f.ts < e.ts
    BY <2>2, BrainAssumption DEF BrainTypes, TypeOK, Entry
  <2>4. e \notin Oldest(cache)
    BY <2>3 DEF Oldest
  <2> QED BY <1>2, <2>4 DEF Evict, Evicted
<1>3. ASSUME \A f \in cache, ts \in Stamps : ~Hit(f, ts), ~Evict PROVE cache \subseteq cache'
  <2>1. ASSUME NEW ts \in Stamps, Insert(ts) PROVE cache \subseteq cache'
    BY <2>1 DEF Insert
  <2>2. ASSUME \A ts \in Stamps : ~Insert(ts) PROVE cache' = cache
    BY <1>3, <2>2, OnlyTheCacheActs
  <2> QED BY <2>1, <2>2
<1> QED BY <1>1, <1>2, <1>3

(* The entry served or stored last is not the one that makes room for the  *)
(* next, unless it is alone or the clock was set back before it was.       *)
(* (lookup, insert)                                                        *)
THEOREM YoungestStays == Spec => LastUsedStays
<1>1. Init => YoungestInv
  BY DEF Init, YoungestInv
<1> QED BY <1>1, BrainTypesInitially, BrainTypesKept, YoungestInvKept, YoungestIsKept, PTL
        DEF Spec, LastUsedStays

-----------------------------------------------------------------------------
(* Between the reply and the record a turn is one that a model answered;   *)
(* at any other time the last such turn is on record.                      *)
After == {"caching", "inserting", "storing"}
RecordInv ==
  /\ turn \in Nat /\ recorded \in Nat /\ thought \in Nat
  /\ recorded <= thought /\ thought <= turn
  /\ phase \in After => thought = turn
  /\ phase \notin After => recorded = thought

(* The last turn on record for write-back is the last that a model         *)
(* answered, whenever a turn has ended.  (record_turn_for_writeback)       *)
THEOREM RecordHolds == Spec => []RecordedTurnsWereThought
<1>1. Init => RecordInv
  BY DEF Init, RecordInv, After
<1>2. RecordInv /\ [Next]_vars => RecordInv'
  <2> SUFFICES ASSUME RecordInv, [Next]_vars PROVE RecordInv'
    OBVIOUS
  <2> USE DEF RecordInv, After
  <2>1. ASSUME NEW t \in Transcripts, NEW opens \in BOOLEAN, Arrive(t, opens)
        PROVE  RecordInv'
    BY <2>1 DEF Arrive
  <2>2. CASE Repeat
    BY <2>2 DEF Repeat, Say, End, Offers
  <2>3. CASE Routing \/ Miss \/ Evict \/ (\E ts \in Stamps : Insert(ts)) \/ InsertFails
             \/ Probe \/ UNCHANGED vars
    BY <2>3 DEF Routing, Miss, Evict, Insert, InsertFails, Probe, Ask, Store, ProbeDies,
                vars, aux, process
  <2>4. ASSUME NEW e \in cache, NEW ts \in Stamps, Hit(e, ts) PROVE RecordInv'
    BY <2>4 DEF Hit
  <2>5. ASSUME NEW found \in Answers, Think(found)
        PROVE  RecordInv'
    BY <2>5 DEF Think, aux
  <2>6. CASE Fail
    BY <2>6 DEF Fail, End, aux
  <2>7. CASE Reply
    BY <2>7 DEF Reply, Say, End, Offers
  <2>8. CASE Remember
    BY <2>8 DEF Remember, End, aux
  <2>9. CASE Restart
    BY <2>9 DEF Restart
  <2> QED BY <2>1, <2>2, <2>3, <2>4, <2>5, <2>6, <2>7, <2>8, <2>9 DEF Next
<1>3. RecordInv => RecordedTurnsWereThought
  BY DEF RecordInv, RecordedTurnsWereThought, After
<1> QED BY <1>1, <1>2, <1>3, PTL DEF Spec

-----------------------------------------------------------------------------
(* A set of naturals that has zero and the next of each has them all.      *)
LEMMA Induction ==
  ASSUME NEW S \in SUBSET Nat, 0 \in S, \A n \in S : n + 1 \in S
  PROVE  S = Nat
<1> SUFFICES ASSUME Nat \ S # {} PROVE FALSE
  OBVIOUS
<1>1. PICK n \in Nat \ S : \A m \in Nat \ S : n <= m
  BY LeastNat
<1>2. n # 0 /\ n - 1 \in Nat /\ ~(n <= n - 1) /\ (n - 1) + 1 = n
  BY <1>1
<1>3. n - 1 \in S
  BY <1>1, <1>2
<1> QED BY <1>1, <1>2, <1>3

(* A set that has 1 and what follows its members up to m has all up to m.  *)
LEMMA UpTo ==
  ASSUME NEW m \in Nat, NEW G, 1 \in G, \A k \in 1..m - 1 : k \in G => k + 1 \in G
  PROVE  1..m \subseteq G
<1> DEFINE H == {k \in Nat : k + 1 <= m => k + 1 \in G}
<1>1. 0 \in H /\ H \in SUBSET Nat
  OBVIOUS
<1>2. ASSUME NEW k \in H PROVE k + 1 \in H
  <2>1. k \in Nat /\ (k + 1 <= m => k + 1 \in G)
    OBVIOUS
  <2>2. (k + 1) + 1 <= m => k + 1 <= m /\ k + 1 \in 1..m - 1
    BY <2>1
  <2>3. (k + 1) + 1 <= m => (k + 1) + 1 \in G
    BY <2>1, <2>2
  <2> QED BY <2>1, <2>3
<1> HIDE DEF H
<1>3. H = Nat
  BY <1>1, <1>2, Induction
<1>4. \A n \in 1..m : n - 1 \in Nat /\ (n - 1) + 1 = n
  OBVIOUS
<1>5. ASSUME NEW n \in 1..m PROVE n \in G
  <2>1. n - 1 \in H /\ (n - 1) + 1 <= m
    BY <1>3, <1>4
  <2> QED BY <1>4, <2>1 DEF H
<1> QED BY <1>5

(* What FlattenSeq goes through on its way, up to the m-th sequence.       *)
Flattens(f, ss, m) ==
  f = [n \in 1..m |-> IF n = 1 THEN ss[n] ELSE f[n - 1] \o ss[n]]

(* There is such a function: it is built a sequence at a time.             *)
LEMMA FlattensExist ==
  ASSUME NEW ss, NEW m \in Nat
  PROVE  \E f : Flattens(f, ss, m)
<1> DEFINE Good == {n \in Nat : \E f : Flattens(f, ss, n)}
<1>1. 0 \in Good
  <2>1. Flattens([n \in 1..0 |-> <<>>], ss, 0)
    BY DEF Flattens
  <2> QED BY <2>1
<1>2. ASSUME NEW k \in Good PROVE k + 1 \in Good
  <2>1. PICK f : Flattens(f, ss, k)
    OBVIOUS
  <2> DEFINE next == IF k = 0 THEN ss[1] ELSE f[k] \o ss[k + 1]
             g == [n \in 1..(k + 1) |-> IF n = k + 1 THEN next ELSE f[n]]
  <2>2. (\A n \in 1..k : g[n] = f[n]) /\ g[k + 1] = next
    <3> HIDE DEF next
    <3> QED OBVIOUS
  <2>3. \A n \in 1..k : n # 1 => n - 1 \in 1..k
    OBVIOUS
  <2>4. \A n \in 1..k : f[n] = IF n = 1 THEN ss[n] ELSE f[n - 1] \o ss[n]
    BY <2>1 DEF Flattens
  <2>5. \A n \in 1..k + 1 : g[n] = IF n = 1 THEN ss[n] ELSE g[n - 1] \o ss[n]
    <3> TAKE n \in 1..k + 1
    <3>1. CASE n = k + 1
      <4>1. n - 1 = k /\ (n = 1 <=> k = 0) /\ (k # 0 => k \in 1..k)
        BY <3>1
      <4> HIDE DEF g
      <4> QED BY <2>2, <3>1, <4>1
    <3>2. CASE n # k + 1
      <4>1. n \in 1..k
        BY <3>2
      <4> HIDE DEF g
      <4> QED BY <2>2, <2>3, <2>4, <4>1
    <3> QED BY <3>1, <3>2
  <2>6. g = [n \in 1..k + 1 |-> g[n]]
    OBVIOUS
  <2> HIDE DEF g
  <2>7. Flattens(g, ss, k + 1)
    BY <2>5, <2>6 DEF Flattens
  <2> QED BY <2>7
<1> HIDE DEF Good
<1>3. Good = Nat
  <2>1. Good \in SUBSET Nat
    BY DEF Good
  <2> QED BY <1>1, <1>2, <2>1, Induction
<1> QED BY <1>3 DEF Good

(* So it joins them one after the other.                                   *)
LEMMA FlattenSteps ==
  ASSUME NEW S, NEW ss \in Seq(Seq(S)), Len(ss) # 0
  PROVE  \E f : /\ f[1] = ss[1]
                /\ \A n \in 1..Len(ss) - 1 : f[n + 1] = f[n] \o ss[n + 1]
                /\ \A n \in 1..Len(ss) : f[n] \in Seq(S)
                /\ FlattenSeq(ss) = f[Len(ss)]
<1> DEFINE f == CHOOSE f : f = [n \in 1..Len(ss) |->
                                  IF n = 1 THEN ss[n] ELSE f[n - 1] \o ss[n]]
<1>1. Flattens(f, ss, Len(ss))
  <2>1. \E g : g = [n \in 1..Len(ss) |-> IF n = 1 THEN ss[n] ELSE g[n - 1] \o ss[n]]
    <3>1. Len(ss) \in Nat
      OBVIOUS
    <3>2. PICK g : Flattens(g, ss, Len(ss))
      BY <3>1, FlattensExist
    <3> QED BY <3>2, Zenon DEF Flattens
  <2>2. f = [n \in 1..Len(ss) |-> IF n = 1 THEN ss[n] ELSE f[n - 1] \o ss[n]]
    BY <2>1, Zenon
  <2> HIDE DEF f
  <2> QED BY <2>2, Zenon DEF Flattens
<1>2. FlattenSeq(ss) = f[Len(ss)]
  BY Zenon DEF FlattenSeq
<1> HIDE DEF f
<1>3. \A n \in 1..Len(ss) : f[n] = IF n = 1 THEN ss[n] ELSE f[n - 1] \o ss[n]
  BY <1>1 DEF Flattens
<1>4. f[1] = ss[1]
  BY <1>3
<1>5. ASSUME NEW n \in 1..Len(ss) - 1 PROVE f[n + 1] = f[n] \o ss[n + 1]
  <2>1. n + 1 \in 1..Len(ss) /\ n + 1 # 1 /\ (n + 1) - 1 = n
    OBVIOUS
  <2> QED BY <1>3, <2>1
<1>6. \A n \in 1..Len(ss) : f[n] \in Seq(S)
  <2> DEFINE Good == {n \in 1..Len(ss) : f[n] \in Seq(S)}
  <2>1. Len(ss) \in Nat /\ 1 \in 1..Len(ss) /\ \A n \in 1..Len(ss) : ss[n] \in Seq(S)
    OBVIOUS
  <2>2. 1 \in Good
    BY <1>4, <2>1
  <2>3. ASSUME NEW k \in 1..Len(ss) - 1, k \in Good PROVE k + 1 \in Good
    <3>1. k + 1 \in 1..Len(ss) /\ f[k] \in Seq(S) /\ ss[k + 1] \in Seq(S)
      BY <2>1, <2>3
    <3>2. f[k] \o ss[k + 1] \in Seq(S)
      BY <3>1
    <3> QED BY <1>5, <3>1, <3>2
  <2> HIDE DEF Good
  <2>4. 1..Len(ss) \subseteq Good
    BY <2>1, <2>2, <2>3, UpTo
  <2> QED BY <2>4 DEF Good
<1> QED BY <1>2, <1>4, <1>5, <1>6

(* Two sequences in a row, place by place.                                 *)
LEMMA ConcatIs ==
  ASSUME NEW S, NEW s \in Seq(S), NEW t \in Seq(S)
  PROVE  /\ s \o t \in Seq(S) /\ Len(s \o t) = Len(s) + Len(t)
         /\ \A i \in 1..Len(s) + Len(t) :
              (s \o t)[i] = IF i <= Len(s) THEN s[i] ELSE t[i - Len(s)]
OBVIOUS

(* The elements of two sequences in a row.                                 *)
LEMMA RangeConcat ==
  ASSUME NEW S, NEW s \in Seq(S), NEW t \in Seq(S)
  PROVE  Range(s \o t) = Range(s) \cup Range(t)
<1>1. /\ s \o t \in Seq(S) /\ Len(s \o t) = Len(s) + Len(t)
      /\ \A i \in 1..Len(s) + Len(t) :
           (s \o t)[i] = IF i <= Len(s) THEN s[i] ELSE t[i - Len(s)]
  BY ConcatIs
<1>2. \A i \in 1..Len(s) : i \in 1..Len(s) + Len(t) /\ (s \o t)[i] = s[i]
  BY <1>1
<1>3. \A i \in 1..Len(t) : /\ Len(s) + i \in 1..Len(s) + Len(t)
                           /\ (s \o t)[Len(s) + i] = t[i]
  <2> TAKE i \in 1..Len(t)
  <2>1. /\ Len(s) + i \in 1..Len(s) + Len(t) /\ ~(Len(s) + i <= Len(s))
        /\ (Len(s) + i) - Len(s) = i
    OBVIOUS
  <2> QED BY <1>1, <2>1
<1>4. \A i \in 1..Len(s) + Len(t) : i \in 1..Len(s) \/ i - Len(s) \in 1..Len(t)
  OBVIOUS
<1>5. DOMAIN (s \o t) = 1..Len(s) + Len(t) /\ DOMAIN s = 1..Len(s) /\ DOMAIN t = 1..Len(t)
  BY <1>1
<1>6. \A x \in Range(s \o t) : x \in Range(s) \cup Range(t)
  BY <1>1, <1>4, <1>5 DEF Range
<1>7. \A x \in Range(s) : x \in Range(s \o t)
  BY <1>2, <1>5 DEF Range
<1>8. \A x \in Range(t) : x \in Range(s \o t)
  BY <1>3, <1>5 DEF Range
<1> QED BY <1>6, <1>7, <1>8

(* Both at once.                                                           *)
LEMMA JoinIs ==
  ASSUME NEW S, NEW s, NEW t, s \in Seq(S), t \in Seq(S)
  PROVE  s \o t \in Seq(S) /\ Range(s \o t) = Range(s) \cup Range(t)
BY ConcatIs, RangeConcat

(* What sequences joined hold is what they hold.                           *)
LEMMA FlattenIs ==
  ASSUME NEW S, NEW ss \in Seq(Seq(S))
  PROVE  /\ FlattenSeq(ss) \in Seq(S)
         /\ Range(FlattenSeq(ss)) = UNION {Range(ss[n]) : n \in 1..Len(ss)}
<1>1. CASE Len(ss) = 0
  <2>1. FlattenSeq(ss) = ss /\ ss = <<>>
    BY <1>1 DEF FlattenSeq
  <2>2. Range(ss) = {} /\ 1..Len(ss) = {}
    BY <1>1, <2>1 DEF Range
  <2> QED BY <2>1, <2>2
<1>2. CASE Len(ss) # 0
  <2>1. PICK f : /\ f[1] = ss[1]
                 /\ \A n \in 1..Len(ss) - 1 : f[n + 1] = f[n] \o ss[n + 1]
                 /\ \A n \in 1..Len(ss) : f[n] \in Seq(S)
                 /\ FlattenSeq(ss) = f[Len(ss)]
    BY <1>2, FlattenSteps
  <2>2. /\ Len(ss) \in Nat /\ 1 \in 1..Len(ss) /\ Len(ss) \in 1..Len(ss)
        /\ \A n \in 1..Len(ss) : ss[n] \in Seq(S)
    BY <1>2
  <2> DEFINE Held(k) == UNION {Range(ss[n]) : n \in 1..k}
             Good == {k \in 1..Len(ss) : Range(f[k]) = Held(k)}
  <2>3. 1 \in Good
    <3>1. Held(1) = Range(ss[1])
      OBVIOUS
    <3> HIDE DEF Held
    <3> QED BY <2>1, <2>2, <3>1
  <2>4. ASSUME NEW k \in 1..Len(ss) - 1, k \in Good PROVE k + 1 \in Good
    <3>1. k \in 1..Len(ss) /\ k + 1 \in 1..Len(ss) /\ Range(f[k]) = Held(k)
      BY <2>4
    <3>2. Range(f[k + 1]) = Held(k) \cup Range(ss[k + 1])
      <4>1. f[k] \in Seq(S) /\ ss[k + 1] \in Seq(S) /\ f[k + 1] = f[k] \o ss[k + 1]
        BY <2>1, <2>2, <3>1
      <4> HIDE DEF Held
      <4> QED BY <3>1, <4>1, RangeConcat
    <3>3. 1..k + 1 = (1..k) \cup {k + 1}
      OBVIOUS
    <3>4. Held(k + 1) = Held(k) \cup Range(ss[k + 1])
      BY <3>3
    <3> HIDE DEF Held
    <3> QED BY <3>1, <3>2, <3>4
  <2> HIDE DEF Good
  <2>5. 1..Len(ss) \subseteq Good
    BY <2>2, <2>3, <2>4, UpTo
  <2>6. Range(f[Len(ss)]) = Held(Len(ss))
    <3> HIDE DEF Held
    <3> QED BY <2>2, <2>5 DEF Good
  <2> QED BY <2>1, <2>2, <2>6
<1> QED BY <1>1, <1>2

(* The last of sequences joined is the last of them, if that is one.       *)
LEMMA FlattenLast ==
  ASSUME NEW S, NEW ss \in Seq(Seq(S)), Len(ss) > 1, NEW x \in S, ss[Len(ss)] = <<x>>
  PROVE  FlattenSeq(ss)[Len(FlattenSeq(ss))] = x
<1>1. PICK f : /\ \A n \in 1..Len(ss) - 1 : f[n + 1] = f[n] \o ss[n + 1]
               /\ \A n \in 1..Len(ss) : f[n] \in Seq(S)
               /\ FlattenSeq(ss) = f[Len(ss)]
  <2>1. Len(ss) # 0
    OBVIOUS
  <2> QED BY <2>1, FlattenSteps
<1>2. /\ Len(ss) - 1 \in 1..Len(ss) - 1 /\ Len(ss) - 1 \in 1..Len(ss)
      /\ (Len(ss) - 1) + 1 = Len(ss)
  OBVIOUS
<1>3. PICK front \in Seq(S) : FlattenSeq(ss) = front \o <<x>>
  <2>1. f[Len(ss)] = f[Len(ss) - 1] \o <<x>> /\ f[Len(ss) - 1] \in Seq(S)
    BY <1>1, <1>2
  <2> QED BY <1>1, <2>1
<1>4. /\ Len(front \o <<x>>) = Len(front) + 1
      /\ (front \o <<x>>)[Len(front) + 1] = x
  <2>1. Len(<<x>>) = 1 /\ <<x>>[1] = x /\ <<x>> \in Seq(S)
    OBVIOUS
  <2> HIDE DEF FlattenSeq
  <2> QED BY <1>3, <2>1
<1> QED BY <1>3, <1>4

(* Pairs that are joined keep their places.                                *)
LEMMA FlattenPairs ==
  ASSUME NEW S, NEW ss \in Seq(Seq(S)), \A n \in 1..Len(ss) : Len(ss[n]) = 2
  PROVE  /\ Len(FlattenSeq(ss)) = 2 * Len(ss)
         /\ \A n \in 1..Len(ss) : /\ FlattenSeq(ss)[2 * n - 1] = ss[n][1]
                                  /\ FlattenSeq(ss)[2 * n] = ss[n][2]
<1>1. CASE Len(ss) = 0
  BY <1>1 DEF FlattenSeq
<1>2. CASE Len(ss) # 0
  <2>1. PICK f : /\ f[1] = ss[1]
                 /\ \A n \in 1..Len(ss) - 1 : f[n + 1] = f[n] \o ss[n + 1]
                 /\ \A n \in 1..Len(ss) : f[n] \in Seq(S)
                 /\ FlattenSeq(ss) = f[Len(ss)]
    BY <1>2, FlattenSteps
  <2>2. /\ Len(ss) \in Nat /\ 1 \in 1..Len(ss) /\ Len(ss) \in 1..Len(ss)
        /\ \A n \in 1..Len(ss) : ss[n] \in Seq(S)
    BY <1>2
  <2> DEFINE InPlace(k) == /\ Len(f[k]) = 2 * k
                           /\ \A n \in 1..k : /\ f[k][2 * n - 1] = ss[n][1]
                                              /\ f[k][2 * n] = ss[n][2]
             Good == {k \in 1..Len(ss) : InPlace(k)}
  <2>3. InPlace(1)
    BY <2>1, <2>2
  <2>4. ASSUME NEW k \in 1..Len(ss) - 1, InPlace(k) PROVE InPlace(k + 1)
    <3>1. /\ k \in 1..Len(ss) /\ k + 1 \in 1..Len(ss)
          /\ f[k] \in Seq(S) /\ ss[k + 1] \in Seq(S) /\ Len(ss[k + 1]) = 2
          /\ f[k + 1] = f[k] \o ss[k + 1] /\ Len(f[k]) = 2 * k
      <4>1. k \in 1..Len(ss) /\ k + 1 \in 1..Len(ss)
        BY <2>2
      <4>2. Len(f[k]) = 2 * k
        BY <2>4
      <4> HIDE DEF InPlace
      <4> QED BY <2>1, <2>2, <4>1, <4>2
    <3>2. /\ Len(f[k + 1]) = 2 * k + 2
          /\ \A i \in 1..2 * k : f[k + 1][i] = f[k][i]
          /\ f[k + 1][2 * k + 1] = ss[k + 1][1] /\ f[k + 1][2 * k + 2] = ss[k + 1][2]
      <4> DEFINE a == f[k]
                 b == ss[k + 1]
      <4>1. a \in Seq(S) /\ b \in Seq(S) /\ Len(a) = 2 * k /\ Len(b) = 2 /\ k \in Nat
        BY <3>1
      <4>2. f[k + 1] = a \o b
        BY <3>1
      <4> HIDE DEF a, b
      <4>3. /\ Len(a \o b) = 2 * k + 2
            /\ \A i \in 1..2 * k + 2 :
                 (a \o b)[i] = IF i <= 2 * k THEN a[i] ELSE b[i - 2 * k]
        <5>1. /\ Len(a \o b) = Len(a) + Len(b)
              /\ \A i \in 1..Len(a) + Len(b) :
                   (a \o b)[i] = IF i <= Len(a) THEN a[i] ELSE b[i - Len(a)]
          BY <4>1, ConcatIs
        <5> QED BY <4>1, <5>1
      <4>4. /\ \A i \in 1..2 * k : (a \o b)[i] = a[i]
            /\ (a \o b)[2 * k + 1] = b[1] /\ (a \o b)[2 * k + 2] = b[2]
        <5>1. /\ \A i \in 1..2 * k : i \in 1..2 * k + 2 /\ i <= 2 * k
              /\ 2 * k + 1 \in 1..2 * k + 2 /\ 2 * k + 2 \in 1..2 * k + 2
              /\ ~(2 * k + 1 <= 2 * k) /\ ~(2 * k + 2 <= 2 * k)
              /\ (2 * k + 1) - 2 * k = 1 /\ (2 * k + 2) - 2 * k = 2
          BY <4>1
        <5> QED BY <4>3, <5>1
      <4> QED BY <4>2, <4>3, <4>4 DEF a, b
    <3>3. ASSUME NEW n \in 1..k + 1
          PROVE  f[k + 1][2 * n - 1] = ss[n][1] /\ f[k + 1][2 * n] = ss[n][2]
      <4>1. CASE n \in 1..k
        <5>1. 2 * n - 1 \in 1..2 * k /\ 2 * n \in 1..2 * k
          BY <4>1
        <5> QED BY <2>4, <3>2, <4>1, <5>1
      <4>2. CASE n = k + 1
        <5>1. 2 * n - 1 = 2 * k + 1 /\ 2 * n = 2 * k + 2
          BY <4>2
        <5> QED BY <3>2, <4>2, <5>1
      <4> QED BY <4>1, <4>2
    <3>4. 2 * (k + 1) = 2 * k + 2
      OBVIOUS
    <3> QED BY <3>2, <3>3, <3>4
  <2> HIDE DEF InPlace
  <2>5. 1 \in Good /\ \A k \in 1..Len(ss) - 1 : k \in Good => k + 1 \in Good
    BY <2>2, <2>3, <2>4
  <2> HIDE DEF Good
  <2>6. 1..Len(ss) \subseteq Good
    BY <2>2, <2>5, UpTo
  <2> QED BY <2>1, <2>2, <2>6 DEF Good, InPlace
<1> QED BY <1>1, <1>2

-----------------------------------------------------------------------------
(* The tags of the prompt itself; those of memories are their texts.       *)
Manners == {"plain", "warm-elder", "brisk", "user_name", "max_sentences", "extra"}
Headings == {"what_you_remember", "recent_conversations"}
Guards == {"child_lock_guard", "destructive_gate_guard"}
Tags == STRING \cup Manners \cup Headings \cup Guards \cup {"never_use", "do_not_use"}
Clauses == Tags \X SUBSET Term

(* Clauses tell themselves apart by their tags and terms.                  *)
LEMMA ClausesAre ==
  ASSUME NEW a \in Tags
  PROVE  Clause(a) \in Clauses
BY DEF Clauses, Clause

(* Two clauses are the same when their tags and terms are.                 *)
LEMMA TagsDiffer ==
  ASSUME NEW a, NEW b, NEW terms
  PROVE  /\ Clause(a) = Clause(b) => a = b
         /\ Clause(a) = <<b, terms>> => a = b /\ terms = {}
BY DEF Clause

(* A sequence of one, or of none.                                          *)
LEMMA OnlyIs ==
  ASSUME NEW S, NEW x \in S, NEW condition \in BOOLEAN
  PROVE  /\ Only(condition, x) \in Seq(S)
         /\ condition => Only(condition, x) = <<x>>
         /\ ~condition => Only(condition, x) = <<>>
         /\ Range(Only(condition, x)) = IF condition THEN {x} ELSE {}
<1>1. CASE condition
  <2>1. Only(condition, x) = <<x>> /\ <<x>> \in Seq(S)
    BY <1>1 DEF Only
  <2>2. Range(<<x>>) = {x}
    BY DEF Range
  <2> QED BY <1>1, <2>1, <2>2
<1>2. CASE ~condition
  BY <1>2 DEF Only, Range
<1> QED BY <1>1, <1>2

(* What is told of memories is all of them but the blank ones.             *)
LEMMA ToldIs ==
  ASSUME NEW hits \in Seq(STRING)
  PROVE  /\ Told(hits) \in Seq(Clauses)
         /\ Range(Told(hits)) = {Clause(hit) : hit \in Range(hits) \ {Blank}}
<1> DEFINE each == [k \in DOMAIN hits |-> Only(hits[k] # Blank, Clause(hits[k]))]
<1>1. /\ DOMAIN hits = 1..Len(hits) /\ Len(hits) \in Nat
      /\ \A k \in 1..Len(hits) : hits[k] \in STRING
  OBVIOUS
<1>2. \A k \in 1..Len(hits) :
        /\ Only(hits[k] # Blank, Clause(hits[k])) \in Seq(Clauses)
        /\ Range(Only(hits[k] # Blank, Clause(hits[k])))
             = IF hits[k] # Blank THEN {Clause(hits[k])} ELSE {}
  <2> TAKE k \in 1..Len(hits)
  <2>1. Clause(hits[k]) \in Clauses /\ (hits[k] # Blank) \in BOOLEAN
    BY <1>1, ClausesAre DEF Tags
  <2> DEFINE clause == Clause(hits[k])
  <2> HIDE DEF each, clause
  <2>2. /\ <<clause>> \in Seq(Clauses) /\ Range(<<clause>>) = {clause}
        /\ <<>> \in Seq(Clauses) /\ Range(<<>>) = {}
    BY <2>1 DEF Range, clause
  <2>3. Only(hits[k] # Blank, clause) = IF hits[k] # Blank THEN <<clause>> ELSE <<>>
    BY DEF Only
  <2>4. /\ Only(hits[k] # Blank, clause) \in Seq(Clauses)
        /\ Range(Only(hits[k] # Blank, clause))
             = IF hits[k] # Blank THEN {clause} ELSE {}
    <3>1. CASE hits[k] # Blank
      BY <2>2, <2>3, <3>1
    <3>2. CASE hits[k] = Blank
      BY <2>2, <2>3, <3>2
    <3> QED BY <3>1, <3>2
  <2> QED BY <2>4 DEF clause
<1>3. each \in Seq(Seq(Clauses)) /\ Len(each) = Len(hits)
  <2>1. each \in [1..Len(hits) -> Seq(Clauses)]
    BY <1>1, <1>2
  <2> HIDE DEF each
  <2> QED BY <1>1, <2>1
<1>4. \A k \in 1..Len(hits) :
        Range(each[k]) = IF hits[k] # Blank THEN {Clause(hits[k])} ELSE {}
  BY <1>1, <1>2
<1>5. Told(hits) = FlattenSeq(each)
  BY DEF Told
<1> HIDE DEF each
<1>6. /\ Told(hits) \in Seq(Clauses)
      /\ Range(Told(hits)) = UNION {Range(each[k]) : k \in 1..Len(hits)}
  BY <1>3, <1>5, FlattenIs
<1>7. \A hit : hit \in Range(hits) <=> \E k \in 1..Len(hits) : hit = hits[k]
  BY <1>1 DEF Range
<1>8. ASSUME NEW x PROVE x \in Range(Told(hits)) <=> \E k \in 1..Len(hits) :
                                 hits[k] # Blank /\ x = Clause(hits[k])
  <2>1. x \in Range(Told(hits)) <=> \E k \in 1..Len(hits) : x \in Range(each[k])
    BY <1>6
  <2>2. \A k \in 1..Len(hits) :
          x \in Range(each[k]) <=> hits[k] # Blank /\ x = Clause(hits[k])
    <3> TAKE k \in 1..Len(hits)
    <3>1. CASE hits[k] # Blank
      <4>1. Range(each[k]) = {Clause(hits[k])}
        BY <1>4, <3>1
      <4> QED BY <3>1, <4>1
    <3>2. CASE hits[k] = Blank
      <4>1. Range(each[k]) = {}
        BY <1>4, <3>2
      <4> QED BY <3>2, <4>1
    <3> QED BY <3>1, <3>2
  <2> QED BY <2>1, <2>2
<1> QED BY <1>6, <1>7, <1>8, Zenon

(* Both blocks tell of the memories, under a heading of their own.         *)
LEMMA ContextsAre ==
  ASSUME NEW hits \in Seq(STRING)
  PROVE  \A context \in {RecallContext(hits), RecapContext(hits)} :
           /\ context \in Seq(Clauses)
           /\ Range(Told(hits)) \subseteq Range(context)
           /\ Range(context) \subseteq Range(Told(hits))
                \cup {Clause("what_you_remember"), Clause("recent_conversations")}
<1>1. /\ Clause("what_you_remember") \in Clauses
      /\ Clause("recent_conversations") \in Clauses
  BY ClausesAre DEF Tags, Headings
<1>2. Told(hits) \in Seq(Clauses)
  BY ToldIs
<1>3. ASSUME NEW heading \in Clauses, NEW condition \in BOOLEAN
      PROVE  /\ Only(condition, heading) \o Told(hits) \in Seq(Clauses)
             /\ Range(Only(condition, heading) \o Told(hits))
                  = (IF condition THEN {heading} ELSE {}) \cup Range(Told(hits))
  <2>1. /\ Only(condition, heading) \in Seq(Clauses)
        /\ Range(Only(condition, heading)) = IF condition THEN {heading} ELSE {}
    BY OnlyIs
  <2> QED BY <1>2, <2>1, JoinIs
<1>4. /\ (hits # <<>>) \in BOOLEAN /\ (Told(hits) # <<>>) \in BOOLEAN
  OBVIOUS
<1>5. /\ RecallContext(hits) \in Seq(Clauses)
      /\ Range(RecallContext(hits)) = (IF hits # <<>> THEN {Clause("what_you_remember")} ELSE {})
                                        \cup Range(Told(hits))
  BY <1>1, <1>3, <1>4 DEF RecallContext
<1>6. /\ RecapContext(hits) \in Seq(Clauses)
      /\ Range(RecapContext(hits))
           = (IF Told(hits) # <<>> THEN {Clause("recent_conversations")} ELSE {})
               \cup Range(Told(hits))
  BY <1>1, <1>3, <1>4 DEF RecapContext
<1> QED BY <1>5, <1>6

(* What a prefix says: who speaks, the terms, the guards.                  *)
Tells(prefix, forbidden, lock) ==
  \E own \in SUBSET {Clause(tag) : tag \in Manners} :
    Range(prefix)
      = own \cup (IF forbidden # {} THEN {<<"never_use", forbidden>>} ELSE {})
            \cup (IF lock THEN {Clause("child_lock_guard")} ELSE {})
            \cup {Clause("destructive_gate_guard")}

(* The stable prefix, for every persona, with the terms and the lock.      *)
(* (compose_base, compose_stable_prefix)                                   *)
LEMMA PrefixIs ==
  ASSUME NEW persona \in Persona, NEW forbidden \in SUBSET Term, NEW lock \in BOOLEAN
  PROVE  /\ StablePrefix(ComposeBase(persona, forbidden), lock) \in Seq(Clauses)
         /\ Tells(StablePrefix(ComposeBase(persona, forbidden), lock), forbidden, lock)
<1>1. \A tag \in Manners \cup Guards : Clause(tag) \in Clauses
  BY ClausesAre DEF Tags
<1>2. <<"never_use", forbidden>> \in Clauses
  BY DEF Clauses, Tags
<1>3. /\ persona.register \in {"warm-elder", "plain", "brisk"}
      /\ persona.addressesUser \in BOOLEAN /\ persona.userNamed \in BOOLEAN
      /\ persona.brief \in BOOLEAN /\ persona.extra \in BOOLEAN
      /\ (persona.addressesUser /\ persona.userNamed) \in BOOLEAN
      /\ (forbidden # {}) \in BOOLEAN
  BY DEF Persona
<1>4. ASSUME NEW tag \in Manners \cup Guards
      PROVE  <<Clause(tag)>> \in Seq(Clauses) /\ Range(<<Clause(tag)>>) = {Clause(tag)}
  <2>1. Clause(tag) \in Clauses
    BY <1>1
  <2> QED BY <2>1 DEF Range
<1> DEFINE M == {Clause(tag) : tag \in Manners}
<1>5. RegisterBase(persona) \in Seq(Clauses) /\ Range(RegisterBase(persona)) \subseteq M
  <2>1. CASE persona.register = "plain"
    BY <1>4, <2>1 DEF RegisterBase, Manners
  <2>2. CASE persona.register # "plain"
    <3> DEFINE a == <<Clause(persona.register)>>
               b == Only(persona.addressesUser /\ persona.userNamed, Clause("user_name"))
               c == Only(persona.brief, Clause("max_sentences"))
    <3>1. a \in Seq(Clauses) /\ Range(a) \subseteq M
      BY <1>3, <1>4 DEF Manners
    <3>2. b \in Seq(Clauses) /\ Range(b) \subseteq M
      BY <1>1, <1>3, OnlyIs DEF Manners
    <3>3. c \in Seq(Clauses) /\ Range(c) \subseteq M
      BY <1>1, <1>3, OnlyIs DEF Manners
    <3>4. RegisterBase(persona) = a \o b \o c
      BY <2>2 DEF RegisterBase
    <3> HIDE DEF a, b, c, M
    <3> DEFINE ab == a \o b
    <3>5. ab \in Seq(Clauses) /\ Range(ab) \subseteq M
      BY <3>1, <3>2, JoinIs
    <3>6. RegisterBase(persona) = ab \o c
      BY <3>4
    <3> HIDE DEF ab
    <3> QED BY <3>3, <3>5, <3>6, JoinIs
  <2> QED BY <2>1, <2>2
<1>6. /\ Only(persona.extra, Clause("extra")) \in Seq(Clauses)
      /\ Range(Only(persona.extra, Clause("extra"))) \subseteq M
  BY <1>1, <1>3, OnlyIs DEF Manners
<1> HIDE DEF M
<1> DEFINE base == RegisterBase(persona) \o Only(persona.extra, Clause("extra"))
           terms == Only(forbidden # {}, <<"never_use", forbidden>>)
           guard == Only(lock, Clause("child_lock_guard"))
           gate == <<Clause("destructive_gate_guard")>>
<1>7. base \in Seq(Clauses) /\ Range(base) \subseteq M
  BY <1>5, <1>6, JoinIs
<1>8. /\ terms \in Seq(Clauses)
      /\ Range(terms) = IF forbidden # {} THEN {<<"never_use", forbidden>>} ELSE {}
  BY <1>2, <1>3, OnlyIs
<1>9. /\ guard \in Seq(Clauses)
      /\ Range(guard) = IF lock THEN {Clause("child_lock_guard")} ELSE {}
  <2>1. Clause("child_lock_guard") \in Clauses
    BY <1>1 DEF Guards
  <2> QED BY <2>1, OnlyIs
<1>10. gate \in Seq(Clauses) /\ Range(gate) = {Clause("destructive_gate_guard")}
  BY <1>4 DEF Guards
<1>11. StablePrefix(ComposeBase(persona, forbidden), lock) = base \o terms \o guard \o gate
  BY DEF StablePrefix, ComposeBase
<1> HIDE DEF base, terms, guard, gate
<1> DEFINE two == base \o terms
           three == two \o guard
           four == three \o gate
<1>12. two \in Seq(Clauses) /\ Range(two) = Range(base) \cup Range(terms)
  BY <1>7, <1>8, JoinIs
<1> HIDE DEF two
<1>13. three \in Seq(Clauses) /\ Range(three) = Range(two) \cup Range(guard)
  BY <1>9, <1>12, JoinIs
<1> HIDE DEF three
<1>14. four \in Seq(Clauses) /\ Range(four) = Range(three) \cup Range(gate)
  BY <1>10, <1>13, JoinIs
<1>15. StablePrefix(ComposeBase(persona, forbidden), lock) = four
  BY <1>11 DEF two, three
<1> HIDE DEF four
<1>16. Tells(four, forbidden, lock)
  BY <1>7, <1>8, <1>9, <1>10, <1>12, <1>13, <1>14 DEF M, Tells
<1> QED BY <1>14, <1>15, <1>16

(* The blocks of a request: the prefix, which is cached, and what is not.  *)
Blocks == [text : Seq(Clauses), cached : BOOLEAN]

(* A block is its text and whether it ends what is cached.                 *)
LEMMA BlockIs ==
  ASSUME NEW text, NEW cached
  PROVE  /\ Block(text, cached).text = text /\ Block(text, cached).cached = cached
         /\ text \in Seq(Clauses) /\ cached \in BOOLEAN => Block(text, cached) \in Blocks
BY DEF Block, Blocks

(* What is appended comes last, and what was there stays where it was.     *)
LEMMA AppendIs ==
  ASSUME NEW S, NEW s, NEW x, s \in Seq(S), x \in S
  PROVE  /\ Append(s, x) \in Seq(S) /\ Len(Append(s, x)) = Len(s) + 1
         /\ \A k \in 1..Len(s) : Append(s, x)[k] = s[k]
         /\ Append(s, x)[Len(s) + 1] = x
OBVIOUS

(* What is in some block of a system prompt.                               *)
InSystem(x, system) == \E k \in 1..Len(system) : x \in Range(system[k].text)

(* The system prompt is the prefix and what else there is to say.          *)
Opens(system, prefix) ==
  /\ system \in Seq(Blocks) /\ Len(system) >= 1
  /\ system[1] = Block(prefix, TRUE)
  /\ \A k \in 2..Len(system) : system[k].cached = FALSE

(* A block that is appended is told last, and what was told still is.      *)
LEMMA AppendedIs ==
  ASSUME NEW prefix, NEW system, Opens(system, prefix), NEW text \in Seq(Clauses),
         NEW longer, longer = Append(system, Block(text, FALSE))
  PROVE  /\ Opens(longer, prefix) /\ Len(longer) > 1
         /\ longer[Len(longer)].text = text
         /\ \A x : InSystem(x, longer) <=> InSystem(x, system) \/ x \in Range(text)
<1> DEFINE block == Block(text, FALSE)
<1>0. longer = Append(system, block)
  OBVIOUS
<1>1. block \in Blocks /\ block.text = text /\ block.cached = FALSE
  BY BlockIs
<1>2. /\ system \in Seq(Blocks) /\ Len(system) \in Nat /\ Len(system) >= 1
      /\ system[1] = Block(prefix, TRUE)
      /\ \A k \in 2..Len(system) : system[k].cached = FALSE
  BY DEF Opens
<1> HIDE DEF block
<1>3. /\ longer \in Seq(Blocks) /\ Len(longer) = Len(system) + 1
      /\ \A k \in 1..Len(system) : longer[k] = system[k]
      /\ longer[Len(system) + 1] = block
  <2>1. block \in Blocks /\ system \in Seq(Blocks)
    BY <1>1, <1>2
  <2>2. /\ Append(system, block) \in Seq(Blocks)
        /\ Len(Append(system, block)) = Len(system) + 1
        /\ \A k \in 1..Len(system) : Append(system, block)[k] = system[k]
        /\ Append(system, block)[Len(system) + 1] = block
    BY <2>1, AppendIs
  <2> QED BY <1>0, <2>2, Zenon
<1>4. longer[1] = Block(prefix, TRUE)
  <2>1. 1 \in 1..Len(system)
    BY <1>2
  <2> QED BY <1>2, <1>3, <2>1
<1>5. ASSUME NEW k \in 2..Len(longer) PROVE longer[k].cached = FALSE
  <2>1. CASE k \in 2..Len(system)
    <3>1. k \in 1..Len(system)
      BY <2>1
    <3> QED BY <1>2, <1>3, <2>1, <3>1
  <2>2. CASE k = Len(system) + 1
    BY <1>1, <1>3, <2>2
  <2>3. k \in 2..Len(system) \/ k = Len(system) + 1
    BY <1>2, <1>3
  <2> QED BY <2>1, <2>2, <2>3
<1>6. Opens(longer, prefix) /\ Len(longer) > 1 /\ longer[Len(longer)].text = text
  <2>1. Len(longer) >= 1 /\ Len(longer) > 1
    BY <1>2, <1>3
  <2>2. Opens(longer, prefix)
    BY <1>3, <1>4, <1>5, <2>1 DEF Opens
  <2>3. longer[Len(longer)] = block
    BY <1>3
  <2> QED BY <1>1, <2>1, <2>2, <2>3
<1>7. ASSUME NEW x
      PROVE  InSystem(x, longer) <=> InSystem(x, system) \/ x \in Range(text)
  <2>1. \A k \in 1..Len(longer) : k \in 1..Len(system) \/ k = Len(system) + 1
    BY <1>2, <1>3
  <2>2. /\ \A k \in 1..Len(system) : k \in 1..Len(longer)
        /\ Len(system) + 1 \in 1..Len(longer)
    BY <1>2, <1>3
  <2> QED BY <1>1, <1>3, <2>1, <2>2 DEF InSystem
<1> QED BY <1>6, <1>7

(* The request of a turn: a block that has nothing to say is left out.     *)
LEMMA RequestIs ==
  ASSUME NEW prefix \in Seq(Clauses), NEW recall \in Seq(Clauses),
         NEW recap \in Seq(Clauses), NEW turns, NEW transcript
  PROVE  LET system == Request(prefix, recall, recap, turns, transcript).system
         IN  /\ Opens(system, prefix)
             /\ \A x : InSystem(x, system) <=>
                         x \in Range(prefix) \cup Range(recall) \cup Range(recap)
<1> DEFINE first == <<Block(prefix, TRUE)>>
           second == Only(recall # <<>>, Block(recall, FALSE))
           third == Only(recap # <<>>, Block(recap, FALSE))
<1>1. /\ Opens(first, prefix)
      /\ \A x : InSystem(x, first) <=> x \in Range(prefix)
  <2>1. PICK block : block = Block(prefix, TRUE)
    OBVIOUS
  <2>2. block \in Blocks /\ block.text = prefix
    BY <2>1, BlockIs
  <2>3. /\ <<block>> \in Seq(Blocks) /\ Len(<<block>>) = 1 /\ <<block>>[1] = block
    BY <2>2
  <2>4. first = <<block>>
    BY <2>1
  <2> HIDE DEF first
  <2>5. Opens(first, prefix)
    <3>1. Len(first) = 1 /\ first \in Seq(Blocks) /\ first[1] = Block(prefix, TRUE)
      BY <2>1, <2>3, <2>4
    <3>2. \A k \in 2..Len(first) : FALSE
      BY <3>1
    <3>3. Len(first) >= 1
      BY <3>1
    <3> QED BY <3>1, <3>2, <3>3 DEF Opens
  <2>6. ASSUME NEW x PROVE InSystem(x, first) <=> x \in Range(prefix)
    <3>1. \A k \in 1..1 : k = 1
      OBVIOUS
    <3> QED BY <2>2, <2>3, <2>4, <3>1 DEF InSystem
  <2> QED BY <2>5, <2>6
<1>2. ASSUME NEW system, Opens(system, prefix), NEW text \in Seq(Clauses)
      PROVE  /\ Opens(system \o Only(text # <<>>, Block(text, FALSE)), prefix)
             /\ \A x : InSystem(x, system \o Only(text # <<>>, Block(text, FALSE))) <=>
                         InSystem(x, system) \/ x \in Range(text)
  <2>1. system \in Seq(Blocks)
    BY <1>2 DEF Opens
  <2>2. CASE text = <<>>
    <3>1. Only(text # <<>>, Block(text, FALSE)) = <<>>
      BY <2>2 DEF Only
    <3>2. system \o <<>> = system
      BY <2>1
    <3>3. Range(text) = {}
      BY <2>2 DEF Range
    <3> QED BY <1>2, <3>1, <3>2, <3>3
  <2>3. CASE text # <<>>
    <3> DEFINE block == Block(text, FALSE)
    <3>1. Only(text # <<>>, Block(text, FALSE)) = <<block>> /\ block \in Blocks
      BY <2>3, BlockIs DEF Only
    <3>2. system \o <<block>> = Append(system, block)
      <4>1. block \in Blocks
        BY <3>1
      <4> HIDE DEF block
      <4> QED BY <2>1, <4>1
    <3> DEFINE longer == Append(system, block)
    <3>3. longer = Append(system, Block(text, FALSE))
      OBVIOUS
    <3> HIDE DEF longer
    <3>4. /\ Opens(longer, prefix)
          /\ \A x : InSystem(x, longer) <=> InSystem(x, system) \/ x \in Range(text)
      BY <1>2, <3>3, AppendedIs
    <3> QED BY <3>1, <3>2, <3>4 DEF longer
  <2> QED BY <2>2, <2>3
<1>3. Request(prefix, recall, recap, turns, transcript).system = (first \o second) \o third
  BY DEF Request, MessageRequest
<1> HIDE DEF first
<1>4. /\ Opens(first \o second, prefix)
      /\ \A x : InSystem(x, first \o second) <=> x \in Range(prefix) \/ x \in Range(recall)
  BY <1>1, <1>2
<1> HIDE DEF second
<1>5. /\ Opens((first \o second) \o third, prefix)
      /\ \A x : InSystem(x, (first \o second) \o third) <=>
                  x \in Range(prefix) \/ x \in Range(recall) \/ x \in Range(recap)
  <2> DEFINE both == first \o second
  <2>1. /\ Opens(both, prefix)
        /\ \A x : InSystem(x, both) <=> x \in Range(prefix) \/ x \in Range(recall)
    BY <1>4
  <2> HIDE DEF both
  <2>2. /\ Opens(both \o third, prefix)
        /\ \A x : InSystem(x, both \o third) <=> InSystem(x, both) \/ x \in Range(recap)
    BY <1>2, <2>1
  <2> QED BY <2>1, <2>2 DEF both
<1> QED BY <1>3, <1>5

(* The system text of a local model holds what the blocks hold.            *)
LEMMA LocalIs ==
  ASSUME NEW request, NEW prefix, Opens(request.system, prefix)
  PROVE  LET told == LocalPrompt(request).system
         IN  /\ told \in Seq(Clauses)
             /\ \A x : x \in Range(told) <=> InSystem(x, request.system)
             /\ \A x \in Clauses :
                  Len(request.system) > 1
                    /\ request.system[Len(request.system)].text = <<x>>
                    => told[Len(told)] = x
<1> DEFINE system == request.system
           texts == [k \in DOMAIN system |-> system[k].text]
<1>1. system \in Seq(Blocks) /\ Len(system) \in Nat /\ DOMAIN system = 1..Len(system)
  BY DEF Opens
<1> HIDE DEF system
<1>2. \A k \in 1..Len(system) : system[k].text \in Seq(Clauses)
  <2> TAKE k \in 1..Len(system)
  <2>1. system[k] \in Blocks
    BY <1>1
  <2> QED BY <2>1 DEF Blocks
<1>3. texts \in [1..Len(system) -> Seq(Clauses)] /\ DOMAIN texts = 1..Len(system)
      /\ \A k \in 1..Len(system) : texts[k] = system[k].text
  BY <1>1, <1>2
<1>4. LocalPrompt(request).system = FlattenSeq(texts)
  BY DEF LocalPrompt, system
<1> HIDE DEF texts
<1>5. texts \in Seq(Seq(Clauses)) /\ Len(texts) = Len(system)
  BY <1>1, <1>3
<1>6. /\ FlattenSeq(texts) \in Seq(Clauses)
      /\ Range(FlattenSeq(texts)) = UNION {Range(texts[k]) : k \in 1..Len(texts)}
  BY <1>5, FlattenIs
<1>7. ASSUME NEW x PROVE x \in Range(FlattenSeq(texts)) <=> InSystem(x, system)
  BY <1>3, <1>5, <1>6 DEF InSystem
<1>8. ASSUME NEW x \in Clauses, Len(system) > 1, system[Len(system)].text = <<x>>
      PROVE  FlattenSeq(texts)[Len(FlattenSeq(texts))] = x
  <2>1. Len(texts) > 1 /\ Len(system) \in 1..Len(system)
    BY <1>1, <1>5, <1>8
  <2>2. texts[Len(texts)] = <<x>>
    BY <1>3, <1>5, <1>8, <2>1
  <2> QED BY <1>5, <2>1, <2>2, FlattenLast
<1> QED BY <1>4, <1>6, <1>7, <1>8 DEF system

(* The request of a turn, and of a re-issue of it.                         *)
LEMMA AskedIs ==
  ASSUME TypeOK, NEW hits \in Memories, NEW recap \in Memories,
         NEW leaked \in SUBSET config.forbidden, NEW request,
         request = IF leaked = {} THEN Asked(hits, recap)
                                  ELSE Hardened(Asked(hits, recap), leaked)
  PROVE  LET prefix == StablePrefix(ComposeBase(config.persona, config.forbidden), config.lock)
         IN  /\ Opens(request.system, prefix)
             /\ \A x : InSystem(x, request.system) <=>
                  \/ x \in Range(prefix) \/ x \in Range(RecallContext(hits))
                  \/ x \in Range(RecapContext(recap))
                  \/ leaked # {} /\ x = <<"do_not_use", leaked>>
             /\ leaked # {} =>
                  /\ Len(request.system) > 1
                  /\ request.system[Len(request.system)].text = <<<<"do_not_use", leaked>>>>
             /\ request.messages = Asked(<<>>, <<>>).messages
<1> DEFINE prefix == StablePrefix(ComposeBase(config.persona, config.forbidden), config.lock)
           told == RecallContext(hits)
           retold == RecapContext(recap)
           asked == Asked(hits, recap)
<1>1. /\ config.persona \in Persona /\ config.forbidden \in SUBSET Term
      /\ config.lock \in BOOLEAN
  BY DEF TypeOK, Config
<1>2. hits \in Seq(STRING) /\ recap \in Seq(STRING)
  BY BrainAssumption
<1>3. prefix \in Seq(Clauses)
  BY <1>1, PrefixIs
<1>4. told \in Seq(Clauses) /\ retold \in Seq(Clauses)
  BY <1>2, ContextsAre
<1>5. /\ asked = [system |-> asked.system, messages |-> asked.messages]
      /\ asked.messages = Asked(<<>>, <<>>).messages
  BY DEF Asked, Request, MessageRequest
<1>6. asked.system = Request(prefix, told, retold, Trimmed(history),
                             Length[now.said.topic]).system
  BY DEF Asked
<1> HIDE DEF prefix, told, retold, asked
<1>7. /\ Opens(asked.system, prefix)
      /\ \A x : InSystem(x, asked.system) <=>
                  x \in Range(prefix) \cup Range(told) \cup Range(retold)
  BY <1>3, <1>4, <1>6, RequestIs
<1>8. CASE leaked = {}
  <2>1. request = asked
    BY <1>8 DEF asked
  <2> QED BY <1>5, <1>7, <1>8, <2>1 DEF prefix, told, retold
<1>9. CASE leaked # {}
  <2> DEFINE clause == <<"do_not_use", leaked>>
  <2>1. clause \in Clauses
    BY <1>1 DEF Clauses, Tags
  <2>2. request.system = Append(asked.system, Block(<<clause>>, FALSE))
        /\ request.messages = asked.messages
    <3>1. request = Hardened(asked, leaked)
      BY <1>9 DEF asked
    <3>2. Hardened(asked, leaked)
            = [asked EXCEPT !.system = Append(asked.system, Block(<<clause>>, FALSE))]
      BY DEF Hardened
    <3> QED BY <1>5, <3>1, <3>2
  <2> HIDE DEF clause
  <2>3. <<clause>> \in Seq(Clauses) /\ \A x : x \in Range(<<clause>>) <=> x = clause
    BY <2>1 DEF Range
  <2>4. /\ Opens(request.system, prefix) /\ Len(request.system) > 1
        /\ request.system[Len(request.system)].text = <<clause>>
        /\ \A x : InSystem(x, request.system) <=>
                    InSystem(x, asked.system) \/ x \in Range(<<clause>>)
    BY <1>7, <2>2, <2>3, AppendedIs
  <2> QED BY <1>5, <1>7, <1>9, <2>2, <2>3, <2>4 DEF prefix, told, retold, clause
<1> QED BY <1>8, <1>9

(* What every rung is told of one request, and what of it may be cached.   *)
Guarded(request, hits, recap, leaked) ==
  LET told == LocalPrompt(request).system
  IN  /\ Clause("destructive_gate_guard") \in Range(told)
      /\ config.lock <=> Clause("child_lock_guard") \in Range(told)
      /\ config.forbidden # {} => <<"never_use", config.forbidden>> \in Range(told)
      /\ leaked # {} => told[Len(told)] = <<"do_not_use", leaked>>
      /\ \A hit \in Range(hits) \cup Range(recap) :
           hit # Blank <=> Clause(hit) \in Range(told)
      /\ {k \in DOMAIN request.system : request.system[k].cached} = {1}
      /\ request.system[1] = Asked(<<>>, <<>>).system[1]
      /\ LocalPrompt(request).messages = Asked(<<>>, <<>>).messages

(* The first request and every re-issue tell a rung all of it.             *)
LEMMA GuardsAreTold ==
  ASSUME TypeOK, NEW hits \in Memories, NEW recap \in Memories,
         NEW leaked \in SUBSET config.forbidden, NEW request,
         request = IF leaked = {} THEN Asked(hits, recap)
                                  ELSE Hardened(Asked(hits, recap), leaked)
  PROVE  Guarded(request, hits, recap, leaked)
<1> DEFINE prefix == StablePrefix(ComposeBase(config.persona, config.forbidden), config.lock)
           told == LocalPrompt(request).system
           system == request.system
           leak == <<"do_not_use", leaked>>
<1>1. /\ config.persona \in Persona /\ config.forbidden \in SUBSET Term
      /\ config.lock \in BOOLEAN
  BY DEF TypeOK, Config
<1>2. /\ Opens(system, prefix)
      /\ \A x : InSystem(x, system) <=>
           \/ x \in Range(prefix) \/ x \in Range(RecallContext(hits))
           \/ x \in Range(RecapContext(recap))
           \/ leaked # {} /\ x = leak
      /\ leaked # {} => Len(system) > 1 /\ system[Len(system)].text = <<leak>>
      /\ request.messages = Asked(<<>>, <<>>).messages
  BY AskedIs
<1>3. Tells(prefix, config.forbidden, config.lock)
  BY <1>1, PrefixIs
<1>4. /\ \A x : x \in Range(told) <=> InSystem(x, system)
      /\ \A x \in Clauses : Len(system) > 1 /\ system[Len(system)].text = <<x>>
                              => told[Len(told)] = x
  BY <1>2, LocalIs
<1>5. leak \in Clauses
  BY <1>1 DEF Clauses, Tags
<1>6. /\ hits \in Seq(STRING \ {"child_lock_guard"}) /\ hits \in Seq(STRING)
      /\ recap \in Seq(STRING \ {"child_lock_guard"}) /\ recap \in Seq(STRING)
  BY BrainAssumption
<1>7. \A hit \in Range(hits) \cup Range(recap) : hit # "child_lock_guard"
  BY <1>6 DEF Range
<1>8. /\ Range(Told(hits)) = {Clause(hit) : hit \in Range(hits) \ {Blank}}
      /\ Range(Told(recap)) = {Clause(hit) : hit \in Range(recap) \ {Blank}}
  BY <1>6, ToldIs
<1>9. \A x : /\ x \in Range(RecallContext(hits)) =>
                  \/ \E hit \in Range(hits) \ {Blank} : x = Clause(hit)
                  \/ \E tag \in Headings : x = Clause(tag)
             /\ x \in Range(RecapContext(recap)) =>
                  \/ \E hit \in Range(recap) \ {Blank} : x = Clause(hit)
                  \/ \E tag \in Headings : x = Clause(tag)
  BY <1>6, <1>8, ContextsAre DEF Headings
<1>10. \A hit : /\ hit \in Range(hits) \ {Blank} => Clause(hit) \in Range(RecallContext(hits))
                /\ hit \in Range(recap) \ {Blank} => Clause(hit) \in Range(RecapContext(recap))
  BY <1>6, <1>8, ContextsAre
<1> HIDE DEF told, system, prefix, leak
<1>11. PICK own \in SUBSET {Clause(tag) : tag \in Manners} :
         Range(prefix) = own \cup (IF config.forbidden # {}
                                   THEN {<<"never_use", config.forbidden>>} ELSE {})
                             \cup (IF config.lock THEN {Clause("child_lock_guard")} ELSE {})
                             \cup {Clause("destructive_gate_guard")}
  BY <1>3 DEF Tells
<1>12. Clause("destructive_gate_guard") \in Range(told)
  BY <1>2, <1>4, <1>11
<1>13. config.forbidden # {} => <<"never_use", config.forbidden>> \in Range(told)
  BY <1>2, <1>4, <1>11
<1>14. leaked # {} => told[Len(told)] = leak
  BY <1>2, <1>4, <1>5
(* Where a clause with a tag and no terms can come from. *)
<1>15. ASSUME NEW tag, Clause(tag) \in Range(told)
       PROVE  \/ tag \in Manners \cup {"destructive_gate_guard"} \cup Headings
              \/ tag = "child_lock_guard" /\ config.lock
              \/ tag \in (Range(hits) \cup Range(recap)) \ {Blank}
  <2>1. \/ Clause(tag) \in Range(prefix) \/ Clause(tag) \in Range(RecallContext(hits))
        \/ Clause(tag) \in Range(RecapContext(recap))
        \/ leaked # {} /\ Clause(tag) = leak
    BY <1>2, <1>4, <1>15
  <2>2. ~(leaked # {} /\ Clause(tag) = leak)
    BY TagsDiffer DEF leak
  <2>3. CASE Clause(tag) \in Range(prefix)
    <3>1. \/ Clause(tag) \in own
          \/ config.forbidden # {} /\ Clause(tag) = <<"never_use", config.forbidden>>
          \/ config.lock /\ Clause(tag) = Clause("child_lock_guard")
          \/ Clause(tag) = Clause("destructive_gate_guard")
      BY <1>11, <2>3
    <3>2. Clause(tag) \in own => \E other \in Manners : Clause(tag) = Clause(other)
      OBVIOUS
    <3> QED BY <3>1, <3>2, TagsDiffer
  <2>4. CASE Clause(tag) \in Range(RecallContext(hits)) \cup Range(RecapContext(recap))
    <3>1. \/ \E hit \in Range(hits) \cup Range(recap) : hit # Blank /\ Clause(tag) = Clause(hit)
          \/ \E other \in Headings : Clause(tag) = Clause(other)
      BY <1>9, <2>4
    <3> QED BY <3>1, TagsDiffer
  <2> QED BY <2>1, <2>2, <2>3, <2>4
<1>16. config.lock <=> Clause("child_lock_guard") \in Range(told)
  <2>1. config.lock => Clause("child_lock_guard") \in Range(told)
    BY <1>2, <1>4, <1>11
  <2>2. "child_lock_guard" \notin Manners \cup {"destructive_gate_guard"} \cup Headings
    BY DEF Manners, Headings
  <2> QED BY <1>7, <1>15, <2>1, <2>2
<1>17. ASSUME NEW hit \in Range(hits) \cup Range(recap)
       PROVE  hit # Blank <=> Clause(hit) \in Range(told)
  <2>1. hit # Blank => Clause(hit) \in Range(told)
    BY <1>2, <1>4, <1>10
  <2>2. Blank \notin Manners \cup {"destructive_gate_guard", "child_lock_guard"} \cup Headings
    BY DEF Blank, Manners, Headings
  <2> QED BY <1>15, <2>1, <2>2
<1>18. {k \in DOMAIN system : system[k].cached} = {1}
  <2>1. /\ system \in Seq(Blocks) /\ Len(system) \in Nat /\ Len(system) >= 1
        /\ system[1] = Block(prefix, TRUE)
        /\ \A k \in 2..Len(system) : system[k].cached = FALSE
    BY <1>2 DEF Opens
  <2>2. DOMAIN system = 1..Len(system)
    BY <2>1
  <2>3. system[1].cached = TRUE
    BY <2>1 DEF Block
  <2>4. 1 \in 1..Len(system) /\ \A k \in 1..Len(system) : k = 1 \/ k \in 2..Len(system)
    BY <2>1
  <2>5. \A k \in 1..Len(system) : system[k].cached <=> k = 1
    BY <2>1, <2>3, <2>4
  <2> QED BY <2>2, <2>4, <2>5
<1>19. system[1] = Asked(<<>>, <<>>).system[1]
  <2>1. <<>> \in Seq(STRING)
    OBVIOUS
  <2>2. RecallContext(<<>>) \in Seq(Clauses) /\ RecapContext(<<>>) \in Seq(Clauses)
    BY <2>1, ContextsAre
  <2>3. Asked(<<>>, <<>>).system
          = Request(prefix, RecallContext(<<>>), RecapContext(<<>>), Trimmed(history),
                    Length[now.said.topic]).system
    BY DEF Asked, prefix
  <2>4. prefix \in Seq(Clauses)
    BY <1>1, PrefixIs DEF prefix
  <2>5. Opens(Asked(<<>>, <<>>).system, prefix)
    BY <2>2, <2>3, <2>4, RequestIs
  <2> QED BY <1>2, <2>5 DEF Opens
<1>20. LocalPrompt(request).messages = Asked(<<>>, <<>>).messages
  BY <1>2 DEF LocalPrompt
<1> QED BY <1>12, <1>13, <1>14, <1>16, <1>17, <1>18, <1>19, <1>20 DEF Guarded, told, system, leak

(* Whatever is remembered and however often the redline asks again, every  *)
(* rung is told the guards and every forbidden term, a local one no less   *)
(* than the cloud, what leaked comes last, and the cached part is the same *)
(* for every request.  (compose_request, prompt_from_request,              *)
(* handle_turn_user_ladder)                                                *)
THEOREM GuardsHold == Spec => []GuardsReachEveryModel
<1>1. BrainTypes => GuardsReachEveryModel
  <2> SUFFICES ASSUME BrainTypes, NEW hits \in Memories, NEW recap \in Memories,
                      NEW leaked \in SUBSET config.forbidden
               PROVE  Guarded(IF leaked = {} THEN Asked(hits, recap)
                              ELSE Hardened(Asked(hits, recap), leaked),
                              hits, recap, leaked)
    BY DEF GuardsReachEveryModel, Guarded
  <2> QED BY GuardsAreTold DEF BrainTypes
<1> QED BY BrainTypesInitially, BrainTypesKept, <1>1, PTL DEF Spec

-----------------------------------------------------------------------------
(* What Chars goes through on its way, up to the m-th exchange.            *)
Sums(f, turns, m) ==
  f = [k \in 0..m |-> IF k = 0 THEN 0 ELSE f[k - 1] + turns[k].user]

(* What the history is made of.                                            *)
Exchange == [user : Nat, reply : Text]

(* The length of exchanges is a number, and none have none.                *)
LEMMA CharsIs ==
  ASSUME NEW turns \in Seq(Exchange)
  PROVE  Chars(turns) \in Nat /\ (turns = <<>> => Chars(turns) = 0)
<1> DEFINE n == Len(turns)
           Can(m) == \E f : Sums(f, turns, m) /\ f[m] \in Nat
           Good == {m \in Nat : m <= n => Can(m)}
<1>1. 0 \in Good
  <2> DEFINE f == [k \in 0..0 |-> 0]
  <2>1. Sums(f, turns, 0) /\ f[0] \in Nat
    BY DEF Sums
  <2> HIDE DEF f
  <2> QED BY <2>1
<1>2. ASSUME NEW m \in Good PROVE m + 1 \in Good
  <2> SUFFICES ASSUME m + 1 <= n PROVE Can(m + 1)
    <3> HIDE DEF Can
    <3> QED OBVIOUS
  <2>1. m \in Nat /\ n \in Nat /\ m <= n /\ m + 1 \in 1..n
    OBVIOUS
  <2>2. PICK f : Sums(f, turns, m) /\ f[m] \in Nat
    <3>1. Can(m)
      <4> HIDE DEF Can
      <4> QED BY <2>1
    <3> QED BY <3>1
  <2>3. turns[m + 1].user \in Nat
    <3>1. turns[m + 1] \in Exchange
      BY <2>1
    <3> QED BY <3>1 DEF Exchange
  <2> DEFINE next == f[m] + turns[m + 1].user
             g == [k \in 0..m + 1 |-> IF k = m + 1 THEN next ELSE f[k]]
  <2>4. (\A k \in 0..m : g[k] = f[k]) /\ g[m + 1] = next /\ next \in Nat
    <3>1. next \in Nat
      BY <2>2, <2>3
    <3> HIDE DEF next
    <3> QED BY <2>1, <3>1
  <2>5. \A k \in 0..m : f[k] = IF k = 0 THEN 0 ELSE f[k - 1] + turns[k].user
    BY <2>2 DEF Sums
  <2>6. \A k \in 0..m + 1 : g[k] = IF k = 0 THEN 0 ELSE g[k - 1] + turns[k].user
    <3> TAKE k \in 0..m + 1
    <3>1. CASE k = m + 1
      <4>1. k - 1 = m /\ k # 0 /\ m \in 0..m
        BY <2>1, <3>1
      <4> HIDE DEF g
      <4> QED BY <2>4, <3>1, <4>1
    <3>2. CASE k # m + 1
      <4>1. k \in 0..m /\ (k # 0 => k - 1 \in 0..m)
        BY <2>1, <3>2
      <4> HIDE DEF g
      <4> QED BY <2>4, <2>5, <4>1
    <3> QED BY <3>1, <3>2
  <2>7. g = [k \in 0..m + 1 |-> g[k]]
    OBVIOUS
  <2> HIDE DEF g
  <2>8. Sums(g, turns, m + 1) /\ g[m + 1] \in Nat
    BY <2>4, <2>6, <2>7 DEF Sums
  <2> QED BY <2>8
<1>3. \E f : Sums(f, turns, n) /\ f[n] \in Nat
  <2>1. n \in Nat /\ n <= n /\ Good \in SUBSET Nat
    OBVIOUS
  <2> HIDE DEF Good
  <2>2. Good = Nat
    BY <1>1, <1>2, <2>1, Induction
  <2>3. Can(n)
    <3> HIDE DEF Can
    <3> QED BY <2>1, <2>2 DEF Good
  <2> QED BY <2>3
<1> HIDE DEF Good
(* There is one such function only. *)
<1>4. PICK f : Sums(f, turns, n) /\ f[n] \in Nat
  BY <1>3
<1>5. ASSUME NEW g, Sums(g, turns, n) PROVE g[n] = f[n]
  <2> DEFINE Same == {k \in Nat : k <= n => g[k] = f[k]}
  <2>1. \A k \in 0..n : /\ f[k] = IF k = 0 THEN 0 ELSE f[k - 1] + turns[k].user
                        /\ g[k] = IF k = 0 THEN 0 ELSE g[k - 1] + turns[k].user
    BY <1>4, <1>5 DEF Sums
  <2>2. n \in Nat /\ n <= n /\ 0 \in 0..n /\ Same \in SUBSET Nat
    OBVIOUS
  <2>3. 0 \in Same
    BY <2>1, <2>2
  <2>4. ASSUME NEW k \in Same PROVE k + 1 \in Same
    <3> SUFFICES ASSUME k + 1 <= n PROVE g[k + 1] = f[k + 1]
      OBVIOUS
    <3>1. k \in Nat /\ k <= n /\ k + 1 \in 0..n /\ k + 1 # 0 /\ (k + 1) - 1 = k
      BY <2>2
    <3>2. g[k] = f[k]
      BY <3>1
    <3> QED BY <2>1, <3>1, <3>2
  <2> HIDE DEF Same
  <2>5. Same = Nat
    BY <2>2, <2>3, <2>4, Induction
  <2> QED BY <2>2, <2>5 DEF Same
<1> DEFINE sum == CHOOSE g : g = [k \in 0..n |-> IF k = 0 THEN 0 ELSE g[k - 1] + turns[k].user]
<1>6. Chars(turns) = sum[n]
  BY Zenon DEF Chars
<1>7. Sums(sum, turns, n)
  <2>1. \E g : g = [k \in 0..n |-> IF k = 0 THEN 0 ELSE g[k - 1] + turns[k].user]
    BY <1>4, Zenon DEF Sums
  <2>2. sum = [k \in 0..n |-> IF k = 0 THEN 0 ELSE sum[k - 1] + turns[k].user]
    BY <2>1, Zenon
  <2> HIDE DEF sum
  <2> QED BY <2>2, Zenon DEF Sums
<1> HIDE DEF sum
<1>8. Chars(turns) \in Nat
  BY <1>4, <1>5, <1>6, <1>7
<1>9. ASSUME turns = <<>> PROVE Chars(turns) = 0
  <2>1. n = 0 /\ 0 \in 0..n
    BY <1>9
  <2> HIDE DEF n
  <2>2. sum[0] = 0
    BY <1>7, <2>1 DEF Sums
  <2> QED BY <1>6, <2>1, <2>2
<1> QED BY <1>8, <1>9

(* What is below a number has a greatest element.                          *)
LEMMA MaxIs ==
  ASSUME NEW n \in Nat, NEW S \in SUBSET (0..n), S # {}
  PROVE  Max(S) \in S /\ \A x \in S : x <= Max(S)
<1> DEFINE T == {n - x : x \in S}
<1>1. T \in SUBSET Nat /\ T # {}
  OBVIOUS
<1> HIDE DEF T
<1>2. PICK t \in T : \A u \in T : t <= u
  BY <1>1, LeastNat
<1>3. PICK m \in S : t = n - m
  BY DEF T
<1>4. \A x \in S : n - x \in T
  BY DEF T
<1>5. \A x \in S : n - m <= n - x /\ x \in Int
  BY <1>2, <1>3, <1>4
<1>6. \A x \in S : m >= x
  BY <1>5
<1>7. Max(S) \in S /\ \A x \in S : Max(S) >= x
  BY <1>6 DEF Max
<1>8. S \subseteq Int
  OBVIOUS
<1> QED BY <1>7, <1>8

(* The latest exchanges, as many as are asked for.                         *)
LEMMA LatestIs ==
  ASSUME NEW S, NEW turns \in Seq(S), NEW k \in 0..Len(turns)
  PROVE  /\ Latest(turns, k) \in Seq(S) /\ Len(Latest(turns, k)) = k
         /\ \A i \in 1..k : Latest(turns, k)[i] = turns[Len(turns) - k + i]
<1> DEFINE m == Len(turns) - k + 1
<1>1. /\ m \in Nat /\ m >= 1 /\ Len(turns) \in Nat /\ k \in Nat /\ Len(turns) - m + 1 = k
      /\ m = Len(turns) - k + 1
  OBVIOUS
<1>2. Latest(turns, k) = SubSeq(turns, m, Len(turns))
  BY DEF Latest
<1> HIDE DEF m
<1>3. /\ Len(SubSeq(turns, m, Len(turns))) = k
      /\ \A i \in 1..k : SubSeq(turns, m, Len(turns))[i] = turns[m + i - 1]
  BY <1>1
<1>4. \A i \in 1..k : /\ m + i - 1 = Len(turns) - k + i
                      /\ m + i - 1 \in 1..Len(turns)
  BY <1>1
<1>5. SubSeq(turns, m, Len(turns)) \in Seq(S)
  BY <1>1
<1> QED BY <1>2, <1>3, <1>4, <1>5

(* What is shown is the longest latest stretch that fits.                  *)
LEMMA TrimmedIs ==
  ASSUME NEW turns \in Seq(Exchange)
  PROVE  \E k \in 0..Len(turns) :
           /\ Trimmed(turns) = Latest(turns, k)
           /\ Chars(Latest(turns, k)) <= CharBudget
           /\ k < Len(turns) => Chars(Latest(turns, k + 1)) > CharBudget
<1> DEFINE Fit(k) == \A j \in 0..k : Chars(Latest(turns, j)) <= CharBudget
           S == {k \in 0..Len(turns) : Fit(k)}
           k == Max(S)
<1>1. Len(turns) \in Nat
  OBVIOUS
<1>2. \A j \in 0..Len(turns) : Chars(Latest(turns, j)) \in Nat
  BY LatestIs, CharsIs
<1>3. 0 \in S
  <2>1. 0 \in 0..Len(turns) /\ 0..0 = {0}
    BY <1>1
  <2>2. Latest(turns, 0) \in Seq(Exchange) /\ Len(Latest(turns, 0)) = 0
    BY <2>1, LatestIs
  <2>3. Latest(turns, 0) = <<>>
    BY <2>2
  <2>4. Chars(Latest(turns, 0)) = 0
    BY <2>2, <2>3, CharsIs
  <2> QED BY <2>1, <2>4, PromptAssumption
<1>4. Trimmed(turns) = Latest(turns, k)
  BY DEF Trimmed
<1>5. S \in SUBSET (0..Len(turns)) /\ S # {}
  BY <1>3
<1> HIDE DEF Fit
<1>6. \A n \in 0..Len(turns) : n \in S <=> Fit(n)
  OBVIOUS
<1> HIDE DEF S
<1>7. k \in S /\ \A n \in S : n <= k
  BY <1>1, <1>5, MaxIs
<1> HIDE DEF k
<1>8. k \in 0..Len(turns) /\ Fit(k)
  BY <1>5, <1>6, <1>7
<1>9. Chars(Latest(turns, k)) <= CharBudget
  <2>1. k \in 0..k
    BY <1>8
  <2> QED BY <1>8, <2>1 DEF Fit
<1>10. ASSUME k < Len(turns) PROVE Chars(Latest(turns, k + 1)) > CharBudget
  <2>1. k + 1 \in 0..Len(turns) /\ ~(k + 1 <= k)
    BY <1>8, <1>10
  <2>2. ~Fit(k + 1)
    BY <1>6, <1>7, <2>1
  <2>3. \A j \in 0..k + 1 : j \in 0..k \/ j = k + 1
    BY <1>8
  <2>4. ~(Chars(Latest(turns, k + 1)) <= CharBudget)
    BY <1>8, <2>2, <2>3 DEF Fit
  <2> QED BY <1>2, <2>1, <2>4, PromptAssumption
<1> QED BY <1>4, <1>8, <1>9, <1>10

(* The messages of exchanges are theirs, two and two.                      *)
LEMMA MessagesAre ==
  ASSUME NEW turns \in Seq(Exchange)
  PROVE  /\ Messages(turns) \in Seq([role : {"user", "assistant"}, content : Nat \cup Text])
         /\ Len(Messages(turns)) = 2 * Len(turns)
         /\ \A k \in 1..Len(turns) :
              /\ Messages(turns)[2 * k - 1] = [role |-> "user", content |-> turns[k].user]
              /\ Messages(turns)[2 * k] = [role |-> "assistant", content |-> turns[k].reply]
<1> DEFINE Message == [role : {"user", "assistant"}, content : Nat \cup Text]
           asked(k) == [role |-> "user", content |-> turns[k].user]
           answered(k) == [role |-> "assistant", content |-> turns[k].reply]
           pairs == [k \in DOMAIN turns |-> <<asked(k), answered(k)>>]
<1>1. \A k \in 1..Len(turns) : turns[k] \in Exchange
  OBVIOUS
<1>2. \A k \in 1..Len(turns) : asked(k) \in Message /\ answered(k) \in Message
  BY <1>1 DEF Exchange
<1>3. Messages(turns) = FlattenSeq(pairs)
  BY DEF Messages
<1>4. DOMAIN turns = 1..Len(turns) /\ Len(turns) \in Nat
  OBVIOUS
<1> HIDE DEF Message, asked, answered
<1>5. \A k \in 1..Len(turns) : /\ <<asked(k), answered(k)>> \in Seq(Message)
                               /\ Len(<<asked(k), answered(k)>>) = 2
                               /\ <<asked(k), answered(k)>>[1] = asked(k)
                               /\ <<asked(k), answered(k)>>[2] = answered(k)
  BY <1>2
<1>6. /\ pairs \in Seq(Seq(Message)) /\ Len(pairs) = Len(turns)
      /\ \A k \in 1..Len(turns) : pairs[k] = <<asked(k), answered(k)>>
  BY <1>4, <1>5
<1> HIDE DEF pairs
<1>7. \A k \in 1..Len(pairs) : Len(pairs[k]) = 2
  BY <1>5, <1>6
<1>8. /\ Len(FlattenSeq(pairs)) = 2 * Len(pairs)
      /\ \A k \in 1..Len(pairs) : /\ FlattenSeq(pairs)[2 * k - 1] = pairs[k][1]
                                  /\ FlattenSeq(pairs)[2 * k] = pairs[k][2]
  BY <1>6, <1>7, FlattenPairs
<1>9. FlattenSeq(pairs) \in Seq(Message)
  BY <1>6, FlattenIs
<1> QED BY <1>3, <1>5, <1>6, <1>8, <1>9 DEF Message, asked, answered

(* A model is shown the latest exchanges that fit, the last of this        *)
(* session at the end, and then the question.  (trimmed_messages)          *)
THEOREM ExchangesHold == Spec => []LatestExchangesAreShown
<1>1. BrainTypes /\ RepeatInv => LatestExchangesAreShown
  <2> SUFFICES ASSUME BrainTypes, RepeatInv, phase = "thinking"
               PROVE  LatestExchangesAreShown
    BY DEF LatestExchangesAreShown
  <2>1. history \in Seq(Exchange)
    BY DEF BrainTypes, TypeOK, Exchange
  <2>2. PICK k \in 0..Len(history) :
          /\ Trimmed(history) = Latest(history, k)
          /\ Chars(Latest(history, k)) <= CharBudget
          /\ k < Len(history) => Chars(Latest(history, k + 1)) > CharBudget
    <3> DEFINE turns == history
    <3> HIDE DEF turns
    <3> QED BY <2>1, TrimmedIs, Zenon
  <2> DEFINE shown == Asked(<<>>, <<>>).messages
             asked == Digest(<<>>, config.lock, Trimmed(history)).historyTurns
             before == Messages(Trimmed(history))
             question == [role |-> "user", content |-> Length[now.said.topic]]
  <2>3. /\ Trimmed(history) \in Seq(Exchange) /\ Len(Trimmed(history)) = k
        /\ \A i \in 1..k : Trimmed(history)[i] = history[Len(history) - k + i]
    <3>1. /\ Latest(history, k) \in Seq(Exchange) /\ Len(Latest(history, k)) = k
          /\ \A i \in 1..k : Latest(history, k)[i] = history[Len(history) - k + i]
      BY <2>1, <2>2, LatestIs
    <3> QED BY <2>2, <3>1
  <2>4. asked = k
    BY <2>3 DEF Digest
  <2>5. shown = Append(before, question)
    BY DEF Asked, Request, MessageRequest
  <2> DEFINE Message == [role : {"user", "assistant"}, content : Nat \cup Text]
  <2>6. /\ before \in Seq(Message) /\ Len(before) = 2 * k
        /\ \A i \in 1..k :
             /\ before[2 * i - 1] = [role |-> "user", content |-> Trimmed(history)[i].user]
             /\ before[2 * i] = [role |-> "assistant", content |-> Trimmed(history)[i].reply]
    BY <2>3, MessagesAre
  <2>7. question \in Message
    <3>1. now.said.topic \in Topic
      BY DEF BrainTypes, TypeOK, Hand, Transcript
    <3>2. Length[now.said.topic] \in Nat
      BY <3>1, BrainAssumption
    <3> QED BY <3>2
  <2>8. history # <<>> => Kept(heard) = history[Len(history)].reply
    BY <2>1 DEF RepeatInv, Last
  <2> HIDE DEF shown, asked, before, question, Message
  <2>9. /\ Len(shown) = 2 * k + 1 /\ shown[2 * k + 1] = question
        /\ \A i \in 1..2 * k : shown[i] = before[i]
        /\ DOMAIN shown = 1..2 * k + 1
    <3>1. k \in Nat
      BY <2>1, <2>2
    <3>2. /\ Len(Append(before, question)) = Len(before) + 1
          /\ \A i \in 1..Len(before) : Append(before, question)[i] = before[i]
          /\ Append(before, question)[Len(before) + 1] = question
          /\ Append(before, question) \in Seq(Message)
      BY <2>6, <2>7, AppendIs
    <3>3. DOMAIN shown = 1..Len(shown)
      BY <2>5, <3>2
    <3> QED BY <2>5, <2>6, <3>1, <3>2, <3>3
  <2>10. \A i \in 1..k :
           /\ shown[2 * i - 1].role = "user" /\ shown[2 * i].role = "assistant"
           /\ shown[2 * i - 1].content = history[Len(history) - k + i].user
           /\ shown[2 * i].content = history[Len(history) - k + i].reply
    <3> TAKE i \in 1..k
    <3>1. 2 * i - 1 \in 1..2 * k /\ 2 * i \in 1..2 * k
      BY <2>2
    <3>2. /\ shown[2 * i - 1] = [role |-> "user", content |-> Trimmed(history)[i].user]
          /\ shown[2 * i] = [role |-> "assistant", content |-> Trimmed(history)[i].reply]
      BY <2>6, <2>9, <3>1
    <3>3. Trimmed(history)[i] = history[Len(history) - k + i]
      BY <2>3
    <3> QED BY <3>2, <3>3
  <2>11. \A j \in DOMAIN shown : shown[j].role = IF j % 2 = 1 THEN "user" ELSE "assistant"
    <3> TAKE j \in DOMAIN shown
    <3>1. j \in 1..2 * k + 1 /\ k \in Nat
      BY <2>2, <2>9
    <3>2. CASE j = 2 * k + 1
      <4>1. j % 2 = 1
        BY <3>1, <3>2
      <4> QED BY <2>9, <3>2, <4>1 DEF question
    <3>3. CASE j # 2 * k + 1
      <4>1. CASE j % 2 = 1
        <5> DEFINE i == (j + 1) \div 2
        <5>1. i \in 1..k /\ j = 2 * i - 1
          BY <3>1, <3>3, <4>1
        <5> HIDE DEF i
        <5> QED BY <2>10, <4>1, <5>1
      <4>2. CASE j % 2 # 1
        <5> DEFINE i == j \div 2
        <5>1. i \in 1..k /\ j = 2 * i
          BY <3>1, <3>3, <4>2
        <5> HIDE DEF i
        <5> QED BY <2>10, <4>2, <5>1
      <4> QED BY <4>1, <4>2
    <3> QED BY <3>2, <3>3
  <2>12. k > 0 => shown[2 * k].content = Kept(heard)
    <3> SUFFICES ASSUME k > 0 PROVE shown[2 * k].content = Kept(heard)
      OBVIOUS
    <3>1. k \in 1..k /\ Len(history) - k + k = Len(history) /\ Len(history) > 0
      <4>1. Len(history) \in Nat /\ k \in Nat /\ k <= Len(history)
        BY <2>1, <2>2
      <4>2. k \in 1..k /\ Len(history) > 0
        BY <4>1
      <4>3. Len(history) - k + k = Len(history)
        BY <4>1
      <4> QED BY <4>2, <4>3
    <3>2. shown[2 * k].content = history[Len(history)].reply
      BY <2>10, <3>1
    <3>3. history # <<>>
      BY <3>1
    <3> QED BY <2>8, <3>2, <3>3
  <2>13. shown[Len(shown)].content = Length[now.said.topic]
    BY <2>9 DEF question
  <2> QED BY <2>2, <2>4, <2>9, <2>10, <2>11, <2>12, <2>13
          DEF LatestExchangesAreShown, shown, asked
<1> QED BY <1>1, StartsRepeatable, BrainTypesInitially, BrainTypesKept, RepeatInvKept, PTL DEF Spec
=============================================================================
