------------------------- MODULE RedlineScanProofs -------------------------
(***************************************************************************)
(* The scan is exact, nothing forbidden passes an active redline, no term  *)
(* of letters gets past it by how it is written, and scan and its callers  *)
(* implement a verdict of one glance, for every alphabet, vocabulary,      *)
(* answer and number of attempts.                                          *)
(***************************************************************************)
EXTENDS RedlineScan, FiniteSetTheorems, SequenceTheorems, WellFoundedInduction,
        TLAPS

(* A normalised text is a sequence.                                        *)
LEMMA NormalisedLength ==
  ASSUME NEW s, s \in Seq(Byte)
  PROVE  /\ Len(Normalised(s)) \in Nat
         /\ DOMAIN Normalised(s) = 1..Len(Normalised(s))
         /\ Normalised(s) # <<>> => Len(Normalised(s)) >= 1
<1> DEFINE kept == {i \in DOMAIN s : ~AbbreviationDot(s, i)}
           Nth(n) == CHOOSE i \in kept : Cardinality(kept \cap 1..i) = n
           F == [n \in 1..Cardinality(kept) |-> Folded(s[Nth(n)])]
<1>1. IsFiniteSet(1..Len(s))
  BY FS_Interval
<1>2. kept \subseteq 1..Len(s)
  OBVIOUS
<1>3. Cardinality(kept) \in Nat
  BY <1>1, <1>2, FS_Subset, FS_CardinalityType
<1>4. Normalised(s) = F
  BY DEF Normalised
<1> DEFINE Bytes == {Folded(s[Nth(n)]) : n \in 1..Cardinality(kept)}
<1> HIDE DEF kept, Nth
<1>5. Len(F) = Cardinality(kept) /\ DOMAIN F = 1..Cardinality(kept)
  BY <1>3
<1>6. F \in Seq(Bytes)
  BY <1>3
<1>7. F # <<>> => Len(F) # 0
  BY <1>6, EmptySeq
<1> HIDE DEF F
<1> QED BY <1>3, <1>4, <1>5, <1>7

(* The text that is searched and the terms, normalised.                    *)
LEMMA TextLength ==
  ASSUME TypeOK
  PROVE  /\ Len(Text) \in Nat
         /\ \A t \in DOMAIN terms : /\ Len(Key(t)) \in Nat
                                    /\ DOMAIN Key(t) = 1..Len(Key(t))
                                    /\ Key(t) # <<>> => Len(Key(t)) >= 1
         /\ Len(terms) \in Nat /\ DOMAIN terms = 1..Len(terms)
<1>1. reply \in Seq(Byte) /\ terms \in Seq(Seq(Byte))
  BY TextAssumption DEF TypeOK, WellFormed
<1> QED BY <1>1, NormalisedLength DEF Text, Key

-----------------------------------------------------------------------------
(* Every state of the scan is well-typed, and the re-issues stay within    *)
(* max_attempts.  (TypeOK; scan, enforce_with_regenerate)                  *)
THEOREM ScanTypeCorrect == Spec => []TypeOK
<1>1. Init => TypeOK
  BY AttemptsAssumption, TextAssumption DEF Init, TypeOK, Attempts
<1>2. TypeOK /\ [Next]_vars => TypeOK'
  <2> SUFFICES ASSUME TypeOK, [Next]_vars PROVE TypeOK'
    OBVIOUS
  <2>0. /\ Len(Text) \in Nat
        /\ \A t \in DOMAIN terms : Len(Key(t)) \in Nat
        /\ Len(terms) \in Nat /\ DOMAIN terms = 1..Len(terms)
    BY TextLength
  <2>1. ASSUME NEW p \in 1..Len(Text), Hit(p) PROVE TypeOK'
    BY <2>0, <2>1 DEF Hit, Searching, TypeOK, Attempts
  <2>2. ASSUME NEW p \in 1..Len(Text), Skip(p) PROVE TypeOK'
    BY <2>0, <2>2 DEF Skip, TypeOK, Attempts
  <2>3. CASE Panic
    BY <2>3 DEF Panic, TypeOK, Attempts
  <2>4. CASE Exhaust
    BY <2>0, <2>4 DEF Exhaust, Searching, NextTerm, TypeOK, Attempts
  <2>5. CASE Pass
    BY <2>5 DEF Pass, TypeOK, Attempts
  <2>6. ASSUME NEW candidate \in Replies, Reissue(candidate) PROVE TypeOK'
    <3>1. Named \subseteq DOMAIN terms
      BY DEF Named, TypeOK
    <3>2. [answer |-> reply, named |-> Named] \in [answer : Replies, named : SUBSET DOMAIN terms]
      BY <3>1 DEF TypeOK
    <3>3. Attempts \in Nat
      BY AttemptsAssumption DEF Attempts
    <3> QED BY <2>0, <2>6, <3>2, <3>3 DEF Reissue, Scanned, TypeOK, Attempts
  <2>7. CASE Replace
    BY <2>7 DEF Replace, TypeOK, Attempts
  <2>8. CASE UNCHANGED vars
    BY <2>8 DEF vars, TypeOK, Attempts
  <2> QED BY <2>1, <2>2, <2>3, <2>4, <2>5, <2>6, <2>7, <2>8 DEF Next
<1> QED BY <1>1, <1>2, PTL DEF Spec

-----------------------------------------------------------------------------
(* The loop invariant of scan.  What was searched so far, the terms before *)
(* the current one and the current one up to from, has its hits, and hits  *)
(* are words.                                                              *)
Searched(t, p) == t < term \/ (t = term /\ p < from)

HitsAreWords == \A h \in hits : Word(Text, h.term, h.at)

NothingMissed ==
  phase = "scanning" =>
    \A t \in DOMAIN terms, p \in 1..Len(Text) :
      Word(Text, t, p) /\ Searched(t, p) => \E h \in hits : h.term = t

ScanInv == TypeOK /\ HitsAreWords /\ NothingMissed

(* A word begins within the text.                                          *)
LEMMA WordsAreInTheText ==
  ASSUME TypeOK, NEW t \in DOMAIN terms, NEW p, Word(Text, t, p)
  PROVE  p \in 1..Len(Text)
<1>1. Len(Text) \in Nat /\ Len(Key(t)) \in Nat /\ DOMAIN Key(t) = 1..Len(Key(t))
  BY TextLength
<1>2. p \in 1..(Len(Text) - Len(Key(t)) + 1)
  BY DEF Word, OccursIn
<1>3. Len(Key(t)) >= 1
  BY TextLength DEF Word
<1> QED BY <1>1, <1>2, <1>3

(* A scan that came to its end names what the text says. *)
LEMMA ScanEndsExact ==
  ASSUME ScanInv, Scanned
  PROVE  Named = Leaks(Text)
<1>1. /\ Len(terms) \in Nat /\ DOMAIN terms = 1..Len(terms)
  BY TextLength DEF ScanInv
<1>2. ASSUME NEW h \in hits PROVE h.term \in Leaks(Text)
  <2>1. h.term \in DOMAIN terms /\ Word(Text, h.term, h.at)
    BY DEF ScanInv, TypeOK, HitsAreWords
  <2>2. h.at \in 1..Len(Text)
    BY <2>1, WordsAreInTheText DEF ScanInv
  <2> QED BY <2>1, <2>2 DEF Leaks
<1>3. ASSUME NEW t \in Leaks(Text) PROVE t \in Named
  <2>1. t \in DOMAIN terms
    BY DEF Leaks
  <2>2. PICK p \in 1..Len(Text) : Word(Text, t, p)
    BY DEF Leaks
  <2>3. Searched(t, p)
    BY <1>1, <2>1 DEF Scanned, Searched, ScanInv, TypeOK
  <2>4. \E h \in hits : h.term = t
    BY <2>1, <2>2, <2>3 DEF Scanned, ScanInv, NothingMissed
  <2> QED BY <2>4 DEF Named
<1> QED BY <1>2, <1>3 DEF Named

(* The search within one text: its words stay the same, and the hits of a  *)
(* step are those before it or one more.                                   *)
LEMMA SameText ==
  ASSUME UNCHANGED <<terms, reply>>
  PROVE  /\ Text' = Text
         /\ \A t, p : Word(Text, t, p)' <=> Word(Text, t, p)
BY DEF Text, Word, Key, OccursIn, Bounded

(* A hit is recorded where the word is.                                    *)
LEMMA HitStep ==
  ASSUME ScanInv, TypeOK', NEW q \in 1..Len(Text), Hit(q)
  PROVE  ScanInv'
<1>1. Text' = Text /\ \A t, p : Word(Text, t, p)' <=> Word(Text, t, p)
  BY SameText DEF Hit
<1>2. /\ Len(Text) \in Nat /\ Len(Key(term)) \in Nat /\ term \in DOMAIN terms
      /\ DOMAIN terms = 1..Len(terms) /\ Len(terms) \in Nat
  BY TextLength DEF ScanInv, TypeOK, Hit, Searching
<1>3. Word(Text, term, q)
  BY DEF Hit, Finds, Word
<1>4. HitsAreWords'
  BY <1>1, <1>3 DEF ScanInv, HitsAreWords, Hit
<1>5. ASSUME NEW t \in DOMAIN terms, NEW p \in 1..Len(Text),
             Word(Text, t, p), Searched(t, p)'
      PROVE  \E h \in hits' : h.term = t
  <2>1. CASE t = term
    <3>1. [term |-> term, at |-> q] \in hits'
      BY DEF Hit
    <3>2. [term |-> term, at |-> q].term = t
      BY <2>1
    <3> QED BY <3>1, <3>2
  <2>2. CASE t # term
    <3>1. Searched(t, p)
      BY <1>5, <2>2 DEF Searched, Hit
    <3> QED BY <1>5, <3>1 DEF ScanInv, NothingMissed, Hit, Searching
  <2> QED BY <2>1, <2>2
<1>6. NothingMissed'
  BY <1>1, <1>5 DEF NothingMissed, Hit
<1> QED BY <1>4, <1>6 DEF ScanInv

(* An occurrence inside a word is skipped, and no word with it.            *)
LEMMA SkipStep ==
  ASSUME ScanInv, TypeOK', NEW q \in 1..Len(Text), Skip(q)
  PROVE  ScanInv'
<1>1. Text' = Text /\ \A t, p : Word(Text, t, p)' <=> Word(Text, t, p)
  BY SameText DEF Skip
<1>2. Len(Text) \in Nat /\ from \in Nat
  BY TextLength DEF ScanInv, TypeOK
<1>3. HitsAreWords'
  BY <1>1 DEF ScanInv, HitsAreWords, Skip
<1>4. ASSUME NEW t \in DOMAIN terms, NEW p \in 1..Len(Text),
             Word(Text, t, p), Searched(t, p)'
      PROVE  Searched(t, p)
  <2>1. CASE t = term
    <3>1. p < q + 1
      BY <1>4, <2>1 DEF Searched, Skip
    <3>2. p # q
      BY <1>4, <2>1 DEF Skip, Word
    <3>3. p \notin from..(q - 1)
      BY <1>4, <2>1 DEF Skip, Finds, Word
    <3> QED BY <1>2, <2>1, <3>1, <3>2, <3>3 DEF Searched
  <2>2. CASE t # term
    BY <1>4, <2>2 DEF Searched, Skip
  <2> QED BY <2>1, <2>2
<1>5. NothingMissed'
  BY <1>1, <1>4 DEF ScanInv, NothingMissed, Skip, Searching
<1> QED BY <1>3, <1>5 DEF ScanInv

(* Where a search ends, no word of its term is left.                       *)
LEMMA ExhaustStep ==
  ASSUME ScanInv, TypeOK', Exhaust
  PROVE  ScanInv'
<1>1. Text' = Text /\ \A t, p : Word(Text, t, p)' <=> Word(Text, t, p)
  BY SameText DEF Exhaust, NextTerm
<1>2. /\ Len(Text) \in Nat /\ from \in Nat /\ term \in Nat
      /\ DOMAIN terms = 1..Len(terms) /\ Len(terms) \in Nat
  BY TextLength DEF ScanInv, TypeOK
<1>3. HitsAreWords'
  BY <1>1 DEF ScanInv, HitsAreWords, Exhaust, NextTerm
<1>4. ASSUME NEW t \in DOMAIN terms, NEW p \in 1..Len(Text),
             Word(Text, t, p), Searched(t, p)'
      PROVE  Searched(t, p)
  <2>1. t < term + 1
    BY <1>2, <1>4 DEF Searched, Exhaust, NextTerm
  <2>2. CASE t = term
    <3>1. p \notin from..Len(Text)
      BY <1>4, <2>2 DEF Exhaust, Word
    <3> QED BY <1>2, <2>2, <3>1 DEF Searched
  <2>3. CASE t # term
    BY <1>2, <2>1, <2>3 DEF Searched
  <2> QED BY <2>2, <2>3
<1>5. NothingMissed'
  BY <1>1, <1>4 DEF ScanInv, NothingMissed, Exhaust, NextTerm, Searching
<1> QED BY <1>3, <1>5 DEF ScanInv

(* The invariant of the search holds.  (scan)                              *)
THEOREM ScanInvariant == Spec => []ScanInv
<1>1. Init => ScanInv
  <2> SUFFICES ASSUME Init PROVE ScanInv
    OBVIOUS
  <2>1. TypeOK
    BY AttemptsAssumption, TextAssumption DEF Init, TypeOK, Attempts
  <2>2. Len(terms) \in Nat /\ DOMAIN terms = 1..Len(terms) /\ Len(Text) \in Nat
    BY <2>1, TextLength
  <2>3. HitsAreWords /\ NothingMissed
    BY <2>2 DEF Init, HitsAreWords, NothingMissed, Searched
  <2> QED BY <2>1, <2>3 DEF ScanInv
<1>2. ScanInv /\ TypeOK' /\ [Next]_vars => ScanInv'
  <2> SUFFICES ASSUME ScanInv, TypeOK', [Next]_vars PROVE ScanInv'
    OBVIOUS
  <2>1. ASSUME NEW p \in 1..Len(Text), Hit(p) PROVE ScanInv'
    BY <2>1, HitStep
  <2>2. ASSUME NEW p \in 1..Len(Text), Skip(p) PROVE ScanInv'
    BY <2>2, SkipStep
  <2>3. CASE Exhaust
    BY <2>3, ExhaustStep
  <2>4. CASE Panic \/ Pass \/ Replace
    <3>1. /\ UNCHANGED <<terms, reply, hits>>
          /\ phase' # "scanning"
      BY <2>4 DEF Panic, Pass, Replace
    <3> QED BY <3>1, SameText DEF ScanInv, HitsAreWords, NothingMissed
  <2>5. ASSUME NEW candidate \in Replies, Reissue(candidate) PROVE ScanInv'
    <3>1. /\ hits' = {} /\ term' = 1 /\ from' = 1
      BY <2>5 DEF Reissue
    <3>2. /\ Len(Text') \in Nat /\ DOMAIN terms' = 1..Len(terms')
          /\ Len(terms') \in Nat
      BY TextLength DEF Text
    <3> QED BY <3>1, <3>2 DEF ScanInv, HitsAreWords, NothingMissed, Searched
  <2>6. CASE UNCHANGED vars
    <3>1. UNCHANGED <<terms, reply, hits, term, from, phase>>
      BY <2>6 DEF vars
    <3> QED BY <3>1, SameText DEF ScanInv, HitsAreWords, NothingMissed, Searched
  <2> QED BY <2>1, <2>2, <2>3, <2>4, <2>5, <2>6 DEF Next
<1> QED BY <1>1, <1>2, ScanTypeCorrect, PTL DEF Spec

-----------------------------------------------------------------------------
(* scan misses no term that stands in the text as a word and reports       *)
(* nothing else.  (ScanIsExact; redline.rs, scan)                          *)
THEOREM ScanExact == Spec => []ScanIsExact
<1>1. ScanInv => ScanIsExact
  BY ScanEndsExact DEF ScanIsExact, ScanInv, HitsAreWords
<1> QED BY <1>1, ScanInvariant, PTL

(* An active redline lets no answer through that says a forbidden term.    *)
(* (PublishedIsClean; redline.rs, enforce and enforce_with_regenerate)     *)
THEOREM NothingDirtyPasses == Spec => []PublishedIsClean
<1>1. Init => PublishedIsClean
  BY DEF Init, PublishedIsClean
<1>2. ScanInv /\ PublishedIsClean /\ [Next]_vars => PublishedIsClean'
  <2> SUFFICES ASSUME ScanInv, PublishedIsClean, [Next]_vars PROVE PublishedIsClean'
    OBVIOUS
  <2>1. CASE Pass
    <3>1. Named = {}
      BY <2>1 DEF Pass, Named
    <3>2. Leaks(Text) = {}
      BY <2>1, <3>1, ScanEndsExact DEF Pass
    <3> QED BY <2>1, <3>2 DEF Pass, PublishedIsClean, Leaks, Word, Text, Key
  <2>2. CASE UNCHANGED vars
    BY <2>2 DEF vars, PublishedIsClean, Leaks, Word, Text, Key
  <2>3. CASE Panic \/ Replace
    BY <2>3 DEF Panic, Replace, PublishedIsClean
  <2>4. CASE Exhaust
    BY <2>4 DEF Exhaust, NextTerm, Searching, PublishedIsClean
  <2>5. ASSUME NEW p \in 1..Len(Text), Hit(p) \/ Skip(p) PROVE PublishedIsClean'
    BY <2>5 DEF Hit, Skip, Searching, PublishedIsClean
  <2>6. ASSUME NEW candidate \in Replies, Reissue(candidate) PROVE PublishedIsClean'
    BY <2>6 DEF Reissue, Scanned, PublishedIsClean
  <2> QED BY <2>1, <2>2, <2>3, <2>4, <2>5, <2>6 DEF Next
<1> QED BY <1>1, <1>2, ScanInvariant, PTL DEF Spec

(* Every re-issue tells the model the terms of the answer it replaces, all *)
(* of them and no other.  (AddendaNameTheLeaks; hardened_addendum)         *)
THEOREM AddendaAreExact == Spec => []AddendaNameTheLeaks
<1>1. Init => AddendaNameTheLeaks
  BY DEF Init, AddendaNameTheLeaks
<1>2. ScanInv /\ AddendaNameTheLeaks /\ [Next]_vars => AddendaNameTheLeaks'
  <2> SUFFICES ASSUME ScanInv, AddendaNameTheLeaks, [Next]_vars
               PROVE  AddendaNameTheLeaks'
    OBVIOUS
  <2>1. ASSUME NEW candidate \in Replies, Reissue(candidate)
        PROVE  AddendaNameTheLeaks'
    <3>1. Named = Leaks(Normalised(reply))
      BY <2>1, ScanEndsExact DEF Reissue, Text
    <3>2. \A text : Leaks(text)' = Leaks(text)
      BY <2>1 DEF Reissue, Leaks, Word, Key
    <3>3. asked \in Seq([answer : Replies, named : SUBSET DOMAIN terms])
      BY DEF ScanInv, TypeOK
    <3>4. asked' = Append(asked, [answer |-> reply, named |-> Named])
      BY <2>1 DEF Reissue
    <3>5. ASSUME NEW i \in DOMAIN asked'
          PROVE  asked'[i].named = Leaks(Normalised(asked'[i].answer))
      <4>1. CASE i = Len(asked) + 1
        <5>1. asked'[i] = [answer |-> reply, named |-> Named]
          BY <3>3, <3>4, <4>1
        <5> QED BY <3>1, <5>1
      <4>2. CASE i # Len(asked) + 1
        <5>1. i \in DOMAIN asked /\ asked'[i] = asked[i]
          BY <3>3, <3>4, <4>2
        <5> QED BY <5>1 DEF AddendaNameTheLeaks
      <4> QED BY <4>1, <4>2
    <3> QED BY <3>2, <3>5 DEF AddendaNameTheLeaks
  <2>2. CASE UNCHANGED <<terms, asked>>
    <3>1. \A text : Leaks(text)' = Leaks(text)
      BY <2>2 DEF Leaks, Word, Key
    <3> QED BY <2>2, <3>1 DEF AddendaNameTheLeaks
  <2>3. CASE Panic \/ Replace \/ Pass \/ Exhaust \/ UNCHANGED vars
    BY <2>2, <2>3 DEF Panic, Replace, Pass, Exhaust, NextTerm, vars
  <2>4. ASSUME NEW p \in 1..Len(Text), Hit(p) \/ Skip(p)
        PROVE  AddendaNameTheLeaks'
    BY <2>2, <2>4 DEF Hit, Skip
  <2> QED BY <2>1, <2>3, <2>4 DEF Next
<1> QED BY <1>1, <1>2, ScanInvariant, PTL DEF Spec

-----------------------------------------------------------------------------
(* A step that leaves the texts and the re-issues alone leaves what the    *)
(* verdict is about alone.                                                 *)
LEMMA SameVerdict ==
  ASSUME UNCHANGED <<terms, action, reply, phase, asked>>
  PROVE  UNCHANGED Verdict!vars
<1>1. Leaks(Text)' = Leaks(Text)
  BY SameText DEF Leaks
<1> QED BY <1>1 DEF Verdict!vars

(* A finished scan settles the verdict, or asks for another answer.        *)
LEMMA VerdictStep ==
  ASSUME ScanInv, TypeOK', [Next]_vars
  PROVE  [Verdict!Next]_(Verdict!vars)
<1>1. ASSUME NEW p \in 1..Len(Text), Hit(p) \/ Skip(p)
      PROVE  UNCHANGED Verdict!vars
  BY <1>1, SameVerdict DEF Hit, Skip
<1>2. CASE Exhaust \/ UNCHANGED vars
  BY <1>2, SameVerdict DEF Exhaust, NextTerm, vars
<1>3. CASE Pass \/ Replace \/ Panic
  <2>1. /\ UNCHANGED <<terms, action, reply, asked>> /\ phase = "scanning"
        /\ Leaks(Text)' = Leaks(Text)
    BY <1>3, SameText DEF Pass, Replace, Panic, Scanned, Searching, Leaks
  <2>2. CASE Pass
    <3>1. Leaks(Text) = {} /\ phase' = "passed"
      BY <2>2, ScanEndsExact DEF Pass, Named
    <3> QED BY <2>1, <3>1 DEF Verdict!Next, Verdict!Pass, Verdict!Settle
  <2>3. CASE Replace
    <3>1. Leaks(Text) # {} /\ phase' = "replaced"
      BY <2>3, ScanEndsExact DEF Replace, Named
    <3>2. Len([i \in DOMAIN asked |-> asked[i].named]) = Len(asked)
      BY DEF ScanInv, TypeOK
    <3>3. action = "safe_phrase" \/ Len(asked) >= Attempts
      BY <2>3 DEF Replace
    <3>4. Len(asked) \in Nat /\ Attempts \in Nat
      BY AttemptsAssumption DEF ScanInv, TypeOK, Attempts
    <3>5. ~Verdict!MayAsk
      BY <3>2, <3>3, <3>4 DEF Verdict!MayAsk
    <3> QED BY <2>1, <3>1, <3>5 DEF Verdict!Next, Verdict!Replace, Verdict!Settle
  <2>4. CASE Panic
    <3>1. phase' = "panicked"
      BY <2>4 DEF Panic
    <3> QED BY <2>1, <3>1 DEF Verdict!Next, Verdict!Panic, Verdict!Settle
  <2> QED BY <1>3, <2>2, <2>3, <2>4
<1>4. ASSUME NEW candidate \in Replies, Reissue(candidate)
      PROVE  Verdict!AskAgain
  <2> DEFINE Given(s) == [i \in DOMAIN s |-> s[i].named]
  <2>1. /\ Named = Leaks(Text) /\ Leaks(Text) # {}
        /\ action = "regenerate" /\ Len(asked) < Attempts
        /\ phase = "scanning" /\ UNCHANGED <<action, phase>>
    BY <1>4, ScanEndsExact DEF Reissue, Scanned, Named
  <2>2. asked \in Seq([answer : Replies, named : SUBSET DOMAIN terms])
    BY DEF ScanInv, TypeOK
  <2>3. Len(Given(asked)) = Len(asked) /\ Given(asked) \in Seq(SUBSET DOMAIN terms)
    <3>1. Len(asked) \in Nat /\ DOMAIN asked = 1..Len(asked)
      BY <2>2
    <3>2. ASSUME NEW i \in DOMAIN asked
          PROVE  asked[i].named \in SUBSET DOMAIN terms
      <4>1. asked[i] \in [answer : Replies, named : SUBSET DOMAIN terms]
        BY <2>2, <3>1, ElementOfSeq
      <4> QED BY <4>1
    <3> QED BY <3>1, <3>2
  <2>4. asked' = Append(asked, [answer |-> reply, named |-> Named])
    BY <1>4 DEF Reissue
  <2>5. Given(asked)' = Append(Given(asked), Named)
    BY <2>2, <2>3, <2>4
  <2>6. Leaks(Text)' \in SUBSET Nat
    <3>1. DOMAIN terms' = 1..Len(terms') /\ Len(terms') \in Nat
      BY TextLength, TextAssumption DEF TypeOK
    <3> QED BY <3>1 DEF Leaks
  <2> QED BY <2>1, <2>3, <2>5, <2>6 DEF Verdict!AskAgain, Verdict!MayAsk
<1> QED BY <1>1, <1>2, <1>3, <1>4 DEF Next, Verdict!Next

(* The scan implements the verdict: a model of a turn may take the answer  *)
(* of scan for granted.  (ImplementsVerdict; redline.rs, scan)             *)
THEOREM ScanImplementsVerdict == Spec => ImplementsVerdict
<1>1. Init => Verdict!Init
  <2> SUFFICES ASSUME Init PROVE Verdict!Init
    OBVIOUS
  <2>1. DOMAIN terms \subseteq Nat
    BY TextAssumption DEF Init
  <2>2. [i \in DOMAIN asked |-> asked[i].named] = <<>>
    BY DEF Init
  <2> QED BY <2>1, <2>2 DEF Init, Verdict!Init, Leaks
<1>2. ScanInv /\ TypeOK' /\ [Next]_vars => [Verdict!Next]_(Verdict!vars)
  BY VerdictStep
<1> QED BY <1>1, <1>2, ScanInvariant, ScanTypeCorrect, PTL
        DEF Spec, ImplementsVerdict, Verdict!Spec

-----------------------------------------------------------------------------
(* A set of naturals that has 0 and what follows its members is all of     *)
(* them: of those it lacks there would be a least, and sets of what is     *)
(* below shrink.                                                           *)
LEMMA Induction ==
  ASSUME NEW S \in SUBSET Nat, 0 \in S, \A n \in S : n + 1 \in S
  PROVE  S = Nat
<1> DEFINE R == StrictSubsetOrdering(Nat)
           Lacks == Nat \ S
           Below == {0..n : n \in Lacks}
<1> SUFFICES ASSUME Lacks # {} PROVE FALSE
  OBVIOUS
<1>1. IsWellFoundedOn(R, FiniteSubsetsOf(Nat))
  BY FS_StrictSubsetOrderingWellFounded
<1>2. Below \subseteq FiniteSubsetsOf(Nat) /\ Below # {}
  <2>1. \A n \in Nat : IsFiniteSet(0..n) /\ 0..n \subseteq Nat
    BY FS_Interval
  <2> QED BY <2>1 DEF FiniteSubsetsOf
<1> HIDE DEF R
<1>3. PICK X \in Below : \A Y \in Below : ~(<<Y, X>> \in R)
  BY <1>1, <1>2, WFMin
<1>4. PICK n \in Lacks : X = 0..n
  BY <1>3
<1>5. n - 1 \in Lacks
  <2>1. n \in Nat /\ n # 0
    BY <1>4
  <2>2. n - 1 \in Nat /\ (n - 1) + 1 = n
    BY <2>1
  <2> QED BY <1>4, <2>2
<1>6. /\ 0..(n - 1) \subseteq 0..n /\ n \in 0..n
      /\ n \notin 0..(n - 1) /\ 0..(n - 1) \in SUBSET Nat
  BY <1>4
<1>7. <<0..(n - 1), 0..n>> \in R
  BY <1>4, <1>6 DEF R, StrictSubsetOrdering
<1> QED BY <1>3, <1>4, <1>5, <1>7

-----------------------------------------------------------------------------
(* The bytes that normalise keeps, and how many of the first i they are.   *)
Kept(s) == {i \in DOMAIN s : ~AbbreviationDot(s, i)}
Rank(s, i) == Cardinality(Kept(s) \cap 1..i)

(* The rank grows from 0 to the length of the normalised text.             *)
LEMMA RankIs ==
  ASSUME NEW s \in Seq(Byte)
  PROVE  /\ \A i \in 0..Len(s) : Rank(s, i) \in Nat
         /\ Rank(s, 0) = 0 /\ Rank(s, Len(s)) = Len(Normalised(s))
         /\ \A i, j \in 0..Len(s) : i <= j => Rank(s, i) <= Rank(s, j)
<1>1. \A i \in 0..Len(s) : IsFiniteSet(Kept(s) \cap 1..i)
  <2> TAKE i \in 0..Len(s)
  <2>1. IsFiniteSet(1..i)
    BY FS_Interval
  <2> QED BY <2>1, FS_Subset
<1>2. \A i \in 0..Len(s) : Rank(s, i) \in Nat
  BY <1>1, FS_CardinalityType DEF Rank
<1>3. Rank(s, 0) = 0
  <2>1. Kept(s) \cap 1..0 = {}
    OBVIOUS
  <2> QED BY <2>1, FS_EmptySet DEF Rank
<1>4. Rank(s, Len(s)) = Len(Normalised(s))
  <2>1. Kept(s) \cap 1..Len(s) = Kept(s)
    BY DEF Kept
  <2>2. Cardinality(Kept(s)) \in Nat
    <3>1. Len(s) \in 0..Len(s)
      OBVIOUS
    <3> QED BY <1>2, <2>1, <3>1 DEF Rank
  <2>3. Len(Normalised(s)) = Cardinality(Kept(s))
    BY <2>2 DEF Normalised, Kept
  <2> QED BY <2>1, <2>3 DEF Rank
<1>5. ASSUME NEW i \in 0..Len(s), NEW j \in 0..Len(s), i <= j
      PROVE  Rank(s, i) <= Rank(s, j)
  <2>1. Kept(s) \cap 1..i \subseteq Kept(s) \cap 1..j
    BY <1>5
  <2> QED BY <1>1, <2>1, FS_Subset DEF Rank
<1> QED BY <1>2, <1>3, <1>4, <1>5

(* Of two kept bytes with none between them, the ranks follow each other.  *)
LEMMA RankNext ==
  ASSUME NEW s \in Seq(Byte), NEW i \in 0..Len(s), NEW j \in Kept(s), i < j,
         i = 0 \/ i \in Kept(s), \A k \in i + 1..j - 1 : k \notin Kept(s)
  PROVE  Rank(s, j) = Rank(s, i) + 1
<1>1. j \in 1..Len(s)
  BY DEF Kept
<1>2. Kept(s) \cap 1..j = (Kept(s) \cap 1..i) \cup {j}
  <2>1. \A k \in 1..j : k \in 1..i \/ k = j \/ k \in i + 1..j - 1
    BY <1>1
  <2>2. \A k \in 1..i : k \in 1..j
    BY <1>1
  <2>3. j \in 1..j
    BY <1>1
  <2> QED BY <2>1, <2>2, <2>3
<1>3. IsFiniteSet(Kept(s) \cap 1..i)
  <2>1. IsFiniteSet(1..i)
    BY FS_Interval
  <2> QED BY <2>1, FS_Subset
<1>4. j \notin Kept(s) \cap 1..i
  BY <1>1
<1> QED BY <1>2, <1>3, <1>4, FS_AddElement DEF Rank

(* A kept byte is in the normalised text, at its rank, in lower case.      *)
LEMMA KeptIs ==
  ASSUME NEW s \in Seq(Byte), NEW i \in Kept(s)
  PROVE  /\ Rank(s, i) \in 1..Len(Normalised(s))
         /\ Normalised(s)[Rank(s, i)] = Folded(s[i])
<1>1. i \in 1..Len(s) /\ Len(s) \in Nat
  BY DEF Kept
<1>2. \A j \in 1..Len(s) : j \in Kept(s) => Rank(s, j) > Rank(s, j - 1)
  <2> SUFFICES ASSUME NEW j \in 1..Len(s), j \in Kept(s) PROVE Rank(s, j) > Rank(s, j - 1)
    OBVIOUS
  <2>1. Kept(s) \cap 1..j = (Kept(s) \cap 1..(j - 1)) \cup {j}
    <3>1. \A k \in 1..j : k \in 1..(j - 1) \/ k = j
      OBVIOUS
    <3>2. \A k \in 1..(j - 1) : k \in 1..j
      OBVIOUS
    <3>3. j \in 1..j
      OBVIOUS
    <3> QED BY <3>1, <3>2, <3>3
  <2>2. IsFiniteSet(Kept(s) \cap 1..(j - 1))
    <3>1. IsFiniteSet(1..(j - 1))
      BY FS_Interval
    <3> QED BY <3>1, FS_Subset
  <2>3. j \notin Kept(s) \cap 1..(j - 1)
    OBVIOUS
  <2>4. Rank(s, j) = Rank(s, j - 1) + 1
    BY <2>1, <2>2, <2>3, FS_AddElement DEF Rank
  <2>5. Rank(s, j - 1) \in Nat
    BY RankIs
  <2> QED BY <2>4, <2>5
<1>3. \A a, b \in Kept(s) : a < b => Rank(s, a) < Rank(s, b)
  <2> SUFFICES ASSUME NEW a \in Kept(s), NEW b \in Kept(s), a < b
               PROVE  Rank(s, a) < Rank(s, b)
    OBVIOUS
  <2>1. a \in 1..Len(s) /\ b \in 1..Len(s) /\ b - 1 \in 0..Len(s) /\ a <= b - 1
        /\ a \in 0..Len(s) /\ b \in 0..Len(s)
    BY DEF Kept
  <2>2. Rank(s, a) <= Rank(s, b - 1) /\ Rank(s, b - 1) < Rank(s, b)
    BY <1>2, <2>1, RankIs
  <2>3. Rank(s, a) \in Nat /\ Rank(s, b - 1) \in Nat /\ Rank(s, b) \in Nat
    BY <2>1, RankIs
  <2> QED BY <2>2, <2>3
<1>4. \A j \in Kept(s) : Rank(s, j) = Rank(s, i) => j = i
  <2> SUFFICES ASSUME NEW j \in Kept(s), Rank(s, j) = Rank(s, i), j # i PROVE FALSE
    OBVIOUS
  <2>1. j \in 1..Len(s)
    BY DEF Kept
  <2>2. j < i \/ i < j
    BY <1>1, <2>1
  <2>3. Rank(s, i) \in Nat
    BY <1>1, RankIs
  <2> QED BY <1>3, <2>2, <2>3
<1>5. Rank(s, i) \in 1..Len(Normalised(s))
  <2>1. i - 1 \in 0..Len(s) /\ i \in 0..Len(s) /\ Len(s) \in 0..Len(s) /\ i <= Len(s)
    BY <1>1
  <2>2. /\ Rank(s, i - 1) \in Nat /\ Rank(s, i) \in Nat /\ Rank(s, i) > Rank(s, i - 1)
        /\ Rank(s, i) <= Rank(s, Len(s)) /\ Rank(s, Len(s)) \in Nat
    BY <1>1, <1>2, <2>1, RankIs
  <2> QED BY <2>2, RankIs
<1>6. (CHOOSE j \in Kept(s) : Cardinality(Kept(s) \cap 1..j) = Rank(s, i)) = i
  BY <1>4 DEF Rank
<1> DEFINE Nth(n) == CHOOSE j \in Kept(s) : Cardinality(Kept(s) \cap 1..j) = n
<1>7. Normalised(s) = [n \in 1..Cardinality(Kept(s)) |-> Folded(s[Nth(n)])]
  BY DEF Normalised, Kept
<1>8. Rank(s, i) \in 1..Cardinality(Kept(s))
  <2>1. Kept(s) \cap 1..Len(s) = Kept(s)
    BY DEF Kept
  <2>2. Len(Normalised(s)) = Cardinality(Kept(s))
    BY <2>1, RankIs DEF Rank
  <2> QED BY <1>5, <2>2
<1> HIDE DEF Nth
<1>9. Normalised(s)[Rank(s, i)] = Folded(s[Nth(Rank(s, i))])
  BY <1>7, <1>8
<1> QED BY <1>5, <1>6, <1>9 DEF Nth

(* Along a chain of kept bytes with none between them the ranks go up by   *)
(* one.                                                                    *)
LEMMA RanksInAChain ==
  ASSUME NEW s \in Seq(Byte), NEW m \in Nat \ {0}, NEW at \in [1..m -> Kept(s)],
         \A i \in 1..m - 1 : /\ at[i] < at[i + 1]
                             /\ \A k \in at[i] + 1..at[i + 1] - 1 : k \notin Kept(s)
  PROVE  \A i \in 1..m : Rank(s, at[i]) = Rank(s, at[1]) + i - 1
<1> DEFINE S == {n \in Nat : n + 1 \in 1..m => Rank(s, at[n + 1]) = Rank(s, at[1]) + n}
<1>1. \A i \in 1..m : at[i] \in Kept(s) /\ at[i] \in 0..Len(s) /\ Rank(s, at[i]) \in Nat
  <2>1. \A i \in 1..m : at[i] \in Kept(s)
    OBVIOUS
  <2>2. \A i \in 1..m : at[i] \in 0..Len(s)
    BY <2>1 DEF Kept
  <2> QED BY <2>1, <2>2, RankIs
<1>2. 0 \in S
  <2>1. 1 \in 1..m
    OBVIOUS
  <2> QED BY <1>1, <2>1
<1>3. ASSUME NEW n \in S PROVE n + 1 \in S
  <2>1. n \in Nat
    OBVIOUS
  <2>2. ASSUME n + 2 \in 1..m PROVE Rank(s, at[n + 2]) = Rank(s, at[1]) + n + 1
    <3>1. n + 1 \in 1..m - 1 /\ n + 1 \in 1..m /\ 1 \in 1..m /\ (n + 1) + 1 = n + 2
      BY <2>1, <2>2
    <3>2. Rank(s, at[n + 2]) = Rank(s, at[n + 1]) + 1
      <4>1. /\ at[n + 1] \in Kept(s) /\ at[n + 2] \in Kept(s) /\ at[n + 1] < at[n + 2]
            /\ at[n + 1] \in 0..Len(s)
            /\ \A k \in at[n + 1] + 1..at[n + 2] - 1 : k \notin Kept(s)
        BY <1>1, <2>2, <3>1
      <4> QED BY <4>1, RankNext
    <3>3. Rank(s, at[n + 1]) = Rank(s, at[1]) + n
      BY <3>1
    <3> QED BY <1>1, <2>1, <3>1, <3>2, <3>3
  <2>3. (n + 1) + 1 = n + 2 /\ n + 1 \in Nat
    BY <2>1
  <2>4. (n + 1) + 1 \in 1..m => Rank(s, at[(n + 1) + 1]) = Rank(s, at[1]) + (n + 1)
    <3>1. Rank(s, at[1]) \in Nat
      BY <1>1
    <3> QED BY <2>1, <2>2, <2>3, <3>1
  <2> QED BY <2>3, <2>4
<1>4. S = Nat
  <2> HIDE DEF S
  <2>1. \A n \in S : n + 1 \in S
    BY <1>3
  <2>2. S \in SUBSET Nat
    BY DEF S
  <2> QED BY <1>2, <2>1, <2>2, Induction
<1>5. ASSUME NEW i \in 1..m PROVE Rank(s, at[i]) = Rank(s, at[1]) + i - 1
  <2>1. i - 1 \in Nat /\ (i - 1) + 1 = i /\ 1 \in 1..m
    OBVIOUS
  <2>2. Rank(s, at[i]) = Rank(s, at[1]) + (i - 1)
    BY <1>4, <2>1
  <2> QED BY <1>1, <2>1, <2>2
<1> QED BY <1>5

(* Folding a byte neither makes nor unmakes a letter or a digit.           *)
LEMMA FoldedIs ==
  ASSUME NEW c \in Byte, c \notin Alphanumeric
  PROVE  Folded(c) \notin Alphanumeric
BY DEF Folded, Alphanumeric

(* A chain of kept bytes that is bounded in the answer, by bytes that are  *)
(* kept as well, is a word of the normalised text.                         *)
LEMMA ChainsAreWords ==
  ASSUME NEW s \in Seq(Byte), NEW m \in Nat \ {0}, NEW at \in [1..m -> Kept(s)],
         \A i \in 1..m - 1 : /\ at[i] < at[i + 1]
                             /\ \A k \in at[i] + 1..at[i + 1] - 1 : k \notin Kept(s),
         NEW key, Len(key) = m, DOMAIN key = 1..m,
         \A i \in 1..m : key[i] = Folded(s[at[i]]),
         at[1] > 1 => at[1] - 1 \in Kept(s),
         at[m] < Len(s) => at[m] + 1 \in Kept(s),
         Bounded(s, at[1], at[m] + 1)
  PROVE  \E r \in 1..Len(Normalised(s)) :
           OccursIn(Normalised(s), key, r) /\ Bounded(Normalised(s), r, r + Len(key))
<1>1. \A i \in 1..m : at[i] \in Kept(s) /\ at[i] \in 1..Len(s) /\ at[i] \in 0..Len(s)
  <2>1. \A i \in 1..m : at[i] \in Kept(s)
    OBVIOUS
  <2> QED BY <2>1 DEF Kept
<1>2. 1 \in 1..m /\ m \in 1..m /\ m \in Nat
  OBVIOUS
<1>3. \A i \in 1..m : Rank(s, at[i]) = Rank(s, at[1]) + i - 1
  BY RanksInAChain
<1>4. \A i \in 1..m : /\ Rank(s, at[i]) \in 1..Len(Normalised(s))
                      /\ Normalised(s)[Rank(s, at[i])] = Folded(s[at[i]])
  BY <1>1, KeptIs
<1>5. PICK r : r = Rank(s, at[1])
  OBVIOUS
<1>6. /\ r \in 1..Len(Normalised(s)) /\ Rank(s, at[m]) = r + m - 1
      /\ r + m - 1 \in 1..Len(Normalised(s)) /\ Len(Normalised(s)) \in Nat
  BY <1>2, <1>3, <1>4, <1>5, NormalisedLength
<1>7. OccursIn(Normalised(s), key, r)
  <2>1. r \in 1..Len(Normalised(s)) - Len(key) + 1
    BY <1>2, <1>6
  <2>2. \A i \in DOMAIN key : Normalised(s)[r + i - 1] = key[i]
    BY <1>3, <1>4, <1>5
  <2> QED BY <2>1, <2>2 DEF OccursIn
<1>8. ASSUME r > 1 PROVE Normalised(s)[r - 1] \notin Alphanumeric
  <2>1. at[1] > 1
    <3> SUFFICES ASSUME at[1] = 1 PROVE FALSE
      BY <1>1, <1>2
    <3>1. /\ 0 \in 0..Len(s) /\ 1 \in Kept(s) /\ 0 < 1
          /\ \A k \in 0 + 1..1 - 1 : k \notin Kept(s)
      BY <1>1, <1>2
    <3>2. Rank(s, 1) = Rank(s, 0) + 1
      BY <3>1, RankNext
    <3> QED BY <1>5, <1>8, <3>2, RankIs
  <2>2. PICK j : j = at[1] - 1
    OBVIOUS
  <2>3. j \in Kept(s) /\ j \in 1..Len(s) /\ j + 1 = at[1] /\ j \in 0..Len(s) /\ j < at[1]
    BY <1>1, <1>2, <2>1, <2>2
  <2>4. Rank(s, at[1]) = Rank(s, j) + 1
    <3>1. \A k \in j + 1..at[1] - 1 : k \notin Kept(s)
      BY <2>3
    <3> QED BY <1>1, <1>2, <2>3, <3>1, RankNext
  <2>5. Rank(s, j) = r - 1
    BY <1>5, <2>3, <2>4, RankIs
  <2>6. Normalised(s)[r - 1] = Folded(s[j])
    BY <2>3, <2>5, KeptIs
  <2>7. s[j] \in Byte /\ s[j] \notin Alphanumeric
    BY <2>1, <2>2, <2>3 DEF Bounded
  <2> QED BY <2>6, <2>7, FoldedIs
<1>9. ASSUME r + m <= Len(Normalised(s)) PROVE Normalised(s)[r + m] \notin Alphanumeric
  <2>1. at[m] < Len(s)
    <3> SUFFICES ASSUME at[m] = Len(s) PROVE FALSE
      BY <1>1, <1>2
    <3>1. Rank(s, at[m]) = Len(Normalised(s))
      BY RankIs
    <3> QED BY <1>6, <1>9, <3>1
  <2>2. PICK j : j = at[m] + 1
    OBVIOUS
  <2>3. j \in Kept(s) /\ j \in 1..Len(s) /\ at[m] < j
    BY <1>1, <1>2, <2>1, <2>2
  <2>4. Rank(s, j) = Rank(s, at[m]) + 1
    <3>1. \A k \in at[m] + 1..j - 1 : k \notin Kept(s)
      BY <1>1, <1>2, <2>2
    <3> QED BY <1>1, <1>2, <2>3, <3>1, RankNext
  <2>5. Rank(s, j) = r + m
    BY <1>2, <1>6, <2>4
  <2>6. Normalised(s)[r + m] = Folded(s[j])
    BY <2>3, <2>5, KeptIs
  <2>7. s[j] \in Byte /\ s[j] \notin Alphanumeric
    BY <2>1, <2>2, <2>3 DEF Bounded
  <2> QED BY <2>6, <2>7, FoldedIs
<1>10. Bounded(Normalised(s), r, r + Len(key))
  BY <1>8, <1>9 DEF Bounded
<1> QED BY <1>6, <1>7, <1>10

(* Of a word of letters, normalise keeps every one.                        *)
LEMMA LettersNormalised ==
  ASSUME NEW w \in Seq(Byte), \A i \in DOMAIN w : w[i] \in Letter
  PROVE  /\ Len(Normalised(w)) = Len(w) /\ DOMAIN Normalised(w) = 1..Len(w)
         /\ \A i \in 1..Len(w) : Normalised(w)[i] = Lower[w[i]]
<1>1. Kept(w) = 1..Len(w) /\ Len(w) \in Nat
  BY ByteAssumption DEF Kept, AbbreviationDot
<1>2. \A i \in 0..Len(w) : Rank(w, i) = i
  <2> TAKE i \in 0..Len(w)
  <2>1. Kept(w) \cap 1..i = 1..i
    BY <1>1
  <2>2. Cardinality(1..i) = i
    BY <1>1, FS_Interval
  <2> QED BY <2>1, <2>2 DEF Rank
<1>3. Len(Normalised(w)) = Len(w)
  BY <1>1, <1>2, RankIs
<1>4. ASSUME NEW i \in 1..Len(w) PROVE Normalised(w)[i] = Lower[w[i]]
  <2>1. Rank(w, i) = i /\ i \in Kept(w)
    BY <1>1, <1>2
  <2>2. Normalised(w)[i] = Folded(w[i])
    BY <2>1, KeptIs
  <2> QED BY <2>2 DEF Folded
<1> QED BY <1>3, <1>4, NormalisedLength

-----------------------------------------------------------------------------
(* A word that stands in the answer is in its normalised text: the dots    *)
(* before and behind it have a letter two bytes away.                      *)
LEMMA PlainWordsAreCaught ==
  ASSUME NEW w \in Seq(Byte), \A i \in DOMAIN w : w[i] \in Letter, Len(w) > 1,
         reply \in Seq(Byte), NEW p \in DOMAIN reply, Stands(w, p)
  PROVE  \E r \in 1..Len(Text) : OccursIn(Text, Normalised(w), r)
                                 /\ Bounded(Text, r, r + Len(Normalised(w)))
<1>1. PICK m \in Nat : m = Len(w) /\ m > 1
  OBVIOUS
<1>2. PICK n \in Nat : n = Len(reply) /\ DOMAIN reply = 1..n /\ DOMAIN w = 1..m
  BY <1>1
<1>3. p \in 1..n /\ p + m - 1 <= n
  BY <1>1, <1>2 DEF Stands
<1>4. ASSUME NEW i \in 1..m
      PROVE  /\ LetterAt(reply, p + i - 1) /\ p + i - 1 \in Kept(reply)
             /\ Folded(reply[p + i - 1]) = Lower[w[i]]
  <2>1. PICK k : k = p + i - 1 /\ k \in DOMAIN reply
    BY <1>2, <1>3
  <2>2. reply[k] \in Letter /\ Lower[reply[k]] = Lower[w[i]]
    BY <1>2, <2>1 DEF Stands, SameLetters
  <2>3. k \in Kept(reply)
    BY <2>1, <2>2, ByteAssumption DEF Kept, AbbreviationDot
  <2> QED BY <2>1, <2>2, <2>3 DEF LetterAt, Folded
<1>5. p > 1 => p - 1 \in Kept(reply)
  <2> SUFFICES ASSUME p > 1 PROVE p - 1 \in Kept(reply)
    OBVIOUS
  <2>1. 2 \in 1..m /\ p + 2 - 1 = (p - 1) + 2 /\ p - 1 \in DOMAIN reply
    <3>1. p \in Int /\ p <= n
      BY <1>3
    <3>2. 2 \in 1..m
      BY <1>1
    <3>3. p + 2 - 1 = (p - 1) + 2 /\ p - 1 \in 1..n
      BY <3>1
    <3> QED BY <1>2, <3>2, <3>3
  <2>2. LetterAt(reply, (p - 1) + 2)
    BY <1>4, <2>1
  <2> QED BY <2>1, <2>2 DEF Kept, AbbreviationDot
<1>6. p + m - 1 < n => p + m \in Kept(reply)
  <2> SUFFICES ASSUME p + m - 1 < n PROVE p + m \in Kept(reply)
    OBVIOUS
  <2>1. m - 1 \in 1..m /\ p + (m - 1) - 1 = (p + m) - 2 /\ p + m \in DOMAIN reply
    <3>1. p \in Int /\ p >= 1 /\ m \in Int /\ m > 1 /\ n \in Int /\ (p + m) - 1 < n
      BY <1>1, <1>3
    <3>2. m - 1 \in 1..m
      BY <3>1
    <3>3. p + (m - 1) - 1 = (p + m) - 2
      BY <3>1
    <3>4. p + m \in 1..n
      <4>1. 1 <= p + m /\ p + m <= n
        BY <3>1
      <4> QED BY <3>1, <4>1
    <3> QED BY <1>2, <3>2, <3>3, <3>4
  <2>2. LetterAt(reply, (p + m) - 2)
    BY <1>4, <2>1
  <2> QED BY <2>1, <2>2 DEF Kept, AbbreviationDot
<1>7. PICK at : at = [i \in 1..m |-> p + i - 1]
  OBVIOUS
<1>8. /\ \A i \in 1..m : at[i] = p + i - 1
      /\ at[1] = p /\ at[m] = p + m - 1 /\ at[m] + 1 = p + m
  <2>1. \A i \in 1..m : at[i] = p + i - 1
    BY <1>7
  <2>2. 1 \in 1..m /\ m \in 1..m
    BY <1>1
  <2>3. at[1] = p + 1 - 1 /\ at[m] = p + m - 1
    BY <2>1, <2>2
  <2>4. p + 1 - 1 = p /\ (p + m - 1) + 1 = p + m
    BY <1>3
  <2> QED BY <2>1, <2>3, <2>4
<1>9. at \in [1..m -> Kept(reply)]
  BY <1>4, <1>7
<1>10. ASSUME NEW i \in 1..m - 1
       PROVE  at[i] < at[i + 1] /\ \A k \in at[i] + 1..at[i + 1] - 1 : k \notin Kept(reply)
  <2>1. i \in 1..m /\ i + 1 \in 1..m
    BY <1>1
  <2>2. at[i] = p + i - 1 /\ at[i + 1] = p + i
    BY <1>3, <1>8, <2>1
  <2> QED BY <1>3, <2>2
<1>11. Bounded(reply, at[1], at[m] + 1)
  BY <1>1, <1>8 DEF Stands
<1>12. /\ Len(Normalised(w)) = m /\ DOMAIN Normalised(w) = 1..m
       /\ \A i \in 1..m : Normalised(w)[i] = Folded(reply[at[i]])
  BY <1>1, <1>4, <1>8, LettersNormalised
<1> HIDE DEF Kept
<1>13. /\ at[1] > 1 => at[1] - 1 \in Kept(reply)
       /\ at[m] < Len(reply) => at[m] + 1 \in Kept(reply)
  BY <1>2, <1>5, <1>6, <1>8
<1>14. m \in Nat \ {0}
  BY <1>1
<1> QED BY <1>9, <1>10, <1>11, <1>12, <1>13, <1>14, ChainsAreWords DEF Text

(* The letters of an abbreviation and the dots between them.               *)
LEMMA DottedIs ==
  ASSUME NEW w \in Seq(Byte), w # <<>>
  PROVE  /\ Len(w) \in Nat \ {0} /\ Len(Dotted(w)) = 2 * Len(w) - 1
         /\ DOMAIN Dotted(w) = 1..2 * Len(w) - 1
         /\ \A i \in 1..Len(w) : Dotted(w)[2 * i - 1] = w[i]
         /\ \A i \in 1..Len(w) - 1 : Dotted(w)[2 * i] = Dot
<1>1. PICK m \in Nat : m = Len(w) /\ m # 0
  BY EmptySeq
<1>2. Len(Dotted(w)) = 2 * m - 1 /\ DOMAIN Dotted(w) = 1..2 * m - 1
  <2>1. 2 * m - 1 \in Nat
    BY <1>1
  <2> QED BY <1>1, <2>1 DEF Dotted
<1>3. ASSUME NEW i \in 1..m PROVE Dotted(w)[2 * i - 1] = w[i]
  <2>1. 2 * i - 1 \in 1..2 * m - 1 /\ (2 * i - 1) % 2 = 1 /\ ((2 * i - 1) + 1) \div 2 = i
    BY <1>1
  <2> QED BY <1>1, <2>1 DEF Dotted
<1>4. ASSUME NEW i \in 1..m - 1 PROVE Dotted(w)[2 * i] = Dot
  <2>1. 2 * i \in 1..2 * m - 1 /\ (2 * i) % 2 = 0
    BY <1>1
  <2> QED BY <1>1, <2>1 DEF Dotted
<1> QED BY <1>1, <1>2, <1>3, <1>4

(* A word that stands in the answer with a full stop after each letter is  *)
(* in its normalised text: the dots between are dropped, and no other one. *)
LEMMA AbbreviationsAreWords ==
  ASSUME NEW w \in Seq(Byte), \A i \in DOMAIN w : w[i] \in Letter, w # <<>>,
         reply \in Seq(Byte), NEW p \in DOMAIN reply, Stands(Dotted(w), p),
         Apart(p, p + 2 * Len(w) - 1)
  PROVE  \E r \in 1..Len(Text) : OccursIn(Text, Normalised(w), r)
                                 /\ Bounded(Text, r, r + Len(Normalised(w)))
<1>1. PICK m \in Nat \ {0} : m = Len(w)
  BY DottedIs
<1>2. PICK n \in Nat : n = Len(reply) /\ DOMAIN reply = 1..n /\ DOMAIN w = 1..m
  BY <1>1
<1>3. p \in 1..n /\ p + 2 * m - 2 <= n
  <2>1. p + (2 * m - 1) - 1 <= n
    BY <1>1, <1>2, DottedIs DEF Stands
  <2> QED BY <1>1, <1>2, <2>1
<1>4. Bounded(reply, p, p + 2 * m - 1)
  <2>1. p + (2 * m - 1) = p + 2 * m - 1
    BY <1>1, <1>3
  <2> QED BY <1>1, <2>1, DottedIs DEF Stands
<1>5. ASSUME NEW i \in 1..m
      PROVE  /\ LetterAt(reply, p + 2 * i - 2) /\ p + 2 * i - 2 \in Kept(reply)
             /\ Folded(reply[p + 2 * i - 2]) = Lower[w[i]]
  <2>1. PICK k : k = p + 2 * i - 2 /\ k \in DOMAIN reply
    BY <1>2, <1>3
  <2>2. 2 * i - 1 \in DOMAIN Dotted(w) /\ p + (2 * i - 1) - 1 = k /\ Dotted(w)[2 * i - 1] = w[i]
    <3>1. 2 * i - 1 \in 1..2 * m - 1 /\ p + (2 * i - 1) - 1 = k
      BY <1>3, <2>1
    <3> QED BY <1>1, <3>1, DottedIs
  <2>3. SameLetters(reply[k], w[i]) /\ w[i] \in Letter
    BY <1>2, <2>2 DEF Stands
  <2>4. reply[k] \in Letter /\ Lower[reply[k]] = Lower[w[i]]
    BY <2>3 DEF SameLetters
  <2>5. k \in Kept(reply)
    BY <2>1, <2>4, ByteAssumption DEF Kept, AbbreviationDot
  <2> QED BY <2>1, <2>4, <2>5 DEF LetterAt, Folded
<1>6. ASSUME NEW i \in 1..m - 1
      PROVE  p + 2 * i - 1 \in DOMAIN reply /\ reply[p + 2 * i - 1] = Dot
  <2>1. PICK k : k = p + 2 * i - 1 /\ k \in DOMAIN reply
    BY <1>2, <1>3
  <2>2. 2 * i \in DOMAIN Dotted(w) /\ p + 2 * i - 1 = k /\ Dotted(w)[2 * i] = Dot
    <3>1. 2 * i \in 1..2 * m - 1 /\ p + 2 * i - 1 = k
      BY <1>3, <2>1
    <3> QED BY <1>1, <3>1, DottedIs
  <2>3. SameLetters(reply[k], Dot)
    BY <2>2 DEF Stands
  <2>4. Dot \notin Letter
    BY ByteAssumption
  <2> QED BY <2>1, <2>3, <2>4 DEF SameLetters
<1>7. ~LetterAt(reply, p - 1) /\ ~LetterAt(reply, p + 2 * m - 1)
  <2>1. p - 1 \in DOMAIN reply => p > 1
    BY <1>2, <1>3
  <2>2. p + 2 * m - 1 \in DOMAIN reply => p + 2 * m - 1 <= Len(reply)
    BY <1>2
  <2> QED BY <1>4, <2>1, <2>2 DEF Bounded, LetterAt, Alphanumeric
<1>8. ASSUME NEW i \in 1..m - 1 PROVE p + 2 * i - 1 \notin Kept(reply)
  <2>1. PICK k : k = p + 2 * i - 1 /\ k \in DOMAIN reply /\ reply[k] = Dot
    BY <1>6
  <2>2. LetterAt(reply, k - 1) /\ LetterAt(reply, k + 1)
    <3>1. i \in 1..m /\ i + 1 \in 1..m /\ k - 1 = p + 2 * i - 2 /\ k + 1 = p + 2 * (i + 1) - 2
      BY <1>1, <1>3, <2>1
    <3> QED BY <1>5, <3>1
  <2>3. ~LetterAt(reply, k - 2)
    <3>1. CASE i = 1
      <4>1. k - 2 = p - 1
        BY <1>3, <2>1, <3>1
      <4> QED BY <1>7, <4>1
    <3>2. CASE i # 1
      <4>1. i - 1 \in 1..m - 1 /\ k - 2 = p + 2 * (i - 1) - 1
        BY <1>1, <1>3, <2>1, <3>2
      <4>2. reply[k - 2] = Dot
        BY <1>6, <4>1
      <4> QED BY <4>2, ByteAssumption DEF LetterAt
    <3> QED BY <3>1, <3>2
  <2>4. ~LetterAt(reply, k + 2)
    <3>1. CASE i = m - 1
      <4>1. k + 2 = p + 2 * m - 1
        BY <1>1, <1>3, <2>1, <3>1
      <4> QED BY <1>7, <4>1
    <3>2. CASE i # m - 1
      <4>1. i + 1 \in 1..m - 1 /\ k + 2 = p + 2 * (i + 1) - 1
        BY <1>1, <1>3, <2>1, <3>2
      <4>2. reply[k + 2] = Dot
        BY <1>6, <4>1
      <4> QED BY <4>2, ByteAssumption DEF LetterAt
    <3> QED BY <3>1, <3>2
  <2> QED BY <2>1, <2>2, <2>3, <2>4 DEF Kept, AbbreviationDot
<1>9. p > 1 => p - 1 \in Kept(reply)
  <2>1. p > 1 => p - 1 \in DOMAIN reply /\ reply[p - 1] # Dot
    BY <1>2, <1>3 DEF Apart
  <2> QED BY <2>1 DEF Kept, AbbreviationDot
<1>10. p + 2 * m - 2 < n => p + 2 * m - 1 \in Kept(reply)
  <2> SUFFICES ASSUME p + 2 * m - 2 < n PROVE p + 2 * m - 1 \in Kept(reply)
    OBVIOUS
  <2>1. PICK q : q = p + 2 * m - 1 /\ q \in DOMAIN reply /\ q <= Len(reply)
    BY <1>1, <1>2, <1>3
  <2>2. ~(reply[q] = Dot /\ LetterAt(reply, q + 1))
    BY <1>1, <2>1 DEF Apart
  <2> QED BY <2>1, <2>2 DEF Kept, AbbreviationDot
<1>11. PICK at : at = [i \in 1..m |-> p + 2 * i - 2]
  OBVIOUS
<1>12. /\ \A i \in 1..m : at[i] = p + 2 * i - 2
       /\ at[1] = p /\ at[m] = p + 2 * m - 2 /\ at[m] + 1 = p + 2 * m - 1
  BY <1>1, <1>3, <1>11
<1>13. at \in [1..m -> Kept(reply)]
  BY <1>5, <1>11
<1>14. ASSUME NEW i \in 1..m - 1
       PROVE  at[i] < at[i + 1] /\ \A k \in at[i] + 1..at[i + 1] - 1 : k \notin Kept(reply)
  <2>1. i \in 1..m /\ i + 1 \in 1..m /\ 2 * (i + 1) = 2 * i + 2
    BY <1>1
  <2>2. at[i] = p + 2 * i - 2 /\ at[i + 1] = p + 2 * i
    BY <1>3, <1>12, <2>1
  <2>3. \A k \in at[i] + 1..at[i + 1] - 1 : k = p + 2 * i - 1
    <3>1. /\ (p + 2 * i - 2) + 1 = p + 2 * i - 1 /\ (p + 2 * i) - 1 = p + 2 * i - 1
          /\ p + 2 * i - 1 \in Int
      BY <1>3
    <3>2. \A a \in Int : \A k \in a..a : k = a
      OBVIOUS
    <3> QED BY <2>2, <3>1, <3>2
  <2> QED BY <1>3, <1>8, <2>2, <2>3
<1>15. Bounded(reply, at[1], at[m] + 1)
  BY <1>4, <1>12
<1>16. /\ Len(Normalised(w)) = m /\ DOMAIN Normalised(w) = 1..m
       /\ \A i \in 1..m : Normalised(w)[i] = Folded(reply[at[i]])
  BY <1>1, <1>5, <1>12, LettersNormalised
<1>17. /\ at[1] > 1 => at[1] - 1 \in Kept(reply)
       /\ at[m] < Len(reply) => at[m] + 1 \in Kept(reply)
  BY <1>2, <1>9, <1>10, <1>12
<1> QED BY <1>13, <1>14, <1>15, <1>16, <1>17, ChainsAreWords DEF Text

(* No term of letters gets past an active redline, however the answer      *)
(* writes it: in any case, next to full stops, or with a full stop after   *)
(* each letter.  (AbbreviationsAreCaught; redline.rs, normalise and scan)  *)
THEOREM AbbreviationsHold == Spec => []AbbreviationsAreCaught
<1>1. TypeOK /\ PublishedIsClean => AbbreviationsAreCaught
  <2> SUFFICES ASSUME TypeOK, PublishedIsClean, phase = "passed", action # "off",
                      NEW t \in DOMAIN terms, NEW p \in DOMAIN reply,
                      terms[t] # <<>>, \A i \in DOMAIN terms[t] : terms[t][i] \in Letter,
                      \/ Len(terms[t]) > 1 /\ Stands(terms[t], p)
                      \/ /\ Stands(Dotted(terms[t]), p)
                         /\ Apart(p, p + 2 * Len(terms[t]) - 1)
               PROVE  FALSE
    BY DEF AbbreviationsAreCaught
  <2>1. reply \in Seq(Byte) /\ terms[t] \in Seq(Byte)
    BY TextAssumption DEF TypeOK, WellFormed
  <2>2. \E r \in 1..Len(Text) : OccursIn(Text, Key(t), r)
                                /\ Bounded(Text, r, r + Len(Key(t)))
    BY <2>1, PlainWordsAreCaught, AbbreviationsAreWords DEF Key
  <2>3. Key(t) # <<>>
    <3>1. Len(Key(t)) = Len(terms[t]) /\ Len(terms[t]) # 0
      BY <2>1, LettersNormalised, EmptySeq DEF Key
    <3> QED BY <3>1
  <2>4. t \in Leaks(Text)
    BY <2>2, <2>3 DEF Leaks, Word
  <2> QED BY <2>4 DEF PublishedIsClean
<1> QED BY <1>1, NothingDirtyPasses, ScanTypeCorrect, PTL
=============================================================================
