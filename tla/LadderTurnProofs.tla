--------------------------- MODULE LadderTurnProofs ---------------------------
(***************************************************************************)
(* For every ladder, transcript, number of turns and of re-issues: what is *)
(* remembered was said, high stakes are answered from the cloud, and the   *)
(* session floor follows the thread.                                       *)
(***************************************************************************)
EXTENDS LadderTurn, FiniteSetTheorems, TLAPS

(* The history holds what the turn answered with, no more and no less: a   *)
(* reply as it was spoken, or as the bus refused it, and clean with the    *)
(* redline on; an offer as the model wrote it; of a bare fence nothing.    *)
(* (MemoryFollowsSpeech; handle_turn_user_ladder)                          *)
THEOREM MemoryHolds == Spec => []MemoryFollowsSpeech
<1> DEFINE Kept(u) == IF u.kind = "summary" THEN Empty ELSE u.text
           Answering == {"offer", "summary", "reply"}
<1>1. Init => MemoryFollowsSpeech
  BY DEF Init, MemoryFollowsSpeech, RepliesAreClean, Answers
<1>2. MemoryFollowsSpeech /\ [Next]_vars => MemoryFollowsSpeech'
  <2> SUFFICES ASSUME MemoryFollowsSpeech, [Next]_vars PROVE MemoryFollowsSpeech'
    OBVIOUS
  <2>1. CASE UNCHANGED <<said, refused, stored>>
    BY <2>1 DEF MemoryFollowsSpeech, RepliesAreClean, Answers
  <2>2. ASSUME Answers' = {}, stored' = {} PROVE MemoryFollowsSpeech'
    BY <2>2 DEF MemoryFollowsSpeech, RepliesAreClean
  <2>3. \A u \in Fillers \cup Partials : u.kind \notin Answering
    BY DEF Fillers, Partials, Utter
  <2>4. ASSUME NEW u, u.kind \in Answering, u.kind = "reply" /\ Redline # "off" => ~u.text.dirty,
               NEW kept, kept = Kept(u),
               NEW others, \A v \in others : v.kind \notin Answering,
               NEW outcome \in Outcomes,
               said' = others \cup Given(outcome = "sent", u),
               refused' = Given(outcome = "refused", u),
               stored' = Given(outcome # "failed", kept)
        PROVE  MemoryFollowsSpeech'
    <3>1. Answers' = Given(outcome # "failed", u)
      BY <2>4 DEF Answers, Given, Outcomes
    <3>2. stored' = {Kept(v) : v \in Answers'}
      BY <2>4, <3>1 DEF Given
    <3>3. \A v \in Answers' : v = u
      BY <3>1 DEF Given
    <3>4. RepliesAreClean'
      BY <2>4, <3>3 DEF RepliesAreClean
    <3> QED BY <3>2, <3>4 DEF MemoryFollowsSpeech
  <2>5. ASSUME NEW outcome \in Outcomes, DeliverOffer(outcome)
        PROVE  MemoryFollowsSpeech'
    <3>1. Offer.kind \in {"offer", "summary"} /\ Prefix = Kept(Offer)
      BY DEF Offer, Prefix, Utter
    <3>2. /\ said' = Fillers \cup Given(outcome = "sent", Offer)
          /\ refused' = Given(outcome = "refused", Offer)
          /\ stored' = Given(outcome # "failed", Prefix)
      BY <2>5 DEF DeliverOffer, Finish
    <3> HIDE DEF Kept
    <3> QED BY <2>3, <2>4, <3>1, <3>2
  <2>6. ASSUME NEW outcome \in Outcomes, DeliverReply(outcome)
        PROVE  MemoryFollowsSpeech'
    <3>1. Reply.kind = "reply" /\ (Redline # "off" => ~Reply.text.dirty) /\ Reply.text = Kept(Reply)
      BY DEF Reply, Utter, Hit, Clean
    <3> DEFINE others == Fillers \cup Partials
    <3>2. /\ said' = others \cup Given(outcome = "sent", Reply)
          /\ refused' = Given(outcome = "refused", Reply)
          /\ stored' = Given(outcome # "failed", Reply.text)
      BY <2>6 DEF DeliverReply, Finish
    <3>3. /\ Reply.kind \in Answering /\ Reply.text = Kept(Reply)
          /\ Reply.kind = "reply" /\ Redline # "off" => ~Reply.text.dirty
          /\ \A v \in others : v.kind \notin Answering
      BY <2>3, <3>1
    <3> HIDE DEF Kept, others
    <3> QED BY <2>4, <3>2, <3>3
  <2>7. ASSUME NEW outcome \in Outcomes, DeliverError(outcome) \/ DeliverCanned(outcome)
        PROVE  MemoryFollowsSpeech'
    <3>1. /\ stored' = {} /\ refused' = {}
          /\ said' \subseteq Fillers \cup {Utter("error", 0, Clean), Utter("canned", 0, Clean)}
      BY <2>7 DEF DeliverError, DeliverCanned, Finish, Given
    <3>2. \A u \in said' : u.kind \notin Answering
      BY <2>3, <3>1 DEF Utter
    <3> QED BY <2>2, <3>1, <3>2 DEF Answers
  <2>8. ASSUME Proceed PROVE MemoryFollowsSpeech'
    <3>1. ASSUME \/ \E x \in Texts, accepted \in BOOLEAN : LocalAnswers(x, accepted)
                 \/ \E x \in Texts : LocalEscalates(x) \/ CloudAnswers(x)
                 \/ CloudFails
                 \/ \E recallUp \in BOOLEAN : Reissue(recallUp)
          PROVE  UNCHANGED <<said, refused, stored>>
      BY <3>1 DEF LocalAnswers, LocalEscalates, CloudAnswers, CloudFails, Reissue
    <3>2. CASE LoseFiller
      BY <2>2, <3>2 DEF LoseFiller, Finish, Answers
    <3> QED BY <2>1, <2>5, <2>6, <2>7, <2>8, <3>1, <3>2 DEF Proceed
  <2>9. CASE \E t \in Transcripts, keyOk \in BOOLEAN, recallUp \in BOOLEAN :
               Begin(t, keyOk, recallUp)
    BY <2>2, <2>9 DEF Begin, Answers
  <2> QED BY <2>1, <2>8, <2>9 DEF Next, vars
<1> QED BY <1>1, <1>2, PTL DEF Spec

-----------------------------------------------------------------------------
(* The greater of two.                                                     *)
LEMMA MaxOfTwo ==
  ASSUME NEW a \in Int, NEW b \in Int
  PROVE  Max({a, b}) \in {a, b} /\ Max({a, b}) >= a /\ Max({a, b}) >= b
<1>1. \E x \in {a, b} : \A y \in {a, b} : x >= y
  OBVIOUS
<1> QED BY <1>1 DEF Max

(* The least of a set.                                                     *)
LEMMA MinIsThere ==
  ASSUME NEW S, S \subseteq Nat, NEW m \in S, \A y \in S : m <= y
  PROVE  Min(S) = m
<1>1. \A x \in S : (\A y \in S : x <= y) => x = m
  OBVIOUS
<1> QED BY <1>1 DEF Min

(* The rungs in order, the cloud's above the others.                       *)
LEMMA LadderFacts ==
  /\ Len(Rungs) \in Nat \ {0}
  /\ Index = 1 .. Len(Rungs)
  /\ Cloud \subseteq Index
  /\ \A j \in Cloud, k \in Index : k >= j => k \in Cloud
  /\ FirstCloud \in Index
  /\ Cloud # {} => FirstCloud \in Cloud
<1>1. Len(Rungs) \in Nat \ {0} /\ Index = 1 .. Len(Rungs) /\ Cloud \subseteq Index
  BY LadderAssumption DEF Index, Cloud
<1>2. PICK lowest \in 1 .. Len(Rungs) + 1 : \A k \in Index : k \in Cloud <=> k >= lowest
  BY LadderAssumption
<1>3. \A j \in Cloud, k \in Index : k >= j => k \in Cloud
  BY <1>1, <1>2
<1>4. CASE Cloud = {}
  BY <1>1, <1>3, <1>4 DEF FirstCloud
<1>5. CASE Cloud # {}
  <2>1. lowest \in Cloud /\ \A k \in Cloud : lowest <= k
    <3>1. PICK j \in Cloud : TRUE
      BY <1>5
    <3>2. j \in Index /\ j >= lowest
      BY <1>1, <1>2, <3>1
    <3>3. lowest \in Index
      BY <1>1, <3>2
    <3> QED BY <1>1, <1>2, <3>3
  <2>2. FirstCloud = lowest
    <3>1. Cloud \subseteq Nat
      BY <1>1
    <3> QED BY <1>5, <2>1, <3>1, MinIsThere DEF FirstCloud
  <2> QED BY <1>1, <1>3, <2>1, <2>2
<1> QED BY <1>4, <1>5

(* A tier that is on the ladder is found where it is. *)
LEMMA IndexFacts ==
  ASSUME NEW name, NEW default \in Index
  PROVE  /\ IndexOf(name, default) \in Index
         /\ \A k \in Index : Rungs[k].name = name => IndexOf(name, default) = k
         /\ IndexOf(name, default) = default
              \/ Rungs[IndexOf(name, default)].name = name
<1> DEFINE named == {k \in Index : Rungs[k].name = name}
<1>1. named \subseteq Nat /\ named \subseteq Index
  BY LadderFacts
<1>2. CASE named = {}
  BY <1>2 DEF IndexOf
<1>3. CASE named # {}
  <2>1. PICK k \in named : TRUE
    BY <1>3
  <2>2. \A j \in named : j = k
    BY <2>1, LadderAssumption
  <2>3. Min(named) = k
    BY <1>1, <2>2, MinIsThere
  <2>4. IndexOf(name, default) = k
    BY <1>3, <2>3 DEF IndexOf
  <2> QED BY <2>2, <2>4
<1> QED BY <1>2, <1>3

(* Where a run starts, and what it has to be at least. *)
LEMMA StartFacts ==
  ASSUME NEW tier, NEW stakes \in {"ordinary", "high"}, NEW recallUp \in BOOLEAN
  PROVE  /\ StartIndex(tier, stakes, recallUp) \in Index
         /\ Cloud # {} /\ (stakes = "high" \/ ~recallUp)
              => StartIndex(tier, stakes, recallUp) \in Cloud
         /\ \A k \in Cloud : Rungs[k].name = tier
              => StartIndex(tier, stakes, recallUp) \in Cloud
<1>1. 1 \in Index /\ FirstCloud \in Index /\ (Cloud # {} => FirstCloud \in Cloud)
      /\ Index \subseteq Int
  BY LadderFacts
<1> DEFINE s == StartIndex(tier, stakes, recallUp)
           t == IndexOf(tier, 1)
           h == IndexOf("haiku", FirstCloud)
           c == IndexOf("sonnet", FirstCloud)
<1>2. t \in Index /\ h \in Index /\ c \in Index
  BY <1>1, IndexFacts
<1>3. Cloud # {} => h \in Cloud /\ c \in Cloud
  BY <1>1, <1>2, IndexFacts, LadderAssumption, Zenon
<1>4. \A k \in Cloud : Rungs[k].name = tier => t \in Cloud
  BY <1>1, IndexFacts, LadderFacts
<1>5. CASE stakes = "high"
  BY <1>2, <1>3, <1>5 DEF StartIndex
<1>6. CASE stakes = "ordinary" /\ recallUp
  BY <1>2, <1>4, <1>6 DEF StartIndex
<1>7. CASE stakes = "ordinary" /\ ~recallUp
  <2>1. s = Max({t, h})
    BY <1>7 DEF StartIndex
  <2>2. s \in {t, h} /\ s >= h
    BY <1>1, <1>2, <2>1, MaxOfTwo, Zenon
  <2>3. s \in Index
    BY <1>2, <2>2
  <2>4. Cloud # {} => s \in Cloud
    BY <1>3, <2>2, <2>3, LadderFacts
  <2> QED BY <2>3, <2>4
<1> QED BY <1>5, <1>6, <1>7

-----------------------------------------------------------------------------
(* Where a turn may start.                                                 *)
LEMMA FirstRungFacts ==
  ASSUME floor \in Index, NEW transcript \in Transcripts, NEW recallUp \in BOOLEAN,
         NEW tier
  PROVE  LET first == FirstRung(tier, transcript, recallUp)
         IN  /\ Decayed(transcript.words) \in Index
             /\ first \in Index
             /\ first >= Decayed(transcript.words)
             /\ first >= StartIndex(tier, transcript.stakes, recallUp)
             /\ Decayed(transcript.words) = 1 =>
                  first = StartIndex(tier, transcript.stakes, recallUp)
             /\ Cloud # {} /\ (transcript.stakes = "high" \/ ~recallUp) => first \in Cloud
             /\ \A k \in Cloud : Rungs[k].name = tier => first \in Cloud
<1> DEFINE s == StartIndex(tier, transcript.stakes, recallUp)
           d == Decayed(transcript.words)
           f == FirstRung(tier, transcript, recallUp)
<1>1. transcript.stakes \in {"ordinary", "high"}
  BY InputAssumption DEF Transcript
<1>2. s \in Index /\ d \in Index /\ 1 \in Index
  BY <1>1, StartFacts, LadderFacts DEF Decayed
<1>3. f = Max({s, d})
  BY DEF FirstRung
<1>4. /\ Index \subseteq Int /\ \A k \in Index : k >= 1
      /\ \A j \in Cloud, k \in Index : k >= j => k \in Cloud
  BY LadderFacts
<1>5. f \in {s, d} /\ f >= s /\ f >= d /\ f \in Index
  BY <1>2, <1>3, <1>4, MaxOfTwo
<1>6. s \in Cloud => f \in Cloud
  BY <1>4, <1>5
<1>7. ASSUME d = 1 PROVE f = s
  <2>1. s \in Int /\ s >= 1
    BY <1>2, <1>4
  <2>2. f = s \/ f = 1
    BY <1>5, <1>7
  <2> QED BY <1>5, <2>1, <2>2
<1>8. /\ Cloud # {} /\ (transcript.stakes = "high" \/ ~recallUp) => s \in Cloud
      /\ \A k \in Cloud : Rungs[k].name = tier => s \in Cloud
  BY <1>1, StartFacts
<1> QED BY <1>2, <1>5, <1>6, <1>7, <1>8

(* The parts of the state a rung touches, besides the deltas. *)
LEMMA RungMoves ==
  ASSUME TypeOK, phase = "climbing", NEW x \in Texts, Answer(x) \/ Climb
  PROVE  /\ floor' \in Index /\ floor' >= floor
         /\ rung' \in Index \cup {0} /\ phase' \in {"climbing", "answered", "degraded"}
         /\ text' \in Text
         /\ turn' \in Turn
         /\ turn' = turn \/ (turn' = [turn EXCEPT !.served = rung] /\ floor' >= rung)
         /\ phase' = "climbing" => rung' \in Index
         /\ rung' = rung \/ rung' = 0 \/ (rung' = rung + 1 /\ rung' \in Index)
<1>1. /\ floor \in Index /\ rung \in Index /\ turn \in Turn /\ attempts \in Nat
      /\ Index = 1 .. Len(Rungs) /\ Len(Rungs) \in Nat \ {0} /\ text \in Text
  <2>1. attempts \in Nat
    BY DEF TypeOK
  <2> QED BY <2>1, LadderFacts DEF TypeOK
<1>2. CASE Answer(x)
  <2>1. floor' \in Index /\ floor' >= floor /\ floor' >= rung
    <3>1. floor' = Max({floor, rung}) /\ floor \in Int /\ rung \in Int
      BY <1>1, <1>2 DEF Answer
    <3> QED BY <1>1, <3>1, MaxOfTwo
  <2>2. turn' = turn \/ turn' = [turn EXCEPT !.served = rung]
    BY <1>2 DEF Answer
  <2>3. turn' \in Turn
    BY <1>1, <2>2 DEF Turn
  <2>4. text' \in Text
    BY <1>2, InputAssumption DEF Answer
  <2> QED BY <1>1, <1>2, <2>1, <2>2, <2>3, <2>4 DEF Answer
<1>3. CASE Climb
  <2>1. floor' = floor /\ turn' = turn
    BY <1>3 DEF Climb
  <2>2. CASE AtTop
    <3>1. /\ phase' \in {"degraded", "answered"} /\ text' = Clean
          /\ rung' \in {rung, 0}
      BY <1>3, <2>2 DEF Climb
    <3>2. Clean \in Text
      BY DEF Clean, Text
    <3> QED BY <1>1, <2>1, <3>1, <3>2
  <2>3. CASE ~AtTop
    <3>1. rung' = rung + 1 /\ phase' = phase /\ text' = text
      BY <1>3, <2>3 DEF Climb
    <3>2. rung' \in Index
      BY <1>1, <2>3, <3>1 DEF AtTop
    <3> QED BY <1>1, <2>1, <3>1, <3>2
  <2> QED BY <2>2, <2>3
<1> QED BY <1>2, <1>3

(* A rung buffers deltas of its own.                                       *)
LEMMA StreamType ==
  ASSUME TypeOK, rung \in Index, NEW x \in Texts, NEW rejected \in BOOLEAN,
         Stream(x, rejected)
  PROVE  /\ deltas' \subseteq Delta
         /\ \A d \in deltas' : d \in deltas \/ d.rung = rung
<1> DEFINE d == [rung |-> rung, text |-> x, rejected |-> rejected]
<1>1. d \in Delta /\ d.rung = rung
  BY InputAssumption DEF Delta
<1>2. deltas' = deltas \/ deltas' = deltas \cup {d}
  BY DEF Stream
<1> HIDE DEF d
<1> QED BY <1>1, <1>2 DEF TypeOK

(* What may be published, by its types and by the rungs in it. *)
LEMMA UtteranceType ==
  ASSUME TypeOK, phase \in {"answered", "degraded"}
  PROVE  /\ Fillers \subseteq Utterance /\ \A u \in Fillers : u.rung = 0
         /\ Partials \subseteq Utterance
         /\ \A u \in Partials : \E d \in deltas : u.rung = d.rung
         /\ Reply \in Utterance /\ Reply.rung \in {rung, 0} /\ Reply.text \in Text
         /\ Offer \in Utterance /\ Offer.rung = rung /\ Prefix \in Text
         /\ \A kind \in {"error", "canned"} :
              Utter(kind, 0, Clean) \in Utterance /\ Utter(kind, 0, Clean).rung = 0
<1>1. Clean \in Text /\ Empty \in Text /\ text \in Text /\ rung \in Index \cup {0}
  BY DEF TypeOK, Clean, Empty, Text
<1>2. \A kind \in Kinds, k \in Index \cup {0}, x \in Text :
        /\ Utter(kind, k, x) \in Utterance
        /\ Utter(kind, k, x).rung = k /\ Utter(kind, k, x).text = x
  BY DEF Utter, Utterance
<1>3. Fillers \subseteq Utterance /\ \A u \in Fillers : u.rung = 0
  <2>1. Fillers \subseteq {Utter("filler", 0, Clean)}
    BY DEF Fillers
  <2>2. Utter("filler", 0, Clean) \in Utterance /\ Utter("filler", 0, Clean).rung = 0
    BY <1>1, <1>2 DEF Kinds
  <2> QED BY <2>1, <2>2
<1>4. /\ Partials \subseteq Utterance
      /\ \A u \in Partials : \E d \in deltas : u.rung = d.rung
  <2>1. \A d \in deltas : d \in Delta
    BY DEF TypeOK
  <2> QED BY <2>1 DEF Partials, Delta, Utterance, Kinds
<1>5. Reply \in Utterance /\ Reply.rung \in {rung, 0} /\ Reply.text \in Text
  BY <1>1, <1>2 DEF Reply, Kinds
<1>6. Offer \in Utterance /\ Offer.rung = rung /\ Prefix \in Text
  <2>1. [text EXCEPT !.spoken = TRUE, !.fence = FALSE] \in Text
    BY <1>1 DEF Text
  <2>2. [text EXCEPT !.fence = FALSE] \in Text
    BY <1>1 DEF Text
  <2>3. Prefix \in Text
    BY <1>1, <2>2 DEF Prefix
  <2>4. CASE text.spoken
    <3>1. Offer = Utter("offer", rung, Prefix)
      BY <2>4 DEF Offer
    <3> QED BY <1>1, <1>2, <2>3, <3>1 DEF Kinds
  <2>5. CASE ~text.spoken
    <3>1. PICK x \in Text : Offer = Utter("summary", rung, x)
      BY <2>1, <2>5 DEF Offer
    <3> QED BY <1>1, <1>2, <2>3, <3>1 DEF Kinds
  <2> QED BY <2>4, <2>5
<1>7. \A kind \in {"error", "canned"} :
        Utter(kind, 0, Clean) \in Utterance /\ Utter(kind, 0, Clean).rung = 0
  BY <1>1, <1>2 DEF Kinds
<1> QED BY <1>3, <1>4, <1>5, <1>6, <1>7

(* What a turn that ends does, whichever way it ends. *)
Ending ==
  /\ phase \in {"answered", "degraded"}
  /\ said' \subseteq Utterance /\ refused' \subseteq Utterance /\ stored' \subseteq Text
  /\ \A u \in said' : u.rung = 0 \/ u.rung = rung \/ \E d \in deltas : u.rung = d.rung
  /\ log' = Append(log, turn)
  /\ phase' = "idle" /\ rung' = 0 /\ attempts' = 0 /\ text' = Empty /\ deltas' = {}
  /\ UNCHANGED <<floor, previous, turn>>

(* However the delivery goes, the turn is over and the floor is kept.      *)
LEMMA DeliveryEnds ==
  ASSUME TypeOK,
         \/ LoseFiller
         \/ \E outcome \in Outcomes :
              \/ DeliverError(outcome) \/ DeliverOffer(outcome)
              \/ DeliverReply(outcome) \/ DeliverCanned(outcome)
  PROVE  Ending
<1>1. phase \in {"answered", "degraded"}
  BY DEF LoseFiller, DeliverError, DeliverOffer, DeliverReply, DeliverCanned
<1> DEFINE fixed == {Utter("error", 0, Clean), Utter("canned", 0, Clean)}
           all == Fillers \cup Partials \cup {Reply} \cup {Offer} \cup fixed
<1>2. \A u \in all : /\ u \in Utterance
                     /\ u.rung = 0 \/ u.rung = rung \/ \E d \in deltas : u.rung = d.rung
  BY <1>1, UtteranceType
<1>3. Reply.text \in Text /\ Prefix \in Text
  BY <1>1, UtteranceType
<1>4. \E utterances, denied \in SUBSET all, kept \in SUBSET {Reply.text, Prefix} :
        Finish(utterances, denied, kept)
  <2>1. CASE LoseFiller
    <3>1. Finish({}, {}, {})
      BY <2>1 DEF LoseFiller
    <3> QED BY <3>1
  <2>2. ASSUME NEW outcome \in Outcomes, DeliverError(outcome) \/ DeliverCanned(outcome)
        PROVE  <1>4
    <3>1. PICK u \in fixed : Finish(Fillers \cup Given(outcome = "sent", u), {}, {})
      BY <2>2 DEF DeliverError, DeliverCanned
    <3>2. Fillers \cup Given(outcome = "sent", u) \in SUBSET all
      BY DEF Given
    <3> HIDE DEF all
    <3> QED BY <3>1, <3>2
  <2>3. ASSUME NEW outcome \in Outcomes, DeliverOffer(outcome) PROVE <1>4
    <3>1. Finish(Fillers \cup Given(outcome = "sent", Offer), Given(outcome = "refused", Offer),
                 Given(outcome # "failed", Prefix))
      BY <2>3 DEF DeliverOffer
    <3>2. /\ Fillers \cup Given(outcome = "sent", Offer) \in SUBSET all
          /\ Given(outcome = "refused", Offer) \in SUBSET all
          /\ Given(outcome # "failed", Prefix) \in SUBSET {Reply.text, Prefix}
      BY DEF Given
    <3> HIDE DEF all
    <3> QED BY <3>1, <3>2
  <2>4. ASSUME NEW outcome \in Outcomes, DeliverReply(outcome) PROVE <1>4
    <3>1. Finish(Fillers \cup Partials \cup Given(outcome = "sent", Reply),
                 Given(outcome = "refused", Reply), Given(outcome # "failed", Reply.text))
      BY <2>4 DEF DeliverReply
    <3>2. /\ Fillers \cup Partials \cup Given(outcome = "sent", Reply) \in SUBSET all
          /\ Given(outcome = "refused", Reply) \in SUBSET all
          /\ Given(outcome # "failed", Reply.text) \in SUBSET {Reply.text, Prefix}
      BY DEF Given
    <3> HIDE DEF all
    <3> QED BY <3>1, <3>2
  <2> HIDE DEF all
  <2> QED BY <2>1, <2>2, <2>3, <2>4
<1> HIDE DEF all
<1> QED BY <1>1, <1>2, <1>3, <1>4 DEF Ending, Finish

(* The rungs: a text streams in, and the ladder answers or climbs. *)
RungStep ==
  \E x \in Texts, rejected \in BOOLEAN :
    /\ phase = "climbing"
    /\ Stream(x, rejected) \/ UNCHANGED deltas
    /\ Answer(x) \/ Climb
    /\ UNCHANGED <<previous, attempts, said, refused, stored, log>>

(* The kinds of steps: a beginning, a climb, a re-issue, an end, none.     *)
LEMMA Steps ==
  ASSUME TypeOK, [Next]_vars
  PROVE  \/ \E t \in Transcripts, keyOk \in BOOLEAN, recallUp \in BOOLEAN :
              Begin(t, keyOk, recallUp)
         \/ RungStep
         \/ \E recallUp \in BOOLEAN : Reissue(recallUp)
         \/ Ending
         \/ UNCHANGED vars
<1>1. ASSUME NEW x \in Texts, NEW accepted \in BOOLEAN, LocalAnswers(x, accepted)
      PROVE  RungStep
  <2>1. (~accepted /\ ~AtTop) \in BOOLEAN
    OBVIOUS
  <2> QED BY <1>1, <2>1 DEF LocalAnswers, RungStep
<1>2. ASSUME NEW x \in Texts, LocalEscalates(x) \/ CloudAnswers(x) PROVE RungStep
  BY <1>2 DEF LocalEscalates, CloudAnswers, RungStep
<1>3. CASE CloudFails
  BY <1>3, InputAssumption DEF CloudFails, RungStep
<1> QED BY <1>1, <1>2, <1>3, DeliveryEnds DEF Next, Proceed

(* Every state of a turn is well-typed.  (TypeOK; ladder.rs) *)
THEOREM LadderTypeCorrect == Spec => []TypeOK
<1>1. Init => TypeOK
  <2>1. 0 \in 0 .. Max({1, MaxAttempts}) /\ 1 \in Index /\ <<>> \in Seq(Turn)
    BY ConfigAssumption, MaxOfTwo, LadderFacts
  <2> QED BY <2>1 DEF Init, TypeOK, Empty, Text
<1>2. TypeOK /\ [Next]_vars => TypeOK'
  <2> SUFFICES ASSUME TypeOK, [Next]_vars PROVE TypeOK'
    OBVIOUS
  <2>1. ASSUME NEW t \in Transcripts, NEW keyOk \in BOOLEAN, NEW recallUp \in BOOLEAN,
               Begin(t, keyOk, recallUp)
        PROVE  TypeOK'
    <3> DEFINE tier == RoutingTier(t, keyOk)
    <3>1. Decayed(t.words) \in Index /\ FirstRung(tier, t, recallUp) \in Index
      BY FirstRungFacts DEF TypeOK
    <3>2. t.words \in SUBSET STRING
      BY InputAssumption DEF Transcript
    <3>3. turn' \in Turn
      BY <2>1, <3>1 DEF Begin, Turn
    <3>4. /\ floor' = Decayed(t.words) /\ previous' = t.words
          /\ rung' = FirstRung(tier, t, recallUp) /\ phase' = "climbing"
          /\ said' = {} /\ refused' = {} /\ stored' = {}
          /\ UNCHANGED <<attempts, text, deltas, log>>
      BY <2>1 DEF Begin, EnterLadder
    <3> QED BY <3>1, <3>2, <3>3, <3>4, NoTurnAssumption DEF TypeOK
  <2>2. CASE RungStep
    <3>1. PICK x \in Texts, rejected \in BOOLEAN :
            /\ phase = "climbing"
            /\ Stream(x, rejected) \/ UNCHANGED deltas
            /\ Answer(x) \/ Climb
            /\ UNCHANGED <<previous, attempts, said, refused, stored, log>>
      BY <2>2 DEF RungStep
    <3>2. deltas' \subseteq Delta
      BY <3>1, StreamType DEF TypeOK
    <3>3. /\ floor' \in Index /\ rung' \in Index \cup {0} /\ text' \in Text /\ turn' \in Turn
          /\ phase' \in {"climbing", "answered", "degraded"}
          /\ phase' = "climbing" => rung' \in Index
      BY <3>1, RungMoves
    <3> QED BY <3>1, <3>2, <3>3, NoTurnAssumption DEF TypeOK
  <2>3. ASSUME NEW recallUp \in BOOLEAN, Reissue(recallUp) PROVE TypeOK'
    <3> DEFINE tier == Rungs[turn.served].name
    <3>1. turn \in Turn /\ turn.transcript \in Transcripts
      BY <2>3 DEF Reissue, TypeOK, Turn
    <3>2. /\ Decayed(turn.transcript.words) \in Index
          /\ FirstRung(tier, turn.transcript, recallUp) \in Index
      BY <3>1, FirstRungFacts DEF TypeOK
    <3>3. turn.transcript.words \in SUBSET STRING
      BY <3>1, InputAssumption DEF Transcript
    <3>4. attempts' \in 0 .. Max({1, MaxAttempts})
      <4>1. Max({1, MaxAttempts}) \in Int
        BY ConfigAssumption, MaxOfTwo
      <4>2. attempts < Max({1, MaxAttempts}) /\ attempts' = attempts + 1 /\ attempts \in Nat
        BY <2>3 DEF Reissue, MayReissue, TypeOK
      <4> QED BY <4>1, <4>2
    <3>5. /\ floor' = Decayed(turn.transcript.words) /\ previous' = turn.transcript.words
          /\ rung' = FirstRung(tier, turn.transcript, recallUp) /\ phase' = "climbing"
          /\ UNCHANGED <<turn, text, deltas, said, refused, stored, log>>
      BY <2>3 DEF Reissue, EnterLadder
    <3> QED BY <3>1, <3>2, <3>3, <3>4, <3>5, NoTurnAssumption DEF TypeOK
  <2>4. CASE Ending
    <3>1. turn \in Turn /\ log \in Seq(Turn)
      BY <2>4 DEF Ending, TypeOK
    <3>2. log' \in Seq(Turn)
      BY <2>4, <3>1 DEF Ending
    <3>3. 0 \in 0 .. Max({1, MaxAttempts})
      BY ConfigAssumption, MaxOfTwo
    <3> QED BY <2>4, <3>2, <3>3, InputAssumption DEF Ending, TypeOK
  <2>5. CASE UNCHANGED vars
    BY <2>5 DEF vars, TypeOK
  <2> QED BY <2>1, <2>2, <2>3, <2>4, <2>5, Steps
<1> QED BY <1>1, <1>2, PTL DEF Spec

-----------------------------------------------------------------------------
Blind == turn.transcript.stakes = "high" \/ ~turn.recallUp

(* What keeps a blind turn in the cloud: the rung it is at, the partials   *)
(* it buffered, and the rung that a re-issue starts from.                  *)
BlindInv ==
  /\ phase = "idle" => deltas = {} /\ attempts = 0
  /\ turn = NoTurn => said = {} /\ phase = "idle"
  /\ phase # "idle" => said = {}
  /\ (phase = "answered" \/ (phase # "idle" /\ attempts > 0)) => turn.served # 0
  /\ Cloud # {} /\ turn # NoTurn /\ Blind =>
       /\ phase = "climbing" => rung \in Cloud
       /\ phase # "idle" => rung \in Cloud \cup {0}
       /\ \A d \in deltas : d.rung \in Cloud
       /\ turn.served \in Cloud \cup {0}
       /\ \A u \in said : u.rung \in Cloud \cup {0}

(* Every step keeps blind turns in the cloud.                              *)
LEMMA BlindStep ==
  ASSUME TypeOK, BlindInv, [Next]_vars
  PROVE  BlindInv'
<1>1. ASSUME NEW t \in Transcripts, NEW keyOk \in BOOLEAN, NEW recallUp \in BOOLEAN,
             Begin(t, keyOk, recallUp)
      PROVE  BlindInv'
  <2> DEFINE tier == RoutingTier(t, keyOk)
             first == FirstRung(tier, t, recallUp)
  <2>1. /\ phase = "idle" /\ phase' = "climbing" /\ rung' = first /\ said' = {}
        /\ turn' = [transcript |-> t, keyOk |-> keyOk, recallUp |-> recallUp,
                    start |-> first, served |-> 0]
        /\ UNCHANGED <<attempts, deltas>>
    BY <1>1 DEF Begin, EnterLadder
  <2>2. Cloud # {} /\ (t.stakes = "high" \/ ~recallUp) => first \in Cloud
    BY FirstRungFacts DEF TypeOK
  <2>3. turn' # NoTurn
    <3>1. first \in Index
      BY FirstRungFacts DEF TypeOK
    <3>2. turn' \in Turn
      BY <2>1, <3>1 DEF Turn
    <3> QED BY <3>2, NoTurnAssumption
  <2>4. deltas' = {} /\ attempts' = 0
    BY <2>1 DEF BlindInv
  <2>5. turn'.served = 0 /\ turn'.transcript = t /\ turn'.recallUp = recallUp
    BY <2>1
  <2> HIDE DEF first
  <2> QED BY <2>1, <2>2, <2>3, <2>4, <2>5 DEF BlindInv, Blind
<1>2. CASE RungStep
  <2>1. PICK x \in Texts, rejected \in BOOLEAN :
          /\ phase = "climbing"
          /\ Stream(x, rejected) \/ UNCHANGED deltas
          /\ Answer(x) \/ Climb
          /\ UNCHANGED <<previous, attempts, said, refused, stored, log>>
    BY <1>2 DEF RungStep
  <2>2. turn \in Turn /\ turn # NoTurn /\ rung \in Index
    BY <2>1, NoTurnAssumption DEF TypeOK
  <2>3. /\ turn' \in Turn /\ phase' \in {"climbing", "answered", "degraded"}
        /\ turn' = turn \/ turn' = [turn EXCEPT !.served = rung]
        /\ rung' = rung \/ rung' = 0 \/ (rung' = rung + 1 /\ rung' \in Index)
        /\ phase' = "climbing" => rung' \in Index
    BY <2>1, RungMoves
  <2>4. \A d \in deltas' : d \in deltas \/ d.rung = rung
    BY <2>1, <2>2, StreamType
  <2>5. /\ turn'.transcript = turn.transcript /\ turn'.recallUp = turn.recallUp
        /\ turn'.served = turn.served \/ turn'.served = rung
    BY <2>2, <2>3 DEF Turn
  <2>6. ASSUME phase' = "answered" \/ attempts' > 0 PROVE turn'.served # 0
    <3>1. 0 \notin Index /\ attempts' = attempts /\ attempts \in Nat
      BY <2>1, LadderFacts DEF TypeOK
    <3>2. CASE attempts > 0
      <4>1. turn.served # 0
        BY <2>1, <3>2 DEF BlindInv
      <4> QED BY <2>2, <2>5, <3>1, <4>1
    <3>3. CASE attempts = 0 /\ Answer(x)
      <4>1. turn' = [turn EXCEPT !.served = rung]
        BY <3>3 DEF Answer
      <4> QED BY <2>2, <3>1, <4>1 DEF Turn
    <3>4. CASE attempts = 0 /\ Climb
      BY <2>1, <2>6, <3>1, <3>4 DEF Climb
    <3> QED BY <2>1, <3>1, <3>2, <3>3, <3>4
  <2>7. ASSUME Cloud # {}, Blind
        PROVE  /\ phase' = "climbing" => rung' \in Cloud
               /\ rung' \in Cloud \cup {0}
               /\ \A d \in deltas' : d.rung \in Cloud
               /\ turn'.served \in Cloud \cup {0}
    <3>1. /\ rung \in Cloud /\ turn.served \in Cloud \cup {0}
          /\ \A d \in deltas : d.rung \in Cloud
      BY <2>1, <2>2, <2>7 DEF BlindInv
    <3>2. rung + 1 \in Index => rung + 1 \in Cloud
      BY <3>1, LadderFacts
    <3>3. 0 \notin Index
      BY LadderFacts
    <3> QED BY <2>3, <2>4, <2>5, <3>1, <3>2, <3>3
  <2>8. Blind' => Blind
    BY <2>5 DEF Blind
  <2>9. said' = {} /\ turn' # NoTurn /\ phase' # "idle"
    BY <2>1, <2>2, <2>3, NoTurnAssumption DEF BlindInv
  <2> QED BY <2>6, <2>7, <2>8, <2>9 DEF BlindInv
<1>3. ASSUME NEW recallUp \in BOOLEAN, Reissue(recallUp) PROVE BlindInv'
  <2> DEFINE tier == Rungs[turn.served].name
             first == FirstRung(tier, turn.transcript, recallUp)
  <2>1. /\ phase = "answered" /\ phase' = "climbing" /\ rung' = first
        /\ UNCHANGED <<turn, deltas, said>>
    BY <1>3 DEF Reissue, EnterLadder
  <2>2. turn \in Turn /\ turn # NoTurn /\ turn.transcript \in Transcripts
    BY <2>1, NoTurnAssumption DEF TypeOK, Turn
  <2>3. turn.served # 0 /\ said = {}
    BY <2>1 DEF BlindInv
  <2>4. turn.served \in Cloud => first \in Cloud
    BY <2>2, FirstRungFacts DEF TypeOK
  <2> HIDE DEF first
  <2> QED BY <2>1, <2>2, <2>3, <2>4 DEF BlindInv, Blind
<1>4. CASE Ending
  <2>1. turn # NoTurn
    BY <1>4, NoTurnAssumption DEF Ending, TypeOK
  <2> QED BY <1>4, <2>1 DEF Ending, BlindInv, Blind
<1>5. CASE UNCHANGED vars
  BY <1>5 DEF vars, BlindInv, Blind
<1> QED BY <1>1, <1>2, <1>3, <1>4, <1>5, Steps

(* A turn of high stakes, or one that began with recall down, is spoken by *)
(* the cloud while the ladder has a cloud rung, in every partial, offer    *)
(* and reply and through every re-issue.  (BlindTurnsTrustCloud;           *)
(* LadderClient::start_index and run_turn_inner)                           *)
THEOREM BlindHolds == Spec => []BlindTurnsTrustCloud
<1>1. Init => BlindInv
  BY DEF Init, BlindInv
<1>2. TypeOK /\ BlindInv /\ [Next]_vars => BlindInv'
  BY BlindStep
<1>3. BlindInv => BlindTurnsTrustCloud
  BY DEF BlindInv, Blind, BlindTurnsTrustCloud
<1> QED BY <1>1, <1>2, <1>3, LadderTypeCorrect, PTL DEF Spec

-----------------------------------------------------------------------------
(* The thread properties, of any sequence of turns.                        *)
Words(t) == t.transcript.words
Thread(s, i, j) == \A k \in i + 1 .. j : ~TopicChanged(Words(s[k - 1]), Words(s[k]))
Fresh(t) ==
  t.start = StartIndex(RoutingTier(t.transcript, t.keyOk), t.transcript.stakes, t.recallUp)

StaysUp(s) == \A i, j \in DOMAIN s : i < j /\ Thread(s, i, j) => s[j].start >= s[i].served
StartsOver(s) == \A j \in DOMAIN s : j = 1 \/ ~Thread(s, j - 1, j) => Fresh(s[j])

(* Words that are not on the topic of the turns so far. *)
OffTopic(s, words) == s = <<>> \/ TopicChanged(Words(s[Len(s)]), words)

(* Rung n is above all that the thread of the last turn was served by, *)
Above(s, n) == \A i \in DOMAIN s : Thread(s, i, Len(s)) => n >= s[i].served

(* The floor is above what the thread needed, and the turn in hand began   *)
(* there; a floor that was reset in a thread without words is of no use to *)
(* any other turn.                                                         *)
ThreadInv ==
  /\ StaysUp(log) /\ StartsOver(log)
  /\ phase = "idle" =>
       /\ previous = IF log = <<>> THEN {} ELSE Words(log[Len(log)])
       /\ previous # {} => Above(log, floor)
  /\ phase # "idle" =>
       /\ previous = Words(turn)
       /\ OffTopic(log, previous) => Fresh(turn)
       /\ ~OffTopic(log, previous) => Above(log, turn.start) /\ Above(log, floor)
       /\ previous # {} => floor >= turn.served

(* No words are no topic, and words are on their own topic.                *)
LEMMA TopicFacts ==
  /\ \A w : TopicChanged({}, w) /\ TopicChanged(w, {})
  /\ \A t \in Transcripts : t.words # {} => ~TopicChanged(t.words, t.words)
<1>1. \A w : TopicChanged({}, w) /\ TopicChanged(w, {})
  BY DEF TopicChanged
<1>2. ASSUME NEW t \in Transcripts, t.words # {}
      PROVE  ~TopicChanged(t.words, t.words)
  <2>1. Cardinality(t.words) \in Nat
    BY InputAssumption, FS_CardinalityType
  <2>2. t.words \cap t.words = t.words /\ t.words \cup t.words = t.words
    OBVIOUS
  <2>3. ~(5 * Cardinality(t.words) < Cardinality(t.words))
    BY <2>1
  <2> QED BY <1>2, <2>2, <2>3 DEF TopicChanged
<1> QED BY <1>1, <1>2

(* One more turn: the thread goes on through it when it is on topic. *)
LEMMA AppendKeeps ==
  ASSUME NEW s \in Seq(Turn), NEW t \in Turn,
         StaysUp(s), StartsOver(s),
         OffTopic(s, Words(t)) => Fresh(t),
         ~OffTopic(s, Words(t)) => Above(s, t.start)
  PROVE  /\ StaysUp(Append(s, t)) /\ StartsOver(Append(s, t))
         /\ \A n \in Int :
              n >= t.served /\ (~OffTopic(s, Words(t)) => Above(s, n))
                => Above(Append(s, t), n)
<1> DEFINE n == Len(s)
           r == Append(s, t)
<1>1. /\ n \in Nat /\ DOMAIN s = 1 .. n /\ DOMAIN r = 1 .. n + 1 /\ Len(r) = n + 1
      /\ \A i \in 1 .. n : r[i] = s[i]
      /\ r[n + 1] = t
      /\ s = <<>> <=> n = 0
  OBVIOUS
<1> HIDE DEF n, r
<1>2. \A i \in 1 .. n, j \in 1 .. n : Thread(r, i, j) <=> Thread(s, i, j)
  <2> SUFFICES ASSUME NEW i \in 1 .. n, NEW j \in 1 .. n
               PROVE  Thread(r, i, j) <=> Thread(s, i, j)
    OBVIOUS
  <2>1. \A k \in i + 1 .. j : r[k] = s[k] /\ r[k - 1] = s[k - 1]
    BY <1>1
  <2> QED BY <2>1 DEF Thread
<1>3. ASSUME NEW i \in 1 .. n, Thread(r, i, n + 1)
      PROVE  Thread(s, i, n) /\ ~OffTopic(s, Words(t))
  <2>1. /\ \A k \in i + 1 .. n : k \in i + 1 .. n + 1
        /\ n + 1 \in i + 1 .. n + 1 /\ n \in 1 .. n
    BY <1>1
  <2>2. Thread(r, i, n)
    BY <1>3, <2>1 DEF Thread
  <2>3. ~TopicChanged(Words(r[(n + 1) - 1]), Words(r[n + 1]))
    BY <1>3, <2>1 DEF Thread
  <2>4. (n + 1) - 1 = n
    BY <1>1
  <2>5. ~TopicChanged(Words(s[n]), Words(t))
    BY <1>1, <2>1, <2>3, <2>4
  <2> QED BY <1>1, <1>2, <2>1, <2>2, <2>5 DEF OffTopic, n
<1>4. StaysUp(r)
  <2> SUFFICES ASSUME NEW i \in 1 .. n + 1, NEW j \in 1 .. n + 1, i < j, Thread(r, i, j)
               PROVE  r[j].start >= r[i].served
    BY <1>1 DEF StaysUp
  <2>1. i \in 1 .. n
    BY <1>1
  <2>2. CASE j \in 1 .. n
    BY <1>1, <1>2, <2>1, <2>2 DEF StaysUp
  <2>3. CASE j = n + 1
    BY <1>1, <1>3, <2>1, <2>3 DEF Above, n
  <2> QED BY <1>1, <2>2, <2>3
<1>5. StartsOver(r)
  <2> SUFFICES ASSUME NEW j \in 1 .. n + 1, j = 1 \/ ~Thread(r, j - 1, j)
               PROVE  Fresh(r[j])
    BY <1>1 DEF StartsOver
  <2>1. CASE j \in 1 .. n
    <3>1. j = 1 \/ (j - 1 \in 1 .. n /\ ~Thread(s, j - 1, j))
      BY <1>1, <1>2, <2>1
    <3> QED BY <1>1, <2>1, <3>1 DEF StartsOver
  <2>2. CASE j = n + 1
    <3>1. CASE n = 0
      BY <1>1, <2>2, <3>1 DEF OffTopic
    <3>2. CASE n # 0
      <4>1. ~Thread(r, n, n + 1) /\ n \in 1 .. n
        BY <1>1, <2>2, <3>2
      <4>2. \A k \in n + 1 .. n + 1 : k = n + 1 /\ k - 1 = n
        BY <1>1
      <4>3. TopicChanged(Words(r[n]), Words(r[n + 1]))
        BY <4>1, <4>2 DEF Thread
      <4>4. OffTopic(s, Words(t))
        BY <1>1, <4>1, <4>3 DEF OffTopic, n
      <4> QED BY <1>1, <2>2, <4>4
    <3> QED BY <3>1, <3>2
  <2> QED BY <1>1, <2>1, <2>2
<1>6. ASSUME NEW m \in Int, m >= t.served, ~OffTopic(s, Words(t)) => Above(s, m)
      PROVE  Above(r, m)
  <2> SUFFICES ASSUME NEW i \in 1 .. n + 1, Thread(r, i, n + 1)
               PROVE  m >= r[i].served
    BY <1>1 DEF Above
  <2>1. CASE i \in 1 .. n
    BY <1>1, <1>3, <1>6, <2>1 DEF Above, n
  <2>2. CASE i = n + 1
    BY <1>1, <1>6, <2>2
  <2> QED BY <1>1, <2>1, <2>2
<1> QED BY <1>4, <1>5, <1>6 DEF r

(* Every step keeps the floor above the thread.                            *)
LEMMA ThreadStep ==
  ASSUME TypeOK, ThreadInv, [Next]_vars
  PROVE  ThreadInv'
<1>0. /\ log \in Seq(Turn) /\ Index \subseteq Int /\ floor \in Index
      /\ \A i \in DOMAIN log : log[i].served \in Int
  <2>1. log \in Seq(Turn) /\ Index \subseteq Int /\ floor \in Index
    BY LadderFacts DEF TypeOK
  <2>2. \A i \in DOMAIN log : log[i] \in Turn
    BY <2>1
  <2>3. \A t \in Turn : t.served \in Int
    <3>1. \A t \in Turn : t.served \in Index \cup {0}
      BY DEF Turn
    <3>2. Index \cup {0} \subseteq Int
      BY LadderFacts
    <3> QED BY <3>1, <3>2, Zenon
  <2> QED BY <2>1, <2>2, <2>3
<1>1. ASSUME NEW t \in Transcripts, NEW keyOk \in BOOLEAN, NEW recallUp \in BOOLEAN,
             Begin(t, keyOk, recallUp)
      PROVE  ThreadInv'
  <2> DEFINE tier == RoutingTier(t, keyOk)
             first == FirstRung(tier, t, recallUp)
  <2>1. /\ phase = "idle" /\ phase' = "climbing" /\ floor' = Decayed(t.words)
        /\ previous' = t.words /\ log' = log
        /\ turn' = [transcript |-> t, keyOk |-> keyOk, recallUp |-> recallUp,
                    start |-> first, served |-> 0]
    BY <1>1 DEF Begin, EnterLadder
  <2>2. /\ floor' \in Index /\ first \in Index /\ first >= floor'
        /\ floor' = 1 => first = StartIndex(tier, t.stakes, recallUp)
    BY <1>0, <2>1, FirstRungFacts
  <2>3. TopicChanged(previous, t.words) <=> OffTopic(log, t.words)
    BY <2>1, TopicFacts DEF ThreadInv, OffTopic
  <2>4. /\ Words(turn') = t.words /\ turn'.start = first /\ turn'.served = 0
        /\ OffTopic(log, t.words) => Fresh(turn')
    <3>1. OffTopic(log, t.words) => floor' = 1
      BY <2>1, <2>3 DEF Decayed
    <3> QED BY <2>1, <2>2, <3>1 DEF Words, Fresh
  <2>5. ASSUME ~OffTopic(log, t.words)
        PROVE  Above(log, first) /\ Above(log, floor')
    <3>1. floor' = floor /\ previous # {}
      BY <2>1, <2>3, <2>5, TopicFacts DEF Decayed
    <3>2. Above(log, floor)
      BY <2>1, <3>1 DEF ThreadInv
    <3>3. floor \in Int /\ first \in Int /\ first >= floor
      BY <1>0, <2>2, <3>1
    <3> QED BY <1>0, <3>1, <3>2, <3>3 DEF Above
  <2>6. floor' >= turn'.served
    BY <1>0, <2>2, <2>4, LadderFacts
  <2> HIDE DEF first
  <2> QED BY <2>1, <2>4, <2>5, <2>6 DEF ThreadInv
<1>2. CASE RungStep
  <2>1. PICK x \in Texts, rejected \in BOOLEAN :
          /\ phase = "climbing"
          /\ Stream(x, rejected) \/ UNCHANGED deltas
          /\ Answer(x) \/ Climb
          /\ UNCHANGED <<previous, attempts, said, refused, stored, log>>
    BY <1>2 DEF RungStep
  <2>2. turn \in Turn /\ rung \in Index
    BY <2>1, NoTurnAssumption DEF TypeOK
  <2>3. /\ floor' \in Index /\ floor' >= floor
        /\ phase' \in {"climbing", "answered", "degraded"}
        /\ turn' = turn \/ (turn' = [turn EXCEPT !.served = rung] /\ floor' >= rung)
    BY <2>1, RungMoves
  <2>4. /\ Words(turn') = Words(turn) /\ turn'.start = turn.start
        /\ Fresh(turn) <=> Fresh(turn')
        /\ floor >= turn.served => floor' >= turn'.served
    <3>1. turn.served \in Int /\ floor \in Int /\ floor' \in Int
      BY <1>0, <2>2, <2>3 DEF Turn
    <3> QED BY <2>2, <2>3, <3>1 DEF Turn, Words, Fresh
  <2>5. Above(log, floor) => Above(log, floor')
    BY <1>0, <2>3 DEF Above
  <2>6. phase # "idle" /\ phase' # "idle" /\ log' = log /\ previous' = previous
    BY <2>1, <2>3
  <2> QED BY <2>4, <2>5, <2>6 DEF ThreadInv
<1>3. ASSUME NEW recallUp \in BOOLEAN, Reissue(recallUp) PROVE ThreadInv'
  <2>1. /\ phase = "answered" /\ phase' = "climbing" /\ log' = log /\ turn' = turn
        /\ floor' = Decayed(turn.transcript.words) /\ previous' = turn.transcript.words
    BY <1>3 DEF Reissue, EnterLadder
  <2>2. turn.transcript \in Transcripts /\ previous = Words(turn)
    BY <2>1, NoTurnAssumption DEF TypeOK, Turn, ThreadInv
  <2>3. previous' = previous
    BY <2>1, <2>2 DEF Words
  <2>4. previous # {} => floor' = floor
    BY <2>1, <2>2, TopicFacts DEF Decayed, Words
  <2>5. previous = {} => OffTopic(log, previous)
    BY TopicFacts DEF OffTopic
  <2> QED BY <2>1, <2>2, <2>3, <2>4, <2>5 DEF ThreadInv
<1>4. CASE Ending
  <2>1. /\ phase # "idle" /\ phase' = "idle" /\ log' = Append(log, turn)
        /\ UNCHANGED <<floor, previous, turn>>
    BY <1>4 DEF Ending
  <2>2. turn \in Turn
    BY <1>4, NoTurnAssumption DEF Ending, TypeOK
  <2>3. StaysUp(log') /\ StartsOver(log') /\ (previous # {} => Above(log', floor))
    BY <1>0, <2>1, <2>2, AppendKeeps DEF ThreadInv
  <2>4. log' # <<>> /\ log'[Len(log')] = turn
    BY <1>0, <2>1, <2>2
  <2> QED BY <2>1, <2>3, <2>4 DEF ThreadInv
<1>5. CASE UNCHANGED vars
  BY <1>5 DEF vars, ThreadInv
<1> QED BY <1>1, <1>2, <1>3, <1>4, <1>5, Steps

(* A thread keeps the tier it needed and a new topic starts over, however  *)
(* many turns failed, degraded or were re-issued.  (FloorFollowsThread;    *)
(* SessionFloor, apply and raise_to)                                       *)
THEOREM FloorHolds == Spec => []FloorFollowsThread
<1>1. Init => ThreadInv
  BY DEF Init, ThreadInv, StaysUp, StartsOver
<1>2. TypeOK /\ ThreadInv /\ [Next]_vars => ThreadInv'
  BY ThreadStep
<1>3. ThreadInv => ThreadStaysUp /\ NewTopicStartsOver
  <2>1. \A i, j : SameThread(i, j) <=> Thread(log, i, j)
    BY DEF SameThread, Thread, Words
  <2> QED BY <2>1 DEF ThreadInv, StaysUp, StartsOver, ThreadStaysUp,
                      NewTopicStartsOver, Fresh
<1>4. TypeOK /\ ThreadInv => FloorFollowsThread
  BY <1>3 DEF FloorFollowsThread
<1> QED BY <1>1, <1>2, <1>4, LadderTypeCorrect, PTL DEF Spec
=============================================================================
