----------------------------- MODULE LadderTurn -----------------------------
(***************************************************************************)
(* How one user turn is answered: the routing policy (router.rs), the tier *)
(* ladder with its session floor (ladder.rs), and the reply path of        *)
(* handle_turn_user_ladder (daemon.rs) with redline enforcement,           *)
(* destructive offers, sentence partials and what is stored.               *)
(*                                                                         *)
(* A turn is a sequence of awaits: one rung of the ladder per step, then   *)
(* the publishing of what came of it.  Local models, wm-verify, Anthropic, *)
(* the recall probe and the key probe may answer anything at any time.     *)
(*                                                                         *)
(* A transcript is its set of words with what the router makes of it.  A   *)
(* text is what the reply path tells apart: whether there is anything to   *)
(* speak, whether it ends in a well-formed destructive fence, and whether  *)
(* a forbidden term is in it.                                              *)
(***************************************************************************)
EXTENDS Integers, Sequences, FiniteSets, FiniteSetsExt

CONSTANTS
  Rungs,        \* capped_ladder(cfg): a sequence of [name, backend]
  HasClient,    \* an Anthropic client could be built
  Prefer,       \* RoutingConfig.prefer
  Redline,      \* PersonaConfig.redline; "off" also when no term is forbidden
  MaxAttempts,  \* RedlineAction::Regenerate.max_attempts
  Transcripts,  \* bound: what users say
  Texts,        \* bound: what models answer
  NoTurn,       \* no turn was handled yet
  MaxTurns      \* bound: turns handled

VARIABLES
  floor,     \* SessionFloor.floor_idx; rungs are numbered from 1 here
  previous,  \* SessionFloor.prev_tokens, empty before the first turn
  phase,     \* idle, climbing, answered (a text is in hand) or degraded
  turn,      \* the turn being handled, or the last one: see Turn
  rung,      \* idx of run_turn_inner
  attempts,  \* re-issues by the redline so far; 0 in the first run
  text,      \* the answer in hand
  deltas,    \* BufferingSink.deltas of the first run
  said,      \* auxiliary: what the turn put on the bus
  refused,   \* auxiliary: the answer the bus refused, if it did
  stored,    \* auxiliary: what the turn pushed to the history ring
  log        \* auxiliary: the turns handled before, in order

vars == <<floor, previous, phase, turn, rung, attempts, text, deltas, said,
          refused, stored, log>>

Backends == {"local", "anthropic"}
Text == [spoken : BOOLEAN, fence : BOOLEAN, dirty : BOOLEAN]
Empty == [spoken |-> FALSE, fence |-> FALSE, dirty |-> FALSE]
Clean == [spoken |-> TRUE, fence |-> FALSE, dirty |-> FALSE]

Transcript == [words : SUBSET STRING, stakes : {"ordinary", "high"}, command : BOOLEAN]
Index == DOMAIN Rungs
Turn == [transcript : Transcripts, keyOk : BOOLEAN, recallUp : BOOLEAN,
         start : Index, served : Index \cup {0}]
Delta == [rung : Index, text : Text, rejected : BOOLEAN]
(* An offer is heard in the words before its fence, a summary in those of  *)
(* the fence.                                                              *)
Kinds == {"filler", "partial", "offer", "summary", "reply", "canned", "error"}
Utterance == [kind : Kinds, rung : Index \cup {0}, text : Text, rejected : BOOLEAN]

(* AgoraSink::publish: the bus has the event; the bus answers that it has   *)
(* not, which is logged and is Ok(()) all the same; or the call fails.      *)
Outcomes == {"sent", "refused", "failed"}

Cloud == {k \in Index : Rungs[k].backend = "anthropic"}

(* default_ladder, ladder_with_gpu and the cap and the exclusions of the   *)
(* environment keep the local rungs below the cloud rungs; an exclusion of *)
(* every rung is left out.                                                 *)
ASSUME LadderAssumption ==
  /\ Rungs \in Seq([name : STRING, backend : Backends]) \ {<<>>}
  /\ \A j, k \in Index : Rungs[j].name = Rungs[k].name => j = k
  /\ \E lowest \in 1 .. Len(Rungs) + 1 : \A k \in Index : k \in Cloud <=> k >= lowest
  /\ \A k \in Index : Rungs[k].name \in {"haiku", "sonnet"} => k \in Cloud
ASSUME ConfigAssumption ==
  /\ HasClient \in BOOLEAN
  /\ Prefer \in {"auto", "local_only", "cloud_only"}
  /\ Redline \in {"off", "safe_phrase", "regenerate"}
  /\ MaxAttempts \in Nat
ASSUME InputAssumption ==
  /\ Transcripts \subseteq Transcript
  /\ \A t \in Transcripts : IsFiniteSet(t.words)
  /\ Texts \subseteq Text /\ Empty \in Texts
  /\ MaxTurns \in Nat
ASSUME NoTurnAssumption == NoTurn \notin Turn

-----------------------------------------------------------------------------
(* tier_index, with what the caller does when there is no such tier *)
IndexOf(name, default) ==
  LET named == {k \in Index : Rungs[k].name = name}
  IN  IF named = {} THEN default ELSE Min(named)

FirstCloud == IF Cloud = {} THEN Len(Rungs) ELSE Min(Cloud)

(* apply_routing_policy and the tier the decision starts at.  The pending  *)
(* tier was consumed by dispatch before the policy looks for it.           *)
RoutingTier(transcript, keyOk) ==
  IF \/ Prefer = "cloud_only"
     \/ Prefer = "auto" /\ ~transcript.command /\ keyOk
  THEN "sonnet"
  ELSE "local-3b"

(* Variant: recall being down is nothing to worry about. *)
StartIndexBlind(tier, stakes, recallUp) ==
  IF stakes = "high" THEN IndexOf("sonnet", FirstCloud) ELSE IndexOf(tier, 1)

(* LadderClient::start_index *)
StartIndex(tier, stakes, recallUp) ==
  CASE stakes = "high" -> IndexOf("sonnet", FirstCloud)
    [] stakes = "ordinary" /\ recallUp -> IndexOf(tier, 1)
    [] OTHER -> Max({IndexOf(tier, 1), IndexOf("haiku", FirstCloud)})

(* topic_changed: Jaccard similarity below 0.2 *)
TopicChanged(prev, cur) ==
  \/ prev = {}
  \/ cur = {}
  \/ 5 * Cardinality(prev \cap cur) < Cardinality(prev \cup cur)

(* SessionFloor::apply *)
Decayed(words) == IF TopicChanged(previous, words) THEN 1 ELSE floor

FirstRung(tier, transcript, recallUp) ==
  Max({StartIndex(tier, transcript.stakes, recallUp), Decayed(transcript.words)})

(* run_turn_inner up to its loop *)
EnterLadder(tier, transcript, recallUp) ==
  /\ floor' = Decayed(transcript.words)
  /\ previous' = transcript.words
  /\ rung' = FirstRung(tier, transcript, recallUp)
  /\ phase' = "climbing"

AtTop == rung = Len(Rungs)

(* Only the sink of the first run is ever read again. *)
Stream(x, rejected) ==
  deltas' = IF attempts = 0 /\ x # Empty
            THEN deltas \cup {[rung |-> rung, text |-> x, rejected |-> rejected]}
            ELSE deltas

(* Variant: only a climb raises the floor. *)
AnswerAfterClimb(x) ==
  /\ phase' = "answered"
  /\ text' = x
  /\ floor' = IF rung > turn.start THEN Max({floor, rung}) ELSE floor
  /\ turn' = IF attempts = 0 THEN [turn EXCEPT !.served = rung] ELSE turn
  /\ UNCHANGED rung

(* The rung answers; the first answer's tier is the one a re-issue starts  *)
(* from.  raise_to lifts the floor in every run.                           *)
Answer(x) ==
  /\ phase' = "answered"
  /\ text' = x
  /\ floor' = Max({floor, rung})
  /\ turn' = IF attempts = 0 THEN [turn EXCEPT !.served = rung] ELSE turn
  /\ UNCHANGED rung

(* A rung without an answer: the next one, or at the top the end of the    *)
(* run, which a re-issue turns into the fallback phrase.                   *)
Climb ==
  /\ IF AtTop
     THEN /\ phase' = IF attempts = 0 THEN "degraded" ELSE "answered"
          /\ text' = Clean
          /\ rung' = IF attempts = 0 THEN rung ELSE 0
     ELSE /\ rung' = rung + 1
          /\ UNCHANGED <<phase, text>>
  /\ UNCHANGED <<floor, turn>>

(* redline::scan over the answer in hand *)
Hit == Redline # "off" /\ text.dirty

(* The first answer may be a destructive offer; what a re-issue brings is  *)
(* not looked at for one.                                                  *)
IsOffer == attempts = 0 /\ text.fence

MayReissue ==
  Redline = "regenerate" /\ Hit /\ ~IsOffer /\ attempts < Max({1, MaxAttempts})

Utter(kind, k, x) == [kind |-> kind, rung |-> k, text |-> x, rejected |-> FALSE]

(* The texts the bus is handed, in the order the code publishes them.      *)
(* Fillers and partials count as said also when the bus refuses one.       *)
Fillers ==
  LET reached == IF turn.served = 0 THEN rung ELSE turn.served
  IN  IF reached > turn.start THEN {Utter("filler", 0, Clean)} ELSE {}

Partials ==
  {[kind |-> "partial", rung |-> d.rung, text |-> d.text, rejected |-> d.rejected] :
     d \in deltas}

(* The answer, or what the redline puts in its place: the safe phrase, or  *)
(* the fallback after the last re-issue.                                   *)
Reply == IF Hit THEN Utter("reply", 0, Clean) ELSE Utter("reply", rung, text)

(* publish_destructive: the summary is spoken when the model sent only the *)
(* fence; the prefix, empty or not, is what is stored.  Neither is scanned. *)
Prefix == IF text.spoken THEN [text EXCEPT !.fence = FALSE] ELSE Empty
Offer ==
  IF text.spoken THEN Utter("offer", rung, Prefix)
  ELSE Utter("summary", rung, [text EXCEPT !.spoken = TRUE, !.fence = FALSE])

-----------------------------------------------------------------------------
Init ==
  /\ floor = 1
  /\ previous = {}
  /\ phase = "idle"
  /\ turn = NoTurn
  /\ rung = 0
  /\ attempts = 0
  /\ text = Empty
  /\ deltas = {}
  /\ said = {}
  /\ refused = {}
  /\ stored = {}
  /\ log = <<>>

(* A turn.user arrives: routing, then the first run enters the ladder. *)
Begin(transcript, keyOk, recallUp) ==
  LET tier == RoutingTier(transcript, keyOk)
  IN  /\ phase = "idle"
      /\ Len(log) < MaxTurns
      /\ EnterLadder(tier, transcript, recallUp)
      /\ turn' = [transcript |-> transcript, keyOk |-> keyOk, recallUp |-> recallUp,
                  start |-> FirstRung(tier, transcript, recallUp), served |-> 0]
      /\ said' = {}
      /\ refused' = {}
      /\ stored' = {}
      /\ UNCHANGED <<attempts, text, deltas, log>>

(* run_local_rung: a complete answer, which wm-verify accepts or rejects. *)
LocalAnswers(x, accepted) ==
  /\ phase = "climbing"
  /\ rung \notin Cloud
  /\ Stream(x, ~accepted /\ ~AtTop)
  /\ IF accepted \/ AtTop THEN Answer(x) ELSE Climb
  /\ UNCHANGED <<previous, attempts, said, refused, stored, log>>

(* run_local_rung: the endpoint fails, after streaming x or nothing. *)
LocalEscalates(x) ==
  /\ phase = "climbing"
  /\ rung \notin Cloud
  /\ Stream(x, FALSE)
  /\ Climb
  /\ UNCHANGED <<previous, attempts, said, refused, stored, log>>

(* run_anthropic_rung: an answer without text is none. *)
CloudAnswers(x) ==
  /\ phase = "climbing"
  /\ rung \in Cloud
  /\ HasClient
  /\ Stream(x, FALSE)
  /\ IF x = Empty THEN Climb ELSE Answer(x)
  /\ UNCHANGED <<previous, attempts, said, refused, stored, log>>

(* run_anthropic_rung: no client, or the request failed. *)
CloudFails ==
  /\ phase = "climbing"
  /\ rung \in Cloud
  /\ Climb
  /\ UNCHANGED <<previous, attempts, deltas, said, refused, stored, log>>

(* Variant: a re-issue is not counted. *)
ReissueUncounted(recallUp) ==
  /\ phase = "answered"
  /\ MayReissue
  /\ EnterLadder(Rungs[turn.served].name, turn.transcript, recallUp)
  /\ UNCHANGED <<attempts, turn, text, deltas, said, refused, stored, log>>

(* The redline sends the turn through the ladder again, from the tier that *)
(* gave the first answer.                                                  *)
Reissue(recallUp) ==
  /\ phase = "answered"
  /\ MayReissue
  /\ EnterLadder(Rungs[turn.served].name, turn.transcript, recallUp)
  /\ attempts' = attempts + 1
  /\ UNCHANGED <<turn, text, deltas, said, refused, stored, log>>

(* The turn is over; the next envelope is read. *)
Finish(utterances, denied, kept) ==
  /\ said' = utterances
  /\ refused' = denied
  /\ stored' = kept
  /\ log' = Append(log, turn)
  /\ phase' = "idle"
  /\ rung' = 0
  /\ attempts' = 0
  /\ text' = Empty
  /\ deltas' = {}
  /\ UNCHANGED <<floor, previous, turn>>

Given(condition, x) == IF condition THEN {x} ELSE {}

(* A filler cannot be published: `?` abandons the turn. *)
LoseFiller ==
  /\ phase \in {"answered", "degraded"}
  /\ attempts = 0
  /\ Fillers # {}
  /\ Finish({}, {}, {})

DeliverError(outcome) ==
  /\ phase = "answered"
  /\ attempts = 0
  /\ text = Empty
  /\ Finish(Fillers \cup Given(outcome = "sent", Utter("error", 0, Clean)), {}, {})

(* An offer is stored unless its publish failed, whoever heard it. *)
DeliverOffer(outcome) ==
  /\ phase = "answered"
  /\ IsOffer
  /\ Finish(Fillers \cup Given(outcome = "sent", Offer), Given(outcome = "refused", Offer),
            Given(outcome # "failed", Prefix))

(* Variant: the turn is stored before its reply is published. *)
DeliverReplyStoredFirst(outcome) ==
  /\ phase = "answered"
  /\ ~IsOffer
  /\ ~MayReissue
  /\ attempts = 0 => text # Empty
  /\ Finish(Fillers \cup Partials \cup Given(outcome = "sent", Reply),
            Given(outcome = "refused", Reply), {Reply.text})

(* Partials of the first run, then the reply; a partial that cannot be     *)
(* published is skipped, a reply that cannot be published ends the turn,   *)
(* and one that the bus refuses is stored like one that it took.           *)
DeliverReply(outcome) ==
  /\ phase = "answered"
  /\ ~IsOffer
  /\ ~MayReissue
  /\ attempts = 0 => text # Empty
  /\ Finish(Fillers \cup Partials \cup Given(outcome = "sent", Reply),
            Given(outcome = "refused", Reply), Given(outcome # "failed", Reply.text))

(* No rung could serve: a canned phrase, and nothing is stored. *)
DeliverCanned(outcome) ==
  /\ phase = "degraded"
  /\ Finish(Fillers \cup Given(outcome = "sent", Utter("canned", 0, Clean)), {}, {})

Proceed ==
  \/ \E x \in Texts, accepted \in BOOLEAN : LocalAnswers(x, accepted)
  \/ \E x \in Texts : LocalEscalates(x) \/ CloudAnswers(x)
  \/ CloudFails
  \/ \E recallUp \in BOOLEAN : Reissue(recallUp)
  \/ LoseFiller
  \/ \E outcome \in Outcomes :
       \/ DeliverError(outcome)
       \/ DeliverOffer(outcome)
       \/ DeliverReply(outcome)
       \/ DeliverCanned(outcome)

Next ==
  \/ \E t \in Transcripts, keyOk \in BOOLEAN, recallUp \in BOOLEAN :
       Begin(t, keyOk, recallUp)
  \/ Proceed

Spec == Init /\ [][Next]_vars

(* The handler runs to its end: every await inside a turn returns. *)
FairSpec == Spec /\ WF_vars(Proceed)

-----------------------------------------------------------------------------
TypeOK ==
  /\ floor \in Index
  /\ previous \in SUBSET STRING
  /\ phase \in {"idle", "climbing", "answered", "degraded"}
  /\ turn \in Turn \cup {NoTurn}
  /\ rung \in Index \cup {0}
  /\ attempts \in 0 .. Max({1, MaxAttempts})
  /\ text \in Text
  /\ deltas \subseteq Delta
  /\ said \subseteq Utterance
  /\ refused \subseteq Utterance
  /\ stored \subseteq Text
  /\ log \in Seq(Turn)
  /\ phase = "climbing" => rung \in Index
  /\ phase # "idle" => turn # NoTurn

-----------------------------------------------------------------------------
(***************************************************************************)
(* A turn that is high-stakes, or that cannot be told to be ordinary       *)
(* because recall is down, never speaks with the voice of a local model    *)
(* while the ladder has a cloud rung (ladder.rs, recall-down safe          *)
(* posture): not in a partial, an offer or a reply, and not after the      *)
(* redline sent it through the ladder again with recall back up.           *)
(***************************************************************************)
BlindTurnsTrustCloud ==
  Cloud # {} =>
    \A u \in said :
      u.rung # 0 /\ (turn.transcript.stakes = "high" \/ ~turn.recallUp)
        => u.rung \in Cloud

(* No topic change in any turn from i + 1 to j. *)
SameThread(i, j) ==
  \A k \in i + 1 .. j :
    ~TopicChanged(log[k - 1].transcript.words, log[k].transcript.words)

(***************************************************************************)
(* A thread that needed a higher tier keeps it (AC10): no later turn of    *)
(* the thread starts below a rung that served one of its turns, however    *)
(* many turns failed, degraded or were re-issued in between.               *)
(***************************************************************************)
ThreadStaysUp ==
  \A i, j \in DOMAIN log :
    i < j /\ SameThread(i, j) => log[j].start >= log[i].served

(***************************************************************************)
(* The floor does not outlive its thread: a turn on a new topic starts     *)
(* where routing, stakes and recall put it, so that an old climb does not  *)
(* keep every later command of the household on a cloud tier.              *)
(***************************************************************************)
NewTopicStartsOver ==
  \A j \in DOMAIN log :
    LET t == log[j]
    IN  j = 1 \/ ~SameThread(j - 1, j)
          => t.start = StartIndex(RoutingTier(t.transcript, t.keyOk),
                                  t.transcript.stakes, t.recallUp)

(***************************************************************************)
(* The floor follows the thread: it holds as long as the topic does and no *)
(* longer, over every mixture of climbs, failures and re-issues (looked at *)
(* between two turns, when the first of them is logged); and every state   *)
(* is of its types.                                                        *)
(***************************************************************************)
FloorFollowsThread ==
  TypeOK /\ (phase = "idle" => ThreadStaysUp /\ NewTopicStartsOver)

(* What the turn answered with, whether the bus took it or refused it. *)
Answers == {u \in said \cup refused : u.kind \in {"offer", "summary", "reply"}}

(***************************************************************************)
(* With the redline on, no plain reply with a forbidden term in it is      *)
(* handed to the bus, over every number of re-issues and every way they    *)
(* can fail (redline.rs).  Offers are not scanned, and nothing is promised *)
(* of them.                                                                *)
(***************************************************************************)
RepliesAreClean ==
  Redline # "off" => \A u \in Answers : u.kind = "reply" => ~u.text.dirty

(***************************************************************************)
(* What the history remembers of a turn is what it answered with, and all  *)
(* of it: a reply in the words of the reply, clean with the redline on; an *)
(* offer in its prefix as the model wrote it, which may hold a forbidden   *)
(* term; and nothing of an offer that was only a fence, whose summary was  *)
(* spoken.  A turn whose answer could not be published, that failed or     *)
(* that was answered with a canned phrase leaves no trace (AC3); one whose *)
(* answer the bus refused leaves the same as one that was heard.           *)
(***************************************************************************)
MemoryFollowsSpeech ==
  /\ RepliesAreClean
  /\ stored = {IF u.kind = "summary" THEN Empty ELSE u.text : u \in Answers}

(***************************************************************************)
(* Never silence, never for ever: a turn that began ends, whatever the     *)
(* rungs answer and however often the redline re-issues it.                *)
(***************************************************************************)
TurnsEnd == phase # "idle" ~> phase = "idle"

-----------------------------------------------------------------------------
(***************************************************************************)
(* ladder.rs:6-8: a local answer is one "that wm_verify rejects before it  *)
(* is spoken": the text of a rejected answer is not published.             *)
(***************************************************************************)
RejectedNeverSpoken == \A u \in said : ~u.rejected
=============================================================================
