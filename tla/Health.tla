------------------------------- MODULE Health -------------------------------
(***************************************************************************)
(* Graceful degradation (degrade.rs, and its two users in daemon.rs): the  *)
(* event loop hears of the errors of the components, speaks a phrase for   *)
(* each, no kind too often, and keeps the health of every component; a     *)
(* task of its own publishes a snapshot of that health now and then.       *)
(*                                                                         *)
(* The two run on different threads and share the health behind a mutex    *)
(* and the publishing client behind another.  A snapshot is taken under    *)
(* the first and published under the second, so errors may come between.   *)
(* The errors of wmd itself come back over the bus like the others.        *)
(***************************************************************************)
EXTENDS Integers, Sequences

CONSTANTS
  Component,  \* "stt", "tts", "audio", "brain"
  Kind,       \* the kinds of errors that are spoken
  Silent,     \* the kinds that have no phrase: speaking itself is broken
  RateLimit,  \* RATE_LIMIT_MS
  Advances,   \* how far the clock moves at a time
  None,       \* no error yet, no snapshot under way
  MaxClock,   \* bound: the clock stays in 0 .. MaxClock
  MaxHeard,   \* bound: errors heard
  MaxShown    \* bound: snapshots published

VARIABLES
  clock,       \* now_unix_ms()
  now,         \* the time the event loop read for the error in hand
  inHand,      \* the error in hand, None between two envelopes
  step,        \* where the event loop is with it
  lastSpoken,  \* RateLimitState.last_spoken
  health,      \* HealthState: last_error of each component, None while ok
  snapshot,    \* what the ticker is about to publish
  heard,       \* auxiliary: the errors that were handled, and how
  shown        \* auxiliary: the snapshots published

vars == <<clock, now, inHand, step, lastSpoken, health, snapshot, heard, shown>>
loopVars == <<now, inHand, step, lastSpoken, heard>>

Kinds == Kind \cup Silent
Error == [component : Component, kind : Kinds]
Handled == [component : Component, kind : Kinds, at : Nat,
            result : {"spoken", "lost", "limited", "silent"}]
(* A snapshot; `after` is how many errors were on record when it was taken. *)
Snapshot == [errors : [Component -> Kinds \cup {None}], after : Nat]

ASSUME KindsAssumption == Kind \cap Silent = {} /\ None \notin Kinds
ASSUME NoneAssumption == None \notin Nat \cup Error \cup Snapshot
ASSUME TimeAssumption == RateLimit \in Nat \ {0} /\ Advances \subseteq Int
ASSUME BoundsAssumption == MaxClock \in Nat /\ MaxHeard \in Nat /\ MaxShown \in Nat

-----------------------------------------------------------------------------
Init ==
  /\ clock = 0
  /\ now = 0
  /\ inHand = None
  /\ step = "idle"
  /\ lastSpoken = [k \in Kind |-> None]
  /\ health = [c \in Component |-> None]
  /\ snapshot = None
  /\ heard = <<>>
  /\ shown = <<>>

Monus(a, b) == IF a > b THEN a - b ELSE 0

(* Variant: the window ends one tick early. *)
AllowedEarly(kind) ==
  lastSpoken[kind] # None => Monus(now, lastSpoken[kind]) >= RateLimit - 1

(* RateLimitState::check_and_record *)
Allowed(kind) == lastSpoken[kind] # None => Monus(now, lastSpoken[kind]) >= RateLimit

(* The loop is done with the error and reads the next envelope. *)
Done(result) ==
  /\ heard' = Append(heard, [component |-> inHand.component, kind |-> inHand.kind,
                             at |-> now, result |-> result])
  /\ inHand' = None
  /\ now' = 0
  /\ step' = "idle"

(* An envelope on one of the four error topics: the loop reads the clock.  *)
Receive(e) ==
  /\ step = "idle"
  /\ Len(heard) < MaxHeard
  /\ inHand' = e
  /\ now' = clock
  /\ step' = "record"
  /\ UNCHANGED <<clock, lastSpoken, health, snapshot, heard, shown>>

(* Variant: only what is spoken counts. *)
RecordSpoken ==
  /\ step = "record"
  /\ health' = IF inHand.kind \in Silent
               THEN health
               ELSE [health EXCEPT ![inHand.component] = inHand.kind]
  /\ step' = "limit"
  /\ UNCHANGED <<clock, now, inHand, lastSpoken, snapshot, heard, shown>>

(* HealthState::record_error, before anything is decided about speaking.   *)
Record ==
  /\ step = "record"
  /\ health' = [health EXCEPT ![inHand.component] = inHand.kind]
  /\ step' = "limit"
  /\ UNCHANGED <<clock, now, inHand, lastSpoken, snapshot, heard, shown>>

(* process_error_envelope: a kind without a phrase, *)
Silence ==
  /\ step = "limit"
  /\ inHand.kind \in Silent
  /\ Done("silent")
  /\ UNCHANGED <<clock, lastSpoken, health, snapshot, shown>>

(* a kind that was spoken, or should have been, within the window,         *)
Limit ==
  /\ step = "limit"
  /\ inHand.kind \in Kind
  /\ ~Allowed(inHand.kind)
  /\ Done("limited")
  /\ UNCHANGED <<clock, lastSpoken, health, snapshot, shown>>

(* and one that is recorded as spoken, and then published or not.          *)
Speak(sent) ==
  /\ step = "limit"
  /\ inHand.kind \in Kind
  /\ Allowed(inHand.kind)
  /\ lastSpoken' = [lastSpoken EXCEPT ![inHand.kind] = now]
  /\ Done(IF sent THEN "spoken" ELSE "lost")
  /\ UNCHANGED <<clock, health, snapshot, shown>>

-----------------------------------------------------------------------------
(* The ticker: HealthState::snapshot, under the mutex of the health, *)
Take ==
  /\ snapshot = None
  /\ Len(shown) < MaxShown
  /\ snapshot' = [errors |-> health,
                  after |-> Len(heard) + (IF step = "limit" THEN 1 ELSE 0)]
  /\ UNCHANGED <<clock, health, shown>>
  /\ UNCHANGED loopVars

(* and its publish, under the one of the client; a failure is only logged. *)
Show(sent) ==
  /\ snapshot # None
  /\ shown' = IF sent THEN Append(shown, snapshot) ELSE shown
  /\ snapshot' = None
  /\ UNCHANGED <<clock, health>>
  /\ UNCHANGED loopVars

PassTime(d) ==
  /\ clock + d \in 0 .. MaxClock
  /\ clock' = clock + d
  /\ UNCHANGED <<health, snapshot, shown>>
  /\ UNCHANGED loopVars

Next ==
  \/ \E e \in Error : Receive(e)
  \/ Record
  \/ Silence
  \/ Limit
  \/ \E sent \in BOOLEAN : Speak(sent) \/ Show(sent)
  \/ Take
  \/ \E d \in Advances : PassTime(d)

Spec == Init /\ [][Next]_vars

-----------------------------------------------------------------------------
TypeOK ==
  /\ clock \in Nat /\ now \in Nat
  /\ inHand \in Error \cup {None}
  /\ step \in {"idle", "record", "limit"} /\ (step = "idle" <=> inHand = None)
  /\ lastSpoken \in [Kind -> Nat \cup {None}]
  /\ health \in [Component -> Kinds \cup {None}]
  /\ snapshot \in Snapshot \cup {None}
  /\ heard \in Seq(Handled)
  /\ shown \in Seq(Snapshot)

(* "The same kind will not be spoken again within" the window: whatever    *)
(* other kinds come between and however the clock is corrected, two        *)
(* phrases of one kind are at least RateLimit apart, the later one later.  *)
SpeechIsSpaced ==
  \A i, j \in DOMAIN heard :
    /\ i < j /\ heard[i].kind = heard[j].kind
    /\ heard[i].result = "spoken" /\ heard[j].result = "spoken"
    => heard[j].at - heard[i].at >= RateLimit

(* No kind falls silent for good: an error that is held back has a phrase  *)
(* of its own kind, spoken or at least tried, less than RateLimit before   *)
(* it (or dated later, when the clock was set back).                       *)
SilenceHasAReason ==
  \A j \in DOMAIN heard : heard[j].result = "limited" =>
    \E i \in 1 .. j - 1 : /\ heard[i].kind = heard[j].kind
                          /\ heard[i].result \in {"spoken", "lost"}
                          /\ heard[j].at - heard[i].at < RateLimit

(* The limit of a kind is exact over corrections of the clock and lost     *)
(* phrases: it neither lets two phrases come close nor holds one back      *)
(* without one before it.                                                  *)
LimitIsExact == SpeechIsSpaced /\ SilenceHasAReason

(* A snapshot is one moment's health of all the components: those that     *)
(* erred before it was taken, with the last error of each, also the ones   *)
(* held back or without a phrase; what comes while it waits to be          *)
(* published is in the next.  Every state is of its types.                 *)
SnapshotsAreMoments ==
  TypeOK /\ \A k \in DOMAIN shown : shown[k].after <= Len(heard) =>
    \A c \in Component :
      LET erred == {i \in 1 .. shown[k].after : heard[i].component = c}
      IN IF erred = {}
         THEN shown[k].errors[c] = None
         ELSE shown[k].errors[c] = heard[CHOOSE i \in erred : \A j \in erred : j <= i].kind
=============================================================================
