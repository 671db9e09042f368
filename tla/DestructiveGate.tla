--------------------------- MODULE DestructiveGate --------------------------
(***************************************************************************)
(* The gate in front of destructive actions (daemon.rs): an answer that    *)
(* ends in an intent block is stored under a fresh id and offered on       *)
(* wm.brain.reply.destructive; wm-dialog asks the user and publishes       *)
(* wm.dialog.confirm.granted or .denied with the id; a granted intent is   *)
(* removed, announced as a tool call, dispatched and its result published. *)
(*                                                                         *)
(* The event loop handles one envelope at a time but awaits in the middle  *)
(* of a granted confirm, where the process may die and a publish may fail; *)
(* the dialog may answer an offer late, more than once, or both ways.      *)
(***************************************************************************)
EXTENDS Integers, Sequences, Functions

CONSTANTS
  Tools,            \* the tools the model asks for
  RestartAdvances,  \* by how much the wall clock moves over a restart
  None,             \* no intent in hand
  MaxClock,         \* bound: the clock stays in 0 .. MaxClock
  MaxOffers,        \* bound: intents minted over all boots
  MaxInbox,         \* bound: confirm events waiting to be read
  MaxBoots          \* bound: restarts

VARIABLES
  clock,      \* now_unix_ms()
  seq,        \* DaemonState.intent_counter
  pending,    \* DaemonState.pending: from ids to intents
  inbox,      \* confirm events of the subscription, oldest first
  current,    \* the intent handle_confirm_granted removed from pending
  phase,      \* the await handle_confirm_granted is at
  offers,     \* auxiliary: every intent minted, in order
  approved,   \* auxiliary: the intents the user said yes to
  called,     \* auxiliary: the intents announced by a tool.call
  refused,    \* auxiliary: the intents whose tool.call the bus refused
  ran,        \* auxiliary: the intents dispatched, in order
  reported,   \* auxiliary: the intents whose tool.result went out
  cancelled,  \* auxiliary: the intents dropped by a denied confirm
  boots       \* auxiliary: restarts so far

vars == <<clock, seq, pending, inbox, current, phase, offers, approved, called,
          refused, ran, reported, cancelled, boots>>

ASSUME BoundsAssumption == /\ MaxClock \in Nat /\ MaxOffers \in Nat
                           /\ MaxInbox \in Nat /\ MaxBoots \in Nat
ASSUME NoneAssumption == None \notin Nat
(* Ids are made of the wall clock, so a new process must not live through  *)
(* a millisecond of the one before it again.                               *)
ASSUME RestartAssumption == RestartAdvances \subseteq Nat \ {0}

Ids == Nat \X Nat
Offer == [id : Ids, tool : Tools, heard : BOOLEAN]
Verdicts == {"granted", "denied"}
Confirm == [id : Ids, verdict : Verdicts, about : Nat]
Phases == {"idle", "calling", "dispatching", "reporting"}

(* AgoraSink::publish: the bus has the event; the bus answers that it has   *)
(* not, which is logged and is Ok(()) all the same; or the call fails.      *)
Outcomes == {"sent", "refused", "failed"}

Minted == DOMAIN offers

-----------------------------------------------------------------------------
Init ==
  /\ clock = 0
  /\ seq = 0
  /\ pending = <<>>
  /\ inbox = <<>>
  /\ current = None
  /\ phase = "idle"
  /\ offers = <<>>
  /\ approved = {}
  /\ called = {}
  /\ refused = {}
  /\ ran = <<>>
  /\ reported = {}
  /\ cancelled = {}
  /\ boots = 0

(* Variant: ids without the clock. *)
MintByCount == <<0, seq>>

(* mint_intent_id: int-{now_ms}-{seq} *)
Mint == <<clock, seq>>

(* HashMap::insert and HashMap::remove on DaemonState.pending; the variant *)
(* RemoveNot is a get.                                                     *)
Insert(id, i) == [k \in DOMAIN pending \cup {id} |-> IF k = id THEN i ELSE pending[k]]
RemoveNot(id) == pending
Remove(id)    == Restrict(pending, DOMAIN pending \ {id})

(* publish_destructive: the intent is stored before its offer is published, *)
(* and stays stored when nobody hears it: the bus refused it, or the        *)
(* publish failed.                                                          *)
OfferIntent(tool, heard) ==
  /\ phase = "idle"
  /\ Len(offers) < MaxOffers
  /\ offers' = Append(offers, [id |-> Mint, tool |-> tool, heard |-> heard])
  /\ pending' = Insert(Mint, Len(offers) + 1)
  /\ seq' = seq + 1
  /\ UNCHANGED <<clock, inbox, current, phase, approved, called, refused, ran,
                 reported, cancelled, boots>>

(* wm-dialog: the user answers an offer that was heard, once or repeatedly. *)
Answer(i, verdict) ==
  /\ offers[i].heard
  /\ Len(inbox) < MaxInbox
  /\ inbox' = Append(inbox, [id |-> offers[i].id, verdict |-> verdict, about |-> i])
  /\ approved' = IF verdict = "granted" THEN approved \cup {i} ELSE approved
  /\ UNCHANGED <<clock, seq, pending, current, phase, offers, called, refused, ran,
                 reported, cancelled, boots>>

(* The next confirm event is read; an unknown id leaves everything alone. *)
Read(verdict) ==
  /\ phase = "idle"
  /\ inbox # <<>>
  /\ Head(inbox).verdict = verdict
  /\ inbox' = Tail(inbox)

Known == Head(inbox).id \in DOMAIN pending

HandleGranted ==
  /\ Read("granted")
  /\ IF Known
     THEN /\ pending' = Remove(Head(inbox).id)
          /\ current' = pending[Head(inbox).id]
          /\ phase' = "calling"
     ELSE UNCHANGED <<pending, current, phase>>
  /\ UNCHANGED <<clock, seq, offers, approved, called, refused, ran, reported,
                 cancelled, boots>>

HandleDenied ==
  /\ Read("denied")
  /\ IF Known
     THEN /\ pending' = Remove(Head(inbox).id)
          /\ cancelled' = cancelled \cup {pending[Head(inbox).id]}
     ELSE UNCHANGED <<pending, cancelled>>
  /\ UNCHANGED <<clock, seq, current, phase, offers, approved, called, refused, ran,
                 reported, boots>>

(* What observers of the bus, and its log, are left with. *)
Announce(outcome) ==
  /\ called'  = IF outcome = "sent" THEN called \cup {current} ELSE called
  /\ refused' = IF outcome = "refused" THEN refused \cup {current} ELSE refused

(* Variant: the intent is put back when its tool.call cannot be published. *)
PublishCallPutBack(outcome) ==
  /\ phase = "calling"
  /\ Announce(outcome)
  /\ IF outcome # "failed"
     THEN phase' = "dispatching" /\ UNCHANGED <<current, pending>>
     ELSE /\ phase' = "idle"
          /\ current' = None
          /\ pending' = Insert(offers[current].id, current)
  /\ UNCHANGED <<clock, seq, inbox, offers, approved, ran, reported, cancelled, boots>>

(* tool.call goes out, or the publish fails and the intent is forgotten.   *)
(* What the bus refused is dispatched like what it took.                   *)
PublishCall(outcome) ==
  /\ phase = "calling"
  /\ Announce(outcome)
  /\ IF outcome # "failed"
     THEN phase' = "dispatching" /\ UNCHANGED current
     ELSE phase' = "idle" /\ current' = None
  /\ UNCHANGED <<clock, seq, pending, inbox, offers, approved, ran, reported,
                 cancelled, boots>>

(* tool_router.dispatch *)
Dispatch ==
  /\ phase = "dispatching"
  /\ phase' = "reporting"
  /\ ran' = Append(ran, current)
  /\ UNCHANGED <<clock, seq, pending, inbox, current, offers, approved, called,
                 refused, reported, cancelled, boots>>

(* tool.result: the intent is done with, whoever hears of it. *)
PublishResult(outcome) ==
  /\ phase = "reporting"
  /\ phase' = "idle"
  /\ current' = None
  /\ reported' = IF outcome = "sent" THEN reported \cup {current} ELSE reported
  /\ UNCHANGED <<clock, seq, pending, inbox, offers, approved, called, refused, ran,
                 cancelled, boots>>

Tick ==
  /\ clock < MaxClock
  /\ clock' = clock + 1
  /\ UNCHANGED <<seq, pending, inbox, current, phase, offers, approved, called, refused,
                 ran, reported, cancelled, boots>>

(* The process dies at any await and a new one starts with nothing. *)
Restart(d) ==
  /\ boots < MaxBoots
  /\ clock + d <= MaxClock
  /\ boots' = boots + 1
  /\ clock' = clock + d
  /\ seq' = 0
  /\ pending' = <<>>
  /\ inbox' = <<>>
  /\ current' = None
  /\ phase' = "idle"
  /\ UNCHANGED <<offers, approved, called, refused, ran, reported, cancelled>>

(* What the event loop does with confirm events. *)
Handle ==
  \/ HandleGranted
  \/ HandleDenied
  \/ \E outcome \in Outcomes : PublishCall(outcome) \/ PublishResult(outcome)
  \/ Dispatch

Next ==
  \/ \E tool \in Tools, heard \in BOOLEAN : OfferIntent(tool, heard)
  \/ \E i \in Minted, verdict \in Verdicts : Answer(i, verdict)
  \/ Handle
  \/ Tick
  \/ \E d \in RestartAdvances : Restart(d)

Spec == Init /\ [][Next]_vars

(* The loop awaits one envelope after the other and never stops doing so. *)
FairSpec == Spec /\ WF_vars(Handle)

-----------------------------------------------------------------------------
TypeOK ==
  /\ clock \in Nat
  /\ seq \in Nat
  /\ DOMAIN pending \subseteq Ids
  /\ \A id \in DOMAIN pending : pending[id] \in Minted
  /\ inbox \in Seq(Confirm)
  /\ current \in Minted \cup {None}
  /\ phase \in Phases
  /\ phase = "idle" <=> current = None
  /\ offers \in Seq(Offer)
  /\ approved \subseteq Minted
  /\ called \subseteq Minted
  /\ refused \subseteq Minted
  /\ ran \in Seq(Minted)
  /\ reported \subseteq Minted
  /\ cancelled \subseteq Minted
  /\ boots \in Nat

-----------------------------------------------------------------------------
Ran == Range(ran)

(***************************************************************************)
(* One yes runs a destructive tool at most once: a grant that is repeated, *)
(* late, or read by a restarted process never dispatches an intent again   *)
(* (handle_confirm_granted removes the intent before it acts).             *)
(***************************************************************************)
RunsAtMostOnce ==
  \A j, k \in DOMAIN ran : ran[j] = ran[k] => j = k

(***************************************************************************)
(* README.md: "the brain never acts destructively without dialog gating".  *)
(* What runs is an intent whose own offer the user heard and said yes to;  *)
(* a yes meant for another intent, before a restart or in the same         *)
(* millisecond, is not enough.                                             *)
(***************************************************************************)
NothingRunsUnconfirmed ==
  \A i \in Ran : offers[i].heard /\ i \in approved

(***************************************************************************)
(* "Okay, I won't do that." is true: an intent dropped by a denied confirm *)
(* is not run afterwards and had not run before, whichever order a yes and *)
(* a no to the same offer arrive in.                                       *)
(***************************************************************************)
CancelledNeverRuns == cancelled \cap (Ran \cup {current}) = {}

(***************************************************************************)
(* Nothing runs that was not put on the bus before: a dispatched intent    *)
(* was announced by a tool.call, unless the bus refused that very event    *)
(* (AgoraSink::publish only warns of it), and never both; a tool.result is *)
(* only seen after its run.                                                *)
(***************************************************************************)
RunsAreAnnounced ==
  /\ reported \subseteq Ran
  /\ Ran \ refused \subseteq called
  /\ called \cap refused = {}

-----------------------------------------------------------------------------
(* Where intent i stands; what is neither pending, in hand, run nor        *)
(* cancelled was lost with a process or with a publish that failed.        *)
Status(i) ==
  CASE i \in Ran -> "done"
    [] i \in cancelled -> "declined"
    [] i = current /\ i \notin Ran -> "taken"
    [] i \in Range(pending) -> "offered"
    [] i \notin Minted -> "unmade"
    [] OTHER -> "lost"

Ledger == INSTANCE IntentLedger WITH
            Intents  <- 1 .. MaxOffers,
            status   <- [i \in 1 .. MaxOffers |-> Status(i)],
            consents <- approved

(***************************************************************************)
(* The gate with its ids, map, messages and failures implements the        *)
(* promise of IntentLedger.                                                *)
(***************************************************************************)
ImplementsLedger == Ledger!Spec

(***************************************************************************)
(* A yes is never left hanging: the intent runs, or it was declined, or    *)
(* it was lost with the process or with a failed publish.                  *)
(***************************************************************************)
ConsentSettles ==
  \A i \in 1 .. MaxOffers : i \in approved ~> Status(i) \in Ledger!Final
=============================================================================
