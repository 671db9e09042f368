-------------------------------- MODULE Prompt --------------------------------
(***************************************************************************)
(* What a model is asked (daemon.rs, compose_request and what it is given; *)
(* lib.rs, PersonaConfig::compose_base; history.rs, trimmed_messages;      *)
(* anthropic.rs, MessageRequest; ladder.rs, prompt_from_request): the      *)
(* persona and the guards, what is remembered, the latest exchanges, and   *)
(* the question.                                                           *)
(*                                                                         *)
(* A text is the sequence of its clauses, each a tag and the terms that it *)
(* names; what users say is known by its length.  A request is its system  *)
(* blocks and its messages, oldest first.                                  *)
(***************************************************************************)
EXTENDS Integers, Sequences, SequencesExt, FiniteSetsExt

CONSTANTS
  CharBudget   \* of trimmed_messages: four for each of DEFAULT_MAX_TOKENS

ASSUME PromptAssumption == CharBudget \in Nat

Clause(tag) == <<tag, {}>>
Only(condition, clause) == IF condition THEN <<clause>> ELSE <<>>

-----------------------------------------------------------------------------
(* Register::compose_base: the plain one says nothing of the household.    *)
RegisterBase(persona) ==
  IF persona.register = "plain" THEN <<Clause("plain")>>
  ELSE <<Clause(persona.register)>>
         \o Only(persona.addressesUser /\ persona.userNamed, Clause("user_name"))
         \o Only(persona.brief, Clause("max_sentences"))

(* PersonaConfig::compose_base *)
ComposeBase(persona, forbidden) ==
  RegisterBase(persona)
    \o Only(persona.extra, Clause("extra"))
    \o Only(forbidden # {}, <<"never_use", forbidden>>)

StablePrefix(base, childLock) ==
  base \o Only(childLock, Clause("child_lock_guard"))
       \o <<Clause("destructive_gate_guard")>>

(* format_recall_context numbers the hits as they came; without a hit there *)
(* is no block, with blank ones only there is a heading.  A recap has none  *)
(* of the blank ones, and no block when nothing is left.                    *)
Blank == "blank"
Told(hits) == FlattenSeq([k \in DOMAIN hits |-> Only(hits[k] # Blank, Clause(hits[k]))])
RecallContext(hits) == Only(hits # <<>>, Clause("what_you_remember")) \o Told(hits)
RecapContext(hits) ==
  Only(Told(hits) # <<>>, Clause("recent_conversations")) \o Told(hits)

-----------------------------------------------------------------------------
Latest(turns, k) == SubSeq(turns, Len(turns) - k + 1, Len(turns))
(* The length of a question stands for that of its exchange. *)
Chars(turns) ==
  LET sum[k \in 0..Len(turns)] == IF k = 0 THEN 0 ELSE sum[k - 1] + turns[k].user
  IN  sum[Len(turns)]

(* Variant: a pair that does not fit is passed over. *)
TrimmedSkipping(turns) ==
  SelectSeq(turns, LAMBDA turn : turn.user <= CharBudget)

(* trimmed_messages walks from the newest pair to the oldest and stops at  *)
(* the first that does not fit.                                            *)
Trimmed(turns) ==
  Latest(turns, Max({k \in 0..Len(turns) :
                       \A j \in 0..k : Chars(Latest(turns, j)) <= CharBudget}))

(* to_messages *)
Messages(turns) ==
  FlattenSeq([k \in DOMAIN turns |->
                <<[role |-> "user", content |-> turns[k].user],
                  [role |-> "assistant", content |-> turns[k].reply]>>])

Block(text, cached) == [text |-> text, cached |-> cached]

MessageRequest(system, messages) == [system |-> system, messages |-> messages]

(* compose_request: the breakpoint of the prompt cache is on the prefix.   *)
Request(prefix, recall, recap, turns, transcript) ==
  MessageRequest(<<Block(prefix, TRUE)>> \o Only(recall # <<>>, Block(recall, FALSE))
                   \o Only(recap # <<>>, Block(recap, FALSE)),
                 Append(Messages(turns), [role |-> "user", content |-> transcript]))

(* Variant: the addendum takes the place of the other blocks. *)
HardenedAlone(request, terms) ==
  [request EXCEPT !.system = <<Block(<<<<"do_not_use", terms>>>>, FALSE)>>]

(* The request of a re-issue: the addendum names the terms that leaked.    *)
Hardened(request, terms) ==
  [request EXCEPT !.system = Append(@, Block(<<<<"do_not_use", terms>>>>, FALSE))]

(* prompt_from_request: a local model has one system text. *)
LocalPrompt(request) ==
  [system |-> FlattenSeq([k \in DOMAIN request.system |-> request.system[k].text]),
   messages |-> request.messages]

(* publish_context_event *)
Digest(hits, childLock, turns) ==
  [recallHits |-> hits, tier |-> IF childLock THEN "child_lock" ELSE "default",
   historyTurns |-> Len(turns)]
=============================================================================
