---------------------------- MODULE RedlineScan ----------------------------
(***************************************************************************)
(* The enforcement of forbidden vocabulary (redline.rs), one search of     *)
(* scan at a time: normalisation, the loop over the terms, the word        *)
(* boundaries, and the re-issues that name what leaked.                    *)
(*                                                                         *)
(* A text is a sequence of bytes of UTF-8.  A character beyond ASCII is a  *)
(* byte of Lead and one of Continuation, and has no case: the two that     *)
(* fold into ASCII are left out.  LadderTurn takes the verdict of scan for *)
(* granted; this module is why it may.                                     *)
(***************************************************************************)
EXTENDS Integers, Sequences, FiniteSets

CONSTANTS
  Letter, Digit,       \* ASCII letters and digits
  Other,               \* the rest of ASCII, Dot included
  Lead, Continuation,  \* the bytes of the other characters
  Dot,                 \* the full stop
  Lower,               \* Lower[c] is the letter c in lower case
  Replies,             \* bound: what models answer
  Vocabularies,        \* bound: what build_term_set returns
  MaxAttempts          \* RedlineAction::Regenerate.max_attempts

VARIABLES
  terms,   \* the forbidden terms
  action,  \* RedlineAction: "off", "safe_phrase" or "regenerate"
  reply,   \* the answer in hand
  phase,   \* "scanning", "passed", "replaced" or "panicked"
  term,    \* the term the loop is at
  from,    \* search_from, counted from 1
  hits,    \* the hits so far
  asked    \* auxiliary: the answers re-issued so far, with the terms named

vars == <<terms, action, reply, phase, term, from, hits, asked>>

Byte == Letter \cup Digit \cup Other \cup Lead \cup Continuation
Alphanumeric == Letter \cup Digit

WellFormed(s) ==
  /\ s \in Seq(Byte)
  /\ \A i \in DOMAIN s : s[i] \in Continuation <=> (i > 1 /\ s[i - 1] \in Lead)
  /\ s # <<>> => s[Len(s)] \notin Lead

ASSUME ByteAssumption ==
  /\ Dot \in Other
  /\ Lower \in [Letter -> Letter]
  /\ Letter \cap (Digit \cup Other) = {}
  /\ (Lead \cup Continuation) \cap (Letter \cup Digit \cup Other) = {}
  /\ Lead \cap Continuation = {}
ASSUME TextAssumption ==
  /\ \A r \in Replies : WellFormed(r)
  /\ \A v \in Vocabularies : v \in Seq(Seq(Byte))
  /\ \A v \in Vocabularies : \A t \in DOMAIN v : WellFormed(v[t])
ASSUME AttemptsAssumption == MaxAttempts \in Nat

-----------------------------------------------------------------------------
LetterAt(s, i) == i \in DOMAIN s /\ s[i] \in Letter

(* Variant: a full stop between any two letters is dropped. *)
AbbreviationDotAnywhere(s, i) ==
  /\ s[i] = Dot
  /\ LetterAt(s, i - 1) /\ LetterAt(s, i + 1)

(* A full stop between two single letters *)
AbbreviationDot(s, i) ==
  /\ s[i] = Dot
  /\ LetterAt(s, i - 1) /\ LetterAt(s, i + 1)
  /\ ~LetterAt(s, i - 2) /\ ~LetterAt(s, i + 2)

(* to_lowercase, of ASCII: no letter of two bytes is taken to fold into    *)
(* ASCII.  Unicode has two that do, U+212A (to k) and U+0130 (to i and a   *)
(* dot above), which therefore no answer here holds.                       *)
Folded(c) == IF c \in Letter THEN Lower[c] ELSE c

(* normalise: the bytes but the dropped full stops, in lower case *)
Normalised(s) ==
  LET kept == {i \in DOMAIN s : ~AbbreviationDot(s, i)}
      Nth(n) == CHOOSE i \in kept : Cardinality(kept \cap 1..i) = n
  IN  [n \in 1..Cardinality(kept) |-> Folded(s[Nth(n)])]

Text == Normalised(reply)
Key(t) == Normalised(terms[t])

OccursIn(text, key, p) ==
  /\ p \in 1..(Len(text) - Len(key) + 1)
  /\ \A i \in DOMAIN key : text[p + i - 1] = key[i]

(* No ASCII letter or digit before p, and none at q *)
Bounded(text, p, q) ==
  /\ p > 1 => text[p - 1] \notin Alphanumeric
  /\ q <= Len(text) => text[q] \notin Alphanumeric

(* The term t stands at p as a word of its own. *)
Word(text, t, p) == /\ Key(t) # <<>>
                    /\ OccursIn(text, Key(t), p)
                    /\ Bounded(text, p, p + Len(Key(t)))

Leaks(text) == {t \in DOMAIN terms : \E p \in 1..Len(text) : Word(text, t, p)}

-----------------------------------------------------------------------------
Init ==
  /\ terms \in Vocabularies
  /\ action \in {"off", "safe_phrase", "regenerate"}
  /\ reply \in Replies
  /\ phase = IF action = "off" THEN "passed" ELSE "scanning"
  /\ term = 1 /\ from = 1 /\ hits = {} /\ asked = <<>>

Searching == phase = "scanning" /\ term <= Len(terms)

NextTerm ==
  /\ term' = term + 1 /\ from' = 1
  /\ UNCHANGED <<terms, action, reply, phase, hits, asked>>

(* Slicing at search_from panics inside a character. *)
Slices == from <= Len(Text) => Text[from] \notin Continuation

(* reply_norm[search_from..].find(&term_norm) *)
Finds(p) ==
  /\ Key(term) # <<>> /\ from <= Len(Text) /\ Slices
  /\ p >= from /\ OccursIn(Text, Key(term), p)
  /\ \A q \in from..(p - 1) : ~OccursIn(Text, Key(term), q)

(* Variant: the search resumes behind the occurrence. *)
SkipLong(p) ==
  /\ Searching /\ Finds(p) /\ ~Bounded(Text, p, p + Len(Key(term)))
  /\ from' = p + Len(Key(term))
  /\ UNCHANGED <<terms, action, reply, phase, term, hits, asked>>

(* Part of a longer word: the search resumes one byte on. *)
Skip(p) ==
  /\ Searching /\ Finds(p) /\ ~Bounded(Text, p, p + Len(Key(term)))
  /\ from' = p + 1
  /\ UNCHANGED <<terms, action, reply, phase, term, hits, asked>>

Hit(p) ==
  /\ Searching /\ Finds(p) /\ Bounded(Text, p, p + Len(Key(term)))
  /\ hits' = hits \cup {[term |-> term, at |-> p]}
  /\ from' = p + Len(Key(term))
  /\ UNCHANGED <<terms, action, reply, phase, term, asked>>

Panic ==
  /\ Searching /\ Key(term) # <<>> /\ ~Slices
  /\ phase' = "panicked"
  /\ UNCHANGED <<terms, action, reply, term, from, hits, asked>>

(* An empty term is passed over, and so is one that does not occur again. *)
Exhaust ==
  /\ Searching
  /\ \/ Key(term) = <<>>
     \/ Slices /\ \A p \in from..Len(Text) : ~OccursIn(Text, Key(term), p)
  /\ NextTerm

Scanned == phase = "scanning" /\ term > Len(terms)

Pass ==
  /\ Scanned /\ hits = {}
  /\ phase' = "passed"
  /\ UNCHANGED <<terms, action, reply, term, from, hits, asked>>

(* max_attempts.max(1) *)
Attempts == IF MaxAttempts = 0 THEN 1 ELSE MaxAttempts

(* hardened_addendum *)
Named == {h.term : h \in hits}

(* Variant: the terms of earlier answers are named again. *)
ReissueKeepingHits(candidate) ==
  /\ Scanned /\ hits # {} /\ action = "regenerate" /\ Len(asked) < Attempts
  /\ asked' = Append(asked, [answer |-> reply, named |-> Named])
  /\ reply' = candidate
  /\ term' = 1 /\ from' = 1
  /\ UNCHANGED <<terms, action, phase, hits>>

(* Variant: only the first answer uses up an attempt. *)
ReissueUncounted(candidate) ==
  /\ Scanned /\ hits # {} /\ action = "regenerate"
  /\ asked' = <<[answer |-> reply, named |-> Named]>>
  /\ reply' = candidate
  /\ term' = 1 /\ from' = 1 /\ hits' = {}
  /\ UNCHANGED <<terms, action, phase>>

(* enforce_with_regenerate *)
Reissue(candidate) ==
  /\ Scanned /\ hits # {} /\ action = "regenerate" /\ Len(asked) < Attempts
  /\ asked' = Append(asked, [answer |-> reply, named |-> Named])
  /\ reply' = candidate
  /\ term' = 1 /\ from' = 1 /\ hits' = {}
  /\ UNCHANGED <<terms, action, phase>>

(* The safe phrase or the fallback is published instead. *)
Replace ==
  /\ Scanned /\ hits # {}
  /\ action = "safe_phrase" \/ Len(asked) >= Attempts
  /\ phase' = "replaced"
  /\ UNCHANGED <<terms, action, reply, term, from, hits, asked>>

Next ==
  \/ \E p \in 1..Len(Text) : Hit(p) \/ Skip(p)
  \/ Panic
  \/ Exhaust
  \/ Pass
  \/ \E candidate \in Replies : Reissue(candidate)
  \/ Replace

Spec == Init /\ [][Next]_vars

(* scan and its callers run to their end; that the model answers a         *)
(* re-issue is an assumption, as in LadderTurn.                            *)
FairSpec == Spec /\ WF_vars(Next)

-----------------------------------------------------------------------------
TypeOK ==
  /\ terms \in Vocabularies
  /\ action \in {"off", "safe_phrase", "regenerate"}
  /\ reply \in Replies
  /\ phase \in {"scanning", "passed", "replaced", "panicked"}
  /\ term \in 1..(Len(terms) + 1)
  /\ from \in Nat \ {0}
  /\ hits \subseteq [term : DOMAIN terms, at : Nat \ {0}]
  /\ asked \in Seq([answer : Replies, named : SUBSET DOMAIN terms])
  /\ Len(asked) <= Attempts

(* The hits of a scan that came to its end are words of the text, and      *)
(* every term that stands in it as a word has one: skipping ahead, by one  *)
(* byte or by a whole term, misses nothing.  (redline.rs, scan)            *)
ScanIsExact ==
  /\ \A h \in hits : Word(Text, h.term, h.at)
  /\ Scanned => Named = Leaks(Text)

(* What passes an active redline says none of the terms, whatever came     *)
(* before it; and after the last attempt nothing the model said is used.   *)
(* (enforce, enforce_with_regenerate: "a dirty reply is never published")  *)
PublishedIsClean ==
  phase = "passed" /\ action # "off" => Leaks(Text) = {}

(* Each re-issue names the terms of the answer it replaces, all of them,   *)
(* and none that only an earlier answer used.  (hardened_addendum)         *)
AddendaNameTheLeaks ==
  \A i \in DOMAIN asked : asked[i].named = Leaks(Normalised(asked[i].answer))

-----------------------------------------------------------------------------
Verdict == INSTANCE RedlineVerdict WITH
             Term    <- Nat,
             leaks   <- Leaks(Text),
             verdict <- IF phase = "scanning" THEN "open" ELSE phase,
             named   <- [i \in DOMAIN asked |-> asked[i].named]

(* The search, term by term and byte by byte, with its skips and its       *)
(* resets, implements the verdict of one glance: no answer is passed,      *)
(* replaced or asked for again on anything but what leaked in that answer. *)
(* (scan, enforce, enforce_with_regenerate)                                *)
ImplementsVerdict == Verdict!Spec

-----------------------------------------------------------------------------
SameLetters(x, y) == \/ x = y
                     \/ x \in Letter /\ y \in Letter /\ Lower[x] = Lower[y]
Stands(w, p) == /\ p + Len(w) - 1 <= Len(reply)
                /\ \A i \in DOMAIN w : SameLetters(reply[p + i - 1], w[i])
                /\ Bounded(reply, p, p + Len(w))
Dotted(w) ==
  [i \in 1..(2 * Len(w) - 1) |-> IF i % 2 = 1 THEN w[(i + 1) \div 2] ELSE Dot]
Apart(p, q) == /\ p > 1 => reply[p - 1] # Dot
               /\ q <= Len(reply) => ~(reply[q] = Dot /\ LetterAt(reply, q + 1))

(* A term of letters is caught in the answer as the model wrote it, in any *)
(* case: as a word, next to full stops too, and as an abbreviation with a  *)
(* full stop after each letter.  Said of answers without U+212A and U+0130 *)
(* (see Folded): "tea" before one of them becomes a longer word, and is    *)
(* not caught.  (normalise, scan)                                          *)
AbbreviationsAreCaught ==
  phase = "passed" /\ action # "off" =>
    \A t \in DOMAIN terms, p \in DOMAIN reply :
      LET w == terms[t]
          plain == Len(w) > 1 /\ Stands(w, p)
          abbreviated == Stands(Dotted(w), p) /\ Apart(p, p + 2 * Len(w) - 1)
      IN  w # <<>> /\ (\A i \in DOMAIN w : w[i] \in Letter) => ~plain /\ ~abbreviated

(* A scan can only end in a panic for a term whose first character is not  *)
(* ASCII.                                                                  *)
AsciiTermsNeverPanic ==
  phase = "panicked" => Key(term)[1] \in Lead

(* Whatever the model answers, and however often, a reply is settled: the  *)
(* scan comes to its end, and not in a panic unless a term begins with a   *)
(* character that is not ASCII.  (scan, enforce_with_regenerate)           *)
ScansEnd == <>(phase # "scanning") /\ []AsciiTermsNeverPanic
=============================================================================
