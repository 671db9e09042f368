-------------------------- MODULE SentenceSplitter --------------------------
(***************************************************************************)
(* sentence_splitter.rs: the splitter that turns the deltas of an answer   *)
(* into sentences for the speech daemon.  A text is a sequence of          *)
(* characters; only their class matters, so one upper-case letter, one     *)
(* digit and one blank stand for all of them.                              *)
(***************************************************************************)
EXTENDS Integers, Sequences, FiniteSetsExt

CONSTANT Character    \* the characters of texts

White == {" "}
Digits == {"1"}
Capitals == {"A"}
Letters == Capitals \cup {"a", "uc"}          \* "uc": a character of two bytes
IsTerminator(c) == c \in {".", "!", "?"}

(* The character at position i, or none. *)
CharAt(s, i) == IF i \in DOMAIN s THEN s[i] ELSE ""

Solid(s) == {i \in DOMAIN s : s[i] \notin White}
TrimStart(s) == IF Solid(s) = {} THEN <<>> ELSE SubSeq(s, Min(Solid(s)), Len(s))
Trim(s) == IF Solid(s) = {} THEN <<>> ELSE SubSeq(s, Min(Solid(s)), Max(Solid(s)))

(* Some run of three dots holds position i. *)
IsEllipsis(s, i) ==
  \E k \in (i - 2)..i : \A j \in k..(k + 2) : CharAt(s, j) = "."
IsDecimal(s, i) ==
  s[i] = "." /\ CharAt(s, i - 1) \in Digits /\ CharAt(s, i + 1) \in Digits
IsInitial(s, i) ==
  s[i] = "." /\ CharAt(s, i - 1) \in Capitals /\ CharAt(s, i - 2) \notin Letters

(* The positions behind which the text may be cut: a terminator at the end *)
(* of the buffer is not one of them, it waits for what follows.            *)
Boundaries(s) ==
  {i \in 1..(Len(s) - 1) : /\ IsTerminator(s[i])
                           /\ ~IsEllipsis(s, i)
                           /\ ~IsDecimal(s, i)
                           /\ ~IsInitial(s, i)
                           /\ s[i + 1] \in White}

SentenceEnd(s) == IF Boundaries(s) = {} THEN 0 ELSE Min(Boundaries(s))

(* drain_sentences: the complete sentences of the buffer, and what stays.  *)
Drained[buf \in Seq(Character)] ==
  LET end == SentenceEnd(buf) IN
  IF end = 0 THEN [out |-> <<>>, rest |-> buf]
  ELSE LET later == Drained[TrimStart(SubSeq(buf, end + 1, Len(buf)))] IN
       [out |-> <<Trim(SubSeq(buf, 1, end))>> \o later.out, rest |-> later.rest]

Flushed(buf) == IF Trim(buf) = <<>> THEN <<>> ELSE <<Trim(buf)>>

(* Variant of Push: each delta is split by itself. *)
PushAlone(buf, delta) ==
  [out |-> Drained[buf].out \o Flushed(Drained[delta].rest), rest |-> <<>>]

Push(buf, delta) == Drained[buf \o delta]

(* What the splitter makes of a text that comes in one piece. *)
SentencesOf(text) == Drained[text].out \o Flushed(Drained[text].rest)
=============================================================================
