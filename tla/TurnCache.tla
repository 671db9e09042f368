------------------------------ MODULE TurnCache ------------------------------
(***************************************************************************)
(* The semantic cache of turns (cache.rs, SemanticCache) as operators on   *)
(* the table of its entries: the best match for a question, the hit that   *)
(* makes an entry young again, and the eviction before an insert.  An      *)
(* embedding is the question itself; how alike two of them are is a        *)
(* parameter, and so is what the wall clock reads.                         *)
(***************************************************************************)
EXTENDS Integers, FiniteSets

CONSTANTS
  Topic,      \* what questions are about, as their embeddings tell
  Alike,      \* cosine_similarity of two topics, in percent
  Threshold   \* similarity_threshold, in percent

ASSUME CacheAssumption ==
  /\ Alike \in [Topic \X Topic -> -100..100]
  /\ Threshold \in Int

Closer(topic, e, f) ==
  \/ Alike[topic, e.topic] > Alike[topic, f.topic]
  \/ Alike[topic, e.topic] = Alike[topic, f.topic] /\ e.id <= f.id

(* The rows come in the order of their ids, and only a better one replaces *)
(* the best so far: the first of the most alike, if it is alike enough.    *)
Matches(cache, topic) ==
  {e \in cache : /\ \A f \in cache : Closer(topic, e, f)
                 /\ Alike[topic, e.topic] >= Threshold}

(* Variant: a hit leaves the entry as old as it is. *)
BumpedNot(cache, e, ts) == cache

Bumped(cache, e, ts) == (cache \ {e}) \cup {[e EXCEPT !.ts = ts]}

(* ORDER BY ts ASC LIMIT 1 *)
Oldest(cache) ==
  {e \in cache : \A f \in cache : e.ts < f.ts \/ (e.ts = f.ts /\ e.id <= f.id)}

(* One entry goes, however far the table is over its bound. *)
Evicted(cache, max) ==
  IF Cardinality(cache) >= max THEN cache \ Oldest(cache) ELSE cache
=============================================================================
