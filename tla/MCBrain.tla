------------------------------- MODULE MCBrain -------------------------------
(* A question and one that is alike enough for the cache but of the hour,  *)
(* and longer than the prompt has room for; the request to say that again; *)
(* a forbidden term, with the redline off in one configuration and asking  *)
(* again in the other.                                                     *)
EXTENDS Brain

CONSTANTS plans, plansNow, music, term

Ask3(topic, words, particle, timely) ==
  [topic |-> topic, words |-> words, opens |-> "other", particle |-> particle,
   timely |-> timely, phrases |-> {}]
Again == [topic |-> music, words |-> 3, opens |-> "other", particle |-> FALSE,
          timely |-> FALSE, phrases |-> {"repeat"}]
Talk ==
  {Ask3(plans, 9, FALSE, FALSE), Ask3(plansNow, 9, TRUE, TRUE),
   Again}
Close == [p \in Topic \X Topic |->
            IF p[1] = p[2] THEN 100 ELSE IF music \in {p[1], p[2]} THEN 10 ELSE 95]

Elder == [register |-> "warm-elder", addressesUser |-> TRUE, userNamed |-> TRUE,
          brief |-> TRUE, extra |-> FALSE]
Terse == [Elder EXCEPT !.register = "plain", !.extra = TRUE]

C(hasKey, pending, redline, entries, lock, persona) ==
  [hasKey |-> hasKey, prefer |-> "auto", pending |-> pending,
   forbidden |-> IF redline = "none" THEN {} ELSE {term},
   redline |-> IF redline = "none" THEN "off" ELSE redline,
   entries |-> entries, lock |-> lock, persona |-> persona]
Setups ==
  {C(FALSE, "none", "off", 2, FALSE, Elder), C(TRUE, "none", "regenerate", 1, TRUE, Terse)}
Swapped == {C(TRUE, "opus", "none", 2, FALSE, Elder)}

(* Of the offers, those that hold the term. *)
Answered ==
  {[kind |-> k, terms |-> {term}] : k \in Offers \cup {"model"}}
    \cup {[kind |-> k, terms |-> {}] : k \in {"model", "canned"}}

Lengths == [t \in Topic |-> IF t = plansNow THEN 5 ELSE 2]
Found == {<<Blank>>, <<"walks", Blank, "tea">>}
=============================================================================
