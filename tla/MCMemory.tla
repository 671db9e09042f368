------------------------------- MODULE MCMemory -------------------------------
(* The clock starts before the leap day of 2096, and the first turn comes  *)
(* on the last day of February 2100, a year that has none.                 *)
EXTENDS Memory

MCOrigin == [days |-> 46079, date |-> [year |-> 2096, month |-> 2, day |-> 28]]
Old(hint) == [subject |-> SubjectFor(hint, Undated), turn |-> 0, fact |-> 0, call |-> 0]
MCStores == { <<Old("thread-plans")>> }
L(tag, hint, blank, kind, value) ==
  [tag |-> tag, hint |-> hint, blank |-> blank,
   confidence |-> [kind |-> kind, value |-> value]]
MCExtractions ==
  { <<L("other", "", TRUE, "text", 0), L("FACT", "health", FALSE, "number", 30),
      L("FACT", "health", FALSE, "text", 0), L("FACT", "health", TRUE, "number", 90),
      L("FACT", "health", FALSE, "nan", 0), L("FACT", "thread", FALSE, "number", 150)>> }
S(object, body, subject) ==
  [tool |-> "save_fact", object |-> object, body |-> body, subject |-> subject]
Q(object, text, limit) ==
  [tool |-> "search", object |-> object, text |-> text, limit |-> limit]
MCCalls ==
  { S(TRUE, "text", "absent"), S(TRUE, "text", "blank"), Q(TRUE, "text", "number") }
=============================================================================
