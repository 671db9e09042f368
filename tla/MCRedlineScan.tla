---------------------------- MODULE MCRedlineScan ----------------------------
(* Words and parts of words, abbreviations, phrases and a term that begins *)
(* with a character beyond ASCII, alone, in a longer word and side by side *)
EXTENDS RedlineScan

MCLower == [c \in Letter |-> CASE c = "A" -> "a" [] c = "B" -> "b" [] OTHER -> c]
Accented == <<"lead", "cont">>
MCVocabularies ==
  { <<>>,
    <<<<"a", "b">>, <<"a", "a">>>>,
    <<<<"a">>, <<>>, <<"b", " ", "a">>>>,
    <<Accented \o <<"a">>, <<"a", "b">>>>,
    <<<<"A", ".", "B">>, <<"a", " ", "a">>>> }
MCReplies ==
  { <<>>, <<"b">>, <<"a", "b">>, <<"A", ".", "B", ".">>,
    <<"a", "a", "a", " ", "a", "a">>, <<"a", "b", "a", "b", " ", "a", "b">>,
    <<"b", "a", "b", " ", "a", "1">>, <<"b", ".", "a", "b">>,
    <<"b", "b", " ", "a", ".", "b", " ", "a">>, <<"b", " ", "A", ".">>,
    Accented \o <<"a", "b">>, Accented \o <<"a", " ">> \o Accented \o <<"a">>,
    <<"a", "b">> \o Accented, <<"a", "b", ".", "a">>,
    <<"1", "a", " ", "a", " ", "a">> }
=============================================================================
