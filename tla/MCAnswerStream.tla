--------------------------- MODULE MCAnswerStream ---------------------------
(* Bodies of up to three blocks with either end of line, closed by the     *)
(* terminal event, cut between two events or cut inside one; and a block   *)
(* with two data lines, broken inside the text or before it.               *)
EXTENDS AnswerStream

MCCharacter ==
  {"A", "a", "1", ".", "!", " ", "uc", "rep", "lf", "cr", ":", "{", "data:",
   "start", "delta", "stop", "error"}

Delta(t) == <<"data:", "delta">> \o t
Blocks ==
  { <<"data:", "start">>, Delta(<<"A", ".">>), Delta(<<" ", "a", "!">>),
    Delta(<<".", " ">>), Delta(<<"1", ".">>), Delta(<<"1">>),
    Delta(<<"lead", "cont">>), Delta(<<"a", "bad">>),
    <<":">>, <<"data:", "{">>, <<"data:", "error">> }
Answers ==
  { Delta(<<"A", ".">>), Delta(<<" ", "a", "!">>), Delta(<<".", " ">>),
    Delta(<<"1", ".">>), Delta(<<"1">>), <<":">> }
Tails == { <<"data:", "stop">>, <<>>, <<"data:", "delta", "a">> }
Ends == { <<"lf", "lf">>, <<"cr", "lf", "cr", "lf">> }
MCBodies ==
  { b[1] \o e \o b[2] \o e \o t \o (IF t = <<"data:", "stop">> THEN e ELSE <<>>) :
      b \in Blocks \X Blocks, e \in Ends, t \in Tails }
  \cup { b[1] \o e \o b[2] \o e \o b[3] \o e : b \in Answers \X Answers \X Answers, e \in {<<"lf", "lf">>} }
  \cup { Delta(<<"1">>) \o <<"lf", "data:", "a", ".", "lf", "lf">>,
         <<"data:", "delta", "lf", "data:", "a", ".", "lf", "lf">> }
=============================================================================
