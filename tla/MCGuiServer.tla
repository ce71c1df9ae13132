---------------------------- MODULE MCGuiServer ----------------------------
(* Two categories, one inside the other, the inner one with a row of two   *)
(* elements, and a checkbox that shows and hides its neighbour.            *)
EXTENDS GuiServer

CONSTANTS x, y, s

MCCategory == {<<>>, <<"A">>, <<"A", "B">>}
MCCalls ==
  {[cat |-> <<"A">>, names |-> <<x>>, source |-> NoSource, stacking |-> "Vertical"],
   [cat |-> <<"A", "B">>, names |-> <<x, y>>, source |-> s,
    stacking |-> "Horizontal"]}
MCToggles == {[cat |-> <<"A", "B">>, name |-> x, other |-> y]}
=============================================================================
