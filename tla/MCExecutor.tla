----------------------------- MODULE MCExecutor -----------------------------
(* A machine of three loaded states with a transition of every type, a     *)
(* loop, a DEFAULT entry and a state without transition for one output.    *)
EXTENDS Executor

CONSTANTS a, b, c, x, ok, ko

MCMap ==
  [k \in {<<a, ok>>, <<a, DEFAULT>>, <<b, ok>>, <<b, ko>>} |->
     CASE k = <<a, ok>>      -> [state |-> b, type |-> "Auto"]
       [] k = <<a, DEFAULT>> -> [state |-> c, type |-> "Strict"]
       [] k = <<b, ok>>      -> [state |-> b, type |-> "StepByStep"]
       [] k = <<b, ko>>      -> [state |-> a, type |-> "Strict"]]
=============================================================================
