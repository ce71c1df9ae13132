--------------------------- MODULE MCNestedStates ---------------------------
(* A Posture state with a weight, a state that removes the posture task    *)
(* and a Parallel state, reaching each other by transitions of every type. *)
(* The sub-states: a HalfSitting one that comes late and removes the       *)
(* posture task, and a Meta state whose second state removes it too.       *)
EXTENDS NestedStates

CONSTANTS a, b, p, d, m, y, z, x, ok, ko, tb, td, ty, tz, wPosture

MCConfs ==
  {[managed |-> g, step_by_step |-> ~g, reset_postures |-> ~k,
    keep_state |-> k, reentrant |-> ~k /\ ~g] : k, g \in BOOLEAN}
MCMap ==
  [k \in {<<a, ok>>, <<a, DEFAULT>>, <<b, ok>>, <<p, ok>>} |->
     CASE k = <<a, ok>>      -> [state |-> p, type |-> "Auto"]
       [] k = <<a, DEFAULT>> -> [state |-> b, type |-> "Strict"]
       [] k = <<b, ok>>      -> [state |-> a, type |-> "StepByStep"]
       [] k = <<p, ok>>      -> [state |-> b, type |-> "Strict"]]
MCInnerMap == [k \in {<<y, ok>>} |-> [state |-> z, type |-> "StepByStep"]]
MCOwnTasks ==
  [s \in {a, b, p, d, m, y, z} |->
     CASE s = b -> {tb} [] s = d -> {td} [] s = y -> {ty} [] s = z -> {tz}
       [] OTHER -> {}]
MCPostureWeight ==
  [s \in {a, b, p, d, m, y, z} |-> IF s = a THEN wPosture ELSE NoWeight]
MCSub == <<d, m>>
MCDelay == [s \in {d, m} |-> IF s = d THEN 1 ELSE 0]
=============================================================================
