--------------------------- MODULE TransitionMap ---------------------------
(***************************************************************************)
(* The lookups of mc_control::fsm::TransitionMap.  A map is a function     *)
(* from pairs <<state, output>> to records [state |-> ..., type |-> ...];  *)
(* TransitionMapInit.tla models how the configuration is turned into one.  *)
(***************************************************************************)
EXTENDS Naturals, FiniteSets

CONSTANT DEFAULT   \* the output that stands for every output without an entry

Types == {"StepByStep", "Auto", "Strict"}

(* transition(state, output).first: an entry applies to that pair.         *)
HasTransition(map, s, o) == {<<s, o>>, <<s, DEFAULT>>} \cap DOMAIN map # {}

(* transition(state, output).second: the exact entry hides the default.    *)
Transition(map, s, o) ==
  IF <<s, o>> \in DOMAIN map THEN map[<<s, o>>] ELSE map[<<s, DEFAULT>>]


(* transitions(state): the destinations of every entry that leaves s.      *)
Transitions(map, s) == {map[k].state : k \in {p \in DOMAIN map : p[1] = s}}
=============================================================================
