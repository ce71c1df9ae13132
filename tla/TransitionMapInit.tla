------------------------- MODULE TransitionMapInit -------------------------
(***************************************************************************)
(* TransitionMap::init: how a list of configured transitions becomes the   *)
(* map and the initial state the executor works with.  One step per entry; *)
(* an entry is a record [size, from, by, to, type], "size" being the       *)
(* length of the array it was read from.  The names it may use are those   *)
(* that the factory has loaded before.                                     *)
(***************************************************************************)
EXTENDS TransitionMap, StateFactory

CONSTANTS
  Output,      \* the outputs that entries name, DEFAULT included
  NoState,     \* the empty string
  Entries,     \* the entries that configurations are made of
  MaxEntries   \* bound on the length of the list

ASSUME LoaderAssumption ==
  /\ NoState \notin Name /\ MaxEntries \in Nat
  /\ Entries \subseteq [size : {2, 3, 4}, from : Name, by : Output, to : Name,
                        type : Types \cup {"Unknown"}]

VARIABLES
  entries,            \* config("transitions")
  i,                  \* the entry the loop is at
  map,                \* map_
  init,               \* config("init")
  init_state,         \* init_state_
  first_valid_state,  \* first_valid_state
  valid_init_state,   \* valid_init_state
  result              \* "waiting", "loading", "loaded" or "thrown"

mapVars == <<entries, i, map, init, init_state, first_valid_state,
             valid_init_state, result>>
vars == <<factoryVars, mapVars>>

Init ==
  /\ FactoryInit
  /\ entries = <<>> /\ init = NoState /\ init_state = NoState
  /\ i = 1 /\ map = [k \in {} |-> NoState]
  /\ first_valid_state = NoState /\ valid_init_state = FALSE
  /\ result = "waiting"

(* The factory loads; its exception is the controller's.                   *)
LoadStates == FactoryNext /\ UNCHANGED mapVars

(* executor_.init of the controller.  The definitions are of no use        *)
(* any more.                                                               *)
Configure ==
  /\ phase = "loaded" /\ phase' = "used"
  /\ batches' = <<<<>>, <<>>>> /\ UNCHANGED <<batch, at, ud, prev_size, states, base_of>>
  /\ entries' \in UNION {[1..n -> Entries] : n \in 0..MaxEntries}
  /\ init' \in Name \cup {NoState} /\ init_state' = init'
  /\ result' = IF entries' = <<>> THEN "thrown" ELSE "loading"
  /\ UNCHANGED <<i, map, first_valid_state, valid_init_state>>

Known(t) == {t.from, t.to} \subseteq ToSet(states)

(* str2type: an unknown type, or none, means StepByStep.                   *)
TypeOf(t) == IF t.size = 4 /\ t.type \in Types THEN t.type ELSE "StepByStep"

Reject ==
  /\ result = "loading" /\ i <= Len(entries) /\ entries[i].size \notin {3, 4}
  /\ result' = "thrown"
  /\ UNCHANGED <<factoryVars, entries, i, map, init, init_state, first_valid_state,
                 valid_init_state>>

Skip ==
  /\ result = "loading" /\ i <= Len(entries) /\ entries[i].size \in {3, 4}
  /\ ~Known(entries[i])
  /\ i' = i + 1
  /\ UNCHANGED <<factoryVars, entries, map, init, init_state, first_valid_state,
                 valid_init_state, result>>

(* A later entry for the same pair replaces the earlier one.               *)
BugPut(m, k, v) == IF k \in DOMAIN m THEN m
                   ELSE [x \in DOMAIN m \cup {k} |-> IF x = k THEN v ELSE m[x]]
Put(m, k, v) == [x \in DOMAIN m \cup {k} |-> IF x = k THEN v ELSE m[x]]

Accept ==
  /\ result = "loading" /\ i <= Len(entries) /\ entries[i].size \in {3, 4}
  /\ Known(entries[i])
  /\ LET t == entries[i]
     IN  /\ map' = Put(map, <<t.from, t.by>>, [state |-> t.to, type |-> TypeOf(t)])
         /\ valid_init_state' = (valid_init_state \/ init_state = t.from)
         /\ first_valid_state' = IF first_valid_state = NoState THEN t.from
                                 ELSE first_valid_state
  /\ i' = i + 1
  /\ UNCHANGED <<factoryVars, entries, init, init_state, result>>

Finish ==
  /\ result = "loading" /\ i > Len(entries)
  /\ IF DOMAIN map = {}
     THEN result' = "thrown" /\ UNCHANGED init_state
     ELSE /\ result' = "loaded"
          /\ init_state' = IF valid_init_state THEN init_state
                           ELSE first_valid_state
  /\ UNCHANGED <<factoryVars, entries, i, map, init, first_valid_state, valid_init_state>>

Next == LoadStates \/ Configure \/ Reject \/ Skip \/ Accept \/ Finish

Spec == Init /\ [][Next]_vars

-----------------------------------------------------------------------------
Effective(k) == {n \in DOMAIN entries : Known(entries[n])
                                        /\ k = <<entries[n].from, entries[n].by>>}
Latest(S) == CHOOSE n \in S : \A x \in S : x <= n

(* What the executor is given: entries between loaded states only, for     *)
(* each pair the last one of the configuration.                            *)
MapIsLatest ==
  result = "loaded" =>
    /\ DOMAIN map = {k \in Name \X Output : Effective(k) # {}}
    /\ \A k \in DOMAIN map :
         LET t == entries[Latest(Effective(k))]
         IN  map[k] = [state |-> t.to, type |-> TypeOf(t)]

(* The initial state can be left: it is loaded and is the origin of some   *)
(* transition; it is the configured one whenever that one qualifies.       *)
InitStateLeaves ==
  result = "loaded" =>
    /\ init_state \in ToSet(states)
    /\ Transitions(map, init_state) # {}
    /\ Transitions(map, init) # {} => init_state = init

(* TransitionMap::init gives the executor what the configuration says: the *)
(* latest entry of every pair, and an initial state that can be left.      *)
LoadedAsConfigured == MapIsLatest /\ InitStateLeaves
=============================================================================
