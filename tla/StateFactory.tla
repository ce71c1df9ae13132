---------------------------- MODULE StateFactory ----------------------------
(***************************************************************************)
(* mc_control::fsm::StateFactory: how the states that configurations       *)
(* define on top of one another are loaded, whatever the order they come   *)
(* in.  There are two batches: the files given to the constructor (a       *)
(* directory is read in no particular order), then config("states").  One  *)
(* step per definition read, per entry of a resolution pass and per end of *)
(* a pass.  The options a state inherits from its base are left out.       *)
(***************************************************************************)
EXTENDS Integers, SequencesExt

CONSTANTS
  Name,       \* every name of a state
  Library,    \* the states of the libraries
  Provided,   \* the names "loader#argument" whose loader is in a library
  NoBase,     \* the empty base
  Defs,       \* the definitions that configurations are made of
  MaxDefs     \* bound on the number of definitions

ASSUME FactoryAssumption ==
  /\ Library \subseteq Name /\ IsFiniteSet(Library) /\ Provided \subseteq Name \ Library
  /\ NoBase \notin Name /\ MaxDefs \in Nat
  /\ Defs \subseteq [name : Name, base : Name \cup {NoBase}]

VARIABLES
  batches,    \* the definitions, in the order they are read
  batch,      \* the batch being read
  at,         \* the next definition load_ud reads, or resolve_pass tries
  ud,         \* ud_states
  prev_size,  \* prev_size of resolve
  states,     \* states_, in order
  base_of,    \* states_configurations_, the base
  phase       \* "read", "pass", "loaded", "thrown"; "used" afterwards

factoryVars == <<batches, batch, at, ud, prev_size, states, base_of, phase>>

(* config("states") is a map: it defines a name once.                      *)
FactoryInit ==
  /\ \E n \in 0..MaxDefs : \E d \in [1..n -> Defs], m \in 0..n :
       /\ batches = <<SubSeq(d, 1, m), SubSeq(d, m + 1, n)>>
       /\ \A i, j \in m + 1..n : d[i].name = d[j].name => i = j
  /\ batch = 1 /\ at = 1 /\ ud = <<>> /\ prev_size = 0
  /\ states = SetToSeq(Library) /\ base_of = [s \in {} |-> NoBase]
  /\ phase = "read"

-----------------------------------------------------------------------------
HasState(s) == Contains(states, s)

(* hasState(base) || load_with_loader(base): the second adds the base.     *)
Available(base) == HasState(base) \/ base \in Provided
WithBase(base) == IF HasState(base) THEN states ELSE Append(states, base)

(* load(name, base, config), its base available.                           *)
Load(d) ==
  IF Contains(WithBase(d.base), d.name)
  THEN /\ states' = WithBase(d.base)
       /\ phase' = "thrown" /\ UNCHANGED base_of
  ELSE /\ states' = Append(WithBase(d.base), d.name)
       /\ base_of' = [s \in DOMAIN base_of \cup {d.name} |->
                        IF s = d.name THEN d.base ELSE base_of[s]]
       /\ UNCHANGED phase

-----------------------------------------------------------------------------
(* load_ud: one definition.                                                *)
ReadDefinition ==
  /\ phase = "read" /\ at <= Len(batches[batch])
  /\ LET d == batches[batch][at]
     IN  \/ /\ d.base = NoBase
            /\ UNCHANGED <<ud, states, base_of, phase>>
         \/ /\ d.base # NoBase /\ Available(d.base)
            /\ Load(d) /\ UNCHANGED ud
         \/ /\ d.base # NoBase /\ ~Available(d.base)
            /\ ud' = Append(ud, d) /\ UNCHANGED <<states, base_of, phase>>
  /\ at' = at + 1
  /\ UNCHANGED <<batches, batch, prev_size>>

(* What is left undefined is reported and dropped; the second batch is     *)
(* read, or the states are complete.                                       *)
EndBatch ==
  /\ ud' = <<>> /\ at' = 1
  /\ IF batch = 1 THEN batch' = 2 /\ phase' = "read"
                  ELSE batch' = batch /\ phase' = "loaded"
  /\ UNCHANGED <<batches, prev_size, states, base_of>>

EndRead ==
  /\ phase = "read" /\ at > Len(batches[batch])
  /\ \/ ud = <<>> /\ EndBatch
     \/ /\ ud # <<>> /\ phase' = "pass" /\ at' = 1 /\ prev_size' = 0
        /\ UNCHANGED <<batches, batch, ud, states, base_of>>

(* resolve_pass: one undefined state.                                      *)
ResolveOne ==
  /\ phase = "pass" /\ at <= Len(ud)
  /\ IF Available(ud[at].base)
     THEN Load(ud[at]) /\ ud' = RemoveAt(ud, at) /\ UNCHANGED at
     ELSE at' = at + 1 /\ UNCHANGED <<ud, states, base_of, phase>>
  /\ UNCHANGED <<batches, batch, prev_size>>

(* resolve: whether there is another pass.                                 *)
BugOnePass == TRUE
LastPass == Len(ud) \in {0, prev_size}
EndPass ==
  /\ phase = "pass" /\ at > Len(ud)
  /\ \/ LastPass /\ EndBatch
     \/ /\ ~LastPass /\ prev_size' = Len(ud) /\ at' = 1
        /\ UNCHANGED <<batches, batch, ud, states, base_of, phase>>

FactoryNext == ReadDefinition \/ EndRead \/ ResolveOne \/ EndPass

-----------------------------------------------------------------------------
(* T lacks nothing that the definitions in defs would add to it.           *)
ClosedUnder(T, defs) ==
  \A d \in defs : d.base \in T \cup Provided => {d.name, d.base} \subseteq T

(* The names that the definitions in defs add to S, however they are       *)
(* ordered: the least set that is closed under them.                       *)
Closure(S, defs) ==
  {s \in Name : \A T \in SUBSET Name : S \subseteq T /\ ClosedUnder(T, defs) => s \in T}

(* The base of every state is loaded before it: create() goes down a chain *)
(* of bases that ends in a library.                                        *)
BasesFirst ==
  \A s \in DOMAIN states : states[s] \notin Library \cup Provided =>
    \E b \in 1..s - 1 : states[b] = base_of[states[s]]

(* Whatever the order of the definitions, the passes load all that can be  *)
(* loaded and nothing else: what depends on a missing base or on a cycle   *)
(* is left out, and nothing is there twice.  The files cannot use what     *)
(* config("states") defines.  Bases come first, also if loading throws.    *)
LoadsResolvable ==
  /\ BasesFirst
  /\ phase = "loaded" =>
       /\ ToSet(states) = Closure(Closure(Library, ToSet(batches[1])),
                                  ToSet(batches[2]))
       /\ IsInjective(states)
=============================================================================
