-------------------------- MODULE FsmLoadingProofs --------------------------
(***************************************************************************)
(* What an FSM controller is given before it runs: the states that the     *)
(* factory loads and the map of the transitions between them, for any      *)
(* libraries, definitions and entries.                                     *)
(***************************************************************************)
EXTENDS TransitionMapInit, FiniteSetTheorems, SequenceTheorems, TLAPS

(* The definitions of a batch, and what is loaded before it is read.       *)
DefsOf(n) == ToSet(batches[n])
Before == IF batch = 1 THEN Library ELSE Closure(Library, DefsOf(1))
Loaded == ToSet(states)

FactoryTypeOK ==
  /\ batches[1] \in Seq(Defs) /\ batches[2] \in Seq(Defs)
  /\ batch \in {1, 2} /\ at \in Nat \ {0} /\ prev_size \in Nat
  /\ ud \in Seq(Defs) /\ states \in Seq(Name)
  /\ phase \in {"read", "pass", "loaded", "thrown", "used"}

(* Every state but those of the libraries has a base, loaded before it;    *)
(* none is there twice.                                                    *)
Based(s, f) ==
  \A n \in 1..Len(s) : s[n] \notin Library \cup Provided =>
    /\ s[n] \in DOMAIN f
    /\ \E b \in 1..Len(s) : b < n /\ s[b] = f[s[n]]
Once(s) == \A m, n \in 1..Len(s) : s[m] = s[n] => m = n

(* Loading adds what the definitions read can add, no more; every one that *)
(* has been read has no base, has been loaded or is still undefined.       *)
Within == Before \subseteq Loaded /\ Loaded \subseteq Closure(Before, DefsOf(batch))
Done(d) == d.base = NoBase \/ {d.name, d.base} \subseteq Loaded \/ d \in ToSet(ud)
Read == IF phase = "read" THEN {n \in 1..Len(batches[batch]) : n < at}
        ELSE 1..Len(batches[batch])
NoneForgotten ==
  /\ ToSet(ud) \subseteq DefsOf(batch)
  /\ \A n \in Read : Done(batches[batch][n])

(* A pass that has removed nothing has found nothing available.            *)
PassOK ==
  phase = "pass" =>
    /\ at <= Len(ud) + 1
    /\ prev_size = 0 \/ Len(ud) <= prev_size
    /\ Len(ud) = prev_size => \A k \in 1..Len(ud) : k < at => ~Available(ud[k].base)

Complete ==
  phase = "loaded" =>
    Loaded = Closure(Closure(Library, DefsOf(1)), DefsOf(2))

FactoryInv ==
  /\ FactoryTypeOK /\ Based(states, base_of) /\ Once(states)
  /\ (phase \in {"read", "pass"} => Within /\ NoneForgotten)
  /\ PassOK /\ Complete

-----------------------------------------------------------------------------
(* The entries that the loop of TransitionMap::init has accepted for k.    *)
Accepted(k) == {n \in 1..Len(entries) : n < i /\ Known(entries[n])
                                        /\ k = <<entries[n].from, entries[n].by>>}
Given(n) == [state |-> entries[n].to, type |-> TypeOf(entries[n])]

MapTypeOK ==
  /\ entries \in Seq(Entries) /\ i \in 1..(Len(entries) + 1)
  /\ init \in Name \cup {NoState} /\ valid_init_state \in BOOLEAN
  /\ result \in {"waiting", "loading", "loaded", "thrown"}
  /\ result = "waiting" <=> phase # "used"
  /\ result = "waiting" => entries = <<>> /\ i = 1 /\ DOMAIN map = {}
                           /\ first_valid_state = NoState /\ ~valid_init_state
  /\ result = "loading" => init_state = init
  /\ result = "loaded" => i = Len(entries) + 1

(* The map holds the last accepted entry of every pair that has one.       *)
MapSoFar ==
  /\ DOMAIN map = {k \in Name \X Output : Accepted(k) # {}}
  /\ \A k \in DOMAIN map : \E n \in Accepted(k) :
       (\A x \in Accepted(k) : x <= n) /\ map[k] = Given(n)

(* The states that the loop may start in are origins of the map.           *)
Origins == {k[1] : k \in DOMAIN map}
StartSoFar ==
  /\ Origins \subseteq Loaded /\ Origins \subseteq Name
  /\ valid_init_state <=> init \in Origins
  /\ IF DOMAIN map = {} THEN first_valid_state = NoState
                        ELSE first_valid_state \in Origins
  /\ result = "loaded" => /\ init_state \in Origins
                          /\ valid_init_state => init_state = init

Inv == FactoryInv /\ MapTypeOK /\ MapSoFar /\ StartSoFar

-----------------------------------------------------------------------------
(* Sequences.                                                              *)

(* The elements of a sequence.                                             *)
LEMMA Members ==
  ASSUME NEW S, NEW s \in Seq(S)
  PROVE  /\ Len(s) \in Nat /\ DOMAIN s = 1..Len(s)
         /\ ToSet(s) = {s[n] : n \in 1..Len(s)}
         /\ \A n \in 1..Len(s) : s[n] \in S
<1>1. Len(s) \in Nat /\ DOMAIN s = 1..Len(s) /\ \A n \in 1..Len(s) : s[n] \in S
  OBVIOUS
<1> QED BY <1>1 DEF ToSet

(* Adding a state at the end.                                              *)
LEMMA AddState ==
  ASSUME NEW s \in Seq(Name), NEW x \in Name
  PROVE  /\ Append(s, x) \in Seq(Name) /\ Len(Append(s, x)) = Len(s) + 1
         /\ \A n \in 1..Len(s) : Append(s, x)[n] = s[n]
         /\ Append(s, x)[Len(s) + 1] = x
         /\ ToSet(Append(s, x)) = ToSet(s) \cup {x}
<1>1. /\ Append(s, x) \in Seq(Name) /\ Len(Append(s, x)) = Len(s) + 1
      /\ \A n \in 1..Len(s) : Append(s, x)[n] = s[n]
      /\ Append(s, x)[Len(s) + 1] = x
  OBVIOUS
<1>2. Len(s) \in Nat /\ DOMAIN s = 1..Len(s) /\ DOMAIN Append(s, x) = 1..(Len(s) + 1)
  OBVIOUS
<1> QED BY <1>1, <1>2 DEF ToSet

(* Adding a definition to the undefined ones.                              *)
LEMMA AddDef ==
  ASSUME NEW s \in Seq(Defs), NEW d \in Defs
  PROVE  Append(s, d) \in Seq(Defs) /\ ToSet(Append(s, d)) = ToSet(s) \cup {d}
<1>1. /\ Append(s, d) \in Seq(Defs) /\ Len(Append(s, d)) = Len(s) + 1
      /\ \A n \in 1..Len(s) : Append(s, d)[n] = s[n]
      /\ Append(s, d)[Len(s) + 1] = d
  OBVIOUS
<1>2. Len(s) \in Nat /\ DOMAIN s = 1..Len(s) /\ DOMAIN Append(s, d) = 1..(Len(s) + 1)
  OBVIOUS
<1> QED BY <1>1, <1>2 DEF ToSet

(* A definition that is removed is the only one that may go.               *)
LEMMA RemoveDef ==
  ASSUME NEW s \in Seq(Defs), NEW k \in 1..Len(s)
  PROVE  /\ RemoveAt(s, k) \in Seq(Defs) /\ Len(RemoveAt(s, k)) = Len(s) - 1
         /\ ToSet(RemoveAt(s, k)) \subseteq ToSet(s)
         /\ ToSet(s) \subseteq ToSet(RemoveAt(s, k)) \cup {s[k]}
<1> DEFINE f == SubSeq(s, 1, k - 1)
           g == SubSeq(s, k + 1, Len(s))
           h == f \o g
<1>1. Len(s) \in Nat /\ DOMAIN s = 1..Len(s)
  OBVIOUS
<1>2. f \in Seq(Defs) /\ Len(f) = k - 1 /\ \A n \in 1..(k - 1) : f[n] = s[n]
  BY <1>1
<1>3. g \in Seq(Defs) /\ Len(g) = Len(s) - k /\ \A n \in 1..(Len(s) - k) : g[n] = s[n + k]
  <2>1. g \in Seq(Defs)
    BY <1>1
  <2>2. Len(g) = Len(s) - k
    <3>1. CASE k < Len(s)
      <4>1. k + 1 \in 1..(Len(s) + 1) /\ k + 1 <= Len(s)
        BY <1>1, <3>1
      <4>2. Len(g) = Len(s) - (k + 1) + 1
        BY <1>1, <4>1
      <4>3. Len(s) - (k + 1) + 1 = Len(s) - k
        BY <1>1
      <4> HIDE DEF g
      <4> QED BY <4>2, <4>3
    <3>2. CASE k = Len(s)
      <4>1. Len(g) = 0
        BY <1>1, <3>2
      <4> QED BY <1>1, <3>2, <4>1
    <3>3. k < Len(s) \/ k = Len(s)
      <4>1. k \in Nat /\ Len(s) \in Nat /\ k <= Len(s)
        BY <1>1
      <4> QED BY ONLY <4>1
    <3> QED BY <3>1, <3>2, <3>3
  <2>3. ASSUME NEW n \in 1..(Len(s) - k) PROVE g[n] = s[n + k]
    BY <1>1
  <2> QED BY <2>1, <2>2, <2>3
<1>4. RemoveAt(s, k) = h
  BY DEF RemoveAt
<1> HIDE DEF f, g
<1>5. /\ h \in Seq(Defs) /\ Len(h) = Len(f) + Len(g)
      /\ \A n \in 1..(Len(f) + Len(g)) : h[n] = IF n <= Len(f) THEN f[n] ELSE g[n - Len(f)]
  <2>1. f \in Seq(Defs) /\ g \in Seq(Defs)
    BY <1>2, <1>3
  <2> QED BY ONLY <2>1, ConcatProperties, Zenon
<1> HIDE DEF h
<1>6. Len(h) = Len(s) - 1 /\ DOMAIN h = 1..(Len(s) - 1)
  BY <1>1, <1>2, <1>3, <1>5
<1>7. ASSUME NEW n \in 1..(Len(s) - 1) PROVE \E m \in 1..Len(s) : h[n] = s[m]
  <2>1. CASE n <= k - 1
    <3>1. n \in 1..(k - 1) /\ n <= Len(f) /\ n \in 1..(Len(f) + Len(g)) /\ n \in 1..Len(s)
      BY <1>1, <1>2, <1>3, <2>1
    <3>2. h[n] = f[n] /\ f[n] = s[n]
      BY <1>2, <1>5, <3>1
    <3> QED BY <3>1, <3>2
  <2>2. CASE n > k - 1
    <3>1. h[n] = g[n - (k - 1)] /\ n - (k - 1) \in 1..(Len(s) - k)
      <4>1. /\ n - (k - 1) \in 1..(Len(s) - k) /\ n \in 1..(Len(f) + Len(g))
            /\ ~(n <= Len(f)) /\ Len(f) = k - 1
        BY <1>1, <1>2, <1>3, <2>2
      <4> QED BY <1>5, <4>1
    <3>2. n - (k - 1) + k \in 1..Len(s)
      BY <1>1, <3>1
    <3>3. h[n] = s[n - (k - 1) + k]
      BY <1>3, <3>1
    <3> QED BY <3>2, <3>3
  <2> QED BY <1>1, <2>1, <2>2
<1>8. ASSUME NEW m \in 1..Len(s), m # k PROVE \E n \in 1..(Len(s) - 1) : h[n] = s[m]
  <2>1. CASE m < k
    <3>1. m \in 1..(Len(s) - 1) /\ m <= Len(f) /\ m \in 1..(Len(f) + Len(g)) /\ m \in 1..(k - 1)
      BY <1>1, <1>2, <1>3, <2>1
    <3> QED BY <1>2, <1>5, <3>1
  <2>2. CASE m > k
    <3>1. /\ m - 1 \in 1..(Len(s) - 1) /\ m - 1 \in 1..(Len(f) + Len(g))
          /\ ~(m - 1 <= Len(f)) /\ m - 1 - Len(f) = m - k /\ m - k \in 1..(Len(s) - k)
      BY <1>1, <1>2, <1>3, <2>2
    <3>2. h[m - 1] = g[m - k]
      BY <1>5, <3>1
    <3>3. g[m - k] = s[m - k + k] /\ m - k + k = m
      BY <1>1, <1>3, <3>1
    <3> QED BY <3>1, <3>2, <3>3
  <2> QED BY <1>1, <1>8, <2>1, <2>2
<1>9. ToSet(h) = {h[n] : n \in 1..(Len(s) - 1)} /\ ToSet(s) = {s[n] : n \in 1..Len(s)}
  BY <1>1, <1>6 DEF ToSet
<1>10. ToSet(h) \subseteq ToSet(s)
  BY <1>7, <1>9
<1>11. ToSet(s) \subseteq ToSet(h) \cup {s[k]}
  BY <1>8, <1>9
<1> QED BY <1>4, <1>5, <1>6, <1>10, <1>11

-----------------------------------------------------------------------------
(* The closure is within every set that has S and is closed.               *)
LEMMA ClosureLeast ==
  ASSUME NEW S, NEW defs, NEW T \in SUBSET Name, S \subseteq T, ClosedUnder(T, defs)
  PROVE  Closure(S, defs) \subseteq T
BY DEF Closure

(* The closure has S, and nothing but names.                               *)
LEMMA ClosureHas ==
  ASSUME NEW S \in SUBSET Name, NEW defs
  PROVE  S \subseteq Closure(S, defs) /\ Closure(S, defs) \subseteq Name
BY DEF Closure

(* It has what a definition adds to what it has.                           *)
LEMMA ClosureAdds ==
  ASSUME NEW S \in SUBSET Name, NEW defs, NEW d \in defs, d \in Defs,
         d.base \in Closure(S, defs) \cup Provided
  PROVE  {d.name, d.base} \subseteq Closure(S, defs)
<1>1. d.name \in Name /\ d.base \in Name
  BY FactoryAssumption DEF Closure
<1> SUFFICES ASSUME NEW T \in SUBSET Name, S \subseteq T, ClosedUnder(T, defs)
             PROVE  {d.name, d.base} \subseteq T
  BY <1>1 DEF Closure
<1>2. d.base \in T \cup Provided
  BY DEF Closure
<1> QED BY <1>2 DEF ClosedUnder

-----------------------------------------------------------------------------
(* Loading a state.                                                        *)

(* A state that is not there yet leaves none there twice.                  *)
LEMMA OnceMore ==
  ASSUME NEW s \in Seq(Name), NEW x \in Name, Once(s), x \notin ToSet(s)
  PROVE  Once(Append(s, x))
<1> DEFINE t == Append(s, x)
<1>1. /\ Len(t) = Len(s) + 1 /\ t[Len(s) + 1] = x
      /\ \A n \in 1..Len(s) : t[n] = s[n]
  BY AddState
<1> HIDE DEF t
<1>2. Len(s) \in Nat /\ \A n \in 1..Len(s) : s[n] # x
  BY Members
<1>3. \A n \in 1..Len(t) : n \in 1..Len(s) \/ n = Len(s) + 1
  BY <1>1, <1>2
<1>4. Once(t)
  BY <1>1, <1>2, <1>3 DEF Once
<1> QED BY <1>4 DEF t

(* A state of a loader needs no base.                                      *)
LEMMA BasedByLoader ==
  ASSUME NEW s \in Seq(Name), NEW f, NEW x \in Provided, Based(s, f)
  PROVE  Based(Append(s, x), f)
<1> DEFINE t == Append(s, x)
<1>1. x \in Name
  BY FactoryAssumption
<1>2. /\ Len(t) = Len(s) + 1 /\ t[Len(s) + 1] = x
      /\ \A n \in 1..Len(s) : t[n] = s[n]
  BY <1>1, AddState
<1>3. Len(s) \in Nat
  BY Members
<1> HIDE DEF t
<1>4. ASSUME NEW n \in 1..Len(t), t[n] \notin Library \cup Provided
      PROVE  t[n] \in DOMAIN f /\ \E b \in 1..Len(t) : b < n /\ t[b] = f[t[n]]
  <2>1. n \in 1..Len(s) /\ t[n] = s[n]
    BY <1>2, <1>3, <1>4
  <2>2. PICK b \in 1..Len(s) : b < n /\ s[b] = f[s[n]]
    BY <1>4, <2>1 DEF Based
  <2>3. b \in 1..Len(t) /\ t[b] = s[b]
    BY <1>2, <1>3
  <2> QED BY <1>4, <2>1, <2>2, <2>3 DEF Based
<1>5. Based(t, f)
  BY <1>4 DEF Based
<1> QED BY <1>5 DEF t

(* A state that is defined on one that is there has its base before it.    *)
LEMMA BasedByDef ==
  ASSUME NEW s \in Seq(Name), NEW f, NEW g, NEW x \in Name, Based(s, f),
         x \notin ToSet(s), g[x] \in ToSet(s),
         DOMAIN g = DOMAIN f \cup {x}, \A z \in DOMAIN f : z # x => g[z] = f[z]
  PROVE  Based(Append(s, x), g)
<1> DEFINE t == Append(s, x)
<1>1. /\ Len(t) = Len(s) + 1 /\ t[Len(s) + 1] = x
      /\ \A n \in 1..Len(s) : t[n] = s[n]
  BY AddState
<1>2. /\ Len(s) \in Nat /\ (\A n \in 1..Len(s) : s[n] # x)
      /\ \E n \in 1..Len(s) : s[n] = g[x]
  BY Members
<1> HIDE DEF t
<1>3. ASSUME NEW n \in 1..Len(t), t[n] \notin Library \cup Provided
      PROVE  t[n] \in DOMAIN g /\ \E b \in 1..Len(t) : b < n /\ t[b] = g[t[n]]
  <2>1. CASE n \in 1..Len(s)
    <3>1. t[n] = s[n] /\ s[n] # x
      BY <1>1, <1>2, <2>1
    <3>2. s[n] \in DOMAIN f
      BY <1>3, <2>1, <3>1 DEF Based
    <3>3. PICK b \in 1..Len(s) : b < n /\ s[b] = f[s[n]]
      BY <1>3, <2>1, <3>1 DEF Based
    <3>4. b \in 1..Len(t) /\ t[b] = s[b] /\ g[s[n]] = f[s[n]]
      BY <1>1, <1>2, <3>1, <3>2
    <3> QED BY <3>1, <3>2, <3>3, <3>4
  <2>2. CASE n = Len(s) + 1
    <3>1. PICK b \in 1..Len(s) : s[b] = g[x]
      BY <1>2
    <3>2. b \in 1..Len(t) /\ t[b] = s[b] /\ b < n
      BY <1>1, <1>2, <2>2
    <3> QED BY <1>1, <2>2, <3>1, <3>2
  <2>3. n \in 1..Len(s) \/ n = Len(s) + 1
    BY <1>1, <1>2
  <2> QED BY <2>1, <2>2, <2>3
<1>4. Based(t, g)
  BY <1>3 DEF Based
<1> QED BY <1>4 DEF t

(* What load(name, base) does, whether it throws or not.                   *)
LEMMA LoadEffect ==
  ASSUME states \in Seq(Name), Based(states, base_of), Once(states),
         NEW d \in Defs, d.base # NoBase, Available(d.base), Load(d)
  PROVE  /\ states' \in Seq(Name) /\ Based(states', base_of') /\ Once(states')
         /\ Loaded \subseteq Loaded' /\ Loaded' \subseteq Loaded \cup {d.name, d.base}
         /\ d.base \in Loaded \cup Provided
         /\ phase' \in {phase, "thrown"}
         /\ phase' = "thrown" \/ {d.name, d.base} \subseteq Loaded'
<1> DEFINE w == WithBase(d.base)
<1>1. d.name \in Name /\ d.base \in Name
  BY FactoryAssumption
<1>2. \A x : HasState(x) <=> x \in Loaded
  BY Members DEF HasState, Contains, Loaded
<1>3. d.base \in Loaded \cup Provided
  BY <1>2 DEF Available
<1>4. /\ w \in Seq(Name) /\ Based(w, base_of) /\ Once(w)
      /\ ToSet(w) = Loaded \cup {d.base}
  <2>1. CASE HasState(d.base)
    BY <1>2, <2>1 DEF WithBase, Loaded
  <2>2. CASE ~HasState(d.base)
    <3>1. w = Append(states, d.base) /\ d.base \in Provided /\ d.base \notin ToSet(states)
      BY <1>2, <2>2 DEF WithBase, Available, Loaded
    <3>2. w \in Seq(Name) /\ ToSet(w) = Loaded \cup {d.base}
      BY <1>1, <3>1, AddState DEF Loaded
    <3>3. Based(w, base_of)
      BY <3>1, BasedByLoader
    <3>4. Once(w)
      BY <1>1, <3>1, OnceMore
    <3> QED BY <3>2, <3>3, <3>4
  <2> QED BY <2>1, <2>2
<1>5. Contains(w, d.name) <=> d.name \in ToSet(w)
  BY <1>4, Members DEF Contains
<1>6. CASE Contains(w, d.name)
  <2>1. states' = w /\ phase' = "thrown" /\ base_of' = base_of
    BY <1>6 DEF Load
  <2> HIDE DEF w
  <2> QED BY <1>3, <1>4, <2>1 DEF Loaded
<1>7. CASE ~Contains(w, d.name)
  <2>1. /\ states' = Append(w, d.name) /\ phase' = phase
        /\ base_of' = [z \in DOMAIN base_of \cup {d.name} |->
                         IF z = d.name THEN d.base ELSE base_of[z]]
    BY <1>7 DEF Load
  <2> HIDE DEF w
  <2>2. states' \in Seq(Name) /\ ToSet(states') = ToSet(w) \cup {d.name}
    BY <1>1, <1>4, <2>1, AddState
  <2>3. Once(states')
    BY <1>1, <1>4, <1>5, <1>7, <2>1, OnceMore
  <2>4. Based(states', base_of')
    <3>1. d.name \notin ToSet(w) /\ d.base \in ToSet(w)
      BY <1>4, <1>5, <1>7
    <3>2. w \in Seq(Name) /\ Based(w, base_of)
      BY <1>4
    <3>3. /\ DOMAIN base_of' = DOMAIN base_of \cup {d.name}
          /\ base_of'[d.name] = d.base
          /\ \A z \in DOMAIN base_of : z # d.name => base_of'[z] = base_of[z]
      BY <2>1
    <3>4. Based(Append(w, d.name), base_of')
      BY <1>1, <3>1, <3>2, <3>3, BasedByDef
    <3> QED BY <2>1, <3>4
  <2> QED BY <1>3, <1>4, <2>1, <2>2, <2>3, <2>4 DEF Loaded
<1> QED BY <1>6, <1>7

-----------------------------------------------------------------------------
(* The steps of the factory.                                               *)

(* What is loaded before a batch are names.                                *)
LEMMA BeforeNames == Before \in SUBSET Name
BY FactoryAssumption, ClosureHas DEF Before

(* The definitions of the batch being read.                                *)
LEMMA BatchDefs ==
  ASSUME FactoryTypeOK
  PROVE  /\ batches[batch] \in Seq(Defs) /\ Len(batches[batch]) \in Nat
         /\ DefsOf(batch) = {batches[batch][n] : n \in 1..Len(batches[batch])}
         /\ DefsOf(batch) \subseteq Defs
<1>1. batches[batch] \in Seq(Defs)
  BY DEF FactoryTypeOK
<1> QED BY <1>1, Members DEF DefsOf

(* A state loaded from a definition of the batch is within the closure.    *)
LEMMA LoadWithin ==
  ASSUME FactoryTypeOK, Within, UNCHANGED <<batches, batch>>, NEW d \in DefsOf(batch),
         d.base \in Loaded \cup Provided,
         Loaded \subseteq Loaded', Loaded' \subseteq Loaded \cup {d.name, d.base}
  PROVE  Within'
<1>1. d \in Defs
  BY BatchDefs
<1>2. d.base \in Closure(Before, DefsOf(batch)) \cup Provided
  BY DEF Within
<1>3. {d.name, d.base} \subseteq Closure(Before, DefsOf(batch))
  BY <1>1, <1>2, BeforeNames, ClosureAdds
<1>4. Before' = Before /\ DefsOf(batch)' = DefsOf(batch)
  BY DEF Before, DefsOf
<1>5. (Closure(Before, DefsOf(batch)))' = Closure(Before, DefsOf(batch))
  BY <1>4 DEF Closure, ClosedUnder
<1> QED BY <1>3, <1>4, <1>5 DEF Within

(* load_ud keeps the invariant.                                            *)
LEMMA ReadKeeps == FactoryInv /\ ReadDefinition => FactoryInv'
<1> SUFFICES ASSUME FactoryInv, ReadDefinition PROVE FactoryInv'
  OBVIOUS
<1>1. PICK d : d = batches[batch][at]
  OBVIOUS
<1>2. /\ phase = "read" /\ at <= Len(batches[batch]) /\ at' = at + 1
      /\ UNCHANGED <<batches, batch, prev_size>>
  BY DEF ReadDefinition
<1>3. /\ FactoryTypeOK /\ Based(states, base_of) /\ Once(states) /\ Within /\ NoneForgotten
  BY <1>2 DEF FactoryInv
<1>4. /\ at \in Nat \ {0} /\ batch \in {1, 2} /\ prev_size \in Nat
      /\ states \in Seq(Name) /\ ud \in Seq(Defs)
      /\ batches[1] \in Seq(Defs) /\ batches[2] \in Seq(Defs)
  BY <1>3 DEF FactoryTypeOK
<1>5. at \in 1..Len(batches[batch]) /\ d \in DefsOf(batch) /\ d \in Defs
  BY <1>1, <1>2, <1>3, <1>4, BatchDefs
<1>6. \A n \in 1..Len(batches[batch]) : n < at + 1 => n < at \/ n = at
  BY <1>3, <1>4, BatchDefs
<1>7. DefsOf(batch)' = DefsOf(batch)
  BY <1>2 DEF DefsOf
<1>8. \/ d.base = NoBase /\ UNCHANGED <<ud, states, base_of, phase>>
      \/ d.base # NoBase /\ Available(d.base) /\ Load(d) /\ UNCHANGED ud
      \/ /\ d.base # NoBase /\ ud' = Append(ud, d)
         /\ UNCHANGED <<states, base_of, phase>>
  BY <1>1 DEF ReadDefinition
<1>9. ASSUME FactoryTypeOK', Based(states', base_of'), Once(states'), Within',
             phase' = "read", Loaded \subseteq Loaded', ToSet(ud) \subseteq ToSet(ud'),
             ToSet(ud') \subseteq ToSet(ud) \cup {d}, Done(d)'
      PROVE  FactoryInv'
  <2>1. \A e : Done(e) => Done(e)'
    BY <1>9 DEF Done
  <2>2. \A n \in Read' : n \in Read \/ n = at
    BY <1>2, <1>6, <1>9 DEF Read
  <2>3. \A n \in Read' : Done(batches[batch][n])'
    BY <1>1, <1>2, <1>3, <1>9, <2>1, <2>2 DEF NoneForgotten
  <2>4. NoneForgotten'
    BY <1>2, <1>3, <1>5, <1>7, <1>9, <2>3 DEF NoneForgotten
  <2> QED BY <1>9, <2>4 DEF FactoryInv, PassOK, Complete
<1>10. CASE d.base = NoBase /\ UNCHANGED <<ud, states, base_of, phase>>
  <2>1. FactoryTypeOK'
    BY <1>2, <1>3, <1>4, <1>10 DEF FactoryTypeOK
  <2>2. Within'
    BY <1>2, <1>3, <1>10 DEF Within, Before, Loaded, DefsOf, Closure, ClosedUnder
  <2>3. Done(d)'
    BY <1>10 DEF Done
  <2> QED BY <1>2, <1>3, <1>9, <1>10, <2>1, <2>2, <2>3 DEF Loaded
<1>11. CASE d.base # NoBase /\ Available(d.base) /\ Load(d) /\ UNCHANGED ud
  <2>1. /\ states' \in Seq(Name) /\ Based(states', base_of') /\ Once(states')
        /\ Loaded \subseteq Loaded' /\ Loaded' \subseteq Loaded \cup {d.name, d.base}
        /\ d.base \in Loaded \cup Provided
        /\ phase' \in {phase, "thrown"}
        /\ phase' = "thrown" \/ {d.name, d.base} \subseteq Loaded'
    BY <1>3, <1>4, <1>5, <1>11, LoadEffect
  <2>2. FactoryTypeOK'
    BY <1>2, <1>3, <1>4, <1>11, <2>1 DEF FactoryTypeOK
  <2>3. CASE phase' = "thrown"
    BY <2>1, <2>2, <2>3 DEF FactoryInv, PassOK, Complete
  <2>4. CASE phase' # "thrown"
    <3>1. Within'
      BY <1>2, <1>3, <1>5, <2>1, LoadWithin
    <3>2. {d.name, d.base} \subseteq Loaded' /\ phase' = "read"
      BY <1>2, <2>1, <2>4
    <3>3. Done(d)'
      BY <1>2, <3>2 DEF Done
    <3> QED BY <1>9, <1>11, <2>1, <2>2, <3>1, <3>2, <3>3
  <2> QED BY <2>3, <2>4
<1>12. CASE d.base # NoBase /\ ud' = Append(ud, d) /\ UNCHANGED <<states, base_of, phase>>
  <2>1. ud' \in Seq(Defs) /\ ToSet(ud') = ToSet(ud) \cup {d}
    BY <1>4, <1>5, <1>12, AddDef
  <2>2. FactoryTypeOK'
    BY <1>2, <1>3, <1>4, <1>12, <2>1 DEF FactoryTypeOK
  <2>3. Within'
    BY <1>2, <1>3, <1>12 DEF Within, Before, Loaded, DefsOf, Closure, ClosedUnder
  <2>4. Done(d)'
    BY <1>2, <2>1 DEF Done
  <2> QED BY <1>2, <1>3, <1>9, <1>12, <2>1, <2>2, <2>3, <2>4 DEF Loaded
<1> QED BY <1>8, <1>10, <1>11, <1>12

(* When all is read and nothing that is left is available, all that can be *)
(* loaded is.                                                              *)
LEMMA NothingLeft ==
  ASSUME FactoryTypeOK, NoneForgotten, 1..Len(batches[batch]) \subseteq Read,
         \A k \in 1..Len(ud) : ~Available(ud[k].base)
  PROVE  ClosedUnder(Loaded, DefsOf(batch))
<1> SUFFICES ASSUME NEW d \in DefsOf(batch), d.base \in Loaded \cup Provided
             PROVE  {d.name, d.base} \subseteq Loaded
  BY DEF ClosedUnder
<1>1. ud \in Seq(Defs) /\ states \in Seq(Name)
  BY DEF FactoryTypeOK
<1>2. Done(d)
  BY BatchDefs DEF NoneForgotten
<1>3. \A x : Available(x) <=> x \in Loaded \cup Provided
  BY <1>1, Members DEF Available, HasState, Contains, Loaded
<1>4. d.base \in Name
  BY <1>1, Members, FactoryAssumption DEF Loaded
<1>5. d.base # NoBase
  BY <1>4, FactoryAssumption
<1>6. d \notin ToSet(ud)
  BY <1>1, <1>3, Members
<1> QED BY <1>2, <1>5, <1>6 DEF Done

(* The end of a batch: the next one starts from what this one has loaded.  *)
LEMMA EndBatchKeeps ==
  ASSUME FactoryInv, phase \in {"read", "pass"}, EndBatch,
         ClosedUnder(Loaded, DefsOf(batch))
  PROVE  FactoryInv'
<1>1. FactoryTypeOK /\ Based(states, base_of) /\ Once(states) /\ Within
  BY DEF FactoryInv
<1>2. ud' = <<>> /\ at' = 1 /\ UNCHANGED <<batches, prev_size, states, base_of>>
  BY DEF EndBatch
<1>3. Loaded \in SUBSET Name /\ Loaded' = Loaded
  BY <1>1, <1>2, Members DEF FactoryTypeOK, Loaded
<1>4. Loaded = Closure(Before, DefsOf(batch))
  BY <1>1, <1>3, ClosureLeast DEF Within
<1>5. ud' \in Seq(Defs) /\ ToSet(ud') = {}
  BY <1>2 DEF ToSet
<1>6. Based(states', base_of') /\ Once(states')
  BY <1>1, <1>2
<1>7. CASE batch = 1
  <2>1. batch' = 2 /\ phase' = "read"
    BY <1>7 DEF EndBatch
  <2>2. FactoryTypeOK'
    BY <1>1, <1>2, <1>5, <2>1 DEF FactoryTypeOK
  <2>3. Loaded = Closure(Library, DefsOf(1))
    BY <1>4, <1>7 DEF Before
  <2>4. Before' = Loaded
    BY <1>2, <2>1, <2>3 DEF Before, DefsOf
  <2>5. Within'
    <3>1. Before' \in SUBSET Name
      BY <1>3, <2>4
    <3>2. Before' \subseteq Closure(Before', DefsOf(batch)')
      BY <3>1, ClosureHas
    <3> QED BY <1>3, <2>4, <3>2 DEF Within
  <2>6. Read' = {}
    BY <1>2, <2>1 DEF Read
  <2>7. NoneForgotten'
    BY <1>5, <2>6 DEF NoneForgotten
  <2> QED BY <1>6, <2>1, <2>2, <2>5, <2>7 DEF FactoryInv, PassOK, Complete
<1>8. CASE batch = 2
  <2>1. batch' = 2 /\ phase' = "loaded"
    BY <1>8 DEF EndBatch
  <2>2. FactoryTypeOK'
    BY <1>1, <1>2, <1>5, <2>1 DEF FactoryTypeOK
  <2>3. Loaded = Closure(Closure(Library, DefsOf(1)), DefsOf(2))
    BY <1>4, <1>8 DEF Before
  <2>4. DefsOf(1)' = DefsOf(1) /\ DefsOf(2)' = DefsOf(2)
    BY <1>2 DEF DefsOf
  <2>5. Complete'
    BY <1>3, <2>3, <2>4 DEF Complete
  <2> QED BY <1>6, <2>1, <2>2, <2>5 DEF FactoryInv, PassOK
<1> QED BY <1>1, <1>7, <1>8 DEF FactoryTypeOK

(* The end of the reading: the passes begin, if something is undefined.    *)
LEMMA EndReadKeeps == FactoryInv /\ EndRead => FactoryInv'
<1> SUFFICES ASSUME FactoryInv, EndRead PROVE FactoryInv'
  OBVIOUS
<1>1. phase = "read" /\ at > Len(batches[batch])
  BY DEF EndRead
<1>2. /\ FactoryTypeOK /\ Based(states, base_of) /\ Once(states) /\ Within /\ NoneForgotten
  BY <1>1 DEF FactoryInv
<1>3. Len(batches[batch]) \in Nat /\ at \in Nat
  BY <1>2, BatchDefs DEF FactoryTypeOK
<1>4. 1..Len(batches[batch]) \subseteq Read
  BY <1>1, <1>3 DEF Read
<1>5. CASE ud = <<>> /\ EndBatch
  <2>1. Len(ud) = 0
    BY <1>5
  <2>2. ClosedUnder(Loaded, DefsOf(batch))
    BY <1>2, <1>4, <2>1, NothingLeft
  <2> QED BY <1>1, <1>5, <2>2, EndBatchKeeps
<1>6. CASE /\ ud # <<>> /\ phase' = "pass" /\ at' = 1 /\ prev_size' = 0
           /\ UNCHANGED <<batches, batch, ud, states, base_of>>
  <2>1. FactoryTypeOK' /\ Based(states', base_of') /\ Once(states')
    BY <1>2, <1>6 DEF FactoryTypeOK
  <2>2. Within'
    BY <1>2, <1>6 DEF Within, Before, Loaded, DefsOf, Closure, ClosedUnder
  <2>3. Read' = 1..Len(batches[batch])
    BY <1>6 DEF Read
  <2>4. NoneForgotten'
    BY <1>2, <1>4, <1>6, <2>3 DEF NoneForgotten, Done, DefsOf, Loaded
  <2>5. PassOK'
    <3>1. Len(ud) \in Nat
      BY <1>2 DEF FactoryTypeOK
    <3> QED BY <1>6, <3>1 DEF PassOK
  <2> QED BY <1>6, <2>1, <2>2, <2>4, <2>5 DEF FactoryInv, Complete
<1> QED BY <1>5, <1>6 DEF EndRead

(* resolve_pass keeps the invariant: a state that is loaded makes the pass *)
(* one that has removed something.                                         *)
LEMMA ResolveKeeps == FactoryInv /\ ResolveOne => FactoryInv'
<1> SUFFICES ASSUME FactoryInv, ResolveOne PROVE FactoryInv'
  OBVIOUS
<1>1. phase = "pass" /\ at <= Len(ud) /\ UNCHANGED <<batches, batch, prev_size>>
  BY DEF ResolveOne
<1>2. /\ FactoryTypeOK /\ Based(states, base_of) /\ Once(states) /\ Within /\ NoneForgotten
      /\ PassOK
  BY <1>1 DEF FactoryInv
<1>3. /\ at \in Nat \ {0} /\ prev_size \in Nat /\ ud \in Seq(Defs) /\ Len(ud) \in Nat
      /\ states \in Seq(Name)
  BY <1>2 DEF FactoryTypeOK
<1>4. PICK d : d = ud[at]
  OBVIOUS
<1>5. at \in 1..Len(ud) /\ d \in Defs /\ d \in ToSet(ud)
  BY <1>1, <1>3, <1>4, Members
<1>6. d \in DefsOf(batch)
  BY <1>2, <1>5 DEF NoneForgotten
<1>7. DefsOf(batch)' = DefsOf(batch) /\ Read = 1..Len(batches[batch])
  BY <1>1 DEF DefsOf, Read
<1>8. CASE Available(d.base)
  <2>1. Load(d) /\ ud' = RemoveAt(ud, at) /\ at' = at
    BY <1>4, <1>8 DEF ResolveOne
  <2>2. /\ ud' \in Seq(Defs) /\ Len(ud') = Len(ud) - 1
        /\ ToSet(ud') \subseteq ToSet(ud) /\ ToSet(ud) \subseteq ToSet(ud') \cup {d}
    BY <1>3, <1>4, <1>5, <2>1, RemoveDef
  <2>3. d.base # NoBase
    <3>1. d.base \in Loaded \cup Provided
      BY <1>3, <1>8, Members DEF Available, HasState, Contains, Loaded
    <3>2. d.base \in Name
      BY <1>3, <3>1, Members, FactoryAssumption DEF Loaded
    <3> QED BY <3>2, FactoryAssumption
  <2>4. /\ states' \in Seq(Name) /\ Based(states', base_of') /\ Once(states')
        /\ Loaded \subseteq Loaded' /\ Loaded' \subseteq Loaded \cup {d.name, d.base}
        /\ d.base \in Loaded \cup Provided
        /\ phase' \in {phase, "thrown"}
        /\ phase' = "thrown" \/ {d.name, d.base} \subseteq Loaded'
    BY <1>2, <1>3, <1>5, <1>8, <2>1, <2>3, LoadEffect
  <2>5. FactoryTypeOK'
    BY <1>1, <1>2, <2>1, <2>2, <2>4 DEF FactoryTypeOK
  <2>6. CASE phase' = "thrown"
    BY <2>4, <2>5, <2>6 DEF FactoryInv, PassOK, Complete
  <2>7. CASE phase' # "thrown"
    <3>1. Within'
      BY <1>1, <1>2, <1>6, <2>4, LoadWithin
    <3>2. {d.name, d.base} \subseteq Loaded' /\ phase' = "pass"
      BY <1>1, <2>4, <2>7
    <3>3. \A e : Done(e) => Done(e)'
      BY <2>2, <2>4, <3>2 DEF Done
    <3>4. Read' = 1..Len(batches[batch])
      BY <1>1, <3>2 DEF Read
    <3>5. NoneForgotten'
      BY <1>1, <1>2, <1>7, <2>2, <3>3, <3>4 DEF NoneForgotten
    <3>6. PassOK'
      <4>1. at <= Len(ud') + 1
        BY <1>1, <1>3, <2>2
      <4>2. prev_size = 0 \/ Len(ud') <= prev_size
        BY <1>1, <1>2, <1>3, <2>2 DEF PassOK
      <4>3. ASSUME Len(ud') = prev_size, NEW k \in 1..Len(ud'), k < at PROVE FALSE
        <5>1. prev_size = 0 \/ Len(ud) <= prev_size
          BY <1>1, <1>2 DEF PassOK
        <5>2. k \in Nat /\ k >= 1 /\ k <= Len(ud) - 1
          BY <1>3, <2>2
        <5> QED BY <1>3, <2>2, <4>3, <5>1, <5>2
      <4> QED BY <1>1, <2>1, <4>1, <4>2, <4>3 DEF PassOK
    <3> QED BY <2>4, <2>5, <3>1, <3>2, <3>5, <3>6 DEF FactoryInv, Complete
  <2> QED BY <2>6, <2>7
<1>9. CASE ~Available(d.base)
  <2>1. at' = at + 1 /\ UNCHANGED <<ud, states, base_of, phase>>
    BY <1>4, <1>9 DEF ResolveOne
  <2>2. FactoryTypeOK' /\ Based(states', base_of') /\ Once(states')
    BY <1>1, <1>2, <2>1 DEF FactoryTypeOK
  <2>3. Within'
    BY <1>1, <1>2, <2>1 DEF Within, Before, Loaded, DefsOf, Closure, ClosedUnder
  <2>4. NoneForgotten'
    BY <1>1, <1>2, <2>1 DEF NoneForgotten, Done, DefsOf, Loaded, Read
  <2>5. PassOK'
    <3>1. \A k \in 1..Len(ud) : k < at + 1 => k < at \/ k = at
      BY <1>3
    <3>2. \A x : Available(x)' <=> Available(x)
      BY <2>1 DEF Available, HasState, Contains
    <3>3. at + 1 <= Len(ud) + 1
      BY <1>1, <1>3
    <3> QED BY <1>1, <1>2, <1>4, <1>9, <2>1, <3>1, <3>2, <3>3 DEF PassOK
  <2> QED BY <1>1, <2>1, <2>2, <2>3, <2>4, <2>5 DEF FactoryInv, Complete
<1> QED BY <1>8, <1>9

(* The end of a pass: it is the last one only if all is resolved or it has *)
(* changed nothing.                                                        *)
LEMMA EndPassKeeps == FactoryInv /\ EndPass => FactoryInv'
<1> SUFFICES ASSUME FactoryInv, EndPass PROVE FactoryInv'
  OBVIOUS
<1>1. phase = "pass" /\ at > Len(ud)
  BY DEF EndPass
<1>2. /\ FactoryTypeOK /\ Based(states, base_of) /\ Once(states) /\ Within /\ NoneForgotten
      /\ PassOK
  BY <1>1 DEF FactoryInv
<1>3. at \in Nat \ {0} /\ prev_size \in Nat /\ Len(ud) \in Nat
  BY <1>2 DEF FactoryTypeOK
<1>4. Read = 1..Len(batches[batch])
  BY <1>1 DEF Read
<1>5. CASE LastPass /\ EndBatch
  <2>1. ASSUME NEW k \in 1..Len(ud) PROVE ~Available(ud[k].base)
    <3>1. k < at /\ Len(ud) # 0
      BY <1>1, <1>3
    <3>2. Len(ud) = prev_size
      BY <1>5, <3>1 DEF LastPass
    <3> QED BY <1>1, <1>2, <3>1, <3>2 DEF PassOK
  <2>2. ClosedUnder(Loaded, DefsOf(batch))
    BY <1>2, <1>4, <2>1, NothingLeft
  <2> QED BY <1>1, <1>5, <2>2, EndBatchKeeps
<1>6. CASE /\ ~LastPass /\ prev_size' = Len(ud) /\ at' = 1
           /\ UNCHANGED <<batches, batch, ud, states, base_of, phase>>
  <2>1. FactoryTypeOK' /\ Based(states', base_of') /\ Once(states')
    BY <1>2, <1>3, <1>6 DEF FactoryTypeOK
  <2>2. Within'
    BY <1>2, <1>6 DEF Within, Before, Loaded, DefsOf, Closure, ClosedUnder
  <2>3. Read' = Read
    BY <1>1, <1>6 DEF Read
  <2>4. NoneForgotten'
    BY <1>2, <1>6, <2>3 DEF NoneForgotten, Done, DefsOf, Loaded
  <2>5. PassOK'
    BY <1>3, <1>6 DEF PassOK
  <2> QED BY <1>1, <1>6, <2>1, <2>2, <2>4, <2>5 DEF FactoryInv, Complete
<1> QED BY <1>5, <1>6 DEF EndPass

(* The states of the libraries, in some order, each once.                  *)
LEMMA LibraryListed ==
  /\ SetToSeq(Library) \in Seq(Name) /\ ToSet(SetToSeq(Library)) = Library
  /\ Once(SetToSeq(Library))
<1> DEFINE c == Cardinality(Library)
           q == SetToSeq(Library)
<1>1. IsFiniteSet(Library) /\ Library \subseteq Name
  BY FactoryAssumption
<1>2. c \in Nat /\ ExistsBijection(1..c, Library)
  BY <1>1, FS_CardinalityType
<1>3. IsFiniteSet(1..c) /\ Cardinality(1..c) = c
  <2>1. Cardinality(1..c) = IF 1 > c THEN 0 ELSE c - 1 + 1
    BY <1>2, FS_Interval
  <2> QED BY <1>2, <2>1, FS_Interval
<1>4. \E f \in [1..c -> Library] : IsInjective(f)
  BY <1>2 DEF ExistsBijection, Bijection, Injection
<1>5. q \in [1..c -> Library] /\ IsInjective(q)
  BY <1>4 DEF SetToSeq
<1> HIDE DEF q, c
<1>6. q \in Injection(1..c, Library)
  BY <1>5 DEF Injection
<1>7. q \in Surjection(1..c, Library)
  BY <1>1, <1>3, <1>6, FS_Injection DEF c
<1>8. q \in Seq(Name) /\ Len(q) = c /\ DOMAIN q = 1..c
  BY <1>1, <1>2, <1>5
<1>9. ToSet(q) = Library
  BY <1>5, <1>7, <1>8 DEF ToSet, Surjection
<1>10. Once(q)
  BY <1>5, <1>8 DEF Once, IsInjective
<1> QED BY <1>8, <1>9, <1>10 DEF q

(* Initially there are the libraries.                                      *)
LEMMA FactoryInitInv == FactoryInit => FactoryInv
<1> SUFFICES ASSUME FactoryInit PROVE FactoryInv
  OBVIOUS
<1>1. /\ batch = 1 /\ at = 1 /\ ud = <<>> /\ prev_size = 0
      /\ states = SetToSeq(Library) /\ phase = "read"
  BY DEF FactoryInit
<1>2. batches[1] \in Seq(Defs) /\ batches[2] \in Seq(Defs)
  <2>1. PICK n \in 0..MaxDefs : \E d \in [1..n -> Defs], m \in 0..n :
          batches = <<SubSeq(d, 1, m), SubSeq(d, m + 1, n)>>
    BY DEF FactoryInit
  <2>2. PICK d \in [1..n -> Defs], m \in 0..n :
          batches = <<SubSeq(d, 1, m), SubSeq(d, m + 1, n)>>
    BY <2>1
  <2>3. n \in Nat /\ m \in Nat /\ m <= n
    BY FactoryAssumption
  <2>4. d \in Seq(Defs) /\ Len(d) = n
    BY <2>3
  <2>5. SubSeq(d, 1, m) \in Seq(Defs)
    BY <2>3, <2>4
  <2>6. SubSeq(d, m + 1, n) \in Seq(Defs)
    BY <2>3, <2>4
  <2>7. batches[1] = SubSeq(d, 1, m) /\ batches[2] = SubSeq(d, m + 1, n)
    BY <2>2
  <2> QED BY <2>5, <2>6, <2>7
<1>3. states \in Seq(Name) /\ Loaded = Library /\ Once(states)
  BY <1>1, LibraryListed DEF Loaded
<1>4. FactoryTypeOK
  BY <1>1, <1>2, <1>3 DEF FactoryTypeOK
<1>5. Based(states, base_of)
  <2>1. \A n \in 1..Len(states) : states[n] \in Library
    BY <1>3, Members DEF Loaded
  <2> QED BY <2>1 DEF Based
<1>6. Within
  <2>1. Before = Library /\ Library \in SUBSET Name
    BY <1>1, FactoryAssumption DEF Before
  <2> QED BY <1>3, <2>1, ClosureHas DEF Within
<1>7. NoneForgotten
  <2>1. Read = {} /\ ToSet(ud) = {}
    BY <1>1 DEF Read, ToSet
  <2> QED BY <2>1 DEF NoneForgotten
<1> QED BY <1>1, <1>3, <1>4, <1>5, <1>6, <1>7 DEF FactoryInv, PassOK, Complete

(* The invariant gives what the factory promises.                          *)
LEMMA InvLoads == FactoryInv => LoadsResolvable
<1> SUFFICES ASSUME FactoryInv PROVE LoadsResolvable
  OBVIOUS
<1>1. states \in Seq(Name) /\ Len(states) \in Nat /\ DOMAIN states = 1..Len(states)
  BY Members DEF FactoryInv, FactoryTypeOK
<1>2. BasesFirst
  <2> SUFFICES ASSUME NEW s \in DOMAIN states, states[s] \notin Library \cup Provided
               PROVE  \E b \in 1..s - 1 : states[b] = base_of[states[s]]
    BY DEF BasesFirst
  <2>1. PICK b \in 1..Len(states) : b < s /\ states[b] = base_of[states[s]]
    BY <1>1 DEF FactoryInv, Based
  <2>2. b \in 1..s - 1
    BY <1>1, <2>1
  <2> QED BY <2>1, <2>2
<1>3. IsInjective(states)
  BY <1>1 DEF FactoryInv, Once, IsInjective
<1> QED BY <1>2, <1>3 DEF LoadsResolvable, FactoryInv, Complete, Loaded, DefsOf

(* Every step of the factory keeps its invariant.                          *)
LEMMA FactoryNextInv == FactoryInv /\ FactoryNext => FactoryInv'
BY ReadKeeps, EndReadKeeps, ResolveKeeps, EndPassKeeps DEF FactoryNext

(* So does the executor, which only takes the states over.                 *)
LEMMA FactoryFrame ==
  ASSUME FactoryInv, UNCHANGED factoryVars
  PROVE  FactoryInv'
<1>1. UNCHANGED <<batches, batch, at, ud, prev_size, states, base_of, phase>>
  BY DEF factoryVars
<1>2. FactoryTypeOK' /\ Based(states', base_of') /\ Once(states')
  BY <1>1 DEF FactoryInv, FactoryTypeOK
<1>3. Within' <=> Within
  BY <1>1 DEF Within, Before, Loaded, DefsOf, Closure, ClosedUnder
<1>4. NoneForgotten' <=> NoneForgotten
  BY <1>1 DEF NoneForgotten, Done, DefsOf, Loaded, Read
<1>5. PassOK'
  BY <1>1 DEF FactoryInv, PassOK, Available, HasState, Contains
<1>6. Complete'
  BY <1>1 DEF FactoryInv, Complete, Loaded, DefsOf, Closure, ClosedUnder
<1> QED BY <1>1, <1>2, <1>3, <1>4, <1>5, <1>6 DEF FactoryInv

-----------------------------------------------------------------------------
(* The steps of TransitionMap::init.                                       *)

(* Before the first entry there is nothing in the map.                     *)
LEMMA NothingAccepted ==
  ASSUME i = 1, entries \in Seq(Entries), DOMAIN map = {},
         first_valid_state = NoState, valid_init_state = FALSE, result # "loaded"
  PROVE  MapSoFar /\ StartSoFar
<1>1. Len(entries) \in Nat
  OBVIOUS
<1>2. \A k : Accepted(k) = {}
  BY <1>1 DEF Accepted
<1>3. Origins = {}
  BY DEF Origins
<1> QED BY <1>2, <1>3 DEF MapSoFar, StartSoFar

(* The entries, one by one.                                                *)
LEMMA EntryAt ==
  ASSUME MapTypeOK, NEW n \in 1..Len(entries)
  PROVE  /\ entries[n] \in Entries /\ entries[n].from \in Name /\ entries[n].to \in Name
         /\ entries[n].by \in Output /\ Len(entries) \in Nat /\ i \in Nat \ {0}
<1>1. entries \in Seq(Entries) /\ i \in 1..(Len(entries) + 1)
  BY DEF MapTypeOK
<1>2. entries[n] \in Entries /\ Len(entries) \in Nat /\ i \in Nat \ {0}
  BY <1>1
<1> QED BY <1>2, LoaderAssumption

(* An entry that is put in the map is the last one of its pair so far.     *)
LEMMA AcceptKeeps == Inv /\ Accept => Inv'
<1> SUFFICES ASSUME Inv, Accept PROVE Inv'
  OBVIOUS
<1>1. PICK t : t = entries[i]
  OBVIOUS
<1> DEFINE p == <<t.from, t.by>>
           v == [state |-> t.to, type |-> TypeOf(t)]
<1>2. /\ result = "loading" /\ i <= Len(entries) /\ Known(t) /\ i' = i + 1
      /\ map' = [x \in DOMAIN map \cup {p} |-> IF x = p THEN v ELSE map[x]]
      /\ valid_init_state' = (valid_init_state \/ init_state = t.from)
      /\ first_valid_state' = IF first_valid_state = NoState THEN t.from
                              ELSE first_valid_state
      /\ UNCHANGED <<factoryVars, entries, init, init_state, result>>
  BY <1>1 DEF Accept, Put
<1>3. FactoryInv' /\ MapTypeOK /\ MapSoFar /\ StartSoFar
  BY <1>2, FactoryFrame DEF Inv
<1>4. i \in 1..Len(entries) /\ Len(entries) \in Nat /\ i \in Nat \ {0}
  <2>1. i \in 1..(Len(entries) + 1) /\ Len(entries) \in Nat
    BY <1>3 DEF MapTypeOK
  <2> QED BY <1>2, <2>1
<1>5. t.from \in Name /\ t.by \in Output /\ p \in Name \X Output
  BY <1>1, <1>3, <1>4, EntryAt
<1>6. MapTypeOK'
  <2>1. i' \in 1..(Len(entries) + 1)
    BY <1>2, <1>4
  <2>2. valid_init_state' \in BOOLEAN
    BY <1>2, <1>3 DEF MapTypeOK
  <2> QED BY <1>2, <1>3, <2>1, <2>2 DEF MapTypeOK, factoryVars
<1>7. states' = states
  BY <1>2 DEF factoryVars
<1>8. \A n : Known(entries[n])' <=> Known(entries[n])
  BY <1>2, <1>7 DEF Known
<1> HIDE DEF p, v
<1>9. p = <<entries[i].from, entries[i].by>> /\ v = Given(i)
  BY <1>1 DEF p, v, Given
<1>10. \A k : /\ k # p => Accepted(k)' = Accepted(k)
              /\ k = p => Accepted(k)' = Accepted(k) \cup {i}
  <2>1. \A n \in 1..Len(entries) : n < i + 1 <=> n < i \/ n = i
    BY <1>4
  <2>2. \A k : Accepted(k)' = {n \in 1..Len(entries) : n < i + 1 /\ Known(entries[n])
                                        /\ k = <<entries[n].from, entries[n].by>>}
    BY <1>2, <1>8 DEF Accepted
  <2> QED BY <1>1, <1>2, <1>4, <1>9, <2>1, <2>2, ZenonT(60) DEF Accepted
<1>11. \A n : Given(n)' = Given(n)
  BY <1>2 DEF Given, TypeOf
<1>12. /\ DOMAIN map' = DOMAIN map \cup {p} /\ map'[p] = v
       /\ \A k \in DOMAIN map : k # p => map'[k] = map[k]
  BY <1>2
<1>13. MapSoFar'
  <2>1. DOMAIN map' = {k \in Name \X Output : Accepted(k)' # {}}
    BY <1>3, <1>5, <1>10, <1>12 DEF MapSoFar
  <2>2. ASSUME NEW k \in DOMAIN map'
        PROVE  \E n \in Accepted(k)' :
                 (\A x \in Accepted(k)' : x <= n) /\ map'[k] = Given(n)'
    <3>1. CASE k = p
      <4>1. Accepted(k)' = Accepted(k) \cup {i}
        BY <1>10, <3>1
      <4>2. \A x \in Accepted(k) \cup {i} : x <= i
        BY <1>4 DEF Accepted
      <4> QED BY <1>9, <1>11, <1>12, <3>1, <4>1, <4>2
    <3>2. CASE k # p
      <4>1. k \in DOMAIN map /\ Accepted(k)' = Accepted(k) /\ map'[k] = map[k]
        BY <1>10, <1>12, <3>2
      <4> QED BY <1>3, <1>11, <4>1 DEF MapSoFar
    <3> QED BY <3>1, <3>2
  <2> QED BY <2>1, <2>2 DEF MapSoFar
<1>14. StartSoFar'
  <2>1. p[1] = t.from
    BY DEF p
  <2>2. Origins' = Origins \cup {t.from}
    BY <1>12, <2>1 DEF Origins
  <2>3. t.from \in Loaded /\ Loaded' = Loaded
    BY <1>2, <1>7 DEF Known, Loaded
  <2>4. init_state = init /\ result' = "loading" /\ init' = init /\ DOMAIN map' # {}
    BY <1>2, <1>3, <1>12 DEF MapTypeOK
  <2>5. valid_init_state' <=> init' \in Origins'
    BY <1>2, <1>3, <2>2, <2>4 DEF StartSoFar
  <2>6. first_valid_state' \in Origins'
    <3>1. CASE first_valid_state = NoState
      BY <1>2, <2>2, <3>1
    <3>2. CASE first_valid_state # NoState
      BY <1>2, <1>3, <2>2, <3>2 DEF StartSoFar
    <3> QED BY <3>1, <3>2
  <2>7. Origins' \subseteq Loaded' /\ Origins' \subseteq Name
    BY <1>3, <1>5, <2>2, <2>3 DEF StartSoFar
  <2> QED BY <2>4, <2>5, <2>6, <2>7 DEF StartSoFar
<1> QED BY <1>3, <1>6, <1>13, <1>14 DEF Inv

(* An entry with an unknown state adds nothing.                            *)
LEMMA SkipKeeps == Inv /\ Skip => Inv'
<1> SUFFICES ASSUME Inv, Skip PROVE Inv'
  OBVIOUS
<1>1. /\ result = "loading" /\ i <= Len(entries) /\ ~Known(entries[i]) /\ i' = i + 1
      /\ UNCHANGED <<factoryVars, entries, map, init, init_state, first_valid_state,
                     valid_init_state, result>>
  BY DEF Skip
<1>2. FactoryInv' /\ MapTypeOK /\ MapSoFar /\ StartSoFar
  BY <1>1, FactoryFrame DEF Inv
<1>3. i \in 1..Len(entries) /\ Len(entries) \in Nat
  <2>1. i \in 1..(Len(entries) + 1) /\ Len(entries) \in Nat
    BY <1>2 DEF MapTypeOK
  <2> QED BY <1>1, <2>1
<1>4. MapTypeOK'
  <2>1. i' \in 1..(Len(entries) + 1)
    BY <1>1, <1>3
  <2> QED BY <1>1, <1>2, <2>1 DEF MapTypeOK, factoryVars
<1>5. states' = states
  BY <1>1 DEF factoryVars
<1>6. \A n : Known(entries[n])' <=> Known(entries[n])
  BY <1>1, <1>5 DEF Known
<1>7. \A k : Accepted(k)' = Accepted(k)
  <2>1. \A n \in 1..Len(entries) : n < i + 1 <=> n < i \/ n = i
    BY <1>3
  <2> QED BY <1>1, <1>6, <2>1 DEF Accepted
<1>8. MapSoFar'
  <2>1. \A n : Given(n)' = Given(n)
    BY <1>1 DEF Given, TypeOf
  <2> QED BY <1>1, <1>2, <1>7, <2>1 DEF MapSoFar
<1>9. StartSoFar'
  BY <1>1, <1>2, <1>5 DEF StartSoFar, Origins, Loaded
<1> QED BY <1>2, <1>4, <1>8, <1>9 DEF Inv

(* The map does not change when it is refused or taken.                    *)
LEMMA MapFrame ==
  ASSUME MapSoFar, UNCHANGED <<states, entries, i, map>>
  PROVE  MapSoFar' /\ Origins' = Origins /\ Loaded' = Loaded
<1>1. Loaded' = Loaded /\ Origins' = Origins
  BY DEF Loaded, Origins
<1>2. \A k : Accepted(k)' = Accepted(k)
  BY DEF Accepted, Known
<1>3. \A n : Given(n)' = Given(n)
  BY DEF Given, TypeOf
<1> QED BY <1>1, <1>2, <1>3 DEF MapSoFar

(* The loop ends by an exception or with an initial state.                 *)
LEMMA EndKeeps == Inv /\ (Reject \/ Finish) => Inv'
<1> SUFFICES ASSUME Inv, Reject \/ Finish PROVE Inv'
  OBVIOUS
<1>1. /\ result = "loading"
      /\ UNCHANGED <<factoryVars, entries, i, map, init, first_valid_state, valid_init_state>>
  BY DEF Reject, Finish
<1>2. FactoryInv' /\ MapTypeOK /\ MapSoFar /\ StartSoFar
  BY <1>1, FactoryFrame DEF Inv
<1>3. states' = states /\ phase' = phase
  BY <1>1 DEF factoryVars
<1>4. MapSoFar' /\ Origins' = Origins /\ Loaded' = Loaded
  BY <1>1, <1>2, <1>3, MapFrame
<1>5. phase = "used" /\ init_state = init
  BY <1>1, <1>2 DEF MapTypeOK
<1>6. CASE result' = "thrown"
  <2>1. MapTypeOK'
    BY <1>1, <1>2, <1>3, <1>5, <1>6 DEF MapTypeOK
  <2>2. StartSoFar'
    BY <1>1, <1>2, <1>4, <1>6 DEF StartSoFar
  <2> QED BY <1>2, <1>4, <2>1, <2>2 DEF Inv
<1>7. CASE result' # "thrown"
  <2>1. /\ i > Len(entries) /\ DOMAIN map # {} /\ result' = "loaded"
        /\ init_state' = IF valid_init_state THEN init_state ELSE first_valid_state
    BY <1>7 DEF Reject, Finish
  <2>2. i = Len(entries) + 1
    <3>1. i \in 1..(Len(entries) + 1) /\ Len(entries) \in Nat
      BY <1>2 DEF MapTypeOK
    <3> QED BY <2>1, <3>1
  <2>3. MapTypeOK'
    BY <1>1, <1>2, <1>3, <1>5, <2>1, <2>2 DEF MapTypeOK
  <2>4. StartSoFar'
    BY <1>1, <1>2, <1>4, <1>5, <2>1 DEF StartSoFar
  <2> QED BY <1>2, <1>4, <2>3, <2>4 DEF Inv
<1> QED BY <1>6, <1>7

(* The factory loads while the map is empty.                               *)
LEMMA LoadKeeps == Inv /\ LoadStates => Inv'
<1> SUFFICES ASSUME Inv, FactoryNext, UNCHANGED mapVars PROVE Inv'
  BY DEF LoadStates
<1>1. UNCHANGED <<entries, i, map, init, init_state, first_valid_state,
                  valid_init_state, result>>
  BY DEF mapVars
<1>2. FactoryInv' /\ MapTypeOK
  BY FactoryNextInv DEF Inv
<1>3. phase # "used" /\ phase' # "used"
  BY DEF FactoryNext, ReadDefinition, EndRead, EndBatch, ResolveOne, EndPass, Load
<1>4. /\ result = "waiting" /\ entries = <<>> /\ i = 1 /\ DOMAIN map = {}
      /\ first_valid_state = NoState /\ valid_init_state = FALSE
  BY <1>2, <1>3 DEF MapTypeOK
<1>5. MapTypeOK'
  BY <1>1, <1>2, <1>3, <1>4 DEF MapTypeOK
<1>6. MapSoFar' /\ StartSoFar'
  <2>1. \A k : Accepted(k)' = {}
    <3>1. Len(entries) = 0
      BY <1>4
    <3> QED BY <1>1, <3>1 DEF Accepted
  <2>2. Origins' = {}
    BY <1>1, <1>4 DEF Origins
  <2> QED BY <1>1, <1>4, <2>1, <2>2 DEF MapSoFar, StartSoFar
<1> QED BY <1>2, <1>5, <1>6 DEF Inv

(* The executor's configuration.                                           *)
LEMMA ConfigureKeeps == Inv /\ Configure => Inv'
<1> SUFFICES ASSUME Inv, Configure PROVE Inv'
  OBVIOUS
<1>1. /\ phase = "loaded" /\ phase' = "used" /\ batches' = <<<<>>, <<>>>>
      /\ UNCHANGED <<batch, at, ud, prev_size, states, base_of>>
      /\ entries' \in UNION {[1..n -> Entries] : n \in 0..MaxEntries}
      /\ init' \in Name \cup {NoState} /\ init_state' = init'
      /\ result' = IF entries' = <<>> THEN "thrown" ELSE "loading"
      /\ UNCHANGED <<i, map, first_valid_state, valid_init_state>>
  BY DEF Configure
<1>2. FactoryInv /\ MapTypeOK
  BY DEF Inv
<1>3. /\ i = 1 /\ DOMAIN map = {}
      /\ first_valid_state = NoState /\ valid_init_state = FALSE
  BY <1>1, <1>2 DEF MapTypeOK
<1>4. FactoryInv'
  <2>1. batches'[1] = <<>> /\ batches'[2] = <<>>
    BY <1>1
  <2>2. FactoryTypeOK' /\ Based(states', base_of') /\ Once(states')
    BY <1>1, <1>2, <2>1 DEF FactoryInv, FactoryTypeOK
  <2> QED BY <1>1, <2>2 DEF FactoryInv, PassOK, Complete
<1>5. entries' \in Seq(Entries)
  <2>1. PICK n \in 0..MaxEntries : entries' \in [1..n -> Entries]
    BY <1>1
  <2>2. n \in Nat
    BY LoaderAssumption
  <2> QED BY <2>1, <2>2
<1>6. MapTypeOK'
  <2>1. i' \in 1..(Len(entries') + 1) /\ Len(entries') \in Nat
    BY <1>1, <1>3, <1>5
  <2>2. result' \in {"loading", "thrown"}
    BY <1>1
  <2>3. valid_init_state' \in BOOLEAN
    BY <1>1, <1>3
  <2> QED BY <1>1, <1>5, <2>1, <2>2, <2>3 DEF MapTypeOK
<1>7. MapSoFar' /\ StartSoFar'
  <2>1. \A k : Accepted(k)' = {}
    <3>1. Len(entries') \in Nat
      BY <1>5
    <3> QED BY <1>1, <1>3, <3>1 DEF Accepted
  <2>2. Origins' = {}
    BY <1>1, <1>3 DEF Origins
  <2>3. result' # "loaded"
    BY <1>1
  <2> QED BY <1>1, <1>3, <2>1, <2>2, <2>3 DEF MapSoFar, StartSoFar
<1> QED BY <1>4, <1>6, <1>7 DEF Inv

(* The initial states.                                                     *)
LEMMA InitInv == Init => Inv
<1> SUFFICES ASSUME Init PROVE Inv
  OBVIOUS
<1>1. /\ FactoryInit /\ entries = <<>> /\ init = NoState /\ init_state = NoState
      /\ i = 1 /\ DOMAIN map = {} /\ first_valid_state = NoState
      /\ valid_init_state = FALSE /\ result = "waiting"
  BY DEF Init
<1>2. entries \in Seq(Entries) /\ Len(entries) = 0
  BY <1>1
<1>3. phase = "read"
  BY <1>1 DEF FactoryInit
<1>4. MapTypeOK
  <2>1. i \in 1..(Len(entries) + 1)
    <3>1. i = 1 /\ Len(entries) = 0
      BY <1>1, <1>2
    <3> QED BY ONLY <3>1
  <2>2. init \in Name \cup {NoState} /\ valid_init_state \in BOOLEAN
    BY <1>1
  <2> QED BY <1>1, <1>2, <1>3, <2>1, <2>2 DEF MapTypeOK
<1>5. MapSoFar /\ StartSoFar
  BY <1>1, <1>2, NothingAccepted
<1> QED BY <1>1, <1>4, <1>5, FactoryInitInv DEF Inv

(* Every step keeps the invariant.                                         *)
LEMMA NextInv == Inv /\ [Next]_vars => Inv'
<1> SUFFICES ASSUME Inv, [Next]_vars PROVE Inv'
  OBVIOUS
<1>1. CASE Next
  BY <1>1, LoadKeeps, ConfigureKeeps, SkipKeeps, AcceptKeeps, EndKeeps DEF Next
<1>2. CASE UNCHANGED vars
  <2>1. /\ UNCHANGED factoryVars
        /\ UNCHANGED <<entries, i, map, init, init_state, first_valid_state,
                       valid_init_state, result>>
    BY <1>2 DEF vars, mapVars
  <2>2. states' = states /\ phase' = phase
    BY <2>1 DEF factoryVars
  <2>3. FactoryInv' /\ MapTypeOK /\ MapSoFar /\ StartSoFar
    BY <2>1, FactoryFrame DEF Inv
  <2>4. MapSoFar' /\ Origins' = Origins /\ Loaded' = Loaded
    BY <2>1, <2>2, <2>3, MapFrame
  <2>5. MapTypeOK'
    BY <2>1, <2>2, <2>3 DEF MapTypeOK
  <2>6. StartSoFar'
    BY <2>1, <2>3, <2>4 DEF StartSoFar
  <2> QED BY <2>3, <2>4, <2>5, <2>6 DEF Inv
<1> QED BY <1>1, <1>2

-----------------------------------------------------------------------------
(* The strengthened invariant holds throughout.                            *)
THEOREM Invariance == Spec => []Inv
BY InitInv, NextInv, PTL DEF Spec

(* StateFactory::resolve loads all that the definitions can define and no  *)
(* more, bases first, whatever their order and their number.               *)
THEOREM LoadsResolvableAlways == Spec => []LoadsResolvable
<1>1. Inv => LoadsResolvable
  BY InvLoads DEF Inv
<1> QED BY <1>1, Invariance, PTL

(* The last of some numbers is the largest one.                            *)
LEMMA LatestIs ==
  ASSUME NEW S \in SUBSET Nat, NEW n \in S, \A x \in S : x <= n
  PROVE  Latest(S) = n
<1> DEFINE l == Latest(S)
<1>1. l \in S /\ \A x \in S : x <= l
  BY DEF Latest
<1> HIDE DEF l
<1>2. l <= n /\ n <= l /\ l \in Nat /\ n \in Nat
  BY <1>1
<1>3. l = n
  BY <1>2
<1> QED BY <1>3 DEF l

(* TransitionMap::init gives the executor the latest entry of every pair   *)
(* and an initial state it can leave, for every configuration.             *)
THEOREM LoadedAsConfiguredAlways == Spec => []LoadedAsConfigured
<1>1. ASSUME Inv, result = "loaded" PROVE LoadedAsConfigured
  <2>1. MapTypeOK /\ MapSoFar /\ StartSoFar
    BY <1>1 DEF Inv
  <2>2. /\ entries \in Seq(Entries) /\ Len(entries) \in Nat
        /\ DOMAIN entries = 1..Len(entries) /\ i = Len(entries) + 1
    BY <1>1, <2>1 DEF MapTypeOK
  <2>3. \A n \in 1..Len(entries) : n < i
    BY <2>2
  <2>4. \A k : Effective(k) = Accepted(k) /\ Accepted(k) \in SUBSET Nat
    BY <2>2, <2>3 DEF Effective, Accepted
  <2>5. MapIsLatest
    <3>1. DOMAIN map = {k \in Name \X Output : Effective(k) # {}}
      BY <2>1, <2>4 DEF MapSoFar
    <3>2. ASSUME NEW k \in DOMAIN map PROVE map[k] = Given(Latest(Effective(k)))
      <4>1. PICK n \in Accepted(k) : (\A x \in Accepted(k) : x <= n) /\ map[k] = Given(n)
        BY <2>1 DEF MapSoFar
      <4>2. Latest(Accepted(k)) = n
        BY <2>4, <4>1, LatestIs
      <4> QED BY <2>4, <4>1, <4>2
    <3> QED BY <3>1, <3>2 DEF MapIsLatest, Given
  <2>6. InitStateLeaves
    <3>1. \A s : Transitions(map, s) # {} <=> s \in Origins
      BY DEF Transitions, Origins
    <3> QED BY <1>1, <2>1, <3>1 DEF InitStateLeaves, StartSoFar, Loaded
  <2> QED BY <2>5, <2>6 DEF LoadedAsConfigured
<1>2. Inv => LoadedAsConfigured
  <2>1. ASSUME result # "loaded" PROVE LoadedAsConfigured
    BY <2>1 DEF LoadedAsConfigured, MapIsLatest, InitStateLeaves
  <2> QED BY <1>1, <2>1
<1> QED BY <1>2, Invariance, PTL

(* What Executor.tla assumes of its map and of its initial state.          *)
MapFits ==
  result = "loaded" =>
    /\ DOMAIN map \subseteq Loaded \X (Output \cup {DEFAULT})
    /\ \A k \in DOMAIN map : map[k] \in [state : Loaded, type : Types]
    /\ init_state \in Loaded

(* TransitionMap::init leaves the executor no transition from or to a      *)
(* state that the factory cannot create: the assumption under which the    *)
(* executor is verified (MapAssumption) is what loading establishes.       *)
THEOREM LoadingFitsExecutor == Spec => []MapFits
<1>1. ASSUME Inv, result = "loaded" PROVE MapFits
  <2>1. MapTypeOK /\ MapSoFar /\ StartSoFar
    BY <1>1 DEF Inv
  <2>2. ASSUME NEW k \in DOMAIN map
        PROVE  /\ k \in Loaded \X (Output \cup {DEFAULT})
               /\ map[k] \in [state : Loaded, type : Types]
    <3>1. PICK n \in Accepted(k) : map[k] = Given(n)
      BY <2>1 DEF MapSoFar
    <3>2. Known(entries[n]) /\ k = <<entries[n].from, entries[n].by>>
      BY <3>1 DEF Accepted
    <3>3. k \in Name \X Output
      BY <2>1 DEF MapSoFar
    <3>4. entries[n].from \in Loaded /\ entries[n].to \in Loaded
      BY <3>2 DEF Known, Loaded
    <3>5. entries[n].by \in Output
      BY <3>2, <3>3
    <3>6. TypeOf(entries[n]) \in Types
      BY DEF TypeOf, Types
    <3>7. map[k] \in [state : Loaded, type : Types]
      BY <3>1, <3>4, <3>6 DEF Given
    <3> QED BY <3>2, <3>4, <3>5, <3>7
  <2>3. init_state \in Loaded
    BY <1>1, <2>1 DEF StartSoFar
  <2> QED BY <2>2, <2>3 DEF MapFits
<1>2. Inv => MapFits
  BY <1>1 DEF MapFits
<1> QED BY <1>2, Invariance, PTL
=============================================================================
