------------------------- MODULE ConstraintsProofs --------------------------
(***************************************************************************)
(* What MCController hands to the solver: contacts and collisions, for any *)
(* robots, contacts, bodies, keys and number of calls.                     *)
(*                                                                         *)
(* Every invariant of Contacts is inductive once the domains are known and *)
(* the indices of its robots are.  Those of Collisions hold together:      *)
(* which elements of the GUI are live and what is in the QP rest on the    *)
(* ids, which collisions there are on what each manager was asked, in      *)
(* either order, and on the keys.                                          *)
(***************************************************************************)
EXTENDS Contacts, Collisions, FiniteSetTheorems, SequenceTheorems, TLAPS

-----------------------------------------------------------------------------
(* Contacts                                                                *)
(* contacts_ is a map over contacts, robots_ a list of robots.             *)
Typed ==
  /\ robots \in Seq(RobotName) /\ shifted \in BOOLEAN
  /\ contacts = [p \in DOMAIN contacts |-> contacts[p]]
  /\ DOMAIN contacts \subseteq Pair
  /\ contacts_changed \in BOOLEAN
  /\ cleared \in BOOLEAN

(* What a step does: a "Remove" button is a removal, an exception changes  *)
(* nothing, and robots come and go on their own.                           *)
LEMMA StepForms ==
  [ContactsNext]_robotContactVars =>
    \/ /\ UNCHANGED robots
       /\ \/ \E p \in Pair, v \in Param : AddContact(p, v)
          \/ \E p \in Pair : RemoveContact(p)
          \/ ClearContacts
          \/ \E P \in SUBSET Pair : \E c \in [P -> Param] : SetContacts(c)
          \/ UpdateContacts
          \/ UNCHANGED contactVars
    \/ RobotLoaded \/ RobotRemoved
BY DEF ContactsNext, EditContacts, PressRemove, UpdateThrows, robotContactVars

(* What the editions of the contacts leave alone.                          *)
LEMMA EditsAlone ==
  /\ \A p, v : AddContact(p, v) => UNCHANGED <<solver, shifted>>
  /\ \A p : RemoveContact(p) => UNCHANGED <<solver, shifted>>
  /\ ClearContacts => UNCHANGED <<solver, shifted>>
  /\ \A c : SetContacts(c) => UNCHANGED <<solver, shifted>>
BY DEF AddContact, RemoveContact, ClearContacts, SetContacts

(* A robot is at its index.                                                *)
LEMMA AtIndex ==
  ASSUME NEW r, HasRobot(r)
  PROVE  IndexOf(r) \in DOMAIN robots /\ robots[IndexOf(r)] = r
<1>1. PICK i \in DOMAIN robots : robots[i] = r
  BY DEF HasRobot, ToSet
<1> QED BY <1>1 DEF IndexOf

(* The domains stay inside Pair, and the robots those there are.           *)
LEMMA TypedStep == Typed /\ [ContactsNext]_robotContactVars => Typed'
<1> SUFFICES ASSUME Typed, [ContactsNext]_robotContactVars PROVE Typed'
  OBVIOUS
<1> USE DEF Typed
<1>1. ASSUME UNCHANGED robots, NEW p \in Pair, NEW v \in Param, AddContact(p, v)
      PROVE Typed'
  BY <1>1 DEF AddContact, WithContact
<1>2. ASSUME UNCHANGED robots, NEW p \in Pair, RemoveContact(p) PROVE Typed'
  BY <1>2 DEF RemoveContact, Restrict
<1>3. CASE UNCHANGED robots /\ ClearContacts
  BY <1>3 DEF ClearContacts, NoContacts
<1>4. ASSUME UNCHANGED robots, NEW P \in SUBSET Pair, NEW c \in [P -> Param], SetContacts(c)
      PROVE Typed'
  BY <1>4 DEF SetContacts
<1>5. CASE UNCHANGED robots /\ UpdateContacts
  BY <1>5 DEF UpdateContacts
<1>6. CASE UNCHANGED robots /\ UNCHANGED contactVars
  BY <1>6 DEF contactVars
<1>7. CASE RobotLoaded
  <2>1. robots' \in Seq(RobotName)
    BY <1>7 DEF RobotLoaded, LoadRobot
  <2> QED BY <1>7, <2>1 DEF RobotLoaded, contactVars
<1>8. CASE RobotRemoved
  <2>1. PICK r \in RobotName : HasRobot(r) /\ robots' = RemoveAt(robots, IndexOf(r))
    BY <1>8 DEF RobotRemoved, RemoveRobot
  <2>2. IndexOf(r) \in 1..Len(robots)
    BY <2>1, AtIndex
  <2>3. RemoveAt(robots, IndexOf(r)) \in Seq(RobotName)
    BY <2>2 DEF RemoveAt
  <2> QED BY <1>8, <2>1, <2>3 DEF RobotRemoved
<1> QED BY <1>1, <1>2, <1>3, <1>4, <1>5, <1>6, <1>7, <1>8, StepForms

(* A step keeps every contact covered by the flag or by the solver.        *)
Covered ==
  ~contacts_changed =>
    \A p \in DOMAIN contacts \ Fixed :
      p \in DOMAIN solver /\ solver[p].v = contacts[p]
LEMMA CoveredStep ==
  Typed /\ Covered /\ [ContactsNext]_robotContactVars => Covered'
<1> SUFFICES ASSUME Typed, Covered, [ContactsNext]_robotContactVars PROVE Covered'
  OBVIOUS
<1> USE DEF Covered, Typed
<1>1. ASSUME NEW p \in Pair, NEW v \in Param, AddContact(p, v) PROVE Covered'
  BY <1>1 DEF AddContact
<1>2. ASSUME NEW p \in Pair, RemoveContact(p) PROVE Covered'
  BY <1>2 DEF RemoveContact, Restrict
<1>3. CASE ClearContacts
  BY <1>3 DEF ClearContacts, NoContacts
<1>4. ASSUME NEW P \in SUBSET Pair, NEW c \in [P -> Param], SetContacts(c) PROVE Covered'
  BY <1>4 DEF SetContacts
<1>5. CASE UpdateContacts
  BY <1>5 DEF UpdateContacts, InForce
<1>6. CASE UNCHANGED contactVars
  BY <1>6 DEF contactVars
<1>7. CASE RobotLoaded \/ RobotRemoved
  BY <1>7 DEF RobotLoaded, RobotRemoved, contactVars
<1> QED BY <1>1, <1>2, <1>3, <1>4, <1>5, <1>6, <1>7, StepForms

(* A step keeps the indices in the solver right, unless a robot leaves.    *)
Indexed ==
  ~shifted =>
    \A p \in DOMAIN solver : \A r \in RobotsOf[p] :
      solver[p].at[r] \in DOMAIN robots /\ robots[solver[p].at[r]] = r
LEMMA IndexedStep ==
  Typed /\ Indexed /\ [ContactsNext]_robotContactVars => Indexed'
<1> SUFFICES ASSUME Typed, Indexed, [ContactsNext]_robotContactVars PROVE Indexed'
  OBVIOUS
<1>1. CASE UNCHANGED <<robots, solver, shifted>>
  BY <1>1 DEF Indexed
<1>2. CASE UNCHANGED robots /\ UpdateContacts
  <2>1. CASE ~contacts_changed
    <3>1. solver' = solver /\ shifted' = shifted
      BY <1>2, <2>1 DEF UpdateContacts, Typed
    <3> QED BY <1>2, <3>1 DEF Indexed
  <2>2. CASE contacts_changed
    <3>1. /\ solver' = InForce(contacts)
          /\ \A p \in DOMAIN contacts : \A r \in RobotsOf[p] : HasRobot(r)
      BY <1>2, <2>2 DEF UpdateContacts, Updatable, Valid
    <3>2. ASSUME NEW p \in DOMAIN solver', NEW r \in RobotsOf[p]
          PROVE  solver'[p].at[r] \in DOMAIN robots /\ robots[solver'[p].at[r]] = r
      <4>1. p \in DOMAIN contacts /\ solver'[p].at[r] = IndexOf(r)
        BY <3>1, <3>2 DEF InForce
      <4>2. IndexOf(r) \in DOMAIN robots /\ robots[IndexOf(r)] = r
        BY <3>1, <4>1, AtIndex
      <4> QED BY <4>1, <4>2
    <3> QED BY <1>2, <3>2 DEF Indexed
  <2> QED BY <2>1, <2>2 DEF Typed
<1>3. CASE RobotLoaded
  <2>1. PICK q \in RobotName : robots' = Append(robots, q)
    BY <1>3 DEF RobotLoaded, LoadRobot
  <2>2. \A i \in DOMAIN robots : i \in DOMAIN robots' /\ robots'[i] = robots[i]
    BY <2>1 DEF Typed
  <2>3. UNCHANGED <<solver, shifted>>
    BY <1>3 DEF RobotLoaded, contactVars
  <2> QED BY <2>2, <2>3 DEF Indexed
<1>4. CASE RobotRemoved
  BY <1>4 DEF RobotRemoved, Indexed
<1>5. CASE UNCHANGED robots /\ UNCHANGED contactVars
  BY <1>1, <1>5 DEF contactVars
<1> QED BY <1>1, <1>2, <1>3, <1>4, <1>5, StepForms, EditsAlone

(* A step leaves stale contacts in the solver only by clearContacts().     *)
LEMMA StaleStep ==
  Typed /\ StaleOnlyAfterClear /\ [ContactsNext]_robotContactVars
    => StaleOnlyAfterClear'
<1> SUFFICES ASSUME Typed, StaleOnlyAfterClear, [ContactsNext]_robotContactVars
             PROVE StaleOnlyAfterClear'
  OBVIOUS
<1> USE DEF StaleOnlyAfterClear, Typed
<1>1. ASSUME NEW p \in Pair, NEW v \in Param, AddContact(p, v)
      PROVE StaleOnlyAfterClear'
  BY <1>1 DEF AddContact
<1>2. ASSUME NEW p \in Pair, RemoveContact(p) PROVE StaleOnlyAfterClear'
  <2>1. CASE p \in DOMAIN contacts
    BY <1>2, <2>1 DEF RemoveContact
  <2>2. CASE p \notin DOMAIN contacts
    <3>1. contacts' = contacts
      BY <1>2, <2>2 DEF RemoveContact, Restrict
    <3> QED BY <1>2, <2>2, <3>1 DEF RemoveContact
  <2> QED BY <2>1, <2>2
<1>3. CASE ClearContacts
  BY <1>3 DEF ClearContacts
<1>4. ASSUME NEW P \in SUBSET Pair, NEW c \in [P -> Param], SetContacts(c)
      PROVE StaleOnlyAfterClear'
  <2>1. ASSUME DOMAIN c = {} PROVE c = NoContacts
    BY <2>1 DEF NoContacts
  <2> QED BY <1>4, <2>1 DEF SetContacts
<1>5. CASE UpdateContacts
  <2>1. CASE contacts_changed
    <3>1. [p \in DOMAIN solver |-> solver[p].v]' = Kept(contacts)
      BY <1>5, <2>1 DEF UpdateContacts, InForce, Kept, Restrict
    <3> QED BY <1>5, <3>1 DEF UpdateContacts
  <2>2. CASE ~contacts_changed
    BY <1>5, <2>2 DEF UpdateContacts
  <2> QED BY <2>1, <2>2
<1>6. CASE UNCHANGED contactVars
  BY <1>6 DEF contactVars
<1>7. CASE RobotLoaded \/ RobotRemoved
  BY <1>7 DEF RobotLoaded, RobotRemoved, contactVars
<1> QED BY <1>1, <1>2, <1>3, <1>4, <1>5, <1>6, <1>7, StepForms

(* A step erases an element only when it raises the flag or clears.        *)
LEMMA ButtonsStep ==
  Typed /\ ButtonsFollowContacts /\ [ContactsNext]_robotContactVars
    => ButtonsFollowContacts'
<1> SUFFICES ASSUME Typed, ButtonsFollowContacts,
                    [ContactsNext]_robotContactVars
             PROVE ButtonsFollowContacts'
  OBVIOUS
<1> USE DEF ButtonsFollowContacts, Typed
<1>1. ASSUME NEW p \in Pair, NEW v \in Param, AddContact(p, v)
      PROVE ButtonsFollowContacts'
  BY <1>1 DEF AddContact, WithContact
<1>2. ASSUME NEW p \in Pair, RemoveContact(p) PROVE ButtonsFollowContacts'
  BY <1>2 DEF RemoveContact, Erase, Restrict
<1>3. CASE ClearContacts
  BY <1>3 DEF ClearContacts, Erase
<1>4. ASSUME NEW P \in SUBSET Pair, NEW c \in [P -> Param], SetContacts(c)
      PROVE ButtonsFollowContacts'
  BY <1>4 DEF SetContacts, Erase
<1>5. CASE UpdateContacts
  BY <1>5 DEF UpdateContacts
<1>6. CASE UNCHANGED contactVars
  BY <1>6 DEF contactVars
<1>7. CASE RobotLoaded \/ RobotRemoved
  BY <1>7 DEF RobotLoaded, RobotRemoved, contactVars
<1> QED BY <1>1, <1>2, <1>3, <1>4, <1>5, <1>6, <1>7, StepForms

(* contacts_changed_ never hides a contact from the solver, for any set of *)
(* contacts and parameters: updateContacts() may trust it.  And as long as *)
(* no robot leaves, the solver's indices are those of the contact's robots.*)
THEOREM ContactsReachSolver == ContactsSpec => []NoContactMissing
<1>1. ContactsInit => Typed /\ Covered /\ Indexed
  BY RobotsAssumption
     DEF ContactsInit, Typed, Covered, Indexed, NoContacts
<1>2. Typed /\ Covered /\ Indexed /\ [ContactsNext]_robotContactVars
        => (Typed /\ Covered /\ Indexed)'
  BY TypedStep, CoveredStep, IndexedStep
<1>3. Covered /\ Indexed => NoContactMissing
  BY DEF Covered, Indexed, NoContactMissing
<1> QED BY <1>1, <1>2, <1>3, PTL DEF ContactsSpec

(* A removed contact stays in force only when clearContacts() found        *)
(* contacts_ already empty, for any set of contacts and parameters.        *)
THEOREM StaleContactsComeFromClear == ContactsSpec => []StaleOnlyAfterClear
<1>1. ContactsInit => Typed /\ StaleOnlyAfterClear
  <2>1. Kept(NoContacts) = NoContacts
    BY DEF Kept, Restrict, NoContacts
  <2>2. DOMAIN NoContacts = {} /\ NoContacts = [p \in {} |-> NoContacts[p]]
    BY DEF NoContacts
  <2>3. [p \in DOMAIN NoContacts |-> NoContacts[p].v] = NoContacts
    BY DEF NoContacts
  <2>4. Loaded \in Seq(RobotName)
    BY RobotsAssumption
  <2> QED BY <2>1, <2>2, <2>3, <2>4 DEF ContactsInit, Typed, StaleOnlyAfterClear
<1>2. Typed /\ StaleOnlyAfterClear /\ [ContactsNext]_robotContactVars
        => (Typed /\ StaleOnlyAfterClear)'
  BY TypedStep, StaleStep
<1> QED BY <1>1, <1>2, PTL DEF ContactsSpec

(* A "Remove" button refers to an erased contact only until the next       *)
(* update or after clearContacts(), for any set of contacts.               *)
THEOREM RemoveButtonsFollow == ContactsSpec => []ButtonsFollowContacts
<1>1. ContactsInit => Typed /\ ButtonsFollowContacts
  BY RobotsAssumption DEF ContactsInit, Typed, ButtonsFollowContacts, NoContacts
<1>2. Typed /\ ButtonsFollowContacts /\ [ContactsNext]_robotContactVars
        => (Typed /\ ButtonsFollowContacts)'
  BY TypedStep, ButtonsStep
<1> QED BY <1>1, <1>2, PTL DEF ContactsSpec

-----------------------------------------------------------------------------
(* Collisions                                                              *)
IdMap == UNION {[D -> Nat] : D \in SUBSET Col}
Constraint == [at : Nat \X Nat, ids : IdMap, next : Nat, active : SUBSET Nat,
               monitored : SUBSET Nat]
Owner == Ends \cup {Own}
GuiElement == [cat : Ends, kind : {"auto", "button", "label"},
               col : Col \cup {<<>>}, owner : Owner, id : Nat]
LogEntry == [owner : Owner \cup {Dead}, id : Nat]

TypeOK ==
  /\ robots \in Seq(RobotName)
  /\ DOMAIN cc \subseteq Owner
  /\ \A o \in DOMAIN cc : cc[o] \in Constraint
  /\ gui \subseteq GuiElement
  /\ \A c \in DOMAIN log : log[c] \in LogEntry

(* The ids of a constraint were given once each, in turn, and its          *)
(* collisions have different keys.                                         *)
IdsOK(k) ==
  /\ \A c \in DOMAIN k.ids : k.ids[c] < k.next
  /\ \A c, d \in DOMAIN k.ids : k.ids[c] = k.ids[d] => c = d
  /\ \A c, d \in DOMAIN k.ids : KeyOf[c] = KeyOf[d] => c = d
AllIdsOK == \A o \in DOMAIN cc : IdsOK(cc[o])

(* What hasCollision should tell, seen from the managers: each one has     *)
(* what was asked of it, what is asked is asked in both orders and of a    *)
(* manager that is there, and nothing was asked of two managers that hand  *)
(* the calls to each other.                                                *)
Asked == wanted \cup kept
Tells(m) ==
  \A d \in Col :
    /\ d \in DOMAIN cc[m].ids => <<m, d>> \in Asked /\ <<m, d>> \in named
    /\ <<m, d>> \in Asked => d \in DOMAIN cc[m].ids \/ ClashAt(m, d)
Mirrored ==
  \A p \in Ends, c \in Col :
    p[1] # p[2] => (<<p, c>> \in Asked <=> <<Swap(p), Swap(c)>> \in Asked)
Homed ==
  \A p \in Ends, c \in Col :
    <<p, c>> \in Asked => p \in DOMAIN cc \/ Swap(p) \in DOMAIN cc
Twins ==
  \A p \in Ends :
    Endless(p) => /\ p \in Configured /\ Swap(p) \in Configured
                  /\ \A c \in Col : <<p, c>> \notin Asked
AskedOK ==
  /\ \A m \in DOMAIN cc : m # Own => Tells(m)
  /\ Mirrored /\ Homed /\ Twins

(* An element is in its owner's category, and a label is monitored.        *)
ElementOK(e) ==
  /\ e.owner \in DOMAIN cc /\ e.cat = CategoryOf(e.owner)
  /\ e.kind # "auto" =>
       /\ e.col \in DOMAIN cc[e.owner].ids
       /\ cc[e.owner].ids[e.col] = e.id
  /\ e.kind = "label" => e.id \in cc[e.owner].monitored
GuiOK == \A e \in gui : ElementOK(e)

(* A log entry has an id that its constraint has given, to its collision.  *)
EntryOK(c) ==
  /\ log[c].owner \in DOMAIN cc \cup {Dead}
  /\ log[c].owner \in DOMAIN cc =>
       LET k == cc[log[c].owner]
       IN  log[c].id < k.next /\ \A d \in DOMAIN k.ids : k.ids[d] = log[c].id => d = c
LogOK == \A c \in DOMAIN log : EntryOK(c)

(* A constraint that has not seen a robot leave watches its two robots,    *)
(* and what it has with bodies of theirs is in the QP.                     *)
On(k, p) ==
  \A i \in {1, 2} : k.at[i] \in DOMAIN robots /\ robots[k.at[i]] = p[i]
InQP(k, p) ==
  \A c \in DOMAIN k.ids :
    (\A i \in {1, 2} : c[i] \in Bodies[p[i]]) => k.ids[c] \in k.active
Enforces(k, p) == On(k, p) /\ InQP(k, p)
AllEnforce == \A o \in DOMAIN cc \ exposed : Enforces(cc[o], CategoryOf(o))

Inv ==
  /\ TypeOK /\ AllIdsOK /\ AskedOK /\ GuiOK /\ LogOK /\ AllEnforce

-----------------------------------------------------------------------------
(* An end is a pair of robots, and can be named in either order.           *)
LEMMA EndFacts ==
  ASSUME NEW p \in Ends
  PROVE  /\ p = <<p[1], p[2]>> /\ p # Own /\ p # Dead
         /\ Swap(p) \in Ends /\ Swap(Swap(p)) = p
         /\ Swap(p)[1] = p[2] /\ Swap(p)[2] = p[1]
         /\ (Swap(p) = p) <=> (p[1] = p[2])
<1>1. PICK a \in RobotName, b \in RobotName : p = <<a, b>>
  BY CollisionsAssumption
<1>2. p # Own /\ p # Dead /\ Swap(p) \in Ends
  BY CollisionsAssumption
<1> QED BY <1>1, <1>2 DEF Swap

(* The same of a pair of bodies.                                           *)
LEMMA ColFacts ==
  ASSUME NEW c \in Col
  PROVE  Swap(c) \in Col /\ Swap(Swap(c)) = c
BY CollisionsAssumption

(* A manager of the configuration is about two robots that are loaded.     *)
LEMMA ConfiguredFacts ==
  ASSUME NEW p \in Configured
  PROVE  /\ p \in Ends /\ p[1] \in ToSet(Loaded) /\ p[2] \in ToSet(Loaded)
<1>1. PICK a \in ToSet(Loaded), b \in ToSet(Loaded) : p = <<a, b>>
  BY CollisionsAssumption
<1>2. Swap(p) \in Ends /\ Swap(Swap(p)) \in Ends
  BY CollisionsAssumption
<1>3. Swap(Swap(p)) = p
  BY <1>1 DEF Swap
<1> QED BY <1>1, <1>2, <1>3, CollisionsAssumption

(* An id map is a function from collisions to numbers.                     *)
LEMMA IdMapFacts ==
  ASSUME NEW f \in IdMap
  PROVE  DOMAIN f \subseteq Col /\ f \in [DOMAIN f -> Nat]
BY DEF IdMap

(* What adds, restricts or empties an id map leaves an id map.             *)
LEMMA IdMapUpdates ==
  ASSUME NEW f \in IdMap
  PROVE  /\ \A d \in Col, n \in Nat : With(f, d, n) \in IdMap
         /\ \A d \in Col : Restrict(f, DOMAIN f \ {d}) \in IdMap
         /\ NoIds \in IdMap /\ DOMAIN NoIds = {}
<1>1. DOMAIN f \subseteq Col /\ f \in [DOMAIN f -> Nat]
  BY IdMapFacts
<1>2. ASSUME NEW d \in Col, NEW n \in Nat PROVE With(f, d, n) \in IdMap
  <2>1. With(f, d, n) \in [DOMAIN f \cup {d} -> Nat]
    BY <1>1 DEF With
  <2>2. DOMAIN f \cup {d} \in SUBSET Col
    BY <1>1
  <2> QED BY <2>1, <2>2 DEF IdMap
<1>3. ASSUME NEW d \in Col PROVE Restrict(f, DOMAIN f \ {d}) \in IdMap
  <2>1. Restrict(f, DOMAIN f \ {d}) \in [DOMAIN f \ {d} -> Nat]
    BY <1>1 DEF Restrict
  <2>2. DOMAIN f \ {d} \in SUBSET Col
    BY <1>1
  <2> QED BY <2>1, <2>2 DEF IdMap
<1>4. NoIds \in [{} -> Nat] /\ {} \in SUBSET Col /\ DOMAIN NoIds = {}
  BY DEF NoIds
<1> QED BY <1>2, <1>3, <1>4 DEF IdMap

(* A robot that is there is at its index.                                  *)
LEMMA IndexFacts ==
  ASSUME robots \in Seq(RobotName), NEW r, HasRobot(r)
  PROVE  /\ IndexOf(r) \in DOMAIN robots /\ IndexOf(r) \in Nat
         /\ robots[IndexOf(r)] = r
<1>1. \E i \in DOMAIN robots : robots[i] = r
  BY DEF HasRobot, ToSet
<1>2. IndexOf(r) \in DOMAIN robots /\ robots[IndexOf(r)] = r
  BY <1>1 DEF IndexOf
<1>3. DOMAIN robots \subseteq Nat
  OBVIOUS
<1> QED BY <1>2, <1>3

(* A constraint that is made watches its two robots and has no collision.  *)
LEMMA NewConstraintFacts ==
  ASSUME robots \in Seq(RobotName), NEW p \in Ends, HasRobot(p[1]), HasRobot(p[2])
  PROVE  LET k == NewConstraint(p)
         IN  /\ k \in Constraint /\ DOMAIN k.ids = {}
             /\ k.next = 0 /\ k.monitored = {}
             /\ IdsOK(k) /\ Enforces(k, p)
<1> DEFINE k == NewConstraint(p)
<1>1. /\ k.at = <<IndexOf(p[1]), IndexOf(p[2])>> /\ k.ids = NoIds
      /\ k.next = 0 /\ k.monitored = {}
  BY DEF NewConstraint
<1>2. /\ IndexOf(p[1]) \in DOMAIN robots /\ IndexOf(p[1]) \in Nat
      /\ robots[IndexOf(p[1])] = p[1]
      /\ IndexOf(p[2]) \in DOMAIN robots /\ IndexOf(p[2]) \in Nat
      /\ robots[IndexOf(p[2])] = p[2]
  BY IndexFacts
<1>3. NoIds \in IdMap /\ DOMAIN NoIds = {}
  <2>1. NoIds \in [{} -> Nat] /\ {} \in SUBSET Col /\ DOMAIN NoIds = {}
    BY DEF NoIds
  <2> QED BY <2>1 DEF IdMap
<1>4. <<IndexOf(p[1]), IndexOf(p[2])>> \in Nat \X Nat
  BY <1>2
<1>5. k \in Constraint
  BY <1>3, <1>4 DEF NewConstraint, Constraint
<1>6. On(k, p)
  BY <1>1, <1>2 DEF On
<1> HIDE DEF k
<1>7. IdsOK(k) /\ InQP(k, p)
  BY <1>1, <1>3 DEF IdsOK, InQP
<1> QED BY <1>1, <1>3, <1>5, <1>6, <1>7 DEF k, Enforces

(* Registering a collision whose key is free.                              *)
LEMMA RegisterFacts ==
  ASSUME NEW k \in Constraint, NEW d \in Col, IdsOK(k), Known(k, d) = {}
  PROVE  LET r == Register(k, d)
         IN  /\ r \in Constraint /\ IdsOK(r)
             /\ r.at = k.at /\ r.monitored = k.monitored /\ r.next = k.next + 1
             /\ DOMAIN r.ids = DOMAIN k.ids \cup {d} /\ r.ids[d] = k.next
             /\ \A x \in DOMAIN k.ids : x # d /\ r.ids[x] = k.ids[x]
             /\ \A p \in Ends : Enforces(k, p) => Enforces(r, p)
<1> DEFINE f == With(k.ids, d, k.next)
           A == IF HasBodies(k, d) THEN k.active \cup {k.next} ELSE k.active
           r == Register(k, d)
<1>1. k.ids \in IdMap /\ k.next \in Nat /\ k.active \in SUBSET Nat
  BY DEF Constraint
<1>2. DOMAIN k.ids \subseteq Col /\ \A x \in DOMAIN k.ids : k.ids[x] \in Nat
  BY <1>1, IdMapFacts
<1>3. \A x \in DOMAIN k.ids : KeyOf[x] # KeyOf[d] /\ x # d
  BY DEF Known
<1>4. f \in IdMap
  BY <1>1, IdMapUpdates
<1>5. /\ DOMAIN f = DOMAIN k.ids \cup {d} /\ f[d] = k.next
      /\ \A x \in DOMAIN k.ids : f[x] = k.ids[x]
  BY <1>3 DEF With
<1>6. r = [k EXCEPT !.ids = f, !.next = k.next + 1, !.active = A]
  BY DEF Register
<1>7. A \in SUBSET Nat /\ k.next + 1 \in Nat
  BY <1>1
<1>8. k.active \subseteq A /\ (HasBodies(k, d) => k.next \in A)
  OBVIOUS
<1> HIDE DEF f, A, r
<1>9. /\ r \in Constraint /\ r.ids = f /\ r.next = k.next + 1 /\ r.active = A
      /\ r.at = k.at /\ r.monitored = k.monitored
  BY <1>4, <1>6, <1>7 DEF Constraint
<1>10. IdsOK(r)
  <2>1. \A x \in DOMAIN f : f[x] < k.next + 1
    BY <1>1, <1>2, <1>5 DEF IdsOK
  <2>2. \A x, y \in DOMAIN f : f[x] = f[y] => x = y
    BY <1>1, <1>2, <1>5 DEF IdsOK
  <2>3. \A x, y \in DOMAIN f : KeyOf[x] = KeyOf[y] => x = y
    BY <1>3, <1>5 DEF IdsOK
  <2> QED BY <1>9, <2>1, <2>2, <2>3 DEF IdsOK
<1>11. ASSUME NEW p \in Ends, Enforces(k, p) PROVE Enforces(r, p)
  <2>1. On(k, p) /\ InQP(k, p)
    BY <1>11 DEF Enforces
  <2>2. On(r, p)
    BY <1>9, <2>1 DEF On
  <2>3. (\A i \in {1, 2} : d[i] \in Bodies[p[i]]) => HasBodies(k, d)
    BY <2>1 DEF On, HasBodies
  <2>4. InQP(r, p)
    BY <1>5, <1>8, <1>9, <2>1, <2>3 DEF InQP
  <2> QED BY <2>2, <2>4 DEF Enforces
<1> QED BY <1>3, <1>5, <1>9, <1>10, <1>11 DEF r

(* Taking a collision from a constraint leaves the others as they were.    *)
LEMMA UnregisterFacts ==
  ASSUME NEW k \in Constraint, NEW d \in DOMAIN k.ids, IdsOK(k)
  PROVE  LET r == Unregister(k, d)
         IN  /\ r \in Constraint /\ IdsOK(r) /\ r.next = k.next
             /\ r.monitored = k.monitored \ {k.ids[d]}
             /\ DOMAIN r.ids = DOMAIN k.ids \ {d}
             /\ \A x \in DOMAIN r.ids : r.ids[x] = k.ids[x]
             /\ \A p \in Ends : Enforces(k, p) => Enforces(r, p)
<1> DEFINE f == Restrict(k.ids, DOMAIN k.ids \ {d})
           A == k.active \ {k.ids[d]}
           M == k.monitored \ {k.ids[d]}
           r == Unregister(k, d)
<1>1. /\ k.ids \in IdMap /\ k.active \in SUBSET Nat /\ k.monitored \in SUBSET Nat
  BY DEF Constraint
<1>2. d \in Col
  BY <1>1, IdMapFacts
<1>3. f \in IdMap
  BY <1>1, <1>2, IdMapUpdates
<1>4. DOMAIN f = DOMAIN k.ids \ {d} /\ \A x \in DOMAIN f : f[x] = k.ids[x]
  BY DEF Restrict
<1>5. r = [k EXCEPT !.ids = f, !.active = A, !.monitored = M]
  BY DEF Unregister
<1>6. A \in SUBSET Nat /\ M \in SUBSET Nat
  BY <1>1
<1>7. \A x \in DOMAIN f : f[x] \in k.active => f[x] \in A
  BY <1>4 DEF IdsOK
<1> HIDE DEF f, A, r
<1>8. /\ r \in Constraint /\ r.ids = f /\ r.next = k.next /\ r.active = A
      /\ r.at = k.at /\ r.monitored = M
  BY <1>3, <1>5, <1>6 DEF Constraint
<1>9. IdsOK(r)
  BY <1>4, <1>8 DEF IdsOK
<1>10. ASSUME NEW p \in Ends, Enforces(k, p) PROVE Enforces(r, p)
  <2>1. On(r, p)
    BY <1>8, <1>10 DEF On, Enforces
  <2>2. InQP(r, p)
    BY <1>4, <1>7, <1>8, <1>10 DEF InQP, Enforces
  <2> QED BY <2>1, <2>2 DEF Enforces
<1> QED BY <1>4, <1>8, <1>9, <1>10 DEF r

-----------------------------------------------------------------------------
(* Which calls are about the manager m, when it is the one of p.           *)
LEMMA BothFacts ==
  ASSUME NEW p \in Ends, NEW c \in Col, NEW m \in {p, Swap(p)},
         NEW q \in Ends, NEW e \in Col
  PROVE  LET d == IF m = p THEN c ELSE Swap(c)
         IN  /\ <<m, e>> \in Both(p, c) <=> e = d
             /\ <<q, e>> \in Both(p, c) => q = m \/ (q = Swap(m) /\ m[1] # m[2])
             /\ q[1] # q[2] => (<<q, e>> \in Both(p, c) <=> <<Swap(q), Swap(e)>> \in Both(p, c))
<1>1. \A x, y : <<x, y>> \in Both(p, c) <=>
                \/ x = p /\ y = c
                \/ p[1] # p[2] /\ x = Swap(p) /\ y = Swap(c)
  BY DEF Both
<1>2. /\ (Swap(p) = p) <=> (p[1] = p[2])
      /\ Swap(Swap(p)) = p /\ Swap(p)[1] = p[2] /\ Swap(p)[2] = p[1]
      /\ Swap(Swap(q)) = q
      /\ Swap(Swap(c)) = c /\ Swap(Swap(e)) = e
  BY EndFacts, ColFacts
<1>3. <<m, e>> \in Both(p, c) <=> e = (IF m = p THEN c ELSE Swap(c))
  BY <1>1, <1>2
<1>4. <<q, e>> \in Both(p, c) => q = m \/ (q = Swap(m) /\ m[1] # m[2])
  BY <1>1, <1>2
<1>5. q[1] # q[2] => (<<q, e>> \in Both(p, c) <=> <<Swap(q), Swap(e)>> \in Both(p, c))
  <2>1. ASSUME q[1] # q[2], <<q, e>> \in Both(p, c)
        PROVE  <<Swap(q), Swap(e)>> \in Both(p, c)
    BY <1>1, <1>2, <2>1
  <2>2. ASSUME q[1] # q[2], <<Swap(q), Swap(e)>> \in Both(p, c)
        PROVE  <<q, e>> \in Both(p, c)
    BY <1>1, <1>2, <2>2
  <2> QED BY <2>1, <2>2
<1> QED BY <1>3, <1>4, <1>5

(* Where the collisions of the managers and what was asked stay, so does   *)
(* what hasCollision should tell.                                          *)
LEMMA AskedSame ==
  ASSUME AskedOK, Asked' = Asked, named \subseteq named',
         \A o \in Ends : o \in DOMAIN cc' <=> o \in DOMAIN cc,
         \A o \in DOMAIN cc' : o # Own => o \in Ends /\ DOMAIN cc'[o].ids = DOMAIN cc[o].ids
  PROVE  AskedOK'
<1>1. ASSUME NEW m \in DOMAIN cc', m # Own PROVE Tells(m)'
  <2>1. Tells(m)
    BY <1>1 DEF AskedOK
  <2> QED BY <1>1, <2>1 DEF Tells, ClashAt
<1>2. \A p \in Ends : Endless(p)' <=> Endless(p)
  BY EndFacts DEF Endless
<1>3. Mirrored' /\ Homed' /\ Twins'
  BY <1>2, EndFacts DEF AskedOK, Mirrored, Homed, Twins
<1> QED BY <1>1, <1>3 DEF AskedOK

(* A removal of the collisions D from the manager of this order.           *)
LEMMA AskedRemoved ==
  ASSUME AskedOK, NEW p \in Ends, p \in DOMAIN cc, NEW D \in SUBSET Col,
         Asked' = Asked \ UNION {Both(p, c) : c \in D}, named \subseteq named',
         DOMAIN cc' = DOMAIN cc, DOMAIN cc \subseteq Owner,
         \A o \in DOMAIN cc : o # p => cc'[o] = cc[o], Tells(p)'
  PROVE  AskedOK'
<1> DEFINE gone == UNION {Both(p, c) : c \in D}
<1>1. \A q \in Ends, e \in Col :
        /\ <<q, e>> \in gone => q = p \/ (q = Swap(p) /\ p[1] # p[2])
        /\ q[1] # q[2] => (<<q, e>> \in gone <=> <<Swap(q), Swap(e)>> \in gone)
  <2> SUFFICES ASSUME NEW q \in Ends, NEW e \in Col
               PROVE  /\ <<q, e>> \in gone => q = p \/ (q = Swap(p) /\ p[1] # p[2])
                      /\ q[1] # q[2] => (<<q, e>> \in gone <=> <<Swap(q), Swap(e)>> \in gone)
    OBVIOUS
  <2>1. \A x : x \in gone <=> \E c \in D : x \in Both(p, c)
    OBVIOUS
  <2>2. ASSUME NEW c \in D
        PROVE  /\ <<q, e>> \in Both(p, c) => q = p \/ (q = Swap(p) /\ p[1] # p[2])
               /\ q[1] # q[2] => (<<q, e>> \in Both(p, c) <=> <<Swap(q), Swap(e)>> \in Both(p, c))
    BY BothFacts
  <2> HIDE DEF gone
  <2> QED BY <2>1, <2>2
<1>2. Asked' = Asked \ gone
  OBVIOUS
<1> HIDE DEF gone
<1>3. ASSUME NEW m \in DOMAIN cc, m # Own, m # p PROVE Tells(m)'
  <2>1. Tells(m) /\ m \in Ends
    BY <1>3 DEF AskedOK, Owner
  <2>2. ASSUME NEW d \in Col, <<m, d>> \in Asked PROVE <<m, d>> \notin gone
    <3>1. CASE m = Swap(p) /\ p[1] # p[2]
      <4>1. Swap(p)[1] = p[2] /\ Swap(p)[2] = p[1] /\ Swap(Swap(p)) = p
        BY EndFacts
      <4>2. Endless(m)
        BY <1>3, <3>1, <4>1 DEF Endless
      <4> QED BY <2>1, <2>2, <4>2 DEF AskedOK, Twins
    <3>2. CASE ~(m = Swap(p) /\ p[1] # p[2])
      BY <1>1, <1>3, <2>1, <3>2
    <3> QED BY <3>1, <3>2
  <2>3. cc'[m] = cc[m]
    BY <1>3
  <2> QED BY <1>2, <2>1, <2>2, <2>3 DEF Tells, ClashAt
<1>4. \A q \in Ends : Endless(q)' <=> Endless(q)
  BY DEF Endless
<1>5. Mirrored'
  <2> SUFFICES ASSUME NEW q \in Ends, NEW e \in Col, q[1] # q[2]
               PROVE  <<q, e>> \in Asked' <=> <<Swap(q), Swap(e)>> \in Asked'
    BY DEF Mirrored
  <2>1. <<q, e>> \in Asked <=> <<Swap(q), Swap(e)>> \in Asked
    BY DEF AskedOK, Mirrored
  <2>2. <<q, e>> \in gone <=> <<Swap(q), Swap(e)>> \in gone
    BY <1>1
  <2> QED BY <1>2, <2>1, <2>2
<1>6. Homed' /\ Twins'
  BY <1>2, <1>4 DEF AskedOK, Homed, Twins
<1> QED BY <1>3, <1>5, <1>6 DEF AskedOK

-----------------------------------------------------------------------------
(* An element that is made is in the category of its owner.                *)
LEMMA ElementFacts ==
  ASSUME NEW o \in Owner, NEW kind \in {"auto", "button", "label"},
         NEW c \in Col \cup {<<>>}, NEW i \in Nat
  PROVE  LET e == Element(o, kind, c, i)
         IN  /\ e \in GuiElement /\ e.owner = o /\ e.cat = CategoryOf(o)
             /\ e.kind = kind /\ e.col = c /\ e.id = i
<1>1. CategoryOf(o) \in Ends
  BY CollisionsAssumption DEF CategoryOf, Owner
<1> QED BY <1>1 DEF Element, GuiElement

(* An element stays in order when its owner does not change.               *)
LEMMA ElementFrame ==
  ASSUME NEW e, ElementOK(e), e.owner \in DOMAIN cc', cc'[e.owner] = cc[e.owner]
  PROVE  ElementOK(e)'
BY DEF ElementOK

(* addCollisions keeps what hasCollision should tell: the call reaches the *)
(* only manager of the two robots.                                         *)
LEMMA AskedAdded ==
  ASSUME AskedOK, DOMAIN cc \subseteq Owner, NEW p \in Ends, NEW c \in Col, ~Endless(p),
         NEW m, m = ManagerFor(p), NEW d, d = IF m = p THEN c ELSE Swap(c),
         Asked' = Asked \cup Both(p, c), named' = named \cup {<<m, d>>},
         DOMAIN cc' = DOMAIN cc \cup {m},
         \A o \in DOMAIN cc : o # m => cc'[o] = cc[o],
         m \in DOMAIN cc => DOMAIN cc[m].ids \subseteq DOMAIN cc'[m].ids,
         \A x \in DOMAIN cc'[m].ids :
           x = d \/ (m \in DOMAIN cc /\ x \in DOMAIN cc[m].ids),
         d \in DOMAIN cc'[m].ids
           \/ (m \in DOMAIN cc /\ Known(cc[m], d) # {}
                 /\ DOMAIN cc[m].ids \subseteq Col)
  PROVE  AskedOK'
<1>1. /\ Swap(p) \in Ends /\ Swap(Swap(p)) = p /\ Swap(p)[1] = p[2] /\ Swap(p)[2] = p[1]
      /\ (Swap(p) = p) <=> (p[1] = p[2])
  BY EndFacts
<1>2. m \in {p, Swap(p)} /\ m \in Ends /\ d \in Col /\ m # Own
  BY <1>1, ColFacts, EndFacts DEF ManagerFor
<1>3. m[1] # m[2] => Swap(m) \notin DOMAIN cc
  BY <1>1, <1>2 DEF ManagerFor, Endless
<1>4. /\ (Swap(m) = m) <=> (m[1] = m[2])
      /\ Swap(Swap(m)) = m
  BY <1>2, EndFacts
<1>5. \A q \in Ends, e \in Col :
        /\ <<m, e>> \in Both(p, c) <=> e = d
        /\ <<q, e>> \in Both(p, c) => q = m \/ (q = Swap(m) /\ m[1] # m[2])
        /\ q[1] # q[2] => (<<q, e>> \in Both(p, c) <=> <<Swap(q), Swap(e)>> \in Both(p, c))
  <2> SUFFICES ASSUME NEW q \in Ends, NEW e \in Col
               PROVE  /\ <<m, e>> \in Both(p, c) <=> e = d
                      /\ <<q, e>> \in Both(p, c) => q = m \/ (q = Swap(m) /\ m[1] # m[2])
                      /\ q[1] # q[2] => (<<q, e>> \in Both(p, c)
                                           <=> <<Swap(q), Swap(e)>> \in Both(p, c))
    OBVIOUS
  <2> QED BY <1>2, BothFacts
<1>6. ASSUME NEW e \in Col, <<m, e>> \in Asked PROVE m \in DOMAIN cc
  BY <1>2, <1>3, <1>4, <1>6 DEF AskedOK, Homed
<1>7. Tells(m)'
  <2> SUFFICES ASSUME NEW x \in Col
               PROVE  /\ x \in DOMAIN cc'[m].ids => <<m, x>> \in Asked' /\ <<m, x>> \in named'
                      /\ <<m, x>> \in Asked' => x \in DOMAIN cc'[m].ids \/ ClashAt(m, x)'
    BY DEF Tells
  <2>1. m \in DOMAIN cc => Tells(m)
    BY <1>2 DEF AskedOK
  <2>2. x \in DOMAIN cc'[m].ids => <<m, x>> \in Asked' /\ <<m, x>> \in named'
    BY <1>2, <1>5, <2>1 DEF Tells
  <2>3. ASSUME <<m, x>> \in Asked', x # d PROVE x \in DOMAIN cc'[m].ids \/ ClashAt(m, x)'
    <3>1. <<m, x>> \in Asked
      BY <1>2, <1>5, <2>3
    <3>2. m \in DOMAIN cc /\ Tells(m)
      BY <1>6, <2>1, <3>1
    <3> QED BY <3>1, <3>2 DEF Tells, ClashAt
  <2>4. ASSUME x = d PROVE x \in DOMAIN cc'[m].ids \/ ClashAt(m, x)'
    <3>1. CASE d \in DOMAIN cc'[m].ids
      BY <2>4, <3>1
    <3>2. CASE m \in DOMAIN cc /\ Known(cc[m], d) # {} /\ DOMAIN cc[m].ids \subseteq Col
      <4>1. PICK e \in DOMAIN cc[m].ids : KeyOf[e] = KeyOf[d]
        BY <3>2 DEF Known
      <4>2. e \in Col /\ <<m, e>> \in named
        BY <2>1, <3>2 DEF Tells
      <4> QED BY <2>4, <3>2, <4>1, <4>2 DEF ClashAt
    <3> QED BY <3>1, <3>2
  <2> QED BY <2>2, <2>3, <2>4
<1>8. ASSUME NEW q \in DOMAIN cc, q # Own, q # m PROVE Tells(q)'
  <2>1. Tells(q) /\ q \in Ends
    BY <1>8 DEF AskedOK, Owner
  <2>2. \A e \in Col : <<q, e>> \notin Both(p, c)
    BY <1>3, <1>5, <1>8, <2>1
  <2>3. cc'[q] = cc[q]
    BY <1>8
  <2> QED BY <2>1, <2>2, <2>3 DEF Tells, ClashAt
<1>9. Mirrored'
  <2> SUFFICES ASSUME NEW q \in Ends, NEW e \in Col, q[1] # q[2]
               PROVE  <<q, e>> \in Asked' <=> <<Swap(q), Swap(e)>> \in Asked'
    BY DEF Mirrored
  <2>1. <<q, e>> \in Asked <=> <<Swap(q), Swap(e)>> \in Asked
    BY DEF AskedOK, Mirrored
  <2> QED BY <1>5, <2>1
<1>10. Homed'
  <2> SUFFICES ASSUME NEW q \in Ends, NEW e \in Col, <<q, e>> \in Asked'
               PROVE  q \in DOMAIN cc' \/ Swap(q) \in DOMAIN cc'
    BY DEF Homed
  <2>1. CASE <<q, e>> \in Asked
    BY <2>1 DEF AskedOK, Homed
  <2>2. CASE <<q, e>> \in Both(p, c)
    BY <1>4, <1>5, <2>2
  <2> QED BY <2>1, <2>2
<1>11. Twins'
  <2> SUFFICES ASSUME NEW q \in Ends, Endless(q)'
               PROVE  /\ q \in Configured /\ Swap(q) \in Configured
                      /\ \A e \in Col : <<q, e>> \notin Asked'
    BY DEF Twins
  <2>1. q[1] # q[2] /\ q \in DOMAIN cc \cup {m} /\ Swap(q) \in DOMAIN cc \cup {m}
    BY DEF Endless
  <2>2. Swap(Swap(q)) = q /\ Swap(q)[1] = q[2] /\ Swap(q)[2] = q[1] /\ Swap(q) # q
    BY <2>1, EndFacts
  <2>3. q # m /\ Swap(q) # m
    BY <1>3, <2>1, <2>2
  <2>4. Endless(q)
    BY <2>1, <2>3 DEF Endless
  <2>5. \A e \in Col : <<q, e>> \notin Both(p, c)
    BY <1>4, <1>5, <2>2, <2>3
  <2> QED BY <2>4, <2>5 DEF AskedOK, Twins
<1> QED BY <1>7, <1>8, <1>9, <1>10, <1>11 DEF AskedOK

(* addCollisions keeps the invariant.                                      *)
LEMMA AddKeeps ==
  ASSUME Inv, NEW p \in Ends, NEW c \in Col, AddCollision(p, c), robots' = robots
  PROVE  Inv'
<1> DEFINE m == ManagerFor(p)
           d == IF m = p THEN c ELSE Swap(c)
           new == m \notin DOMAIN cc
           k == IF new THEN NewConstraint(m) ELSE cc[m]
           g == IF new THEN AddToSolver(gui, m, k.ids) ELSE gui
           fresh == Known(k, d) = {}
           made == fresh /\ HasBodies(k, d)
           added == IF fresh THEN Register(k, d) ELSE k
<1>1. /\ ~Endless(p) /\ (new => HasRobot(p[1]) /\ HasRobot(p[2]))
      /\ cc' = With(cc, m, added)
      /\ gui' = (IF made THEN Show(g, {Element(m, "button", d, k.next)}) ELSE g)
      /\ log' = (IF made THEN AddLogs(log, m, With(NoIds, d, k.next)) ELSE log)
      /\ wanted' = wanted \cup Both(p, c)
      /\ kept' = kept \ Both(p, c)
      /\ named' = named \cup {<<m, d>>}
      /\ exposed' = exposed
  BY DEF AddCollision
<1>2. /\ m \in {p, Swap(p)} /\ m \in Ends /\ d \in Col /\ (new => m = p)
  BY EndFacts, ColFacts DEF ManagerFor
<1>3. m = ManagerFor(p) /\ d = IF m = p THEN c ELSE Swap(c)
  OBVIOUS
<1> HIDE DEF m, d
<1>4. robots \in Seq(RobotName) /\ m # Own /\ m # Dead /\ CategoryOf(m) = m /\ m \in Owner
  BY <1>2, EndFacts DEF Inv, TypeOK, CategoryOf, Owner
<1>5. /\ k \in Constraint /\ IdsOK(k)
      /\ m \notin exposed \/ new => Enforces(k, m)
      /\ new => DOMAIN k.ids = {}
      /\ ~new => k = cc[m]
  <2>1. CASE new
    <3>1. HasRobot(m[1]) /\ HasRobot(m[2]) /\ k = NewConstraint(m)
      BY <1>1, <1>2, <2>1
    <3> HIDE DEF k
    <3> QED BY <1>2, <1>4, <2>1, <3>1, NewConstraintFacts
  <2>2. CASE ~new
    BY <1>4, <2>2 DEF Inv, TypeOK, AllIdsOK, AllEnforce
  <2> QED BY <2>1, <2>2
<1>6. \A e \in g : e \in gui \/ e = Element(m, "auto", <<>>, 0)
  <2>1. CASE new
    <3>1. g = AddToSolver(gui, m, k.ids) /\ DOMAIN k.ids = {}
      BY <1>5, <2>1
    <3> HIDE DEF k, g
    <3> QED BY <3>1 DEF AddToSolver, Show
  <2>2. CASE ~new
    BY <2>2
  <2> QED BY <2>1, <2>2
<1> HIDE DEF k, g
<1>7. k.ids \in IdMap /\ k.next \in Nat /\ k.monitored \in SUBSET Nat
  BY <1>5 DEF Constraint
<1>8. DOMAIN k.ids \subseteq Col /\ \A x \in DOMAIN k.ids : k.ids[x] \in Nat
  BY <1>7, IdMapFacts
<1>9. /\ added \in Constraint /\ IdsOK(added) /\ added.monitored = k.monitored
      /\ Enforces(k, m) => Enforces(added, m)
      /\ \A x \in DOMAIN k.ids : x \in DOMAIN added.ids /\ added.ids[x] = k.ids[x]
      /\ \A x \in DOMAIN added.ids :
           x \in DOMAIN k.ids \/ (fresh /\ x = d /\ added.ids[x] = k.next)
      /\ fresh => /\ d \in DOMAIN added.ids /\ added.ids[d] = k.next
                  /\ added.next = k.next + 1
      /\ ~fresh => added.next = k.next
  <2>1. CASE fresh
    <3> DEFINE r == Register(k, d)
    <3>1. added = r
      BY <2>1
    <3>2. /\ r \in Constraint /\ IdsOK(r)
          /\ r.monitored = k.monitored /\ r.next = k.next + 1
          /\ DOMAIN r.ids = DOMAIN k.ids \cup {d} /\ r.ids[d] = k.next
          /\ \A x \in DOMAIN k.ids : x # d /\ r.ids[x] = k.ids[x]
          /\ Enforces(k, m) => Enforces(r, m)
      BY <1>2, <1>5, <2>1, RegisterFacts
    <3> HIDE DEF r, added
    <3> QED BY <2>1, <3>1, <3>2
  <2>2. CASE ~fresh
    <3>1. added = k
      BY <2>2
    <3> HIDE DEF added, fresh
    <3> QED BY <1>5, <2>2, <3>1
  <2> QED BY <2>1, <2>2
<1>10. fresh \/ Known(k, d) # {}
  OBVIOUS
<1> HIDE DEF added
<1>11. /\ DOMAIN cc' = DOMAIN cc \cup {m} /\ cc'[m] = added
       /\ \A o \in DOMAIN cc : o # m => cc'[o] = cc[o]
  BY <1>1 DEF With
<1>12. \A e \in gui' :
         \/ e \in gui
         \/ e = Element(m, "auto", <<>>, 0)
         \/ fresh /\ e = Element(m, "button", d, k.next)
  BY <1>1, <1>6 DEF Show
<1>13. \A x \in DOMAIN log' :
         \/ x \in DOMAIN log /\ log'[x] = log[x]
         \/ fresh /\ x = d /\ log'[x] = [owner |-> m, id |-> k.next]
  <2>1. CASE made
    <3> DEFINE f == With(NoIds, d, k.next)
    <3>1. DOMAIN f = {d} /\ f[d] = k.next
      BY DEF With, NoIds
    <3>2. log' = AddLogs(log, m, f) /\ fresh
      BY <1>1, <2>1
    <3> HIDE DEF f, fresh, made
    <3> QED BY <3>1, <3>2 DEF AddLogs
  <2>2. CASE ~made
    BY <1>1, <2>2
  <2> QED BY <2>1, <2>2
<1>14. Asked' = Asked \cup Both(p, c)
  BY <1>1 DEF Asked
<1> HIDE DEF fresh, made
<1>15. TypeOK'
  <2>1. \A o \in DOMAIN cc' : cc'[o] \in Constraint
    BY <1>9, <1>11 DEF Inv, TypeOK
  <2>2. gui' \subseteq GuiElement
    <3>1. Element(m, "auto", <<>>, 0) \in GuiElement
      BY <1>4, ElementFacts
    <3>2. Element(m, "button", d, k.next) \in GuiElement
      BY <1>2, <1>4, <1>7, ElementFacts
    <3> QED BY <1>12, <3>1, <3>2 DEF Inv, TypeOK
  <2>3. \A x \in DOMAIN log' : log'[x] \in LogEntry
    <3>1. [owner |-> m, id |-> k.next] \in LogEntry
      BY <1>4, <1>7 DEF LogEntry
    <3> QED BY <1>13, <3>1 DEF Inv, TypeOK
  <2> QED BY <1>4, <1>11, <2>1, <2>2, <2>3 DEF Inv, TypeOK
<1>16. AllIdsOK'
  <2>1. \A o \in DOMAIN cc' : IdsOK(cc'[o])
    BY <1>9, <1>11 DEF Inv, AllIdsOK
  <2> QED BY <2>1 DEF AllIdsOK, IdsOK
<1>17. AskedOK'
  <2>1. AskedOK /\ DOMAIN cc \subseteq Owner
    BY DEF Inv, TypeOK
  <2>2. m \in DOMAIN cc => DOMAIN cc[m].ids \subseteq DOMAIN cc'[m].ids
    BY <1>5, <1>9, <1>11
  <2>3. \A x \in DOMAIN cc'[m].ids : x = d \/ (m \in DOMAIN cc /\ x \in DOMAIN cc[m].ids)
    BY <1>5, <1>9, <1>11
  <2>4. d \in DOMAIN cc'[m].ids
          \/ (m \in DOMAIN cc /\ Known(cc[m], d) # {} /\ DOMAIN cc[m].ids \subseteq Col)
    <3>1. CASE fresh
      BY <1>9, <1>11, <3>1
    <3>2. CASE ~fresh
      <4>1. DOMAIN k.ids # {} /\ Known(k, d) # {}
        BY <1>10, <3>2 DEF Known
      <4> QED BY <1>5, <1>8, <4>1
    <3> QED BY <3>1, <3>2
  <2>5. ~Endless(p) /\ named' = named \cup {<<m, d>>}
    BY <1>1
  <2> QED BY <1>3, <1>11, <1>14, <2>1, <2>2, <2>3, <2>4, <2>5, AskedAdded
<1>18. GuiOK'
  <2> SUFFICES ASSUME NEW e \in gui' PROVE ElementOK(e)'
    BY DEF GuiOK
  <2>1. CASE e \in gui
    <3>1. ElementOK(e)
      BY <2>1 DEF Inv, GuiOK
    <3>2. CASE e.owner # m
      BY <1>11, <3>1, <3>2, ElementFrame DEF ElementOK
    <3>3. CASE e.owner = m
      BY <1>5, <1>9, <1>11, <3>1, <3>3 DEF ElementOK
    <3> QED BY <3>2, <3>3
  <2>2. CASE e = Element(m, "auto", <<>>, 0)
    <3>1. e.owner = m /\ e.cat = CategoryOf(m) /\ e.kind = "auto"
      BY <2>2 DEF Element
    <3> QED BY <1>11, <3>1 DEF ElementOK
  <2>3. CASE fresh /\ e = Element(m, "button", d, k.next)
    <3>1. /\ e.owner = m /\ e.cat = CategoryOf(m) /\ e.kind = "button"
          /\ e.col = d /\ e.id = k.next
      BY <1>2, <1>4, <1>7, <2>3, ElementFacts
    <3> QED BY <1>9, <1>11, <2>3, <3>1 DEF ElementOK
  <2> QED BY <1>12, <2>1, <2>2, <2>3
<1>19. LogOK'
  <2> SUFFICES ASSUME NEW x \in DOMAIN log' PROVE EntryOK(x)'
    BY DEF LogOK
  <2>1. CASE x \in DOMAIN log /\ log'[x] = log[x]
    <3>1. EntryOK(x) /\ log[x].id \in Nat
      BY <2>1 DEF Inv, LogOK, TypeOK, LogEntry
    <3>2. CASE log[x].owner # m
      BY <1>11, <2>1, <3>1, <3>2 DEF EntryOK
    <3>3. CASE log[x].owner = m
      <4>1. /\ m \in DOMAIN cc /\ log[x].id < k.next
            /\ \A y \in DOMAIN k.ids : k.ids[y] = log[x].id => y = x
        BY <1>4, <1>5, <3>1, <3>3 DEF EntryOK
      <4>2. log[x].id < added.next
        BY <1>7, <1>9, <3>1, <4>1
      <4>3. \A y \in DOMAIN added.ids : added.ids[y] = log[x].id => y = x
        BY <1>7, <1>9, <3>1, <4>1
      <4> QED BY <1>11, <2>1, <3>3, <4>2, <4>3 DEF EntryOK
    <3> QED BY <3>2, <3>3
  <2>2. CASE fresh /\ x = d /\ log'[x] = [owner |-> m, id |-> k.next]
    <3>1. log'[x].owner = m /\ log'[x].id = added.ids[d] /\ d \in DOMAIN added.ids
      BY <1>9, <2>2
    <3> QED BY <1>9, <1>11, <2>2, <3>1 DEF EntryOK, IdsOK
  <2> QED BY <1>13, <2>1, <2>2
<1>20. AllEnforce'
  <2> SUFFICES ASSUME NEW o \in DOMAIN cc', o \notin exposed'
               PROVE  Enforces(cc'[o], CategoryOf(o))
    BY DEF AllEnforce, Enforces, On, InQP
  <2>1. CASE o = m
    BY <1>1, <1>4, <1>5, <1>9, <1>11, <2>1
  <2>2. CASE o # m
    BY <1>1, <1>11, <2>2 DEF Inv, AllEnforce
  <2> QED BY <2>1, <2>2
<1> QED BY <1>15, <1>16, <1>17, <1>18, <1>19, <1>20 DEF Inv

(* The log entries stay in order when a constraint loses collisions.       *)
LEMMA LogFrame ==
  ASSUME LogOK, log' = log, DOMAIN cc' = DOMAIN cc,
         \A o \in DOMAIN cc : /\ cc'[o].next = cc[o].next
                              /\ DOMAIN cc'[o].ids \subseteq DOMAIN cc[o].ids
                              /\ \A c \in DOMAIN cc'[o].ids : cc'[o].ids[c] = cc[o].ids[c]
  PROVE  LogOK'
<1> SUFFICES ASSUME NEW c \in DOMAIN log PROVE EntryOK(c)'
  BY DEF LogOK
<1>1. EntryOK(c)
  BY DEF LogOK
<1> QED BY <1>1 DEF EntryOK

(* A constraint that changes while it keeps watching its robots.           *)
LEMMA EnforceFrame ==
  ASSUME AllEnforce, robots' = robots, exposed' = exposed, DOMAIN cc' = DOMAIN cc,
         NEW p \in DOMAIN cc, \A o \in DOMAIN cc : o # p => cc'[o] = cc[o],
         Enforces(cc[p], CategoryOf(p)) => Enforces(cc'[p], CategoryOf(p))
  PROVE  AllEnforce'
<1>1. \A o \in DOMAIN cc' \ exposed' : Enforces(cc'[o], CategoryOf(o))
  BY DEF AllEnforce
<1> QED BY <1>1 DEF AllEnforce, Enforces, On, InQP

(* removeCollisions of one collision keeps the invariant.                  *)
LEMMA RemoveKeeps ==
  ASSUME Inv, NEW p \in Ends, NEW c \in Col, RemoveCollision(p, c), robots' = robots
  PROVE  Inv'
<1>1. /\ wanted' = wanted \ Both(p, c) /\ log' = log /\ exposed' = exposed
      /\ p \in DOMAIN cc => kept' = kept \ Both(p, c) /\ named' = named \cup {<<p, c>>}
      /\ p \notin DOMAIN cc => kept' = kept \cup (wanted \cap Both(p, c)) /\ named' = named
  BY DEF RemoveCollision, Forgotten
<1>2. /\ p \in DOMAIN cc => Asked' = Asked \ UNION {Both(p, x) : x \in {c}}
      /\ p \notin DOMAIN cc => Asked' = Asked
  BY <1>1 DEF Asked
<1>3. p \in DOMAIN cc => /\ cc[p] \in Constraint /\ IdsOK(cc[p]) /\ Tells(p)
                         /\ DOMAIN cc[p].ids \subseteq Col
  BY IdMapFacts, EndFacts DEF Inv, TypeOK, AllIdsOK, AskedOK, Constraint
<1>4. \A e \in Col : <<p, e>> \in Both(p, c) <=> e = c
  BY EndFacts DEF Both
<1>5. AskedOK /\ DOMAIN cc \subseteq Owner /\ named \subseteq named' /\ {c} \in SUBSET Col
  BY <1>1 DEF Inv, TypeOK
<1>6. CASE UNCHANGED <<cc, gui>> /\ (p \in DOMAIN cc => Known(cc[p], c) = {})
  <2>1. AskedOK'
    <3>1. CASE p \notin DOMAIN cc
      BY <1>2, <1>5, <1>6, <3>1, AskedSame DEF Owner
    <3>2. CASE p \in DOMAIN cc
      <4>1. c \notin DOMAIN cc[p].ids
        BY <1>6, <3>2 DEF Known
      <4>2. Asked' = Asked \ Both(p, c)
        BY <1>2, <3>2
      <4>3. Tells(p)'
        BY <1>3, <1>4, <1>5, <1>6, <3>2, <4>1, <4>2 DEF Tells, ClashAt
      <4> QED BY <1>2, <1>5, <1>6, <3>2, <4>3, AskedRemoved
    <3> QED BY <3>1, <3>2
  <2>2. TypeOK' /\ AllIdsOK' /\ GuiOK' /\ LogOK'
    BY <1>1, <1>6 DEF Inv, TypeOK, AllIdsOK, GuiOK, ElementOK, LogOK, EntryOK
  <2>3. AllEnforce'
    BY <1>1, <1>6 DEF Inv, AllEnforce, Enforces, On, InQP
  <2> QED BY <2>1, <2>2, <2>3 DEF Inv
<1>7. ASSUME NEW d \in Known(cc[p], c), p \in DOMAIN cc,
             cc' = [cc EXCEPT ![p] = Unregister(cc[p], d)],
             gui' = Hide(IF cc[p].ids[d] \in cc[p].monitored
                         THEN Hide(gui, p, "label", d) ELSE gui, p, "button", d)
      PROVE  Inv'
  <2> DEFINE i == cc[p].ids[d]
             k == Unregister(cc[p], d)
  <2>1. d \in DOMAIN cc[p].ids /\ KeyOf[d] = KeyOf[c] /\ d \in Col
    BY <1>3, <1>7 DEF Known
  <2>2. /\ k \in Constraint /\ IdsOK(k) /\ k.next = cc[p].next
        /\ k.monitored = cc[p].monitored \ {i}
        /\ DOMAIN k.ids = DOMAIN cc[p].ids \ {d}
        /\ \A x \in DOMAIN k.ids : k.ids[x] = cc[p].ids[x]
        /\ \A q \in Ends : Enforces(cc[p], q) => Enforces(k, q)
    BY <1>3, <1>7, <2>1, UnregisterFacts
  <2>3. DOMAIN cc' = DOMAIN cc /\ cc'[p] = k /\ \A o \in DOMAIN cc : o # p => cc'[o] = cc[o]
    <3> HIDE DEF k
    <3> QED BY <1>7 DEF k
  <2>4. \A e \in gui' : /\ e \in gui
                        /\ ~(e.cat = p /\ e.kind = "button" /\ e.col = d)
                        /\ i \in cc[p].monitored => ~(e.cat = p /\ e.kind = "label" /\ e.col = d)
    BY <1>7 DEF Hide
  <2> HIDE DEF i, k
  <2>5. TypeOK'
    BY <1>1, <2>2, <2>3, <2>4 DEF Inv, TypeOK
  <2>6. AllIdsOK'
    <3>1. \A o \in DOMAIN cc' : IdsOK(cc'[o])
      BY <2>2, <2>3 DEF Inv, AllIdsOK
    <3> QED BY <3>1 DEF AllIdsOK, IdsOK
  <2>7. AskedOK'
    <3>1. c \in DOMAIN cc[p].ids => d = c
      BY <1>3, <1>7, <2>1 DEF IdsOK
    <3>2. Asked' = Asked \ Both(p, c) /\ <<p, c>> \in named'
      BY <1>1, <1>2, <1>7
    <3>3. Tells(p)'
      <4> SUFFICES ASSUME NEW x \in Col
                   PROVE  /\ x \in DOMAIN k.ids => <<p, x>> \in Asked' /\ <<p, x>> \in named'
                          /\ <<p, x>> \in Asked' => x \in DOMAIN k.ids \/ ClashAt(p, x)'
        BY <2>3 DEF Tells
      <4>1. x \in DOMAIN k.ids => <<p, x>> \in Asked' /\ <<p, x>> \in named'
        BY <1>3, <1>4, <1>5, <1>7, <2>2, <3>1, <3>2 DEF Tells
      <4>2. ASSUME <<p, x>> \in Asked' PROVE x \in DOMAIN k.ids \/ ClashAt(p, x)'
        <5>1. x # c /\ (x \in DOMAIN cc[p].ids \/ ClashAt(p, x))
          BY <1>3, <1>4, <1>7, <3>2, <4>2 DEF Tells
        <5>2. CASE x = d
          BY <2>1, <3>2, <5>1, <5>2 DEF ClashAt
        <5>3. CASE x # d
          BY <1>5, <2>2, <5>1, <5>3 DEF ClashAt
        <5> QED BY <5>2, <5>3
      <4> QED BY <4>1, <4>2
    <3> QED BY <1>2, <1>5, <1>7, <2>3, <3>3, AskedRemoved
  <2>8. GuiOK'
    <3> SUFFICES ASSUME NEW e \in gui' PROVE ElementOK(e)'
      BY DEF GuiOK
    <3>1. ElementOK(e)
      BY <2>4 DEF Inv, GuiOK
    <3>2. CASE e.owner # p
      BY <2>3, <3>1, <3>2, ElementFrame DEF ElementOK
    <3>3. CASE e.owner = p
      <4>1. e.cat = p /\ e.kind \in {"auto", "button", "label"}
        BY <2>4, <3>1, <3>3, EndFacts DEF ElementOK, CategoryOf, Inv, TypeOK, GuiElement
      <4>2. e.kind # "auto" => e.col # d
        BY <2>4, <3>1, <3>3, <4>1 DEF ElementOK, i
      <4>3. e.kind # "auto" => e.col \in DOMAIN k.ids /\ k.ids[e.col] = e.id
        BY <2>2, <3>1, <3>3, <4>2 DEF ElementOK
      <4>4. e.kind = "label" => e.id \in k.monitored
        <5>1. e.kind = "label" => e.id # i
          BY <1>3, <1>7, <2>1, <3>1, <3>3, <4>2 DEF ElementOK, IdsOK, i
        <5> QED BY <2>2, <3>1, <3>3, <5>1 DEF ElementOK
      <4> QED BY <2>3, <3>1, <3>3, <4>3, <4>4 DEF ElementOK
    <3> QED BY <3>2, <3>3
  <2>9. LogOK'
    <3>1. LogOK
      BY DEF Inv
    <3>2. \A o \in DOMAIN cc :
            /\ cc'[o].next = cc[o].next
            /\ DOMAIN cc'[o].ids \subseteq DOMAIN cc[o].ids
            /\ \A x \in DOMAIN cc'[o].ids : cc'[o].ids[x] = cc[o].ids[x]
      BY <2>2, <2>3
    <3> QED BY <1>1, <2>3, <3>1, <3>2, LogFrame
  <2>10. AllEnforce'
    <3>1. CategoryOf(p) = p /\ AllEnforce
      BY EndFacts DEF CategoryOf, Inv
    <3> QED BY <1>1, <1>7, <2>2, <2>3, <3>1, EnforceFrame
  <2> QED BY <2>5, <2>6, <2>7, <2>8, <2>9, <2>10 DEF Inv
<1> QED BY <1>6, <1>7 DEF RemoveCollision

(* removeCollisions of a pair keeps the invariant: the ids go on counting. *)
LEMMA RemoveAllKeeps ==
  ASSUME Inv, NEW p \in Ends, RemoveCollisions(p), robots' = robots
  PROVE  Inv'
<1> DEFINE gone == UNION {Both(p, c) : c \in Col}
<1>1. wanted' = wanted \ gone /\ UNCHANGED <<log, named, exposed>>
  BY DEF RemoveCollisions
<1>2. AskedOK /\ DOMAIN cc \subseteq Owner /\ named \subseteq named'
  BY <1>1 DEF Inv, TypeOK
<1>3. CASE p \notin DOMAIN cc
  <2>1. cc' = cc /\ gui' = gui /\ kept' = kept \cup (wanted \cap gone)
    BY <1>3 DEF RemoveCollisions
  <2> HIDE DEF gone
  <2>2. Asked' = Asked
    BY <1>1, <2>1 DEF Asked
  <2>3. AskedOK'
    BY <1>2, <2>1, <2>2, AskedSame DEF Owner
  <2>4. TypeOK' /\ AllIdsOK' /\ GuiOK' /\ LogOK'
    BY <1>1, <2>1 DEF Inv, TypeOK, AllIdsOK, GuiOK, ElementOK, LogOK, EntryOK
  <2>5. AllEnforce'
    BY <1>1, <2>1 DEF Inv, AllEnforce, Enforces, On, InQP
  <2> QED BY <2>3, <2>4, <2>5 DEF Inv
<1>4. CASE p \in DOMAIN cc
  <2> DEFINE k == ResetConstraint(cc[p])
  <2>1. cc' = [cc EXCEPT ![p] = k] /\ gui' = HideAll(gui, p) /\ kept' = kept \ gone
    BY <1>4 DEF RemoveCollisions
  <2>2. DOMAIN cc' = DOMAIN cc /\ cc'[p] = k /\ \A o \in DOMAIN cc : o # p => cc'[o] = cc[o]
    <3> HIDE DEF k
    <3> QED BY <1>4, <2>1
  <2>3. cc[p] \in Constraint /\ cc[p].ids \in IdMap
    BY <1>4 DEF Inv, TypeOK, Constraint
  <2>4. /\ k \in Constraint /\ DOMAIN k.ids = {} /\ k.at = cc[p].at /\ k.next = cc[p].next
    <3>1. NoIds \in IdMap /\ DOMAIN NoIds = {}
      BY <2>3, IdMapUpdates
    <3>2. k = [cc[p] EXCEPT !.ids = NoIds, !.active = {}]
      BY DEF ResetConstraint
    <3> HIDE DEF k
    <3>3. k \in Constraint /\ k.ids = NoIds /\ k.at = cc[p].at /\ k.next = cc[p].next
      BY <2>3, <3>1, <3>2 DEF Constraint
    <3> QED BY <3>1, <3>3
  <2> HIDE DEF k
  <2>5. \A e \in gui' : e \in gui /\ e.cat # p
    BY <2>1 DEF HideAll
  <2>6. TypeOK'
    BY <1>1, <2>2, <2>4, <2>5 DEF Inv, TypeOK
  <2>7. AllIdsOK'
    <3>1. IdsOK(k)
      BY <2>4 DEF IdsOK
    <3>2. \A o \in DOMAIN cc' : IdsOK(cc'[o])
      BY <2>2, <3>1 DEF Inv, AllIdsOK
    <3> QED BY <3>2 DEF AllIdsOK, IdsOK
  <2>8. AskedOK'
    <3>1. Asked' = Asked \ gone
      BY <1>1, <2>1 DEF Asked
    <3>2. \A c \in Col : <<p, c>> \in gone
      <4>1. \A c \in Col : <<p, c>> \in Both(p, c)
        BY DEF Both
      <4> QED BY <4>1
    <3>3. Tells(p)'
      BY <2>2, <2>4, <3>1, <3>2 DEF Tells
    <3> QED BY <1>2, <1>4, <2>2, <3>1, <3>3, AskedRemoved
  <2>9. GuiOK'
    <3> SUFFICES ASSUME NEW e \in gui' PROVE ElementOK(e)'
      BY DEF GuiOK
    <3>1. ElementOK(e) /\ e.cat # p
      BY <2>5 DEF Inv, GuiOK
    <3>2. e.owner # p
      BY <3>1, EndFacts DEF ElementOK, CategoryOf
    <3> QED BY <2>2, <3>1, <3>2, ElementFrame DEF ElementOK
  <2>10. LogOK'
    <3>1. LogOK
      BY DEF Inv
    <3>2. \A o \in DOMAIN cc :
            /\ cc'[o].next = cc[o].next
            /\ DOMAIN cc'[o].ids \subseteq DOMAIN cc[o].ids
            /\ \A x \in DOMAIN cc'[o].ids : cc'[o].ids[x] = cc[o].ids[x]
      BY <2>2, <2>4
    <3> QED BY <1>1, <2>2, <3>1, <3>2, LogFrame
  <2>11. AllEnforce'
    <3>1. Enforces(cc[p], CategoryOf(p)) => Enforces(cc'[p], CategoryOf(p))
      BY <2>2, <2>4 DEF Enforces, On, InQP
    <3>2. AllEnforce
      BY DEF Inv
    <3> QED BY <1>1, <1>4, <2>2, <3>1, <3>2, EnforceFrame
  <2> QED BY <2>6, <2>7, <2>8, <2>9, <2>10, <2>11 DEF Inv
<1> QED BY <1>3, <1>4

(* toggleCollisionMonitor keeps the invariant.                             *)
LEMMA MonitorKeeps ==
  ASSUME Inv, NEW o \in DOMAIN cc, NEW c \in DOMAIN cc[o].ids, Monitor(o, c),
         UNCHANGED <<robots, log, history>>
  PROVE  Inv'
<1> DEFINE i == cc[o].ids[c]
           M == IF i \in cc[o].monitored THEN cc[o].monitored \ {i}
                ELSE cc[o].monitored \cup {i}
           k == [cc[o] EXCEPT !.monitored = M]
<1>1. /\ cc[o] \in Constraint /\ IdsOK(cc[o]) /\ cc[o].ids \in IdMap
      /\ cc[o].monitored \in SUBSET Nat /\ o \in Owner
  BY DEF Inv, TypeOK, AllIdsOK, Constraint
<1>2. c \in Col /\ i \in Nat
  BY <1>1, IdMapFacts
<1>3. cc' = [cc EXCEPT ![o].monitored = M]
  BY DEF Monitor
<1>4. DOMAIN cc' = DOMAIN cc /\ cc'[o] = k /\ \A x \in DOMAIN cc : x # o => cc'[x] = cc[x]
  BY <1>3
<1>5. M \in SUBSET Nat
  BY <1>1, <1>2
<1>6. \A e \in gui' : \/ e \in gui /\ (i \in cc[o].monitored =>
                           ~(e.cat = CategoryOf(o) /\ e.kind = "label" /\ e.col = c))
                      \/ i \in M /\ e = Element(o, "label", c, i)
  BY DEF Monitor, Hide, Show
<1>7. cc[o].monitored \subseteq M \cup {i} /\ (i \in M <=> i \notin cc[o].monitored)
  OBVIOUS
<1> HIDE DEF M, i
<1>8. /\ k \in Constraint /\ k.ids = cc[o].ids /\ k.at = cc[o].at
      /\ k.next = cc[o].next /\ k.active = cc[o].active /\ k.monitored = M
  BY <1>1, <1>5 DEF Constraint
<1> HIDE DEF k
<1>9. \A x \in DOMAIN cc : /\ cc'[x].ids = cc[x].ids /\ cc'[x].next = cc[x].next
                          /\ cc'[x].at = cc[x].at /\ cc'[x].active = cc[x].active
  BY <1>4, <1>8
<1>10. TypeOK'
  <2>1. Element(o, "label", c, i) \in GuiElement
    BY <1>1, <1>2, ElementFacts
  <2> QED BY <1>4, <1>6, <1>8, <2>1 DEF Inv, TypeOK
<1>11. AllIdsOK'
  BY <1>4, <1>9 DEF Inv, AllIdsOK, IdsOK
<1>12. AllEnforce'
  <2>1. AllEnforce /\ exposed' = exposed
    BY DEF Inv, history
  <2>2. Enforces(cc[o], CategoryOf(o)) => Enforces(cc'[o], CategoryOf(o))
    BY <1>9 DEF Enforces, On, InQP
  <2> QED BY <1>4, <2>1, <2>2, EnforceFrame
<1>13. AskedOK'
  <2>1. Asked' = Asked /\ named \subseteq named' /\ AskedOK /\ DOMAIN cc \subseteq Owner
    BY DEF Asked, history, Inv, TypeOK
  <2> QED BY <1>4, <1>9, <2>1, AskedSame DEF Owner
<1>14. GuiOK'
  <2> SUFFICES ASSUME NEW e \in gui' PROVE ElementOK(e)'
    BY DEF GuiOK
  <2>1. CASE e \in gui /\ e.owner # o
    <3>1. ElementOK(e)
      BY <2>1 DEF Inv, GuiOK
    <3> QED BY <1>4, <2>1, <3>1, ElementFrame DEF ElementOK
  <2>2. CASE /\ e \in gui /\ e.owner = o
             /\ i \in cc[o].monitored =>
                  ~(e.cat = CategoryOf(o) /\ e.kind = "label" /\ e.col = c)
    <3>1. ElementOK(e)
      BY <2>2 DEF Inv, GuiOK
    <3>2. e.kind = "label" => e.id \in M
      <4>1. ASSUME e.kind = "label", e.id = i PROVE e.col = c
        BY <1>1, <2>2, <3>1, <4>1 DEF ElementOK, IdsOK, i
      <4> QED BY <1>7, <2>2, <3>1, <4>1 DEF ElementOK
    <3> QED BY <1>4, <1>8, <2>2, <3>1, <3>2 DEF ElementOK
  <2>3. CASE i \in M /\ e = Element(o, "label", c, i)
    <3>1. /\ e.owner = o /\ e.cat = CategoryOf(o) /\ e.kind = "label"
          /\ e.col = c /\ e.id = i
      BY <2>3 DEF Element
    <3> QED BY <1>4, <1>8, <2>3, <3>1 DEF ElementOK, i
  <2> QED BY <1>6, <2>1, <2>2, <2>3
<1>15. LogOK'
  BY <1>4, <1>9, LogFrame DEF Inv
<1> QED BY <1>10, <1>11, <1>12, <1>13, <1>14, <1>15 DEF Inv

-----------------------------------------------------------------------------
(* The list of the collisions of a state's own constraint gives each one   *)
(* an index.                                                               *)
LEMMA OwnListFacts ==
  ASSUME NEW D \in SUBSET OwnCol
  PROVE  LET list == SetToSeq(D)
             n == Cardinality(D)
         IN  /\ n \in Nat /\ DOMAIN list = 1..n
             /\ \A c \in D : \E i \in 1..n : list[i] = c
<1> DEFINE list == SetToSeq(D)
           n == Cardinality(D)
<1>1. IsFiniteSet(D) /\ n \in Nat /\ ExistsBijection(1..n, D)
  BY CollisionsAssumption, FS_Subset, FS_CardinalityType
<1>2. \E f \in [1..n -> D] : IsInjective(f)
  BY <1>1 DEF ExistsBijection, Bijection, Injection
<1>3. list \in [1..n -> D] /\ IsInjective(list)
  BY <1>2 DEF SetToSeq
<1> HIDE DEF list
<1>4. list \in Injection(1..n, D)
  BY <1>3 DEF Injection
<1>5. Cardinality(1..n) = n
  <2>1. 1 \in Int /\ n \in Int
    BY <1>1
  <2>2. Cardinality(1..n) = IF 1 > n THEN 0 ELSE n - 1 + 1
    BY <2>1, FS_Interval
  <2> HIDE DEF n
  <2> QED BY <1>1, <2>2
<1>6. list \in Surjection(1..n, D)
  BY <1>1, <1>4, <1>5, FS_Injection
<1>7. \A c \in D : \E i \in 1..n : list[i] = c
  BY <1>6 DEF Surjection
<1> QED BY <1>1, <1>3, <1>7 DEF list

(* A state's constraint that starts keeps the invariant.                   *)
LEMMA StartOwnKeeps ==
  ASSUME Inv, StartOwn, robots' = robots
  PROVE  Inv'
<1> DEFINE List(D) == SetToSeq(D)
           Num(D) == Cardinality(D)
           Ids(D) == [c \in D |-> (CHOOSE i \in DOMAIN List(D) : List(D)[i] = c) - 1]
           Made(D) == [NewConstraint(OwnPair) EXCEPT !.ids = Ids(D), !.next = Num(D),
                                                     !.active = 0..(Num(D) - 1)]
<1>0. PICK D \in SUBSET OwnCol :
        /\ OnePerKey(D) /\ cc' = With(cc, Own, Made(D))
        /\ gui' = AddToSolver(gui, Own, Ids(D)) /\ log' = AddLogs(log, Own, Ids(D))
  BY DEF StartOwn
<1> DEFINE list == List(D)
           n == Num(D)
           ids == Ids(D)
           k == [NewConstraint(OwnPair) EXCEPT !.ids = ids, !.next = n,
                                               !.active = 0..(n - 1)]
<1>1. /\ Own \notin DOMAIN cc /\ HasRobot(OwnPair[1]) /\ HasRobot(OwnPair[2])
      /\ cc' = With(cc, Own, k) /\ gui' = AddToSolver(gui, Own, ids)
      /\ log' = AddLogs(log, Own, ids)
      /\ UNCHANGED <<wanted, kept, named, exposed>>
  BY <1>0 DEF StartOwn, history
<1>2. /\ n \in Nat /\ DOMAIN list = 1..n
      /\ \A c \in D : \E i \in 1..n : list[i] = c
  BY OwnListFacts
<1>3. /\ DOMAIN ids = D
      /\ \A c \in D : /\ ids[c] \in Nat /\ ids[c] < n /\ ids[c] \in 0..(n - 1)
                      /\ list[ids[c] + 1] = c
  <2> SUFFICES ASSUME NEW c \in D
               PROVE  /\ ids[c] \in Nat /\ ids[c] < n /\ ids[c] \in 0..(n - 1)
                      /\ list[ids[c] + 1] = c
    OBVIOUS
  <2> DEFINE j == CHOOSE i \in DOMAIN list : list[i] = c
  <2>1. j \in 1..n /\ list[j] = c
    BY <1>2
  <2>2. ids[c] = j - 1
    OBVIOUS
  <2> HIDE DEF j, ids, list, n
  <2> QED BY <1>2, <2>1, <2>2
<1>4. ids = [c \in D |-> ids[c]]
  OBVIOUS
<1> HIDE DEF list, ids, n
<1>5. /\ robots \in Seq(RobotName) /\ OwnPair \in Ends /\ CategoryOf(Own) = OwnPair
      /\ Own \in Owner /\ Own # Dead /\ Own \notin Ends /\ D \subseteq Col
  BY CollisionsAssumption DEF Inv, TypeOK, CategoryOf, Owner
<1>6. ids \in IdMap
  <2>1. ids \in [D -> Nat] /\ D \in SUBSET Col
    BY <1>3, <1>4, <1>5
  <2> QED BY <2>1 DEF IdMap
<1>7. /\ k \in Constraint /\ k.ids = ids /\ k.next = n
      /\ Enforces(k, OwnPair)
  <2> DEFINE b == NewConstraint(OwnPair)
             A == 0..(n - 1)
  <2>1. b \in Constraint /\ On(b, OwnPair)
    BY <1>1, <1>5, NewConstraintFacts DEF Enforces
  <2>2. A \in SUBSET Nat
    BY <1>2
  <2>3. k = [b EXCEPT !.ids = ids, !.next = n, !.active = A]
    OBVIOUS
  <2>4. \A c \in D : ids[c] \in A
    BY <1>3
  <2> HIDE DEF b, k, A
  <2>5. /\ k \in Constraint /\ k.ids = ids /\ k.next = n /\ k.active = A
        /\ k.at = b.at
    BY <1>2, <1>6, <2>1, <2>2, <2>3 DEF Constraint
  <2> QED BY <1>3, <2>1, <2>4, <2>5 DEF Enforces, On, InQP
<1> HIDE DEF k
<1>8. /\ DOMAIN cc' = DOMAIN cc \cup {Own} /\ cc'[Own] = k
      /\ \A o \in DOMAIN cc : o # Own /\ cc'[o] = cc[o]
  BY <1>1 DEF With
<1>9. \A e \in gui' :
        \/ e \in gui
        \/ e = Element(Own, "auto", <<>>, 0)
        \/ \E c \in D : e = Element(Own, "button", c, ids[c])
  BY <1>1, <1>3 DEF AddToSolver, Show
<1>10. TypeOK'
  <2>1. Element(Own, "auto", <<>>, 0) \in GuiElement
    BY <1>5, ElementFacts
  <2>2. \A c \in D : Element(Own, "button", c, ids[c]) \in GuiElement
    BY <1>3, <1>5, ElementFacts
  <2>3. \A c \in DOMAIN log' : log'[c] \in LogEntry
    <3>1. \A c \in D : [owner |-> Own, id |-> ids[c]] \in LogEntry
      BY <1>3, <1>5 DEF LogEntry
    <3> QED BY <1>1, <1>3, <3>1 DEF AddLogs, Inv, TypeOK
  <2>4. gui' \subseteq GuiElement
    BY <1>9, <2>1, <2>2 DEF Inv, TypeOK
  <2> QED BY <1>5, <1>7, <1>8, <2>3, <2>4 DEF Inv, TypeOK
<1>11. IdsOK(k)
  <2>1. \A c, d \in D : KeyOf[c] = KeyOf[d] => c = d
    BY <1>0 DEF OnePerKey
  <2> QED BY <1>3, <1>7, <2>1 DEF IdsOK
<1>12. AllIdsOK'
  <2>1. \A o \in DOMAIN cc' : IdsOK(cc'[o])
    BY <1>8, <1>11 DEF Inv, AllIdsOK
  <2> QED BY <2>1 DEF AllIdsOK, IdsOK
<1>13. AskedOK'
  <2>1. Asked' = Asked /\ named \subseteq named' /\ AskedOK /\ DOMAIN cc \subseteq Owner
    BY <1>1 DEF Asked, Inv, TypeOK
  <2> QED BY <1>5, <1>8, <2>1, AskedSame DEF Owner
<1>14. GuiOK'
  <2> SUFFICES ASSUME NEW e \in gui' PROVE ElementOK(e)'
    BY DEF GuiOK
  <2>1. CASE e \in gui
    <3>1. ElementOK(e)
      BY <2>1 DEF Inv, GuiOK
    <3> QED BY <1>8, <3>1, ElementFrame DEF ElementOK
  <2>2. CASE e = Element(Own, "auto", <<>>, 0)
    <3>1. e.owner = Own /\ e.cat = CategoryOf(Own) /\ e.kind = "auto"
      BY <2>2 DEF Element
    <3> QED BY <1>8, <3>1 DEF ElementOK
  <2>3. ASSUME NEW c \in D, e = Element(Own, "button", c, ids[c]) PROVE ElementOK(e)'
    <3>1. /\ e.owner = Own /\ e.cat = CategoryOf(Own) /\ e.kind = "button"
          /\ e.col = c /\ e.id = ids[c]
      BY <2>3 DEF Element
    <3> QED BY <1>3, <1>7, <1>8, <3>1 DEF ElementOK
  <2> QED BY <1>9, <2>1, <2>2, <2>3
<1>15. LogOK'
  <2> SUFFICES ASSUME NEW x \in DOMAIN log' PROVE EntryOK(x)'
    BY DEF LogOK
  <2>1. CASE x \in DOMAIN log
    <3>1. log'[x] = log[x]
      BY <1>1, <2>1 DEF AddLogs
    <3>2. EntryOK(x) /\ log[x].owner # Own
      BY <1>1, <1>5, <2>1 DEF Inv, LogOK, EntryOK
    <3> QED BY <1>8, <3>1, <3>2 DEF EntryOK
  <2>2. CASE x \notin DOMAIN log
    <3>1. x \in D /\ log'[x] = [owner |-> Own, id |-> ids[x]]
      BY <1>1, <1>3, <2>2 DEF AddLogs
    <3>2. log'[x].owner = Own /\ log'[x].id = ids[x]
      BY <3>1
    <3> QED BY <1>3, <1>7, <1>8, <1>11, <3>1, <3>2 DEF EntryOK, IdsOK
  <2> QED BY <2>1, <2>2
<1>16. AllEnforce'
  <2>1. \A o \in DOMAIN cc' \ exposed' : Enforces(cc'[o], CategoryOf(o))
    BY <1>1, <1>5, <1>7, <1>8 DEF Inv, AllEnforce
  <2> QED BY <2>1 DEF AllEnforce, Enforces, On, InQP
<1> QED BY <1>10, <1>12, <1>13, <1>14, <1>15, <1>16 DEF Inv

(* A state that ends takes the elements of its category and leaves log     *)
(* entries without an owner.                                               *)
LEMMA TeardownOwnKeeps ==
  ASSUME Inv, TeardownOwn, robots' = robots
  PROVE  Inv'
<1>1. /\ cc' = Restrict(cc, DOMAIN cc \ {Own})
      /\ gui' = {Orphan(e) : e \in HideAll(gui, OwnPair)}
      /\ log' = [c \in DOMAIN log |-> Orphan(log[c])]
      /\ exposed' = exposed \ {Own} /\ UNCHANGED <<wanted, kept, named>>
  BY DEF TeardownOwn, RemoveFromSolver, CategoryOf
<1>2. DOMAIN cc' = DOMAIN cc \ {Own} /\ \A o \in DOMAIN cc' : cc'[o] = cc[o]
  BY <1>1 DEF Restrict
<1>3. \A e \in gui' : e \in gui /\ e.owner # Own
  <2> SUFFICES ASSUME NEW e \in gui, e.cat # OwnPair
               PROVE  Orphan(e) = e /\ e.owner # Own
    BY <1>1 DEF HideAll
  <2>1. e.owner # Own
    BY DEF Inv, GuiOK, ElementOK, CategoryOf
  <2> QED BY <2>1 DEF Orphan
<1>4. Own \notin Ends /\ Own # Dead /\ Dead \notin Ends
  BY CollisionsAssumption
<1>5. \A x \in DOMAIN log : /\ log'[x] \in LogEntry /\ log'[x].id = log[x].id
                           /\ log'[x].owner = IF log[x].owner = Own THEN Dead ELSE log[x].owner
  <2> SUFFICES ASSUME NEW x \in DOMAIN log
               PROVE  /\ Orphan(log[x]) \in LogEntry /\ Orphan(log[x]).id = log[x].id
                      /\ Orphan(log[x]).owner = IF log[x].owner = Own THEN Dead ELSE log[x].owner
    BY <1>1
  <2>1. log[x] \in LogEntry
    BY DEF Inv, TypeOK
  <2> QED BY <2>1 DEF Orphan, LogEntry
<1>6. TypeOK'
  BY <1>1, <1>2, <1>3, <1>5 DEF Inv, TypeOK
<1>7. AllIdsOK'
  BY <1>2 DEF Inv, AllIdsOK, IdsOK
<1>8. AskedOK'
  <2>1. Asked' = Asked /\ named \subseteq named' /\ AskedOK /\ DOMAIN cc \subseteq Owner
    BY <1>1 DEF Asked, Inv, TypeOK
  <2> QED BY <1>2, <1>4, <2>1, AskedSame DEF Owner
<1>9. GuiOK'
  <2> SUFFICES ASSUME NEW e \in gui' PROVE ElementOK(e)'
    BY DEF GuiOK
  <2>1. ElementOK(e) /\ e.owner # Own
    BY <1>3 DEF Inv, GuiOK
  <2> QED BY <1>2, <2>1, ElementFrame DEF ElementOK
<1>10. LogOK'
  <2> SUFFICES ASSUME NEW x \in DOMAIN log PROVE EntryOK(x)'
    BY <1>1 DEF LogOK
  <2>1. EntryOK(x) /\ Dead \notin DOMAIN cc
    BY <1>4 DEF Inv, LogOK, TypeOK, Owner
  <2> QED BY <1>2, <1>4, <1>5, <2>1 DEF EntryOK
<1>11. AllEnforce'
  <2>1. \A o \in DOMAIN cc' \ exposed' : Enforces(cc'[o], CategoryOf(o))
    BY <1>1, <1>2 DEF Inv, AllEnforce
  <2> QED BY <2>1 DEF AllEnforce, Enforces, On, InQP
<1> QED BY <1>6, <1>7, <1>8, <1>9, <1>10, <1>11 DEF Inv

-----------------------------------------------------------------------------
(* The robots left when one is removed are still robots.                   *)
LEMMA RemoveAtType ==
  ASSUME NEW S, NEW s \in Seq(S), NEW i \in DOMAIN s
  PROVE  RemoveAt(s, i) \in Seq(S)
BY DEF RemoveAt

(* The constraints are left alone by changes of the robots.                *)
LEMMA RobotsKeep ==
  ASSUME Inv, robots' \in Seq(RobotName),
         UNCHANGED <<cc, gui, log, wanted, kept, named>>, AllEnforce'
  PROVE  Inv'
<1>1. TypeOK' /\ AllIdsOK' /\ GuiOK' /\ LogOK'
  BY DEF Inv, TypeOK, AllIdsOK, GuiOK, ElementOK, LogOK, EntryOK
<1>2. Asked' = Asked /\ named \subseteq named' /\ AskedOK /\ DOMAIN cc \subseteq Owner
  BY DEF Asked, Inv, TypeOK
<1>3. AskedOK'
  BY <1>2, AskedSame DEF Owner
<1> QED BY <1>1, <1>3 DEF Inv

(* Every step keeps the invariant.                                         *)
LEMMA NextInv == Inv /\ [Next]_vars => Inv'
<1> SUFFICES ASSUME Inv, [Next]_vars PROVE Inv'
  OBVIOUS
<1>1. ASSUME NEW p \in Ends, NEW c \in Col, AddCollision(p, c), robots' = robots
      PROVE  Inv'
  BY <1>1, AddKeeps
<1>2. ASSUME NEW p \in Ends, NEW c \in Col, RemoveCollision(p, c), robots' = robots
      PROVE  Inv'
  BY <1>2, RemoveKeeps
<1>3. ASSUME NEW p \in Ends, RemoveCollisions(p), robots' = robots PROVE Inv'
  BY <1>3, RemoveAllKeeps
<1>4. ASSUME ToggleMonitor, robots' = robots PROVE Inv'
  <2>1. PICK o \in DOMAIN cc : \E c \in DOMAIN cc[o].ids : Monitor(o, c)
    BY <1>4 DEF ToggleMonitor
  <2>2. PICK c \in DOMAIN cc[o].ids : Monitor(o, c)
    BY <2>1
  <2>3. UNCHANGED <<robots, log, history>>
    BY <1>4 DEF ToggleMonitor
  <2> QED BY <2>2, <2>3, MonitorKeeps
<1>5. ASSUME StartOwn, robots' = robots PROVE Inv'
  BY <1>5, StartOwnKeeps
<1>6. ASSUME TeardownOwn, robots' = robots PROVE Inv'
  BY <1>6, TeardownOwnKeeps
<1>7. robots \in Seq(RobotName) /\ AllEnforce
  BY DEF Inv, TypeOK
<1>8. ASSUME NEW r \in RobotName, LoadRobot(r), UNCHANGED collisionVars PROVE Inv'
  <2>1. /\ robots' = Append(robots, r) /\ UNCHANGED <<cc, gui, log, wanted, kept, named>>
        /\ exposed' = exposed
    BY <1>8 DEF LoadRobot, collisionVars, history
  <2>2. /\ robots' \in Seq(RobotName)
        /\ \A i \in DOMAIN robots : i \in DOMAIN robots' /\ robots'[i] = robots[i]
    BY <1>7, <2>1
  <2>3. AllEnforce'
    BY <1>7, <2>1, <2>2 DEF AllEnforce, Enforces, On, InQP
  <2> QED BY <2>1, <2>2, <2>3, RobotsKeep
<1>9. ASSUME NEW r \in RobotName, RobotGone(r) PROVE Inv'
  <2>1. /\ HasRobot(r) /\ robots' = RemoveAt(robots, IndexOf(r)) /\ exposed' = DOMAIN cc
        /\ UNCHANGED <<cc, gui, log, wanted, kept, named>>
    BY <1>9 DEF RobotGone, RemoveRobot
  <2>2. IndexOf(r) \in DOMAIN robots
    BY <1>7, <2>1, IndexFacts
  <2>3. robots' \in Seq(RobotName)
    BY <1>7, <2>1, <2>2, RemoveAtType
  <2>4. AllEnforce'
    BY <2>1 DEF AllEnforce
  <2> QED BY <2>1, <2>3, <2>4, RobotsKeep
<1>10. CASE UNCHANGED vars
  <2>1. /\ robots' \in Seq(RobotName) /\ UNCHANGED <<cc, gui, log, wanted, kept, named>>
        /\ exposed' = exposed /\ robots' = robots
    BY <1>7, <1>10 DEF vars, collisionVars, history
  <2>2. AllEnforce'
    BY <1>7, <2>1 DEF AllEnforce, Enforces, On, InQP
  <2> QED BY <2>1, <2>2, RobotsKeep
<1> QED BY <1>1, <1>2, <1>3, <1>4, <1>5, <1>6, <1>8, <1>9, <1>10
        DEF Next, Calls, RobotsChange

(* The managers of the configuration have no collision at first.           *)
LEMMA InitInv == Init => Inv
<1> SUFFICES ASSUME Init PROVE Inv
  OBVIOUS
<1>1. /\ robots = Loaded /\ cc = [p \in Configured |-> NewConstraint(p)]
      /\ gui = {Element(p, "auto", <<>>, 0) : p \in Configured}
      /\ log = NoIds /\ wanted = {} /\ kept = {} /\ exposed = {}
  BY DEF Init
<1>2. robots \in Seq(RobotName)
  BY <1>1, RobotsAssumption
<1>3. DOMAIN cc = Configured /\ DOMAIN log = {} /\ Asked = {}
  BY <1>1 DEF NoIds, Asked
<1>4. ASSUME NEW p \in Configured
      PROVE  /\ p \in Ends /\ p # Own /\ CategoryOf(p) = p
             /\ cc[p] \in Constraint /\ DOMAIN cc[p].ids = {}
             /\ IdsOK(cc[p]) /\ Enforces(cc[p], p)
  <2>1. p \in Ends /\ HasRobot(p[1]) /\ HasRobot(p[2])
    BY <1>1, ConfiguredFacts DEF HasRobot
  <2>2. cc[p] = NewConstraint(p)
    BY <1>1
  <2>3. p # Own /\ CategoryOf(p) = p
    BY <2>1, EndFacts DEF CategoryOf
  <2> QED BY <1>2, <2>1, <2>2, <2>3, NewConstraintFacts
<1>5. TypeOK
  <2>1. \A p \in Configured : Element(p, "auto", <<>>, 0) \in GuiElement
    BY <1>4, ElementFacts DEF Owner
  <2> QED BY <1>1, <1>2, <1>3, <1>4, <2>1 DEF TypeOK, Owner
<1>6. AllIdsOK /\ AllEnforce
  BY <1>3, <1>4 DEF AllIdsOK, AllEnforce
<1>7. AskedOK
  <2>1. \A m \in DOMAIN cc : Tells(m)
    BY <1>3, <1>4 DEF Tells
  <2>2. Mirrored /\ Homed /\ Twins
    BY <1>3 DEF Mirrored, Homed, Twins, Endless
  <2> QED BY <2>1, <2>2 DEF AskedOK
<1>8. GuiOK
  <2> SUFFICES ASSUME NEW p \in Configured PROVE ElementOK(Element(p, "auto", <<>>, 0))
    BY <1>1 DEF GuiOK
  <2> QED BY <1>3 DEF ElementOK, Element
<1>9. LogOK
  BY <1>3 DEF LogOK
<1> QED BY <1>5, <1>6, <1>7, <1>8, <1>9 DEF Inv

(* Inv holds in every reachable state.                                     *)
THEOREM Invariance == Spec => []Inv
BY InitInv, NextInv, PTL DEF Spec

-----------------------------------------------------------------------------
(* The calls never make a manager for each order of two robots: where both *)
(* are, both come from the configuration, which may have any pairs.        *)
THEOREM ManagersAreUnique == Spec => []OneManagerPerPair
<1>1. Inv => OneManagerPerPair
  BY DEF Inv, TypeOK, Owner, AskedOK, Twins, OneManagerPerPair
<1> QED BY <1>1, Invariance, PTL

(* hasCollision tells what was asked for, but for the removals that named  *)
(* the robots in the other order and for the collisions that share a key.  *)
THEOREM AsAskedAlways == Spec => []CollisionsAsAsked
<1>1. Inv => CollisionsAsAsked
  <2> SUFFICES ASSUME Inv, NEW p \in Ends, NEW c \in Col
               PROVE  /\ HasCollision(p, c) => <<p, c>> \in Asked
                      /\ <<p, c>> \in Asked => HasCollision(p, c) \/ Clash(p, c)
    BY DEF CollisionsAsAsked, Asked
  <2>1. /\ p # Own /\ Swap(p) # Own /\ Swap(p) \in Ends /\ Swap(c) \in Col
        /\ (Swap(p) = p) <=> (p[1] = p[2])
    BY EndFacts, ColFacts
  <2>2. /\ p \in DOMAIN cc => Tells(p)
        /\ Swap(p) \in DOMAIN cc => Tells(Swap(p))
    BY <2>1 DEF Inv, AskedOK
  <2>3. p[1] # p[2] => (<<p, c>> \in Asked <=> <<Swap(p), Swap(c)>> \in Asked)
    BY DEF Inv, AskedOK, Mirrored
  <2>4. <<p, c>> \in Asked => p \in DOMAIN cc \/ Swap(p) \in DOMAIN cc
    BY DEF Inv, AskedOK, Homed
  <2>5. CASE p \in DOMAIN cc
    BY <2>1, <2>2, <2>5 DEF Tells, HasCollision, Clash
  <2>6. CASE p \notin DOMAIN cc
    BY <2>1, <2>2, <2>3, <2>4, <2>6 DEF Tells, HasCollision, Clash
  <2> QED BY <2>5, <2>6
<1> QED BY <1>1, Invariance, PTL

(* No button or label of the GUI calls a constraint that is gone, or for a *)
(* collision that it has no more.                                          *)
THEOREM CallbacksAreLive == Spec => []GuiCallbacksLive
<1>1. Inv => GuiCallbacksLive
  BY DEF Inv, GuiOK, ElementOK, GuiCallbacksLive
<1> QED BY <1>1, Invariance, PTL

(* No log entry shows another collision than the one it is named after.    *)
THEOREM LogNamesRight == Spec => []LogNamesItsCollision
<1>1. Inv => LogNamesItsCollision
  <2> SUFFICES ASSUME Inv, NEW c \in DOMAIN log, log[c].owner \in DOMAIN cc,
                      NEW d \in DOMAIN cc[log[c].owner].ids,
                      cc[log[c].owner].ids[d] = log[c].id
               PROVE  c = d
    BY DEF LogNamesItsCollision
  <2>1. EntryOK(c)
    BY DEF Inv, LogOK
  <2> QED BY <2>1 DEF EntryOK
<1> QED BY <1>1, Invariance, PTL

(* A collision that a constraint has, between bodies its two robots have,  *)
(* is in the QP and between these robots, through any calls, unless a      *)
(* robot was removed while the constraint was there.                       *)
THEOREM EnforcedAlways == Spec => []CollisionsEnforced
<1>1. Inv => CollisionsEnforced
  BY DEF Inv, AllEnforce, Enforces, On, InQP, CollisionsEnforced
<1> QED BY <1>1, Invariance, PTL
=============================================================================
