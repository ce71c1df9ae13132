----------------------------- MODULE Collisions -----------------------------
(***************************************************************************)
(* The collision constraints of a controller: one manager per ordered pair *)
(* of robots in collision_constraints_, made on demand, and the constraint *)
(* a running state owns (State::constraints_), which may be about the same *)
(* pair and then shares its GUI category.  A collision is a pair of bodies *)
(* <<b1, b2>>, which a constraint gives an id and registers under a key,   *)
(* the two names one after the other: two collisions may share it.         *)
(* Wildcards and lists are several calls.  GUI elements and log entries    *)
(* keep the constraint and the id their callbacks use.                     *)
(***************************************************************************)
EXTENDS Robots, Functions, FiniteSets

CONSTANTS
  Ends,       \* the ordered pairs of robots collisions are asked for
  Col,        \* the collisions asked for
  KeyOf,      \* collision -> the key it is registered under
  Bodies,     \* robot -> its bodies with a convex
  Configured, \* the pairs with a manager from the configuration, which
              \* starts without collisions
  OwnPair,    \* the pair of the constraint a state owns
  OwnCol,     \* and its collisions
  Own,        \* names that constraint among the owners of callbacks
  Dead,       \* an owner that was destroyed
  MaxId       \* bound on the ids

Swap(c) == <<c[2], c[1]>>
ASSUME CollisionsAssumption ==
  /\ Ends \subseteq RobotName \X RobotName
  /\ Configured \subseteq ToSet(Loaded) \X ToSet(Loaded)
  /\ \A p \in Ends \cup Configured : Swap(p) \in Ends
  /\ OwnPair \in Ends /\ OwnCol \subseteq Col /\ IsFiniteSet(OwnCol)
  /\ \A c \in Col : Swap(c) \in Col /\ Swap(Swap(c)) = c
  /\ Own \notin Ends /\ Dead \notin Ends \cup {Own} /\ MaxId \in Nat

VARIABLES
  cc,      \* the live constraints: owner -> [at, ids, next, active,
           \* monitored]: the indices of its robots, cols and collIdDict as
           \* collision -> id, the next id, the ids in the QP, monitored_
  gui,     \* the elements under "Collisions": [cat, kind, col, owner, id]
  log,     \* the log entries: collision -> [owner, id]
  wanted,  \* history: the collisions asked for and not asked to be removed
  kept,    \* history: those whose removal named the robots the other way
  named,   \* history: manager and collision of every call that reached one
  exposed  \* history: the constraints that were there when a robot left

history == <<wanted, kept, named, exposed>>
collisionVars == <<cc, gui, log, history>>
vars == <<robots, collisionVars>>

NoIds == [c \in {} |-> 0]
With(f, x, v) == [y \in DOMAIN f \cup {x} |-> IF y = x THEN v ELSE f[y]]
Both(p, c) == {<<p, c>>} \cup (IF p[1] = p[2] THEN {} ELSE {<<Swap(p), Swap(c)>>})
CategoryOf(o) == IF o = Own THEN OwnPair ELSE o
NewConstraint(p) ==
  [at |-> <<IndexOf(p[1]), IndexOf(p[2])>>, ids |-> NoIds, next |-> 0,
   active |-> {}, monitored |-> {}]

-----------------------------------------------------------------------------
(* GUI and log, where a name that is taken discards what comes later.      *)
Element(o, kind, c, i) ==
  [cat |-> CategoryOf(o), kind |-> kind, col |-> c, owner |-> o, id |-> i]
Taken(g, e) == \E f \in g : f.cat = e.cat /\ f.kind = e.kind /\ f.col = e.col
Show(g, es) == g \cup {e \in es : ~Taken(g, e)}
Hide(g, p, kind, c) == {e \in g : ~(e.cat = p /\ e.kind = kind /\ e.col = c)}
HideAll(g, p) == {e \in g : e.cat # p}
AddLogs(l, o, ids) ==
  [c \in DOMAIN l \cup DOMAIN ids |->
     IF c \in DOMAIN l THEN l[c] ELSE [owner |-> o, id |-> ids[c]]]

(* addToSolverImpl                                                         *)
AddToSolver(g, o, ids) ==
  Show(g, {Element(o, "auto", <<>>, 0)}
            \cup {Element(o, "button", c, ids[c]) : c \in DOMAIN ids})

Init ==
  /\ robots = Loaded
  /\ cc = [p \in Configured |-> NewConstraint(p)]
  /\ gui = {Element(p, "auto", <<>>, 0) : p \in Configured}
  /\ log = NoIds
  /\ wanted = {} /\ kept = {} /\ named = {} /\ exposed = {}

(* Robots::robot(index) throws past the end: such a call changes nothing.  *)
InRange(k) == k.at[1] <= Len(robots) /\ k.at[2] <= Len(robots)
(* The bodies are those of whatever robots have the indices now.           *)
HasBodies(k, c) ==
  c[1] \in Bodies[robots[k.at[1]]] /\ c[2] \in Bodies[robots[k.at[2]]]

(* __createCollId and __popCollId                                          *)
Known(k, c) == {d \in DOMAIN k.ids : KeyOf[d] = KeyOf[c]}
Register(k, c) ==
  [k EXCEPT !.ids = With(@, c, k.next), !.next = @ + 1,
            !.active = IF HasBodies(k, c) THEN @ \cup {k.next} ELSE @]
Unregister(k, c) ==
  [k EXCEPT !.ids = Restrict(@, DOMAIN @ \ {c}), !.active = @ \ {k.ids[c]},
            !.monitored = @ \ {k.ids[c]}]

(* addCollisions: the manager of the other order, of this one, or a new    *)
(* one.  With managers of both orders it never returns.  A collision whose *)
(* key is taken is ignored; one with a body or a joint that is missing     *)
(* makes the call throw once it is registered.                             *)
BugManagerFor(p) == p
ManagerFor(p) == IF p[1] # p[2] /\ Swap(p) \in DOMAIN cc THEN Swap(p) ELSE p
Endless(p) == p[1] # p[2] /\ p \in DOMAIN cc /\ Swap(p) \in DOMAIN cc
AddCollision(p, c) ==
  LET m == ManagerFor(p)
      d == IF m = p THEN c ELSE Swap(c)
      new == m \notin DOMAIN cc
      k == IF new THEN NewConstraint(m) ELSE cc[m]
      g == IF new THEN AddToSolver(gui, m, k.ids) ELSE gui
      fresh == Known(k, d) = {}
      made == fresh /\ HasBodies(k, d)
  IN  /\ ~Endless(p) /\ (new => HasRobot(p[1]) /\ HasRobot(p[2]))
      /\ InRange(k) /\ k.next < MaxId
      /\ cc' = With(cc, m, IF fresh THEN Register(k, d) ELSE k)
      /\ gui' = IF made THEN Show(g, {Element(m, "button", d, k.next)}) ELSE g
      /\ log' = IF made THEN AddLogs(log, m, With(NoIds, d, k.next)) ELSE log
      /\ wanted' = wanted \cup Both(p, c)
      /\ kept' = kept \ Both(p, c)
      /\ named' = named \cup {<<m, d>>}
      /\ UNCHANGED exposed

BugHasCollision(p, c) ==
  \/ p \in DOMAIN cc /\ c \in DOMAIN cc[p].ids
  \/ /\ p \notin DOMAIN cc /\ Swap(p) \in DOMAIN cc
     /\ c \in DOMAIN cc[Swap(p)].ids
HasCollision(p, c) ==
  \/ p \in DOMAIN cc /\ c \in DOMAIN cc[p].ids
  \/ /\ p \notin DOMAIN cc /\ Swap(p) \in DOMAIN cc
     /\ Swap(c) \in DOMAIN cc[Swap(p)].ids

(* toggleCollisionMonitor, from update() or from its button, for what is   *)
(* in the QP.                                                              *)
Monitor(o, c) ==
  LET i == cc[o].ids[c]
  IN  IF i \in cc[o].monitored
      THEN /\ gui' = Hide(gui, CategoryOf(o), "label", c)
           /\ cc' = [cc EXCEPT ![o].monitored = @ \ {i}]
      ELSE /\ gui' = Show(gui, {Element(o, "label", c, i)})
           /\ cc' = [cc EXCEPT ![o].monitored = @ \cup {i}]
ToggleMonitor ==
  /\ \E o \in DOMAIN cc : \E c \in DOMAIN cc[o].ids :
       cc[o].ids[c] \in cc[o].active /\ Monitor(o, c)
  /\ UNCHANGED <<log, history>>

(* removeCollisions of one collision, by the manager of this order only:   *)
(* what is registered under its key goes.                                  *)
Forgotten(p, c) ==
  /\ wanted' = wanted \ Both(p, c)
  /\ IF p \in DOMAIN cc
     THEN kept' = kept \ Both(p, c) /\ named' = named \cup {<<p, c>>}
     ELSE kept' = kept \cup (wanted \cap Both(p, c)) /\ UNCHANGED named
  /\ UNCHANGED exposed
BugRemoveCollision(p, c) ==
  /\ p \in DOMAIN cc => InRange(cc[p])
  /\ \/ /\ p \in DOMAIN cc => Known(cc[p], c) = {}
        /\ UNCHANGED <<cc, gui>>
     \/ /\ p \in DOMAIN cc
        /\ \E d \in Known(cc[p], c) :
             /\ cc' = [cc EXCEPT ![p] = Unregister(@, d)]
             /\ gui' = Hide(gui, p, "button", d)
  /\ Forgotten(p, c)
  /\ UNCHANGED log
RemoveCollision(p, c) ==
  /\ p \in DOMAIN cc => InRange(cc[p])
  /\ \/ /\ p \in DOMAIN cc => Known(cc[p], c) = {}
        /\ UNCHANGED <<cc, gui>>
     \/ /\ p \in DOMAIN cc
        /\ \E d \in Known(cc[p], c) :
             LET g == IF cc[p].ids[d] \in cc[p].monitored
                      THEN Hide(gui, p, "label", d) ELSE gui
             IN  /\ cc' = [cc EXCEPT ![p] = Unregister(@, d)]
                 /\ gui' = Hide(g, p, "button", d)
  /\ Forgotten(p, c)
  /\ UNCHANGED log

(* removeCollisions of a pair: reset() keeps the ids counting and          *)
(* monitored_, and drops the whole category.                               *)
BugReset(k) == [k EXCEPT !.ids = NoIds, !.active = {}, !.next = 0]
ResetConstraint(k) == [k EXCEPT !.ids = NoIds, !.active = {}]
RemoveCollisions(p) ==
  LET gone == UNION {Both(p, c) : c \in Col}
  IN  /\ IF p \in DOMAIN cc
         THEN /\ cc' = [cc EXCEPT ![p] = ResetConstraint(@)]
              /\ gui' = HideAll(gui, p)
              /\ kept' = kept \ gone
         ELSE kept' = kept \cup (wanted \cap gone) /\ UNCHANGED <<cc, gui>>
      /\ wanted' = wanted \ gone
      /\ UNCHANGED <<log, named, exposed>>

-----------------------------------------------------------------------------
(* A state with a constraint of its own: start_ loads it with its          *)
(* collisions, the first of each key, then adds it to the solver;          *)
(* teardown_ removes it, and it is destroyed with the state.  A body that  *)
(* is missing makes start_ throw.                                          *)
OnePerKey(D) ==
  \A c \in OwnCol : \E d \in D : \A e \in D : KeyOf[e] = KeyOf[c] <=> e = d
StartOwn ==
  /\ Own \notin DOMAIN cc
  /\ HasRobot(OwnPair[1]) /\ HasRobot(OwnPair[2])
  /\ \E D \in SUBSET OwnCol :
       LET list == SetToSeq(D)
           ids == [c \in D |-> (CHOOSE i \in DOMAIN list : list[i] = c) - 1]
           n == Cardinality(D)
           k == [NewConstraint(OwnPair) EXCEPT !.ids = ids, !.next = n,
                                               !.active = 0..(n - 1)]
       IN  /\ OnePerKey(D) /\ \A c \in D : HasBodies(k, c)
           /\ cc' = With(cc, Own, k)
           /\ gui' = AddToSolver(gui, Own, ids)
           /\ log' = AddLogs(log, Own, ids)
  /\ UNCHANGED history
Orphan(e) == IF e.owner = Own THEN [e EXCEPT !.owner = Dead] ELSE e
RemoveFromSolver(g, o) == HideAll(g, CategoryOf(o))
TeardownOwn ==
  /\ Own \in DOMAIN cc
  /\ cc' = Restrict(cc, DOMAIN cc \ {Own})
  /\ gui' = {Orphan(e) : e \in RemoveFromSolver(gui, Own)}
  /\ log' = [c \in DOMAIN log |-> Orphan(log[c])]
  /\ exposed' = exposed \ {Own}
  /\ UNCHANGED <<wanted, kept, named>>

(* removeRobot leaves the constraints and their indices alone.             *)
RobotGone(r) ==
  /\ RemoveRobot(r)
  /\ exposed' = DOMAIN cc
  /\ UNCHANGED <<cc, gui, log, wanted, kept, named>>

RobotsChange ==
  \E r \in RobotName : \/ LoadRobot(r) /\ UNCHANGED collisionVars
                       \/ RobotGone(r)
Calls ==
  \E p \in Ends : \/ \E c \in Col : AddCollision(p, c) \/ RemoveCollision(p, c)
                 \/ RemoveCollisions(p)
Next ==
  \/ (Calls \/ ToggleMonitor \/ StartOwn \/ TeardownOwn) /\ UNCHANGED robots
  \/ RobotsChange
Spec == Init /\ [][Next]_vars

-----------------------------------------------------------------------------
(* The manager a collision was added to is the only one of its robots in   *)
(* either order: with both, addCollisions would hand the call from one to  *)
(* the other without end.  Only the configuration can make both.           *)
OneManagerPerPair ==
  \A p \in DOMAIN cc \ {Own} :
    Endless(p) => {p, Swap(p)} \subseteq Configured

(* hasCollision tells what was asked for, in either order of the robots,   *)
(* whatever was added, removed, reset and added again: nothing is there    *)
(* that was not asked for, but for a collision whose removal named the     *)
(* robots in the other order than its manager, and nothing is lost, but    *)
(* for a collision that shares its key with another one named in a call.   *)
ClashAt(m, d) ==
  \E e \in Col : e # d /\ KeyOf[e] = KeyOf[d] /\ <<m, e>> \in named
Clash(p, c) == IF p \in DOMAIN cc THEN ClashAt(p, c) ELSE ClashAt(Swap(p), Swap(c))
CollisionsAsAsked ==
  \A p \in Ends, c \in Col :
    /\ HasCollision(p, c) => <<p, c>> \in wanted \cup kept
    /\ <<p, c>> \in wanted \cup kept => HasCollision(p, c) \/ Clash(p, c)

(* What a constraint has is in the QP, between the two robots it is named  *)
(* for, so that hasCollision() "Returns true if the given collision is     *)
(* active" (MCController.h:240).  It is registered before its bodies are   *)
(* looked up, so unless one is missing; and it looks them up by index, so  *)
(* unless a robot has left while the constraint was there.                 *)
CollisionsEnforced ==
  \A o \in DOMAIN cc \ exposed : \A c \in DOMAIN cc[o].ids :
    (\A i \in {1, 2} : c[i] \in Bodies[CategoryOf(o)[i]]) =>
      /\ cc[o].ids[c] \in cc[o].active
      /\ \A i \in {1, 2} : robots[cc[o].at[i]] = CategoryOf(o)[i]

(* Every callback in the GUI belongs to a live constraint and to a         *)
(* collision it still has (toggleCollisionMonitor throws for another),     *)
(* although the managers and the states' constraints overwrite and erase   *)
(* each other's elements by name and by category.                          *)
GuiCallbacksLive ==
  \A e \in gui : /\ e.owner \in DOMAIN cc
                 /\ e.kind # "auto" =>
                      /\ e.col \in DOMAIN cc[e.owner].ids
                      /\ cc[e.owner].ids[e.col] = e.id

(* A log entry never shows another collision of its constraint under its   *)
(* name: no id is given twice, so that an entry which was not removed with *)
(* its collision finds that one or none.                                   *)
LogNamesItsCollision ==
  \A c \in DOMAIN log : \A d \in Col :
    /\ log[c].owner \in DOMAIN cc
    /\ d \in DOMAIN cc[log[c].owner].ids
    /\ cc[log[c].owner].ids[d] = log[c].id
    => c = d
=============================================================================
