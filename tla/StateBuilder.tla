---------------------------- MODULE StateBuilder ----------------------------
(***************************************************************************)
(* mc_rtc::gui::StateBuilder: the tree of categories and elements of the   *)
(* GUI, edited by everything that lives in the controller.  A category is  *)
(* its path, a sequence of names; <<>> is the root.  What an element shows *)
(* and the plots are left out.                                             *)
(***************************************************************************)
EXTENDS Integers, Iteration, SequencesExt

CONSTANTS
  Category,   \* the paths in use, every prefix of them and the root
  Name,       \* the names of elements
  Source,     \* the objects elements are attached to
  NoSource,   \* nullptr
  Calls,      \* the calls of addElement: [cat, names, source, stacking]
  MaxId       \* bound on the line ids of a category

ASSUME BuilderAssumption ==
  /\ Category \subseteq Seq(STRING) /\ <<>> \in Category
  /\ NoSource \notin Source /\ MaxId \in Nat
  /\ \A c \in Category : \A n \in 0..Len(c) : SubSeq(c, 1, n) \in Category
  /\ \A k \in Calls : /\ k.cat \in Category /\ k.names \in Seq(Name) \ {<<>>}
                      /\ k.source \in Source \cup {NoSource}
                      /\ k.stacking \in {"Vertical", "Horizontal"}

VARIABLE tree
  (* the categories there are (cats), their elements, the line ids (id);   *)
  (* history: the categories in which the last element of a horizontal row *)
  (* was discarded (lost)                                                  *)

NoLine == -1
Under(c, d) == IsPrefix(c, d)            \* d is c or below c
ElementsOf(t, c) == {e \in t.elements : e.cat = c}
SubsOf(t, c) == {d \in t.cats : Under(c, d) /\ Len(d) = Len(c) + 1}
IsEmpty(t, c) == ElementsOf(t, c) = {} /\ SubsOf(t, c) = {}
Named(t, c, n) == {e \in ElementsOf(t, c) : e.name = n}

EmptyTree == [cats |-> {<<>>}, elements |-> {}, id |-> [c \in Category |-> 0],
              lost |-> {}]

(* Categories disappear with what is in them, and a new one starts afresh. *)
Forget(t, gone) ==
  [t EXCEPT !.cats = @ \ gone,
            !.elements = {e \in @ : e.cat \notin gone},
            !.id = [c \in Category |-> IF c \in gone THEN 0 ELSE @[c]],
            !.lost = @ \ gone]

-----------------------------------------------------------------------------
(* getOrCreateCategory                                                     *)
GetOrCreate(t, c) ==
  [t EXCEPT !.cats = @ \cup {SubSeq(c, 1, n) : n \in 0..Len(c)}]

(* addElementImpl: element number i of the call k.                         *)
BugSameLine(t, k, i) ==
  LET u == GetOrCreate(t, k.cat)
  IN  IF Named(t, k.cat, k.names[i]) # {} THEN u
      ELSE [u EXCEPT
              !.elements = @ \cup {[cat |-> k.cat, name |-> k.names[i],
                                    source |-> k.source,
                                    line |-> IF k.stacking = "Vertical"
                                             THEN NoLine ELSE u.id[k.cat]]},
              !.id[k.cat] = IF k.stacking = "Vertical" THEN @ + 1 ELSE @]
AddElementImpl(t, k, i) ==
  LET u == GetOrCreate(t, k.cat)
      last == k.stacking = "Vertical" \/ i = Len(k.names)
  IN  IF Named(t, k.cat, k.names[i]) # {}
      THEN [u EXCEPT !.lost = IF last /\ k.stacking = "Horizontal" /\ i > 1
                              THEN @ \cup {k.cat} ELSE @]
      ELSE [u EXCEPT
              !.elements = @ \cup {[cat |-> k.cat, name |-> k.names[i],
                                    source |-> k.source,
                                    line |-> IF k.stacking = "Vertical"
                                             THEN NoLine ELSE u.id[k.cat]]},
              !.id[k.cat] = IF last THEN @ + 1 ELSE @]

(* addElement: the elements of one call, one after the other.              *)
AddElements(t, k) ==
  InTurn(LAMBDA u, i : AddElementImpl(u, k, i), t, [i \in DOMAIN k.names |-> i])

(* removeCategory: climbs as long as what it leaves behind is empty, so it *)
(* removes the highest category that holds nothing but the way to c.       *)
OnlyWayTo(t, p, c) ==
  /\ \A d \in t.cats : Under(p, d) => Under(c, d) \/ Under(d, c)
  /\ \A e \in t.elements : Under(p, e.cat) => Under(c, e.cat)
BugRemoveCategory(t, c) == Forget(t, {d \in t.cats : c # <<>> /\ Under(c, d)})
RemoveCategory(t, c) ==
  IF c = <<>> \/ c \notin t.cats THEN t
  ELSE LET n == CHOOSE i \in 1..Len(c) :
                  /\ OnlyWayTo(t, SubSeq(c, 1, i), c)
                  /\ \A j \in 1..Len(c) :
                       OnlyWayTo(t, SubSeq(c, 1, j), c) => i <= j
       IN  Forget(t, {d \in t.cats : Under(SubSeq(c, 1, n), d)})

Prune(t, c) == IF IsEmpty(t, c) THEN RemoveCategory(t, c) ELSE t

(* removeElement                                                           *)
RemoveElement(t, c, n) ==
  IF c \notin t.cats THEN t
  ELSE Prune([t EXCEPT !.elements = @ \ Named(t, c, n)], c)

(* removeElements(category, source, recurse); removeElements(source) is    *)
(* the recursive one from the root.  The recursion also drops the          *)
(* sub-categories it leaves empty.                                         *)
RemoveElements(t, c, s, recurse) ==
  IF s = NoSource \/ c \notin t.cats THEN t
  ELSE LET left == {e \in t.elements :
                      ~(e.source = s /\ IF recurse THEN Under(c, e.cat)
                                                   ELSE e.cat = c)}
           empty == {d \in t.cats : /\ recurse /\ Under(c, d) /\ d # c
                                    /\ ~\E e \in left : Under(d, e.cat)}
       IN  Prune(Forget([t EXCEPT !.elements = left], empty), c)

(* reset(): everything but the line id of the root.                        *)
ResetTree(t) == Forget([t EXCEPT !.elements = {}], t.cats \ {<<>>})

-----------------------------------------------------------------------------
(* No category stays behind without anything in it: every removal, by      *)
(* name, by category or by source, cleans up as far as it emptied the      *)
(* tree, which otherwise grows with every task, contact and state.         *)
NoEmptyCategory == \A c \in tree.cats \ {<<>>} : ~IsEmpty(tree, c)

(* A name denotes at most one element of a category, whatever was added    *)
(* twice: requests find their element by its name.                         *)
UniqueNames ==
  \A e, f \in tree.elements : e.cat = f.cat /\ e.name = f.name => e = f

(* The tree a client is sent has neither empty categories nor elements     *)
(* that a request cannot tell apart, after any sequence of editions.       *)
WellFormedTree == NoEmptyCategory /\ UniqueNames
=============================================================================
