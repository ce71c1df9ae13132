----------------------------- MODULE GuiProofs -----------------------------
(***************************************************************************)
(* The tree of the GUI, for any categories, names and editions, those the  *)
(* callbacks of a client's requests make included.                         *)
(*                                                                         *)
(* That no category is empty is not inductive: a category that holds only  *)
(* another one is kept by it, and the pruning after a removal stops at the *)
(* first category that is used.  What is kept is that every category has   *)
(* an element at or below it, and that the path to it exists.  Between the *)
(* removal of elements of c and the pruning it holds but on the way to c   *)
(* (AllUsedBut); the loops over names, requests and sources keep it from   *)
(* one turn to the next.                                                   *)
(***************************************************************************)
EXTENDS GuiServer, IterationProofs, FiniteSetTheorems, SequenceTheorems, TLAPS

Element == [cat : Category, name : Name, source : Source \cup {NoSource},
            line : Nat \cup {NoLine}]
Trees == [cats : SUBSET Category, elements : SUBSET Element,
          id : [Category -> Nat], lost : SUBSET Category]

(* The categories on the way to one that exists exist, up to the root, and *)
(* so do those of the elements.                                            *)
Rooted(t) ==
  /\ <<>> \in t.cats
  /\ \A d \in t.cats : \A n \in 0..Len(d) : SubSeq(d, 1, n) \in t.cats
  /\ \A e \in t.elements : e.cat \in t.cats

(* There is an element in d or below it.                                   *)
Used(t, d) == \E e \in t.elements : Under(d, e.cat)
AllUsed(t) == \A d \in t.cats \ {<<>>} : Used(t, d)
(* ... but perhaps those on the way to c, until they are pruned.           *)
AllUsedBut(t, c) == \A d \in t.cats \ {<<>>} : Under(d, c) \/ Used(t, d)

(* A category has no two elements of one name.                             *)
NoTwins(t) == \A e, f \in t.elements : e.cat = f.cat /\ e.name = f.name => e = f

(* The rows there are have had their line, unless one has lost its end.    *)
RowsEnded(t) ==
  \A f \in t.elements : f.line # NoLine => f.line < t.id[f.cat] \/ f.cat \in t.lost

(* What every edition of the tree keeps.                                   *)
Sound(t) == t \in Trees /\ Rooted(t) /\ AllUsed(t) /\ NoTwins(t) /\ RowsEnded(t)

(* What the server and its client hold.                                    *)
Widget == [cat : Category, name : Name]
GuiInv ==
  /\ Sound(tree)
  /\ pub \in Seq(SUBSET Widget) /\ reqs \in Seq(Widget) /\ view \in SUBSET Widget

-----------------------------------------------------------------------------
(* Paths.                                                                  *)
Path == Seq(STRING)

(* A category is a path, and what leads to it is one too.                  *)
LEMMA CategoryPath ==
  /\ Category \subseteq Path /\ <<>> \in Category
  /\ \A c \in Category : Len(c) \in Nat /\ \A n \in 0..Len(c) : SubSeq(c, 1, n) \in Category
<1>1. /\ Category \subseteq Path /\ <<>> \in Category
      /\ \A c \in Category : \A n \in 0..Len(c) : SubSeq(c, 1, n) \in Category
  BY BuilderAssumption DEF Path
<1>2. \A c \in Path : Len(c) \in Nat
  BY DEF Path
<1> QED BY <1>1, <1>2

(* The path on the way to c, n names long.                                 *)
LEMMA WayFacts ==
  ASSUME NEW c \in Path, NEW n \in 0..Len(c)
  PROVE  /\ SubSeq(c, 1, n) \in Path /\ Len(SubSeq(c, 1, n)) = n
         /\ \A i \in 1..n : SubSeq(c, 1, n)[i] = c[i]
<1>1. Len(c) \in Nat
  BY DEF Path
<1> QED BY <1>1 DEF Path

(* d is c or below c: it begins like c.                                    *)
LEMMA UnderIff ==
  ASSUME NEW c \in Path, NEW d \in Path
  PROVE  Under(c, d) <=> Len(c) <= Len(d) /\ \A i \in 1..Len(c) : c[i] = d[i]
<1>1. Len(c) \in Nat /\ Len(d) \in Nat
  BY DEF Path
<1>2. CASE Len(c) <= Len(d)
  <2> DEFINE a == SubSeq(c, 1, Len(c))
             b == SubSeq(d, 1, Len(c))
  <2>1. /\ a \in Path /\ Len(a) = Len(c) /\ \A i \in 1..Len(c) : a[i] = c[i]
    <3>1. Len(c) \in 0..Len(c)
      BY <1>1
    <3> QED BY <3>1, WayFacts
  <2>2. /\ b \in Path /\ Len(b) = Len(c) /\ \A i \in 1..Len(c) : b[i] = d[i]
    <3>1. Len(c) \in 0..Len(d)
      BY <1>1, <1>2
    <3> QED BY <3>1, WayFacts
  <2>3. Under(c, d) <=> a = b
    BY <1>2 DEF Under, IsPrefix
  <2> HIDE DEF a, b
  <2>4. a = b => \A i \in 1..Len(c) : c[i] = d[i]
    BY <2>1, <2>2
  <2>5. ASSUME \A i \in 1..Len(c) : c[i] = d[i] PROVE a = b
    <3>1. Len(a) = Len(b) /\ \A i \in 1..Len(a) : a[i] = b[i]
      BY <2>1, <2>2, <2>5
    <3> QED BY ONLY <2>1, <2>2, <3>1, SeqEqual DEF Path
  <2> QED BY <1>2, <2>3, <2>4, <2>5
<1>3. CASE ~(Len(c) <= Len(d))
  BY <1>3 DEF Under, IsPrefix
<1> QED BY <1>2, <1>3

(* Under is an order with the root below everything ...                    *)
LEMMA UnderOrder ==
  /\ \A c \in Path : Under(c, c) /\ Under(<<>>, c) /\ (Under(c, <<>>) => c = <<>>)
  /\ \A c, d, e \in Path : Under(c, d) /\ Under(d, e) => Under(c, e)
  /\ \A c, d \in Path : Under(c, d) /\ Under(d, c) => c = d
<1>1. ASSUME NEW c \in Path
      PROVE  Under(c, c) /\ Under(<<>>, c) /\ (Under(c, <<>>) => c = <<>>)
  <2>1. Len(c) \in Nat /\ <<>> \in Path /\ Len(<<>>) = 0 /\ (Len(c) = 0 => c = <<>>)
    BY DEF Path
  <2> QED BY <2>1, UnderIff
<1>2. ASSUME NEW c \in Path, NEW d \in Path, NEW e \in Path, Under(c, d), Under(d, e)
      PROVE  Under(c, e)
  <2>1. Len(c) \in Nat /\ Len(d) \in Nat /\ Len(e) \in Nat
    BY DEF Path
  <2>2. /\ Len(c) <= Len(d) /\ \A i \in 1..Len(c) : c[i] = d[i]
        /\ Len(d) <= Len(e) /\ \A i \in 1..Len(d) : d[i] = e[i]
    BY <1>2, UnderIff
  <2>3. Len(c) <= Len(e) /\ \A i \in 1..Len(c) : c[i] = e[i]
    BY <2>1, <2>2
  <2> QED BY <2>3, UnderIff
<1>3. ASSUME NEW c \in Path, NEW d \in Path, Under(c, d), Under(d, c) PROVE c = d
  <2>1. Len(c) \in Nat /\ Len(d) \in Nat
    BY DEF Path
  <2>2. /\ Len(c) <= Len(d) /\ \A i \in 1..Len(c) : c[i] = d[i]
        /\ Len(d) <= Len(c)
    BY <1>3, UnderIff
  <2>3. Len(c) = Len(d) /\ \A i \in 1..Len(c) : c[i] = d[i]
    BY <2>1, <2>2
  <2> QED BY ONLY <2>3, c \in Path, d \in Path, SeqEqual DEF Path
<1> QED BY <1>1, <1>2, <1>3

(* ... and the paths on the way to one path are in line.                   *)
LEMMA UnderInLine ==
  ASSUME NEW c \in Path, NEW d \in Path, NEW e \in Path, Under(c, e), Under(d, e)
  PROVE  Under(c, d) \/ Under(d, c)
<1>1. Len(c) \in Nat /\ Len(d) \in Nat /\ Len(e) \in Nat
  BY DEF Path
<1>2. /\ Len(c) <= Len(e) /\ \A i \in 1..Len(c) : c[i] = e[i]
      /\ Len(d) <= Len(e) /\ \A i \in 1..Len(d) : d[i] = e[i]
  BY UnderIff
<1>3. CASE Len(c) <= Len(d)
  <2>1. \A i \in 1..Len(c) : c[i] = d[i]
    BY <1>1, <1>2, <1>3
  <2> QED BY <1>3, <2>1, UnderIff
<1>4. CASE Len(d) <= Len(c)
  <2>1. \A i \in 1..Len(d) : d[i] = c[i]
    BY <1>1, <1>2, <1>4
  <2> QED BY <1>4, <2>1, UnderIff
<1> QED BY <1>1, <1>3, <1>4

(* They are the beginnings of it.                                          *)
LEMMA WayUnder ==
  ASSUME NEW c \in Path
  PROVE  /\ \A n \in 0..Len(c) : Under(SubSeq(c, 1, n), c)
         /\ SubSeq(c, 1, Len(c)) = c
         /\ \A d \in Path : Under(d, c) => Len(d) \in 0..Len(c) /\ d = SubSeq(c, 1, Len(d))
         /\ \A m, n \in 0..Len(c) : m <= n => Under(SubSeq(c, 1, m), SubSeq(c, 1, n))
<1>1. Len(c) \in Nat
  BY DEF Path
<1>2. ASSUME NEW m \in 0..Len(c), NEW n \in 0..Len(c), m <= n
      PROVE  Under(SubSeq(c, 1, m), SubSeq(c, 1, n))
  <2>1. /\ SubSeq(c, 1, m) \in Path /\ Len(SubSeq(c, 1, m)) = m
        /\ \A i \in 1..m : SubSeq(c, 1, m)[i] = c[i]
    BY WayFacts
  <2>2. /\ SubSeq(c, 1, n) \in Path /\ Len(SubSeq(c, 1, n)) = n
        /\ \A i \in 1..n : SubSeq(c, 1, n)[i] = c[i]
    BY WayFacts
  <2>3. \A i \in 1..m : SubSeq(c, 1, m)[i] = SubSeq(c, 1, n)[i]
    BY <1>2, <2>1, <2>2
  <2> QED BY <1>2, <2>1, <2>2, <2>3, UnderIff
<1>3. ASSUME NEW d \in Path, Under(d, c)
      PROVE  Len(d) \in 0..Len(c) /\ d = SubSeq(c, 1, Len(d))
  <2>1. Len(d) \in Nat /\ Len(d) <= Len(c) /\ \A i \in 1..Len(d) : d[i] = c[i]
    BY <1>3, UnderIff DEF Path
  <2>2. Len(d) \in 0..Len(c)
    BY <1>1, <2>1
  <2>3. /\ SubSeq(c, 1, Len(d)) \in Path /\ Len(SubSeq(c, 1, Len(d))) = Len(d)
        /\ \A i \in 1..Len(d) : SubSeq(c, 1, Len(d))[i] = c[i]
    BY <2>2, WayFacts
  <2>4. \A i \in 1..Len(d) : d[i] = SubSeq(c, 1, Len(d))[i]
    BY <2>1, <2>3
  <2>5. d = SubSeq(c, 1, Len(d))
    BY ONLY <2>3, <2>4, d \in Path, SeqEqual DEF Path
  <2> QED BY <2>2, <2>5
<1>4. SubSeq(c, 1, Len(c)) = c
  BY <1>3, UnderOrder
<1>5. Len(c) \in 0..Len(c)
  BY <1>1
<1>6. \A n \in 0..Len(c) : Under(SubSeq(c, 1, n), c)
  <2> SUFFICES ASSUME NEW n \in 0..Len(c) PROVE Under(SubSeq(c, 1, n), c)
    OBVIOUS
  <2>1. n <= Len(c)
    BY <1>1
  <2>2. Under(SubSeq(c, 1, n), SubSeq(c, 1, Len(c)))
    BY <1>2, <1>5, <2>1
  <2> QED BY ONLY <1>4, <2>2
<1> QED BY <1>2, <1>3, <1>4, <1>6

-----------------------------------------------------------------------------
(* Removals.                                                               *)

(* What every tree is made of.                                             *)
LEMMA TreeFacts ==
  ASSUME NEW t \in Trees
  PROVE  /\ t.cats \subseteq Category /\ t.cats \subseteq Path
         /\ t.elements \subseteq Element /\ t.id \in [Category -> Nat]
         /\ t.lost \subseteq Category
         /\ \A e \in t.elements : e.cat \in Category /\ e.cat \in Path
<1>1. /\ t.cats \subseteq Category /\ t.elements \subseteq Element
      /\ t.id \in [Category -> Nat] /\ t.lost \subseteq Category
  BY DEF Trees
<1>2. \A e \in t.elements : e.cat \in Category
  BY <1>1 DEF Element
<1> QED BY <1>1, <1>2, CategoryPath

(* Fewer elements, in the same categories.                                 *)
LEMMA FewerElements ==
  ASSUME NEW t \in Trees, Rooted(t), NoTwins(t), RowsEnded(t),
         NEW E, E \subseteq t.elements
  PROVE  LET u == [t EXCEPT !.elements = E]
         IN  /\ u \in Trees /\ Rooted(u) /\ NoTwins(u) /\ RowsEnded(u)
             /\ u.elements = E /\ u.cats = t.cats /\ u.id = t.id /\ u.lost = t.lost
<1> DEFINE u == [t EXCEPT !.elements = E]
<1>1. u.elements = E /\ u.cats = t.cats /\ u.id = t.id /\ u.lost = t.lost
  BY DEF Trees
<1>2. u \in Trees
  BY DEF Trees
<1> HIDE DEF u
<1>3. Rooted(u) /\ NoTwins(u) /\ RowsEnded(u)
  BY <1>1 DEF Rooted, NoTwins, RowsEnded
<1> QED BY <1>1, <1>2, <1>3 DEF u

(* Categories that take all that is below them with them.                  *)
LEMMA ForgetFacts ==
  ASSUME NEW t \in Trees, Rooted(t), NoTwins(t), RowsEnded(t),
         NEW gone, gone \subseteq t.cats, <<>> \notin gone,
         \A c \in gone, d \in t.cats : Under(c, d) => d \in gone
  PROVE  LET u == Forget(t, gone)
         IN  /\ u \in Trees /\ Rooted(u) /\ NoTwins(u) /\ RowsEnded(u)
             /\ u.cats = t.cats \ gone
             /\ u.elements = {e \in t.elements : e.cat \notin gone}
<1> DEFINE u == Forget(t, gone)
<1>1. /\ u.cats = t.cats \ gone
      /\ u.elements = {e \in t.elements : e.cat \notin gone}
      /\ u.id = [c \in Category |-> IF c \in gone THEN 0 ELSE t.id[c]]
      /\ u.lost = t.lost \ gone
  BY DEF Trees, Forget
<1>2. u \in Trees
  <2>1. /\ t.cats \ gone \in SUBSET Category
        /\ {e \in t.elements : e.cat \notin gone} \in SUBSET Element
        /\ [c \in Category |-> IF c \in gone THEN 0 ELSE t.id[c]] \in [Category -> Nat]
        /\ t.lost \ gone \in SUBSET Category
    BY TreeFacts
  <2> QED BY <2>1 DEF Trees, Forget
<1> HIDE DEF u
<1>3. Rooted(u)
  <2>1. <<>> \in u.cats
    BY <1>1 DEF Rooted
  <2>2. ASSUME NEW d \in u.cats, NEW n \in 0..Len(d) PROVE SubSeq(d, 1, n) \in u.cats
    <3>1. d \in t.cats /\ d \notin gone /\ d \in Path
      BY <1>1, TreeFacts
    <3>2. SubSeq(d, 1, n) \in t.cats /\ Under(SubSeq(d, 1, n), d)
      BY <3>1, WayUnder DEF Rooted
    <3> QED BY <1>1, <3>1, <3>2
  <2>3. \A e \in u.elements : e.cat \in u.cats
    BY <1>1 DEF Rooted
  <2> QED BY <2>1, <2>2, <2>3 DEF Rooted
<1>4. NoTwins(u)
  BY <1>1 DEF NoTwins
<1>5. RowsEnded(u)
  <2> SUFFICES ASSUME NEW f \in u.elements, f.line # NoLine
               PROVE  f.line < u.id[f.cat] \/ f.cat \in u.lost
    BY DEF RowsEnded
  <2>1. f \in t.elements /\ f.cat \notin gone /\ f.cat \in Category
    BY <1>1, TreeFacts
  <2>2. u.id[f.cat] = t.id[f.cat]
    BY <1>1, <2>1
  <2> QED BY <1>1, <2>1, <2>2 DEF RowsEnded
<1> QED BY <1>1, <1>2, <1>3, <1>4, <1>5 DEF u

(* n is how far removeCategory climbs on the way to c.                     *)
Climbs(t, c, n) ==
  /\ n \in 1..Len(c) /\ OnlyWayTo(t, SubSeq(c, 1, n), c)
  /\ \A j \in 1..Len(c) : OnlyWayTo(t, SubSeq(c, 1, j), c) => n <= j

(* It goes somewhere: c itself, when nothing more can go.                  *)
LEMMA ClimbEnds ==
  ASSUME NEW t \in Trees, NEW c \in t.cats, c # <<>>
  PROVE  \E n : /\ Climbs(t, c, n)
                /\ RemoveCategory(t, c) = Forget(t, {d \in t.cats : Under(SubSeq(c, 1, n), d)})
<1> DEFINE A == {i \in 1..Len(c) : OnlyWayTo(t, SubSeq(c, 1, i), c)}
           best == CHOOSE i \in 1..Len(c) :
                     /\ OnlyWayTo(t, SubSeq(c, 1, i), c)
                     /\ \A j \in 1..Len(c) : OnlyWayTo(t, SubSeq(c, 1, j), c) => i <= j
<1>1. c \in Path /\ Len(c) \in 1..Len(c)
  <2>1. c \in Path
    BY TreeFacts
  <2>2. Len(c) \in Nat /\ (Len(c) = 0 => c = <<>>)
    BY <2>1 DEF Path
  <2> QED BY <2>1, <2>2
<1>2. OnlyWayTo(t, SubSeq(c, 1, Len(c)), c)
  <2>1. SubSeq(c, 1, Len(c)) = c
    BY <1>1, WayUnder
  <2>2. OnlyWayTo(t, c, c)
    BY DEF OnlyWayTo
  <2> QED BY <2>1, <2>2
<1>3. A # {} /\ A \subseteq Nat
  BY <1>1, <1>2
<1>4. PICK m \in A : \A y \in A : m <= y
  <2> HIDE DEF A
  <2> QED BY ONLY <1>3, LeastNumber
<1>5. Climbs(t, c, m)
  BY <1>4 DEF Climbs
<1>6. Climbs(t, c, best)
  <2>1. \E i \in 1..Len(c) : /\ OnlyWayTo(t, SubSeq(c, 1, i), c)
                             /\ \A j \in 1..Len(c) :
                                  OnlyWayTo(t, SubSeq(c, 1, j), c) => i <= j
    BY <1>5 DEF Climbs
  <2> QED BY ONLY <2>1, Zenon DEF Climbs
<1>7. RemoveCategory(t, c) = Forget(t, {d \in t.cats : Under(SubSeq(c, 1, best), d)})
  BY DEF RemoveCategory
<1> HIDE DEF best
<1> QED BY <1>6, <1>7

(* A tree in which only the way to c may be without an element: once c and *)
(* what it leaves empty are removed, every category has one.               *)
LEMMA RemoveCategoryFacts ==
  ASSUME NEW t \in Trees, Rooted(t), NoTwins(t), RowsEnded(t),
         NEW c \in t.cats, AllUsedBut(t, c), c # <<>>
  PROVE  /\ Sound(RemoveCategory(t, c))
         /\ RemoveCategory(t, c).elements \subseteq t.elements
<1>1. PICK n : /\ Climbs(t, c, n)
               /\ RemoveCategory(t, c) = Forget(t, {d \in t.cats : Under(SubSeq(c, 1, n), d)})
  BY ClimbEnds
<1> DEFINE p == SubSeq(c, 1, n)
           gone == {d \in t.cats : Under(p, d)}
           u == Forget(t, gone)
<1>2. c \in Path /\ Len(c) \in Nat /\ n \in 1..Len(c) /\ n \in 0..Len(c) /\ n \in Nat
  <2>1. c \in Path
    BY TreeFacts
  <2> QED BY <1>1, <2>1 DEF Climbs, Path
<1>3. p \in Path /\ Len(p) = n
  BY <1>2, WayFacts
<1>4. p # <<>> /\ <<>> \in Path
  BY <1>2, <1>3 DEF Path
<1>5. OnlyWayTo(t, p, c)
  BY <1>1 DEF Climbs
<1>6. ASSUME NEW d \in Path, Under(d, c), ~Under(p, d), d # <<>>
      PROVE  ~OnlyWayTo(t, d, c)
  <2>1. Len(d) \in 0..Len(c) /\ d = SubSeq(c, 1, Len(d))
    BY <1>2, <1>6, WayUnder
  <2>2. Len(d) # 0
    BY <1>6 DEF Path
  <2>3. ~(n <= Len(d))
    <3>1. n <= Len(d) => Under(p, SubSeq(c, 1, Len(d)))
      BY <1>2, <2>1, WayUnder
    <3> QED BY ONLY <1>6, <2>1, <3>1
  <2>4. Len(d) \in 1..Len(c)
    BY <1>2, <2>1, <2>2
  <2>5. ~OnlyWayTo(t, SubSeq(c, 1, Len(d)), c)
    BY <1>1, <2>3, <2>4 DEF Climbs
  <2> QED BY ONLY <2>1, <2>5
<1> HIDE DEF p
<1>7. /\ gone \subseteq t.cats /\ <<>> \notin gone
      /\ \A a \in gone, d \in t.cats : Under(a, d) => d \in gone
  <2>1. <<>> \notin gone
    BY <1>3, <1>4, UnderOrder
  <2>2. ASSUME NEW a \in gone, NEW d \in t.cats, Under(a, d) PROVE d \in gone
    BY <1>3, <2>2, UnderOrder, TreeFacts
  <2> QED BY <2>1, <2>2
<1>8. /\ u \in Trees /\ Rooted(u) /\ NoTwins(u) /\ RowsEnded(u)
      /\ u.cats = t.cats \ gone
      /\ u.elements = {e \in t.elements : e.cat \notin gone}
  <2> HIDE DEF gone
  <2> QED BY <1>7, ForgetFacts
<1>9. \A e \in t.elements : e.cat \in t.cats /\ e.cat \in Path
  BY TreeFacts DEF Rooted
<1> HIDE DEF u
<1>10. ASSUME NEW d \in u.cats, d # <<>> PROVE Used(u, d)
  <2>1. d \in t.cats /\ d \in Path /\ ~Under(p, d)
    BY <1>8, TreeFacts
  <2>2. ASSUME NEW e \in t.elements, Under(d, e.cat), ~Under(c, e.cat) PROVE Used(u, d)
    <3>1. ~Under(p, e.cat)
      BY <1>5, <2>2 DEF OnlyWayTo
    <3> QED BY <1>8, <2>2, <3>1 DEF Used
  <2>3. CASE Under(d, c)
    <3>1. ~OnlyWayTo(t, d, c)
      BY <1>6, <1>10, <2>1, <2>3
    <3>2. CASE \E e \in t.elements : Under(d, e.cat) /\ ~Under(c, e.cat)
      BY <2>2, <3>2
    <3>3. CASE \E a \in t.cats : Under(d, a) /\ ~Under(c, a) /\ ~Under(a, c)
      <4>1. PICK a \in t.cats : Under(d, a) /\ ~Under(c, a) /\ ~Under(a, c)
        BY <3>3
      <4>2. a \in Path /\ a # <<>>
        BY <1>10, <2>1, <4>1, UnderOrder, TreeFacts
      <4>3. PICK e \in t.elements : Under(a, e.cat)
        BY <4>1, <4>2 DEF AllUsedBut, Used
      <4>4. Under(d, e.cat)
        BY <1>9, <2>1, <4>1, <4>2, <4>3, UnderOrder
      <4>5. ~Under(c, e.cat)
        BY <1>2, <1>9, <4>1, <4>2, <4>3, UnderInLine
      <4> QED BY <2>2, <4>4, <4>5
    <3> QED BY <3>1, <3>2, <3>3 DEF OnlyWayTo
  <2>4. CASE ~Under(d, c)
    <3>1. PICK e \in t.elements : Under(d, e.cat)
      BY <1>10, <2>1, <2>4 DEF AllUsedBut, Used
    <3>2. ~Under(p, e.cat)
      <4>1. SUFFICES ASSUME Under(p, e.cat) PROVE FALSE
        OBVIOUS
      <4>2. Under(d, p)
        BY <1>3, <1>9, <2>1, <3>1, <4>1, UnderInLine
      <4>3. Under(p, c)
        BY <1>2, WayUnder DEF p
      <4> QED BY <1>2, <1>3, <2>1, <2>4, <4>2, <4>3, UnderOrder
    <3> QED BY <1>8, <3>1, <3>2 DEF Used
  <2> QED BY <2>3, <2>4
<1>11. Sound(u) /\ u.elements \subseteq t.elements
  BY <1>8, <1>10 DEF Sound, AllUsed
<1> QED BY <1>1, <1>11 DEF u, p

(* A category that is left empty goes, and what it leaves empty with it.   *)
LEMMA PruneFacts ==
  ASSUME NEW t \in Trees, Rooted(t), NoTwins(t), RowsEnded(t),
         NEW c \in t.cats, AllUsedBut(t, c)
  PROVE  Sound(Prune(t, c)) /\ Prune(t, c).elements \subseteq t.elements
<1>1. c \in Path /\ <<>> \in Path
  BY TreeFacts, CategoryPath
<1>2. CASE c = <<>>
  <2>1. Prune(t, c) = t
    BY <1>2 DEF Prune, RemoveCategory
  <2>2. AllUsed(t)
    BY <1>2, UnderOrder, TreeFacts DEF AllUsed, AllUsedBut
  <2> QED BY <2>1, <2>2 DEF Sound
<1>3. CASE c # <<>> /\ IsEmpty(t, c)
  BY <1>3, RemoveCategoryFacts DEF Prune
<1>4. CASE c # <<>> /\ ~IsEmpty(t, c)
  <2>1. Prune(t, c) = t
    BY <1>4 DEF Prune
  <2>2. Used(t, c)
    <3>1. CASE ElementsOf(t, c) # {}
      BY <1>1, <3>1, UnderOrder DEF Used, ElementsOf
    <3>2. CASE SubsOf(t, c) # {}
      <4>1. PICK d \in t.cats : Under(c, d) /\ Len(d) = Len(c) + 1
        BY <3>2 DEF SubsOf
      <4>2. d \in Path /\ Len(c) \in Nat /\ Len(d) \in Nat
        BY <1>1, TreeFacts DEF Path
      <4>3. ~Under(d, c) /\ d # <<>>
        BY <1>1, <4>1, <4>2, UnderIff
      <4>4. PICK e \in t.elements : Under(d, e.cat)
        BY <4>1, <4>3 DEF AllUsedBut, Used
      <4>5. Under(c, e.cat)
        BY <1>1, <4>1, <4>2, <4>4, UnderOrder, TreeFacts
      <4> QED BY <4>5 DEF Used
    <3> QED BY <1>4, <3>1, <3>2 DEF IsEmpty
  <2>3. AllUsed(t)
    <3> SUFFICES ASSUME NEW d \in t.cats, d # <<>>, ~Used(t, d) PROVE FALSE
      BY DEF AllUsed
    <3>1. Under(d, c)
      BY DEF AllUsedBut
    <3>2. PICK e \in t.elements : Under(c, e.cat)
      BY <2>2 DEF Used
    <3>3. Under(d, e.cat)
      BY <1>1, <3>1, <3>2, UnderOrder, TreeFacts
    <3> QED BY <3>3 DEF Used
  <2> QED BY <2>1, <2>3 DEF Sound
<1> QED BY <1>2, <1>3, <1>4

(* removeCategory.                                                         *)
LEMMA RemoveCategorySound ==
  ASSUME NEW t, Sound(t), NEW c
  PROVE  Sound(RemoveCategory(t, c)) /\ RemoveCategory(t, c).elements \subseteq t.elements
<1>1. CASE c = <<>> \/ c \notin t.cats
  BY <1>1 DEF RemoveCategory
<1>2. CASE c # <<>> /\ c \in t.cats
  BY <1>2, RemoveCategoryFacts DEF Sound, AllUsed, AllUsedBut
<1> QED BY <1>1, <1>2

(* removeElement.                                                          *)
LEMMA RemoveElementSound ==
  ASSUME NEW t, Sound(t), NEW c, NEW n
  PROVE  Sound(RemoveElement(t, c, n)) /\ RemoveElement(t, c, n).elements \subseteq t.elements
<1>1. CASE c \notin t.cats
  BY <1>1 DEF RemoveElement
<1>2. CASE c \in t.cats
  <2> DEFINE E == t.elements \ Named(t, c, n)
             u == [t EXCEPT !.elements = E]
  <2>1. t \in Trees /\ Rooted(t) /\ NoTwins(t) /\ RowsEnded(t) /\ AllUsed(t)
    BY DEF Sound
  <2>2. E \subseteq t.elements
    OBVIOUS
  <2>3. RemoveElement(t, c, n) = Prune(u, c)
    BY <1>2 DEF RemoveElement
  <2>4. /\ u \in Trees /\ Rooted(u) /\ NoTwins(u) /\ RowsEnded(u)
        /\ u.elements = E /\ u.cats = t.cats
    <3> HIDE DEF E
    <3> QED BY <2>1, <2>2, FewerElements
  <2> HIDE DEF u
  <2>5. AllUsedBut(u, c)
    <3> SUFFICES ASSUME NEW d \in t.cats, d # <<>>, ~Used(u, d) PROVE Under(d, c)
      BY <2>4 DEF AllUsedBut
    <3>1. PICK e \in t.elements : Under(d, e.cat)
      BY <2>1 DEF AllUsed, Used
    <3>2. e \notin E
      BY <2>4, <3>1 DEF Used
    <3> QED BY <3>1, <3>2 DEF Named, ElementsOf
  <2>6. Sound(Prune(u, c)) /\ Prune(u, c).elements \subseteq u.elements
    BY <1>2, <2>4, <2>5, PruneFacts
  <2> QED BY <2>3, <2>4, <2>6
<1> QED BY <1>1, <1>2

(* removeElements.                                                         *)
LEMMA RemoveElementsSound ==
  ASSUME NEW t, Sound(t), NEW c, NEW s, NEW recurse \in BOOLEAN
  PROVE  /\ Sound(RemoveElements(t, c, s, recurse))
         /\ RemoveElements(t, c, s, recurse).elements \subseteq t.elements
<1>1. CASE s = NoSource \/ c \notin t.cats
  BY <1>1 DEF RemoveElements
<1>2. CASE s # NoSource /\ c \in t.cats
  <2> DEFINE left == {e \in t.elements :
                        ~(e.source = s /\ IF recurse THEN Under(c, e.cat)
                                                     ELSE e.cat = c)}
             empty == {d \in t.cats : /\ recurse /\ Under(c, d) /\ d # c
                                      /\ ~\E e \in left : Under(d, e.cat)}
             u == [t EXCEPT !.elements = left]
             w == Forget(u, empty)
  <2>1. t \in Trees /\ Rooted(t) /\ NoTwins(t) /\ RowsEnded(t) /\ AllUsed(t)
    BY DEF Sound
  <2>2. RemoveElements(t, c, s, recurse) = Prune(w, c)
    BY <1>2 DEF RemoveElements
  <2>3. left \subseteq t.elements
    OBVIOUS
  <2>4. /\ u \in Trees /\ Rooted(u) /\ NoTwins(u) /\ RowsEnded(u)
        /\ u.elements = left /\ u.cats = t.cats
    <3> HIDE DEF left
    <3> QED BY <2>1, <2>3, FewerElements
  <2> HIDE DEF u
  <2>5. /\ c \in Path /\ <<>> \in Path /\ t.cats \subseteq Path
        /\ \A e \in t.elements : e.cat \in Path /\ e.cat \in t.cats
    BY <1>2, <2>1, TreeFacts, CategoryPath DEF Rooted
  <2>6. <<>> \notin empty /\ c \notin empty
    BY <2>5, UnderOrder
  <2>7. ASSUME NEW a \in empty, NEW d \in t.cats, Under(a, d) PROVE d \in empty
    <3>1. recurse /\ Under(c, a) /\ a # c /\ a \in Path /\ d \in Path
      BY <2>5
    <3>2. Under(c, d)
      BY <2>5, <2>7, <3>1, UnderOrder
    <3>3. d # c
      BY <2>5, <2>7, <3>1, UnderOrder
    <3>4. ASSUME NEW e \in left, Under(d, e.cat) PROVE FALSE
      <4>1. Under(a, e.cat)
        BY <2>5, <2>7, <3>1, <3>4, UnderOrder
      <4> QED BY <4>1
    <3> QED BY <3>1, <3>2, <3>3, <3>4
  <2>8. \A e \in left : e.cat \notin empty
    BY <2>5, UnderOrder
  <2>9. empty \subseteq t.cats
    OBVIOUS
  <2>10. /\ w \in Trees /\ Rooted(w) /\ NoTwins(w) /\ RowsEnded(w)
         /\ w.cats = t.cats \ empty
         /\ w.elements = {e \in left : e.cat \notin empty}
    <3> HIDE DEF empty, left
    <3> QED BY <2>4, <2>6, <2>7, <2>9, ForgetFacts
  <2>11. w.elements = left
    <3> HIDE DEF empty, left
    <3> QED BY <2>8, <2>10
  <2> HIDE DEF w
  <2>12. AllUsedBut(w, c)
    <3> SUFFICES ASSUME NEW d \in t.cats \ empty, d # <<>>, ~Under(d, c) PROVE Used(w, d)
      BY <2>10 DEF AllUsedBut
    <3>1. PICK e \in t.elements : Under(d, e.cat)
      BY <2>1 DEF AllUsed, Used
    <3>2. CASE e \in left
      BY <2>11, <3>1, <3>2 DEF Used
    <3>3. CASE e \notin left
      <4>1. recurse /\ Under(c, e.cat)
        BY <3>1, <3>3
      <4>2. Under(c, d)
        BY <2>5, <3>1, <4>1, UnderInLine
      <4>3. d # c
        BY <2>5, UnderOrder
      <4>4. \E g \in left : Under(d, g.cat)
        BY <4>1, <4>2, <4>3
      <4> QED BY <2>11, <4>4 DEF Used
    <3> QED BY <3>2, <3>3
  <2>13. c \in w.cats
    BY <1>2, <2>6, <2>10
  <2>14. Sound(Prune(w, c)) /\ Prune(w, c).elements \subseteq w.elements
    BY <2>10, <2>12, <2>13, PruneFacts
  <2> QED BY <2>2, <2>3, <2>11, <2>14
<1> QED BY <1>1, <1>2

(* reset.                                                                  *)
LEMMA ResetSound ==
  ASSUME NEW t, Sound(t)
  PROVE  Sound(ResetTree(t)) /\ ResetTree(t).elements \subseteq t.elements
<1> DEFINE u == [t EXCEPT !.elements = {}]
           gone == t.cats \ {<<>>}
           w == Forget(u, gone)
<1>1. t \in Trees /\ Rooted(t) /\ NoTwins(t) /\ RowsEnded(t)
  BY DEF Sound
<1>2. /\ u \in Trees /\ Rooted(u) /\ NoTwins(u) /\ RowsEnded(u)
      /\ u.elements = {} /\ u.cats = t.cats
  BY <1>1, FewerElements
<1> HIDE DEF u
<1>3. \A a \in gone, d \in t.cats : Under(a, d) => d \in gone
  BY <1>1, UnderOrder, TreeFacts
<1>4. /\ w \in Trees /\ Rooted(w) /\ NoTwins(w) /\ RowsEnded(w)
      /\ w.cats = t.cats \ gone /\ w.elements = {e \in u.elements : e.cat \notin gone}
  <2>1. gone \subseteq t.cats /\ <<>> \notin gone
    OBVIOUS
  <2> HIDE DEF gone
  <2> QED BY <1>2, <1>3, <2>1, ForgetFacts
<1> HIDE DEF w
<1>5. Sound(w) /\ w.elements \subseteq t.elements
  BY <1>2, <1>4 DEF Sound, AllUsed
<1> QED BY <1>5 DEF ResetTree, u, w

-----------------------------------------------------------------------------
(* Additions.                                                              *)
IsCall(k) ==
  /\ k.cat \in Category /\ k.names \in Seq(Name) /\ k.names # <<>>
  /\ k.source \in Source \cup {NoSource}
  /\ k.stacking \in {"Vertical", "Horizontal"}

(* The tree u after i elements of the call k on t: what is new belongs to  *)
(* the call, and a row that is not at its end is on the line of t.         *)
Added(u, t, k) ==
  \A e \in u.elements \ t.elements :
    /\ e.cat = k.cat
    /\ e.line = NoLine \/ (k.stacking = "Horizontal" /\ e.line = t.id[k.cat])
LineOpen(u, t, k, i) ==
  k.stacking = "Horizontal" /\ i < Len(k.names) => u.id[k.cat] = t.id[k.cat]
OnOpenLine(f, u, k, i) ==
  /\ k.stacking = "Horizontal" /\ i \in 1..(Len(k.names) - 1)
  /\ f.cat = k.cat /\ f.line = u.id[k.cat]
RowsButOne(u, k, i) ==
  \A f \in u.elements :
    f.line # NoLine => f.line < u.id[f.cat] \/ f.cat \in u.lost \/ OnOpenLine(f, u, k, i)
Adding(u, t, k, i) ==
  /\ u \in Trees /\ Rooted(u) /\ AllUsed(u) /\ NoTwins(u)
  /\ Added(u, t, k) /\ LineOpen(u, t, k, i) /\ RowsButOne(u, k, i)

(* getOrCreateCategory makes the way to a category, up to it.              *)
LEMMA GetOrCreateFacts ==
  ASSUME NEW u \in Trees, NEW c \in Category
  PROVE  LET v == GetOrCreate(u, c)
         IN  /\ v \in Trees /\ (Rooted(u) => Rooted(v)) /\ c \in v.cats
             /\ \A d \in v.cats : d \in u.cats \/ Under(d, c)
             /\ u.cats \subseteq v.cats
             /\ v.elements = u.elements /\ v.id = u.id /\ v.lost = u.lost
<1> DEFINE v == GetOrCreate(u, c)
           way == {SubSeq(c, 1, n) : n \in 0..Len(c)}
<1>1. c \in Path /\ Len(c) \in Nat /\ way \subseteq Category
  BY CategoryPath
<1>2. /\ v.cats = u.cats \cup way /\ v.elements = u.elements /\ v.id = u.id
      /\ v.lost = u.lost
  BY DEF GetOrCreate, Trees
<1>3. v \in Trees
  BY <1>1 DEF GetOrCreate, Trees
<1>4. c \in way
  <2>1. Len(c) \in 0..Len(c) /\ SubSeq(c, 1, Len(c)) = c
    BY <1>1, WayUnder
  <2> QED BY <2>1
<1>5. \A d \in way : Under(d, c)
  BY <1>1, WayUnder
<1> HIDE DEF v
<1>6. ASSUME Rooted(u) PROVE Rooted(v)
  <2>1. <<>> \in v.cats /\ \A e \in v.elements : e.cat \in v.cats
    BY <1>2, <1>6 DEF Rooted
  <2>2. ASSUME NEW d \in v.cats, NEW m \in 0..Len(d) PROVE SubSeq(d, 1, m) \in v.cats
    <3>1. CASE d \in u.cats
      BY <1>2, <1>6, <3>1 DEF Rooted
    <3>2. CASE d \in way
      <4>1. d \in Path /\ Under(d, c)
        BY <1>1, <1>5, <3>2, CategoryPath
      <4>2. SubSeq(d, 1, m) \in Path /\ Under(SubSeq(d, 1, m), d)
        BY <4>1, WayFacts, WayUnder
      <4>3. Under(SubSeq(d, 1, m), c)
        BY <1>1, <4>1, <4>2, UnderOrder
      <4>4. /\ Len(SubSeq(d, 1, m)) \in 0..Len(c)
            /\ SubSeq(d, 1, m) = SubSeq(c, 1, Len(SubSeq(d, 1, m)))
        BY <1>1, <4>2, <4>3, WayUnder
      <4>5. SubSeq(d, 1, m) \in way
        BY ONLY <4>4
      <4> QED BY <1>2, <4>5
    <3> QED BY <1>2, <3>1, <3>2
  <2> QED BY <2>1, <2>2 DEF Rooted
<1> QED BY <1>2, <1>3, <1>4, <1>5, <1>6 DEF v

(* The element addElementImpl makes.                                       *)
NewElement(u, k, i) ==
  [cat |-> k.cat, name |-> k.names[i], source |-> k.source,
   line |-> IF k.stacking = "Vertical" THEN NoLine ELSE u.id[k.cat]]
AtEnd(k, i) == k.stacking = "Vertical" \/ i = Len(k.names)

(* addElementImpl, part by part.                                           *)
LEMMA AddOneParts ==
  ASSUME NEW u \in Trees, NEW k, IsCall(k), NEW i \in 1..Len(k.names)
  PROVE  LET r == AddElementImpl(u, k, i)
             v == GetOrCreate(u, k.cat)
         IN  /\ r \in Trees /\ r.cats = v.cats
             /\ Named(u, k.cat, k.names[i]) # {} =>
                  /\ r.elements = u.elements /\ r.id = u.id
                  /\ r.lost = IF AtEnd(k, i) /\ k.stacking = "Horizontal" /\ i > 1
                              THEN u.lost \cup {k.cat} ELSE u.lost
             /\ Named(u, k.cat, k.names[i]) = {} =>
                  /\ r.elements = u.elements \cup {NewElement(u, k, i)}
                  /\ r.id = [u.id EXCEPT ![k.cat] = IF AtEnd(k, i) THEN @ + 1 ELSE @]
                  /\ r.lost = u.lost
             /\ NewElement(u, k, i) \in Element
<1> DEFINE r == AddElementImpl(u, k, i)
           v == GetOrCreate(u, k.cat)
           x == NewElement(u, k, i)
           L == IF AtEnd(k, i) /\ k.stacking = "Horizontal" /\ i > 1
                THEN u.lost \cup {k.cat} ELSE u.lost
           I == [u.id EXCEPT ![k.cat] = IF AtEnd(k, i) THEN @ + 1 ELSE @]
<1>1. /\ v \in Trees /\ v.elements = u.elements /\ v.id = u.id /\ v.lost = u.lost
  BY GetOrCreateFacts DEF IsCall
<1>2. /\ k.cat \in Category /\ k.names[i] \in Name /\ k.source \in Source \cup {NoSource}
      /\ u.id \in [Category -> Nat] /\ u.id[k.cat] \in Nat
  BY DEF IsCall, Trees
<1>3. x \in Element
  BY <1>2 DEF Element, NewElement
<1>4. L \in SUBSET Category
  BY <1>2 DEF Trees
<1>5. I \in [Category -> Nat]
  BY <1>2
<1>6. CASE Named(u, k.cat, k.names[i]) # {}
  <2>1. r = [v EXCEPT !.lost = L]
    BY <1>1, <1>6 DEF AddElementImpl, AtEnd
  <2> HIDE DEF r, L, v
  <2>2. r \in Trees /\ r.cats = v.cats /\ r.elements = v.elements /\ r.id = v.id /\ r.lost = L
    BY <1>1, <1>4, <2>1 DEF Trees
  <2> QED BY <1>1, <1>3, <1>6, <2>2 DEF r, L, v
<1>7. CASE Named(u, k.cat, k.names[i]) = {}
  <2>1. r = [v EXCEPT !.elements = u.elements \cup {x}, !.id = I]
    BY <1>1, <1>7 DEF AddElementImpl, AtEnd, NewElement, Trees
  <2>2. u.elements \cup {x} \in SUBSET Element
    BY <1>3 DEF Trees
  <2> HIDE DEF r, I, v, x
  <2>3. /\ r \in Trees /\ r.cats = v.cats /\ r.elements = u.elements \cup {x} /\ r.id = I
        /\ r.lost = v.lost
    BY <1>1, <1>5, <2>1, <2>2 DEF Trees
  <2> QED BY <1>1, <1>3, <1>7, <2>3 DEF r, I, v, x
<1> QED BY <1>6, <1>7

(* One element more.                                                       *)
LEMMA AddOneFacts ==
  ASSUME NEW u, NEW t \in Trees, NEW k, IsCall(k), NEW i \in 1..Len(k.names),
         Adding(u, t, k, i - 1)
  PROVE  Adding(AddElementImpl(u, k, i), t, k, i)
<1> DEFINE r == AddElementImpl(u, k, i)
           v == GetOrCreate(u, k.cat)
           x == NewElement(u, k, i)
           H == k.stacking = "Horizontal"
           N == Len(k.names)
<1>1. /\ u \in Trees /\ Rooted(u) /\ AllUsed(u) /\ NoTwins(u)
      /\ Added(u, t, k) /\ LineOpen(u, t, k, i - 1) /\ RowsButOne(u, k, i - 1)
  BY DEF Adding
<1>2. /\ k.cat \in Category /\ N \in Nat /\ (k.stacking = "Vertical" <=> ~H) /\ i \in 1..N
  BY DEF IsCall
<1>3. /\ v \in Trees /\ Rooted(v) /\ k.cat \in v.cats
      /\ \A d \in v.cats : d \in u.cats \/ Under(d, k.cat)
  BY <1>1, <1>2, GetOrCreateFacts
<1>4. /\ r \in Trees /\ r.cats = v.cats
      /\ Named(u, k.cat, k.names[i]) # {} =>
           /\ r.elements = u.elements /\ r.id = u.id
           /\ r.lost = IF AtEnd(k, i) /\ H /\ i > 1 THEN u.lost \cup {k.cat} ELSE u.lost
      /\ Named(u, k.cat, k.names[i]) = {} =>
           /\ r.elements = u.elements \cup {x}
           /\ r.id = [u.id EXCEPT ![k.cat] = IF AtEnd(k, i) THEN @ + 1 ELSE @]
           /\ r.lost = u.lost
      /\ x \in Element
  BY <1>1, AddOneParts
<1>5. /\ x.cat = k.cat /\ x.name = k.names[i]
      /\ x.line = IF H THEN u.id[k.cat] ELSE NoLine
  BY <1>2 DEF NewElement
<1>6. u.id \in [Category -> Nat] /\ u.id[k.cat] \in Nat
  BY <1>1, <1>2 DEF Trees
<1>7. AtEnd(k, i) <=> ~H \/ i = N
  BY <1>2 DEF AtEnd
<1>8. \A e \in u.elements : e.cat \in Category /\ e.line \in Int
  BY <1>1 DEF Trees, Element, NoLine
<1> HIDE DEF r, v, x
<1>9. \E e \in r.elements : e.cat = k.cat
  <2>1. CASE Named(u, k.cat, k.names[i]) # {}
    BY <1>4, <2>1 DEF Named, ElementsOf
  <2>2. CASE Named(u, k.cat, k.names[i]) = {}
    BY <1>4, <1>5, <2>2
  <2> QED BY <2>1, <2>2
<1>10. u.elements \subseteq r.elements
  BY <1>4
<1>11. Rooted(r)
  <2>1. \A e \in r.elements : e \in u.elements \/ e.cat = k.cat
    BY <1>4, <1>5
  <2>2. \A e \in u.elements : e.cat \in v.cats
    BY <1>1, <1>2, GetOrCreateFacts DEF Rooted, v
  <2> QED BY <1>3, <1>4, <2>1, <2>2 DEF Rooted
<1>12. AllUsed(r)
  BY <1>1, <1>3, <1>4, <1>9, <1>10 DEF AllUsed, Used
<1>13. NoTwins(r)
  <2>1. CASE Named(u, k.cat, k.names[i]) # {}
    BY <1>1, <1>4, <2>1 DEF NoTwins
  <2>2. CASE Named(u, k.cat, k.names[i]) = {}
    <3>1. \A e \in u.elements : ~(e.cat = x.cat /\ e.name = x.name)
      BY <1>5, <2>2 DEF Named, ElementsOf
    <3> QED BY <1>1, <1>4, <2>2, <3>1 DEF NoTwins
  <2> QED BY <2>1, <2>2
<1>14. H => u.id[k.cat] = t.id[k.cat]
  BY <1>1, <1>2 DEF LineOpen
<1>15. Added(r, t, k)
  <2> SUFFICES ASSUME NEW e \in r.elements \ t.elements
               PROVE  e.cat = k.cat /\ (e.line = NoLine \/ (H /\ e.line = t.id[k.cat]))
    BY DEF Added
  <2>1. CASE e \in u.elements
    BY <1>1, <2>1 DEF Added
  <2>2. CASE e = x
    BY <1>5, <1>14, <2>2
  <2> QED BY <1>4, <2>1, <2>2
<1>16. LineOpen(r, t, k, i)
  <2> SUFFICES ASSUME H, i < N PROVE r.id[k.cat] = u.id[k.cat]
    BY <1>14 DEF LineOpen
  <2>1. ~AtEnd(k, i)
    BY <1>2, <1>7
  <2> QED BY <1>2, <1>4, <1>6, <2>1
<1>17. RowsButOne(r, k, i)
  <2> SUFFICES ASSUME NEW f \in r.elements, f.line # NoLine
               PROVE  f.line < r.id[f.cat] \/ f.cat \in r.lost \/ OnOpenLine(f, r, k, i)
    BY DEF RowsButOne
  <2>1. CASE Named(u, k.cat, k.names[i]) # {}
    <3>1. f \in u.elements /\ r.id = u.id /\ u.lost \subseteq r.lost
      BY <1>4, <2>1
    <3>2. f.line < u.id[f.cat] \/ f.cat \in u.lost \/ OnOpenLine(f, u, k, i - 1)
      BY <1>1, <3>1 DEF RowsButOne
    <3>3. ASSUME OnOpenLine(f, u, k, i - 1)
          PROVE  f.cat \in r.lost \/ OnOpenLine(f, r, k, i)
      <4>1. H /\ i - 1 \in 1..(N - 1) /\ f.cat = k.cat /\ f.line = u.id[k.cat]
        BY <3>3 DEF OnOpenLine
      <4>2. CASE i = N
        <5>1. i > 1
          BY <1>2, <4>1
        <5> QED BY <1>4, <1>7, <2>1, <4>1, <4>2, <5>1
      <4>3. CASE i # N
        <5>1. i \in 1..(N - 1)
          BY <1>2, <4>3
        <5> QED BY <3>1, <4>1, <5>1 DEF OnOpenLine
      <4> QED BY <4>2, <4>3
    <3> QED BY <3>1, <3>2, <3>3
  <2>2. CASE Named(u, k.cat, k.names[i]) = {}
    <3>1. /\ r.id[k.cat] = IF AtEnd(k, i) THEN u.id[k.cat] + 1 ELSE u.id[k.cat]
          /\ \A c \in Category : c # k.cat => r.id[c] = u.id[c]
          /\ r.lost = u.lost
      BY <1>2, <1>4, <1>6, <2>2
    <3>2. ASSUME f.cat = k.cat, f.line = u.id[k.cat], H
          PROVE  f.line < r.id[f.cat] \/ OnOpenLine(f, r, k, i)
      <4>1. CASE i = N
        BY <1>6, <1>7, <3>1, <3>2, <4>1
      <4>2. CASE i # N
        <5>1. i \in 1..(N - 1)
          BY <1>2, <4>2
        <5>2. ~AtEnd(k, i)
          BY <1>7, <3>2, <4>2
        <5> QED BY <3>1, <3>2, <5>1, <5>2 DEF OnOpenLine
      <4> QED BY <4>1, <4>2
    <3>3. CASE f = x
      <4>1. H /\ f.line = u.id[k.cat] /\ f.cat = k.cat
        BY <1>5, <3>3
      <4> QED BY <3>2, <4>1
    <3>4. CASE f \in u.elements
      <4>1. f.line < u.id[f.cat] \/ f.cat \in u.lost \/ OnOpenLine(f, u, k, i - 1)
        BY <1>1, <3>4 DEF RowsButOne
      <4>2. f.cat \in Category /\ f.line \in Int /\ u.id[f.cat] \in Nat
        BY <1>6, <1>8, <3>4
      <4>3. f.line < u.id[f.cat] => f.line < r.id[f.cat]
        BY <1>6, <3>1, <4>2
      <4>4. OnOpenLine(f, u, k, i - 1) => f.line < r.id[f.cat] \/ OnOpenLine(f, r, k, i)
        BY <3>2 DEF OnOpenLine
      <4> QED BY <3>1, <4>1, <4>3, <4>4
    <3> QED BY <1>4, <2>2, <3>3, <3>4
  <2> QED BY <2>1, <2>2
<1>18. Adding(r, t, k, i)
  BY <1>4, <1>11, <1>12, <1>13, <1>15, <1>16, <1>17 DEF Adding
<1> QED BY <1>18 DEF r

(* The trees between the elements of a call.                               *)
BetweenElements(f, t, k) ==
  /\ f \in [0..Len(k.names) -> Trees] /\ f[0] = t
  /\ \A n \in 1..Len(k.names) : f[n] = AddElementImpl(f[n - 1], k, n)
  /\ AddElements(t, k) = f[Len(k.names)]

(* A call adds its elements one after the other.                           *)
LEMMA AddElementsCourse ==
  ASSUME NEW t \in Trees, NEW k, IsCall(k)
  PROVE  \E f : BetweenElements(f, t, k)
<1> DEFINE N == Len(k.names)
           ids == [i \in DOMAIN k.names |-> i]
           Rec(g) == [n \in 0..N |-> IF n = 0 THEN t ELSE AddElementImpl(g[n - 1], k, n)]
           a == CHOOSE g : g = Rec(g)
           step == [n \in 1..N |-> [x \in Trees |-> AddElementImpl(x, k, n)]]
<1>1. N \in Nat
  BY DEF IsCall
<1>2. AddElements(t, k) = a[N]
  <2> DEFINE RecI(g) == [n \in 0..Len(ids) |->
                           IF n = 0 THEN t ELSE AddElementImpl(g[n - 1], k, ids[n])]
  <2>1. AddElements(t, k) = (CHOOSE g : g = RecI(g))[Len(ids)]
    BY DEF AddElements, InTurn
  <2>2. DOMAIN k.names = 1..N
    BY DEF IsCall
  <2>3. Len(ids) = N /\ \A n \in 1..N : ids[n] = n
    BY <1>1, <2>2
  <2>4. ASSUME NEW g PROVE RecI(g) = Rec(g)
    <3> HIDE DEF ids, N
    <3>1. \A n \in 0..N : n # 0 => n \in 1..N
      BY <1>1
    <3> QED BY <2>3, <3>1
  <2>5. (CHOOSE g : g = RecI(g)) = a
    <3> HIDE DEF RecI, Rec
    <3> QED BY <2>4, Zenon
  <2> HIDE DEF RecI, a
  <2> QED BY <2>1, <2>3, <2>5
<1>3. step \in [1..N -> [Trees -> Trees]]
  BY AddOneParts
<1>4. PICK f : IsCourse(f, Trees, N, t, step)
  <2> HIDE DEF step, N
  <2> QED BY <1>1, <1>3, Course
<1>5. ASSUME NEW n \in 1..N PROVE f[n] = AddElementImpl(f[n - 1], k, n)
  <2>1. f[n - 1] \in Trees
    BY <1>1, <1>4 DEF IsCourse
  <2>2. step[n] = [x \in Trees |-> AddElementImpl(x, k, n)]
    OBVIOUS
  <2>3. f[n] = step[n][f[n - 1]]
    BY <1>4 DEF IsCourse
  <2> HIDE DEF step
  <2> QED BY <2>1, <2>2, <2>3
<1>6. f = Rec(f)
  BY <1>1, <1>4, <1>5 DEF IsCourse
<1>7. a = Rec(a)
  <2> HIDE DEF Rec
  <2> QED BY <1>6, Zenon
<1>8. a[N] = f[N]
  <2> DEFINE S == {m \in 0..N : a[m] = f[m]}
  <2> HIDE DEF a
  <2>1. 0 \in S
    BY <1>1, <1>4, <1>7 DEF IsCourse
  <2>2. ASSUME NEW n \in 1..N, n - 1 \in S PROVE n \in S
    <3>1. a[n - 1] = f[n - 1] /\ n \in 0..N /\ n # 0
      BY <1>1, <2>2
    <3>2. a[n] = AddElementImpl(a[n - 1], k, n)
      BY ONLY <1>7, <3>1
    <3> QED BY <1>5, <3>1, <3>2
  <2>3. N \in 0..N
    BY <1>1
  <2>4. N \in S
    <3> HIDE DEF S, N
    <3> QED BY ONLY <1>1, <2>1, <2>2, <2>3, UpTo, Zenon
  <2> QED BY <2>4
<1>9. BetweenElements(f, t, k)
  <2> HIDE DEF a
  <2> QED BY <1>2, <1>4, <1>5, <1>8 DEF IsCourse, BetweenElements
<1> QED BY <1>9

(* addElement: what is new is of the call, and its row is on one line.     *)
LEMMA AddElementsSound ==
  ASSUME NEW t, Sound(t), NEW k, IsCall(k)
  PROVE  Sound(AddElements(t, k)) /\ Added(AddElements(t, k), t, k)
<1> DEFINE N == Len(k.names)
<1>1. N \in Nat /\ N >= 1
  BY DEF IsCall
<1>2. t \in Trees /\ Rooted(t) /\ AllUsed(t) /\ NoTwins(t) /\ RowsEnded(t)
  BY DEF Sound
<1>3. PICK f : BetweenElements(f, t, k)
  BY <1>2, AddElementsCourse
<1> DEFINE S == {n \in 0..N : Adding(f[n], t, k, n)}
<1>4. 0 \in S
  <2>1. f[0] = t /\ 0 \in 0..N
    BY <1>1, <1>3 DEF BetweenElements
  <2>2. Adding(t, t, k, 0)
    BY <1>2 DEF Adding, Added, LineOpen, RowsButOne, RowsEnded
  <2> QED BY <2>1, <2>2
<1>5. ASSUME NEW n \in 1..N, n - 1 \in S PROVE n \in S
  <2>1. f[n] = AddElementImpl(f[n - 1], k, n) /\ n \in 0..N
    BY <1>3 DEF BetweenElements
  <2>2. Adding(f[n - 1], t, k, n - 1)
    BY <1>5
  <2>3. Adding(AddElementImpl(f[n - 1], k, n), t, k, n)
    BY ONLY <1>2, <1>5, <2>2, IsCall(k), AddOneFacts
  <2> QED BY <2>1, <2>3
<1>6. N \in S
  <2>1. N \in 0..N
    BY <1>1
  <2> HIDE DEF S, N
  <2> QED BY ONLY <1>1, <1>4, <1>5, <2>1, UpTo, Zenon
<1> DEFINE u == f[N]
<1>7. AddElements(t, k) = u /\ Adding(u, t, k, N)
  BY <1>3, <1>6 DEF BetweenElements
<1> HIDE DEF u
<1>8. RowsEnded(u)
  <2>1. ~(N \in 1..(N - 1))
    BY <1>1
  <2>2. RowsButOne(u, k, N)
    BY <1>7 DEF Adding
  <2> QED BY ONLY <2>1, <2>2 DEF RowsButOne, OnOpenLine, RowsEnded
<1> QED BY <1>7, <1>8 DEF Adding, Sound

-----------------------------------------------------------------------------
(* Requests.                                                               *)

(* The tree u of a request, or of several, on t: what is new has no line.  *)
Plain(u, t) == \A e \in u.elements \ t.elements : e.line = NoLine
Sounds == {t \in Trees : Sound(t)}

(* A finite set as a sequence.                                             *)
LEMMA SetToSeqType ==
  ASSUME NEW A, IsFiniteSet(A)
  PROVE  SetToSeq(A) \in Seq(A)
<1>1. Cardinality(A) \in Nat /\ ExistsBijection(1..Cardinality(A), A)
  BY FS_CardinalityType
<1>2. PICK f \in Bijection(1..Cardinality(A), A) : TRUE
  BY <1>1 DEF ExistsBijection
<1>3. f \in [1..Cardinality(A) -> A] /\ IsInjective(f)
  BY <1>2 DEF Bijection, Injection
<1>4. SetToSeq(A) \in [1..Cardinality(A) -> A]
  BY <1>3 DEF SetToSeq
<1> QED BY <1>1, <1>4

(* A callback shows its neighbour or hides it.                             *)
LEMMA ToggleSound ==
  ASSUME NEW t, Sound(t), NEW c \in Category, NEW n \in Name
  PROVE  Sound(Toggle(t, c, n)) /\ Plain(Toggle(t, c, n), t)
<1> DEFINE call == [cat |-> c, names |-> <<n>>, source |-> NoSource, stacking |-> "Vertical"]
<1>1. IsCall(call) /\ call.stacking = "Vertical"
  BY DEF IsCall
<1> HIDE DEF call
<1>2. CASE Named(t, c, n) # {}
  <2>1. Toggle(t, c, n) = RemoveElement(t, c, n)
    BY <1>2 DEF Toggle
  <2>2. Sound(RemoveElement(t, c, n)) /\ RemoveElement(t, c, n).elements \subseteq t.elements
    BY RemoveElementSound
  <2> QED BY <2>1, <2>2 DEF Plain
<1>3. CASE Named(t, c, n) = {} /\ HasRoom(t, call)
  <2>1. Toggle(t, c, n) = AddElements(t, call)
    BY <1>3 DEF Toggle, call
  <2>2. Sound(AddElements(t, call)) /\ Added(AddElements(t, call), t, call)
    BY <1>1, AddElementsSound
  <2> QED BY <1>1, <2>1, <2>2 DEF Plain, Added
<1>4. CASE Named(t, c, n) = {} /\ ~HasRoom(t, call)
  <2>1. Toggle(t, c, n) = t
    BY <1>4 DEF Toggle, call
  <2> QED BY <2>1 DEF Plain
<1> QED BY <1>2, <1>3, <1>4

(* What the first step left plain, the second leaves plain.                *)
LEMMA PlainTwice ==
  ASSUME NEW t, NEW u, NEW w, Plain(u, t), Plain(w, u)
  PROVE  Plain(w, t)
BY DEF Plain

(* The neighbours of a widget.                                             *)
Others(e) == {g.other : g \in {h \in Toggles : h.cat = e.cat /\ h.name = e.name}}

(* They are finitely many.                                                 *)
LEMMA OthersFacts ==
  ASSUME NEW e
  PROVE  SetToSeq(Others(e)) \in Seq(Name)
<1> DEFINE G == {h \in Toggles : h.cat = e.cat /\ h.name = e.name}
<1>1. IsFiniteSet(G)
  BY ServerAssumption, FS_Subset
<1>2. IsFiniteSet(Others(e))
  <2> DEFINE f == [g \in G |-> g.other]
  <2>1. f \in Surjection(G, Others(e))
    BY DEF Surjection, Others
  <2> HIDE DEF f, G
  <2> QED BY <1>1, <2>1, FS_Surjection
<1>3. Others(e) \subseteq Name
  BY ServerAssumption DEF Others
<1>4. SetToSeq(Others(e)) \in Seq(Others(e))
  BY <1>2, SetToSeqType
<1> HIDE DEF G
<1> QED BY <1>3, <1>4

(* The callback toggles its neighbours one after the other.                *)
LEMMA CallbackSound ==
  ASSUME NEW t, Sound(t), NEW e, e.cat \in Category
  PROVE  Sound(Callback(t, e)) /\ Plain(Callback(t, e), t)
<1> DEFINE ns == SetToSeq(Others(e))
           N == Len(ns)
           Rec(g) == [n \in 0..N |-> IF n = 0 THEN t ELSE Toggle(g[n - 1], e.cat, ns[n])]
           a == CHOOSE g : g = Rec(g)
           step == [n \in 1..N |-> [x \in Sounds |-> Toggle(x, e.cat, ns[n])]]
<1>1. N \in Nat /\ (\A n \in 1..N : ns[n] \in Name) /\ t \in Sounds
  <2>1. ns \in Seq(Name)
    BY OthersFacts
  <2>2. t \in Sounds
    BY DEF Sounds, Sound
  <2> HIDE DEF ns
  <2> QED BY <2>1, <2>2
<1>2. Callback(t, e) = a[N]
  BY DEF Callback, InTurn, Others
<1> HIDE DEF ns
<1>3. \A x \in Sounds, n \in 1..N :
        Toggle(x, e.cat, ns[n]) \in Sounds /\ Plain(Toggle(x, e.cat, ns[n]), x)
  BY <1>1, ToggleSound DEF Sounds, Sound
<1>4. step \in [1..N -> [Sounds -> Sounds]]
  BY <1>3
<1>5. PICK f : IsCourse(f, Sounds, N, t, step)
  <2> HIDE DEF step, N
  <2> QED BY <1>1, <1>4, Course
<1>6. ASSUME NEW n \in 1..N
      PROVE  f[n] = Toggle(f[n - 1], e.cat, ns[n]) /\ f[n - 1] \in Sounds
  <2>1. f[n - 1] \in Sounds
    BY <1>1, <1>5 DEF IsCourse
  <2>2. step[n] = [x \in Sounds |-> Toggle(x, e.cat, ns[n])]
    OBVIOUS
  <2>3. f[n] = step[n][f[n - 1]]
    BY <1>5 DEF IsCourse
  <2> HIDE DEF step
  <2> QED BY <2>1, <2>2, <2>3
<1>7. f = Rec(f)
  BY <1>1, <1>5, <1>6 DEF IsCourse
<1>8. a = Rec(a)
  <2> HIDE DEF Rec
  <2> QED BY <1>7, Zenon
<1>9. a[N] = f[N] /\ Plain(f[N], t)
  <2> DEFINE S == {m \in 0..N : a[m] = f[m] /\ Plain(f[m], t)}
  <2> HIDE DEF a
  <2>1. 0 \in S
    <3>1. Plain(t, t)
      BY DEF Plain
    <3> QED BY <1>1, <1>5, <1>8, <3>1 DEF IsCourse
  <2>2. ASSUME NEW n \in 1..N, n - 1 \in S PROVE n \in S
    <3>1. a[n - 1] = f[n - 1] /\ Plain(f[n - 1], t) /\ n \in 0..N /\ n # 0
      BY <1>1, <2>2
    <3>2. a[n] = Toggle(a[n - 1], e.cat, ns[n])
      BY ONLY <1>8, <3>1
    <3>3. Plain(f[n], f[n - 1])
      BY <1>3, <1>6
    <3>4. Plain(f[n], t)
      BY ONLY <3>1, <3>3, PlainTwice
    <3> QED BY <1>6, <3>1, <3>2, <3>4
  <2>3. N \in 0..N
    BY <1>1
  <2>4. N \in S
    <3> HIDE DEF S, N
    <3> QED BY ONLY <1>1, <2>1, <2>2, <2>3, UpTo, Zenon
  <2> QED BY <2>4
<1>10. f[N] \in Sounds
  BY <1>1, <1>5 DEF IsCourse
<1> HIDE DEF a
<1> QED BY <1>2, <1>9, <1>10 DEF Sounds

(* handleRequest.                                                          *)
LEMMA HandleRequestSound ==
  ASSUME NEW t, Sound(t), NEW r
  PROVE  Sound(HandleRequest(t, r)) /\ Plain(HandleRequest(t, r), t)
<1>1. CASE r.cat \in t.cats /\ Named(t, r.cat, r.name) # {}
  <2>1. HandleRequest(t, r) = Callback(t, r)
    BY <1>1 DEF HandleRequest
  <2>2. r.cat \in Category
    BY <1>1, TreeFacts DEF Sound
  <2> QED BY <2>1, <2>2, CallbackSound
<1>2. CASE ~(r.cat \in t.cats /\ Named(t, r.cat, r.name) # {})
  <2>1. HandleRequest(t, r) = t
    BY <1>2 DEF HandleRequest
  <2> QED BY <2>1 DEF Plain
<1> QED BY <1>1, <1>2

(* handle_requests, until none is left.                                    *)
LEMMA HandleRequestsSound ==
  ASSUME NEW t, Sound(t), NEW rs \in Seq(Widget)
  PROVE  Sound(HandleRequests(t, rs)) /\ Plain(HandleRequests(t, rs), t)
<1> DEFINE N == Len(rs)
           Rec(g) == [n \in 0..N |-> IF n = 0 THEN t ELSE HandleRequest(g[n - 1], rs[n])]
           a == CHOOSE g : g = Rec(g)
           step == [n \in 1..N |-> [x \in Sounds |-> HandleRequest(x, rs[n])]]
<1>1. N \in Nat /\ t \in Sounds
  BY DEF Sounds, Sound
<1>2. HandleRequests(t, rs) = a[N]
  BY DEF HandleRequests, InTurn
<1>3. \A x \in Sounds, n \in 1..N :
        HandleRequest(x, rs[n]) \in Sounds /\ Plain(HandleRequest(x, rs[n]), x)
  BY <1>1, HandleRequestSound DEF Sounds, Sound
<1>4. step \in [1..N -> [Sounds -> Sounds]]
  BY <1>3
<1>5. PICK f : IsCourse(f, Sounds, N, t, step)
  <2> HIDE DEF step, N
  <2> QED BY <1>1, <1>4, Course
<1>6. ASSUME NEW n \in 1..N
      PROVE  f[n] = HandleRequest(f[n - 1], rs[n]) /\ f[n - 1] \in Sounds
  <2>1. f[n - 1] \in Sounds
    BY <1>1, <1>5 DEF IsCourse
  <2>2. step[n] = [x \in Sounds |-> HandleRequest(x, rs[n])]
    OBVIOUS
  <2>3. f[n] = step[n][f[n - 1]]
    BY <1>5 DEF IsCourse
  <2> HIDE DEF step
  <2> QED BY <2>1, <2>2, <2>3
<1>7. f = Rec(f)
  BY <1>1, <1>5, <1>6 DEF IsCourse
<1>8. a = Rec(a)
  <2> HIDE DEF Rec
  <2> QED BY <1>7, Zenon
<1>9. a[N] = f[N] /\ Plain(f[N], t)
  <2> DEFINE S == {m \in 0..N : a[m] = f[m] /\ Plain(f[m], t)}
  <2> HIDE DEF a
  <2>1. 0 \in S
    <3>1. Plain(t, t)
      BY DEF Plain
    <3> QED BY <1>1, <1>5, <1>8, <3>1 DEF IsCourse
  <2>2. ASSUME NEW n \in 1..N, n - 1 \in S PROVE n \in S
    <3>1. a[n - 1] = f[n - 1] /\ Plain(f[n - 1], t) /\ n \in 0..N /\ n # 0
      BY <1>1, <2>2
    <3>2. a[n] = HandleRequest(a[n - 1], rs[n])
      BY ONLY <1>8, <3>1
    <3>3. Plain(f[n], f[n - 1])
      BY <1>3, <1>6
    <3>4. Plain(f[n], t)
      BY ONLY <3>1, <3>3, PlainTwice
    <3> QED BY <1>6, <3>1, <3>2, <3>4
  <2>3. N \in 0..N
    BY <1>1
  <2>4. N \in S
    <3> HIDE DEF S, N
    <3> QED BY ONLY <1>1, <2>1, <2>2, <2>3, UpTo, Zenon
  <2> QED BY <2>4
<1>10. f[N] \in Sounds
  BY <1>1, <1>5 DEF IsCourse
<1> HIDE DEF a
<1> QED BY <1>2, <1>9, <1>10 DEF Sounds

-----------------------------------------------------------------------------
(* What the client is sent names widgets.                                  *)
LEMMA ShownType == \A t \in Trees : Shown(t) \in SUBSET Widget
<1> SUFFICES ASSUME NEW t \in Trees, NEW e \in t.elements
             PROVE  [cat |-> e.cat, name |-> e.name] \in Widget
  BY DEF Shown
<1>1. e.cat \in Category /\ e.name \in Name
  BY DEF Trees, Element
<1> QED BY <1>1 DEF Widget

(* A tree after an edition, whichever, and what the edition may have added *)
(* to it: nothing, or the elements of a call.                              *)
Edited(t, u) ==
  /\ Sound(u)
  /\ \/ u.elements \subseteq t.elements
     \/ Plain(u, t)
     \/ \E k \in Calls : Added(u, t, k)

(* Every edition.                                                          *)
LEMMA EditsSound ==
  ASSUME GuiInv, Edits
  PROVE  Edited(tree, tree') /\ UNCHANGED <<pub, reqs, view>>
<1>1. Sound(tree)
  BY DEF GuiInv
<1>2. CASE AddElement
  <2>1. PICK k \in Calls : tree' = AddElements(tree, k) /\ UNCHANGED <<pub, reqs, view>>
    BY <1>2 DEF AddElement, Edit, client
  <2>2. IsCall(k)
    BY BuilderAssumption DEF IsCall
  <2>3. Sound(AddElements(tree, k)) /\ Added(AddElements(tree, k), tree, k)
    BY <1>1, <2>2, AddElementsSound
  <2> QED BY <2>1, <2>3 DEF Edited
<1>3. CASE RemoveOne
  <2>1. PICK c \in Category, n \in Name :
          tree' = RemoveElement(tree, c, n) /\ UNCHANGED <<pub, reqs, view>>
    BY <1>3 DEF RemoveOne, Edit, client
  <2> QED BY <1>1, <2>1, RemoveElementSound DEF Edited
<1>4. CASE RemoveAll
  <2>1. PICK c \in Category :
          tree' = RemoveCategory(tree, c) /\ UNCHANGED <<pub, reqs, view>>
    BY <1>4 DEF RemoveAll, Edit, client
  <2> QED BY <1>1, <2>1, RemoveCategorySound DEF Edited
<1>5. CASE RemoveOwn
  <2>1. PICK c \in Category, s \in Source, r \in BOOLEAN :
          tree' = RemoveElements(tree, c, s, r) /\ UNCHANGED <<pub, reqs, view>>
    BY <1>5 DEF RemoveOwn, Edit, client
  <2> QED BY <1>1, <2>1, RemoveElementsSound DEF Edited
<1>6. CASE Reset
  <2>1. tree' = ResetTree(tree) /\ UNCHANGED <<pub, reqs, view>>
    BY <1>6 DEF Reset, Edit, client
  <2> QED BY <1>1, <2>1, ResetSound DEF Edited
<1> QED BY <1>2, <1>3, <1>4, <1>5, <1>6 DEF Edits

(* A cycle of the server.                                                  *)
LEMMA CycleSound ==
  ASSUME GuiInv, Cycle
  PROVE  /\ Edited(tree, tree')
         /\ pub' \in Seq(SUBSET Widget) /\ reqs' = <<>> /\ view' = view
<1>1. Sound(tree) /\ reqs \in Seq(Widget) /\ pub \in Seq(SUBSET Widget)
  BY DEF GuiInv
<1>2. tree' = HandleRequests(tree, reqs) /\ reqs' = <<>> /\ view' = view
  BY DEF Cycle, client
<1>3. Sound(tree') /\ Plain(tree', tree)
  BY <1>1, <1>2, HandleRequestsSound
<1>4. Shown(tree') \in SUBSET Widget
  BY <1>3, ShownType DEF Sound
<1>5. pub' = pub \/ pub' = Append(pub, Shown(tree'))
  BY DEF Cycle, Publish
<1>6. pub' \in Seq(SUBSET Widget)
  BY <1>1, <1>4, <1>5
<1> QED BY <1>2, <1>3, <1>6 DEF Edited

(* The empty tree.                                                         *)
LEMMA GuiInitInv == Init => GuiInv
<1> SUFFICES ASSUME Init PROVE GuiInv
  OBVIOUS
<1>1. tree = EmptyTree /\ pub = <<>> /\ reqs = <<>> /\ view = {}
  BY DEF Init
<1>2. /\ tree.cats = {<<>>} /\ tree.elements = {} /\ tree.lost = {}
      /\ tree.id = [c \in Category |-> 0]
  BY <1>1 DEF EmptyTree
<1>3. tree \in Trees
  BY <1>1, CategoryPath DEF EmptyTree, Trees
<1>4. Rooted(tree)
  <2>1. \A n \in 0..Len(<<>>) : SubSeq(<<>>, 1, n) = <<>>
    OBVIOUS
  <2> QED BY <1>2, <2>1 DEF Rooted
<1>5. Sound(tree)
  BY <1>2, <1>3, <1>4 DEF Sound, AllUsed, NoTwins, RowsEnded
<1> QED BY <1>1, <1>5 DEF GuiInv

(* Editions, cycles, and what the client and the network do.               *)
LEMMA GuiNextInv == GuiInv /\ [Next]_vars => GuiInv'
<1> SUFFICES ASSUME GuiInv, [Next]_vars PROVE GuiInv'
  OBVIOUS
<1>1. /\ Sound(tree) /\ pub \in Seq(SUBSET Widget) /\ reqs \in Seq(Widget)
      /\ view \in SUBSET Widget
  BY DEF GuiInv
<1>2. CASE Edits
  BY <1>1, <1>2, EditsSound DEF GuiInv, Edited
<1>3. CASE Cycle
  <2>1. <<>> \in Seq(Widget)
    OBVIOUS
  <2> QED BY <1>1, <1>3, <2>1, CycleSound DEF GuiInv, Edited
<1>4. CASE Die
  BY <1>1, <1>4 DEF Die, client, GuiInv
<1>5. CASE Lose
  <2>1. Tail(pub) \in Seq(SUBSET Widget)
    BY <1>1, <1>5 DEF Lose
  <2> QED BY <1>1, <1>5, <2>1 DEF Lose, client, GuiInv
<1>6. CASE Receive
  <2>1. pub' = <<>> /\ tree' = tree /\ reqs' = reqs /\ (view' = view \/ view' = Last(pub))
    BY <1>6 DEF Receive
  <2>2. Last(pub) \in SUBSET Widget
    <3>1. pub # <<>>
      BY <1>6 DEF Receive
    <3>2. Len(pub) \in 1..Len(pub)
      BY <1>1, <3>1
    <3> QED BY <1>1, <3>2 DEF Last
  <2>3. <<>> \in Seq(SUBSET Widget)
    OBVIOUS
  <2> QED BY <1>1, <2>1, <2>2, <2>3 DEF GuiInv
<1>7. CASE Timeout
  BY <1>1, <1>7 DEF Timeout, GuiInv
<1>8. CASE SendRequest
  <2>1. PICK e \in view : reqs' = Append(reqs, e)
    BY <1>8 DEF SendRequest
  <2>2. reqs' \in Seq(Widget)
    BY <1>1, <2>1
  <2> QED BY <1>1, <1>8, <2>2 DEF SendRequest, client, GuiInv
<1>10. CASE SetTimeout
  BY <1>1, <1>10 DEF SetTimeout, GuiInv
<1>9. CASE UNCHANGED vars
  BY <1>1, <1>9 DEF vars, client, GuiInv
<1> QED BY <1>2, <1>3, <1>4, <1>5, <1>6, <1>7, <1>8, <1>9, <1>10 DEF Next

(* The tree is sound, whatever edits it and whichever requests come.       *)
THEOREM GuiInvariance == Spec => []GuiInv
<1> QED BY GuiInitInv, GuiNextInv, PTL DEF Spec

(* Every category of a sound tree has an element or a sub-category.        *)
LEMMA SoundWellFormed == Sound(tree) => WellFormedTree
<1> SUFFICES ASSUME Sound(tree) PROVE WellFormedTree
  OBVIOUS
<1>1. tree \in Trees /\ Rooted(tree) /\ AllUsed(tree) /\ NoTwins(tree)
  BY DEF Sound
<1>2. ASSUME NEW c \in tree.cats \ {<<>>} PROVE ~IsEmpty(tree, c)
  <2>1. PICK e \in tree.elements : Under(c, e.cat)
    BY <1>1 DEF AllUsed, Used
  <2>2. c \in Path /\ e.cat \in Path /\ e.cat \in tree.cats
    BY <1>1, TreeFacts DEF Rooted
  <2>3. CASE e.cat = c
    BY <2>3 DEF IsEmpty, ElementsOf
  <2>4. CASE e.cat # c
    <3> DEFINE n == Len(c) + 1
               d == SubSeq(e.cat, 1, n)
    <3>1. Len(c) \in 0..Len(e.cat) /\ c = SubSeq(e.cat, 1, Len(c))
      BY <2>1, <2>2, WayUnder
    <3>2. Len(c) # Len(e.cat)
      BY <2>2, <2>4, <3>1, WayUnder
    <3>3. Len(e.cat) \in Nat
      BY <2>2 DEF Path
    <3>4. n \in 0..Len(e.cat) /\ Len(c) <= n
      BY <3>1, <3>2, <3>3
    <3>5. d \in tree.cats
      BY <1>1, <2>2, <3>4 DEF Rooted
    <3>6. Len(d) = n
      BY <2>2, <3>4, WayFacts
    <3>7. Under(c, d)
      <4>1. Under(SubSeq(e.cat, 1, Len(c)), d)
        BY <2>2, <3>1, <3>4, WayUnder
      <4> QED BY ONLY <3>1, <4>1
    <3> HIDE DEF d
    <3> QED BY <3>5, <3>6, <3>7 DEF IsEmpty, SubsOf
  <2> QED BY <2>3, <2>4
<1>3. UniqueNames
  BY <1>1 DEF UniqueNames, NoTwins
<1> QED BY <1>2, <1>3 DEF WellFormedTree, NoEmptyCategory

(* No category stays behind empty and no two elements of a category have   *)
(* one name, for any paths, names, calls and callbacks (StateBuilder).     *)
THEOREM WellFormedTreeAlways == Spec => []WellFormedTree
<1>1. GuiInv => WellFormedTree
  BY SoundWellFormed DEF GuiInv
<1> QED BY <1>1, GuiInvariance, PTL

(* What an edition puts on a line is on a line of its own, unless the row  *)
(* before it has lost its end.                                             *)
LEMMA EditedApart ==
  ASSUME Sound(tree), Edited(tree, tree'),
         NEW e \in tree'.elements \ tree.elements, NEW f \in tree.elements,
         e.cat = f.cat, e.line = f.line, e.line # NoLine
  PROVE  e.cat \in tree.lost
<1>1. tree \in Trees /\ RowsEnded(tree)
  BY DEF Sound
<1>2. PICK k \in Calls : Added(tree', tree, k)
  BY DEF Edited, Plain
<1>3. e.line = tree.id[k.cat] /\ e.cat = k.cat
  BY <1>2 DEF Added
<1>4. f.line < tree.id[f.cat] \/ f.cat \in tree.lost
  BY <1>1 DEF RowsEnded
<1>5. f.cat \in Category /\ tree.id[f.cat] \in Nat
  BY <1>1 DEF Trees, Element
<1>6. ~(tree.id[f.cat] < tree.id[f.cat])
  BY <1>5
<1>7. f.line = tree.id[f.cat]
  BY ONLY <1>3, e.cat = f.cat, e.line = f.line
<1> QED BY ONLY <1>4, <1>6, <1>7, e.cat = f.cat

(* A row is put on a line of its own, unless the end of the row before it  *)
(* was discarded (StateBuilder::addElementImpl).                           *)
THEOREM RowsApartAlways == Spec => RowsApart
<1>1. ASSUME GuiInv, [Next]_vars
      PROVE  [\A e \in tree'.elements \ tree.elements,
                 f \in tree.elements \cap tree'.elements :
                e.cat = f.cat /\ e.line = f.line /\ e.line # NoLine
                  => e.cat \in tree.lost]_tree
  <2>1. Sound(tree)
    BY <1>1 DEF GuiInv
  <2>2. CASE Edits
    BY <1>1, <2>1, <2>2, EditsSound, EditedApart
  <2>3. CASE Cycle
    BY <1>1, <2>1, <2>3, CycleSound, EditedApart
  <2>4. CASE ~(Edits \/ Cycle)
    <3>1. tree' = tree
      BY <1>1, <2>4 DEF Next, Die, Lose, Receive, Timeout, SetTimeout, SendRequest, client, vars
    <3> QED BY <3>1
  <2> QED BY <2>2, <2>3, <2>4
<1> QED BY <1>1, GuiInvariance, PTL DEF Spec, RowsApart
=============================================================================
