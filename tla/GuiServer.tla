----------------------------- MODULE GuiServer -----------------------------
(***************************************************************************)
(* The GUI as a client sees it: the controller edits the tree of           *)
(* StateBuilder, ControllerServer handles the pending requests and         *)
(* publishes the tree once per "rate" cycles, ControllerClient shows the   *)
(* last state it received and sends requests for the elements it shows.    *)
(* Publications may be lost and requests arrive late: between what a user  *)
(* sees and what his request meets, elements come and go.                  *)
(***************************************************************************)
EXTENDS StateBuilder, FiniteSets

CONSTANTS
  Rate,        \* rate_: cycles per publication
  Toggles,     \* [cat, name, other]: the callback of this element removes
               \* its neighbour "other", or adds it when it is not there
  MaxPub,      \* bound on the publications on their way
  MaxReq       \* bound on the requests on their way

ASSUME ServerAssumption ==
  /\ Rate \in Nat \ {0} /\ MaxPub \in Nat \ {0} /\ MaxReq \in Nat \ {0}
  /\ IsFiniteSet(Toggles)
  /\ \A t \in Toggles : t.cat \in Category /\ {t.name, t.other} \subseteq Name

VARIABLES
  iter,     \* iter_, modulo Rate
  alive,    \* the process of the server is up
  pub,      \* the publications on their way to the client
  reqs,     \* the requests on their way to the server
  buff,     \* the size of the client's receive buffer
  timeout,  \* timeout_ > 0: it is 0 unless the client is given another
  view      \* what the client shows

client == <<buff, timeout, view>>
vars == <<tree, iter, alive, pub, reqs, client>>

Init ==
  /\ tree = EmptyTree /\ iter = 0 /\ alive = TRUE
  /\ pub = <<>> /\ reqs = <<>> /\ view = {}
  /\ buff = 1 /\ timeout \in BOOLEAN

-----------------------------------------------------------------------------
Shown(t) == {[cat |-> e.cat, name |-> e.name] : e \in t.elements}
HasRoom(t, k) == t.id[k.cat] < MaxId

(* Between two cycles, and inside the controller's run(), anything edits.  *)
Edit(t) == /\ alive /\ tree' = t
           /\ UNCHANGED <<iter, alive, pub, reqs, client>>
AddElement == \E k \in Calls : HasRoom(tree, k) /\ Edit(AddElements(tree, k))
RemoveOne == \E c \in Category, n \in Name : Edit(RemoveElement(tree, c, n))
RemoveAll == \E c \in Category : Edit(RemoveCategory(tree, c))
RemoveOwn ==
  \E c \in Category, s \in Source, r \in BOOLEAN : Edit(RemoveElements(tree, c, s, r))
Reset == Edit(ResetTree(tree))
Edits == AddElement \/ RemoveOne \/ RemoveAll \/ RemoveOwn \/ Reset

-----------------------------------------------------------------------------
(* handleRequest: the element of that name, if it is there, runs its       *)
(* callback, which may edit the tree itself.                               *)
Toggle(t, c, n) ==
  LET call == [cat |-> c, names |-> <<n>>, source |-> NoSource, stacking |-> "Vertical"]
  IN  IF Named(t, c, n) # {} THEN RemoveElement(t, c, n)
      ELSE IF HasRoom(t, call) THEN AddElements(t, call) ELSE t
Callback(t, e) ==
  LET others == {g.other : g \in {h \in Toggles : h.cat = e.cat /\ h.name = e.name}}
  IN  InTurn(LAMBDA u, n : Toggle(u, e.cat, n), t, SetToSeq(others))
HandleRequest(t, r) ==
  IF r.cat \in t.cats /\ Named(t, r.cat, r.name) # {} THEN Callback(t, r) ELSE t

HandleRequests(t, rs) == InTurn(HandleRequest, t, rs)

(* publish: the tree is sent once in Rate cycles.                          *)
Publish(t) ==
  pub' = IF iter = 0 /\ Len(pub) < MaxPub THEN Append(pub, Shown(t)) ELSE pub

(* handle_requests, until no request is left, then publish.                *)
Cycle ==
  /\ alive
  /\ tree' = HandleRequests(tree, reqs)
  /\ Publish(tree')
  /\ reqs' = <<>>
  /\ iter' = (iter + 1) % Rate
  /\ UNCHANGED <<alive, client>>

Die == /\ alive /\ alive' = FALSE
       /\ UNCHANGED <<tree, iter, pub, reqs, client>>

-----------------------------------------------------------------------------
(* The subscription may lose any publication.                              *)
Lose == /\ pub # <<>> /\ pub' = Tail(pub)
        /\ UNCHANGED <<tree, iter, alive, reqs, client>>

(* run() of the client: takes the last publication there is and shows it,  *)
(* or, when it is larger than the buffer, drops it and enlarges the buffer.*)
Size(m) == Cardinality(m) + 1
BugReceive ==
  /\ pub # <<>> /\ pub' = <<>>
  /\ IF Size(Last(pub)) > buff THEN UNCHANGED <<buff, view>>
                               ELSE view' = Last(pub) /\ UNCHANGED buff
  /\ UNCHANGED <<tree, iter, alive, reqs, timeout>>
Receive ==
  /\ pub # <<>> /\ pub' = <<>>
  /\ IF Size(Last(pub)) > buff
     THEN /\ buff' = buff * 2 ^ (CHOOSE n \in 1..Size(Last(pub)) :
                                   /\ buff * 2 ^ n >= Size(Last(pub))
                                   /\ buff * 2 ^ (n - 1) < Size(Last(pub)))
          /\ UNCHANGED view
     ELSE view' = Last(pub) /\ UNCHANGED buff
  /\ UNCHANGED <<tree, iter, alive, reqs, timeout>>

(* ... or, when nothing came for longer than a positive timeout_, shows    *)
(* nothing.                                                                *)
BugTimeout == timeout /\ pub = <<>> /\ UNCHANGED vars
Timeout ==
  /\ timeout /\ pub = <<>>
  /\ view' = {}
  /\ UNCHANGED <<tree, iter, alive, pub, reqs, buff, timeout>>

(* timeout(t)                                                              *)
SetTimeout ==
  /\ timeout' \in BOOLEAN
  /\ UNCHANGED <<tree, iter, alive, pub, reqs, buff, view>>

(* send_request, for something the client shows.                           *)
SendRequest ==
  /\ Len(reqs) < MaxReq
  /\ \E e \in view : reqs' = Append(reqs, e)
  /\ UNCHANGED <<tree, iter, alive, pub, client>>

Next == \/ Edits \/ Cycle \/ Die
        \/ Lose \/ Receive \/ Timeout \/ SetTimeout \/ SendRequest

(* The control loop goes on while the process lives, the client's thread   *)
(* polls for ever, and a network that delivers infinitely often does not   *)
(* lose every publication.                                                 *)
Spec == /\ Init /\ [][Next]_vars
        /\ WF_vars(Cycle) /\ WF_vars(Timeout) /\ SF_vars(Receive)

-----------------------------------------------------------------------------
(* Two rows of elements share a line id, and so a line of the display,     *)
(* only when the last element of the former row was discarded because its  *)
(* name was taken: the id is advanced with the last element of a row.      *)
RowsApart ==
  [][\A e \in tree'.elements \ tree.elements, f \in tree.elements \cap tree'.elements :
       e.cat = f.cat /\ e.line = f.line /\ e.line # NoLine => e.cat \in tree.lost]_tree

(* When nothing edits the tree any more and the process lives, the client  *)
(* shows it again and again: lost publications, a buffer that was too      *)
(* small and timeouts only delay it.                                       *)
ViewCatchesUp ==
  <>[][Cycle \/ Lose \/ Receive \/ Timeout \/ SetTimeout]_vars /\ []alive
    => []<>(view = Shown(tree))

(* When the process has died a client that keeps a positive timeout ends   *)
(* up showing nothing, although old publications may still reach it.       *)
(* Without one, which is the default, it shows its last view for ever.     *)
DeadServerShowsNothing == (~alive /\ []timeout) ~> [](view = {})
=============================================================================
