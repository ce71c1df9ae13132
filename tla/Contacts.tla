------------------------------ MODULE Contacts ------------------------------
(***************************************************************************)
(* The contacts of mc_control::MCController.  States, the GUI and          *)
(* QPSolver::setContacts edit contacts_ between two calls of               *)
(* updateContacts(), which hands them to the solver only when              *)
(* contacts_changed_ says so, and throws for a contact of a robot that is  *)
(* not there (one of an unknown surface is that of a robot never loaded).  *)
(* A contact names its robots; the solver's copy of it has their indices,  *)
(* which removeRobot() shifts and which it looks up to drop the copy.      *)
(* A contact is a member of Pair: the class of the two orders operator==   *)
(* identifies.                                                             *)
(***************************************************************************)
EXTENDS Robots, Functions, FiniteSets

CONSTANTS
  Pair,      \* the contacts
  Fixed,     \* those between two robots without degree of freedom
  Param,     \* friction and dof
  RobotsOf   \* contact -> its robots

ASSUME PairAssumption == Fixed \subseteq Pair /\ Param # {}

VARIABLES
  contacts,          \* contacts_
  contacts_changed,  \* contacts_changed_
  solver,            \* contacts_ of the solver: contact -> [v, at], its
                     \* parameters and the indices of its robots
  buttons,           \* the contacts with a button under "Contacts", "Remove"
  dangling,          \* history: of those, whose element has been erased from
                     \* contacts_, which the button's callback refers to
  cleared,           \* history: clearContacts() since the last update
  shifted            \* history: a robot left since the last update

contactVars == <<contacts, contacts_changed, solver, buttons, dangling,
                 cleared, shifted>>
robotContactVars == <<robots, contactVars>>

NoContacts == [p \in {} |-> p]
WithContact(c, p, v) == [q \in DOMAIN c \cup {p} |-> IF q = p THEN v ELSE c[q]]

(* contacts_changed_ has no initial value: either is possible.             *)
ContactsInit ==
  /\ robots = Loaded
  /\ contacts = NoContacts /\ contacts_changed \in BOOLEAN
  /\ solver = NoContacts /\ buttons = {} /\ dangling = {}
  /\ cleared = FALSE /\ shifted = FALSE

(* The elements of P disappear from contacts_.                             *)
Erase(P) == dangling' = dangling \cup (buttons \cap DOMAIN contacts \cap P)

(* addContact(): the parameters of a contact that is there are changed,    *)
(* where MCController.h:267 has "No effect if the contact is already       *)
(* present".                                                               *)
BugAddContact(p, v) ==
  /\ contacts' = WithContact(contacts, p, v)
  /\ contacts_changed' = (contacts_changed \/ p \notin DOMAIN contacts)
  /\ UNCHANGED <<solver, buttons, dangling, cleared, shifted>>
AddContact(p, v) ==
  /\ contacts' = WithContact(contacts, p, v)
  /\ contacts_changed' = (contacts_changed \/ contacts' # contacts)
  /\ UNCHANGED <<solver, buttons, dangling, cleared, shifted>>

BugRemoveContact(p) ==
  /\ contacts' = Restrict(contacts, DOMAIN contacts \ {p})
  /\ contacts_changed' = (p \in DOMAIN contacts)
  /\ Erase({p})
  /\ UNCHANGED <<solver, buttons, cleared, shifted>>
RemoveContact(p) ==
  /\ contacts' = Restrict(contacts, DOMAIN contacts \ {p})
  /\ contacts_changed' = (contacts_changed \/ p \in DOMAIN contacts)
  /\ Erase({p})
  /\ UNCHANGED <<solver, buttons, cleared, shifted>>

(* A "Remove" button: its contact or, through a dangling reference, any.   *)
PressRemove(p) ==
  /\ p \in buttons
  /\ \E q \in Pair : (p \in dangling \/ q = p) /\ RemoveContact(q)

(* clearContacts() assigns the flag, where the others only raise it.       *)
ClearContacts ==
  /\ contacts_changed' = (DOMAIN contacts # {})
  /\ contacts' = NoContacts
  /\ Erase(Pair)
  /\ cleared' = TRUE
  /\ UNCHANGED <<solver, buttons, shifted>>

(* QPSolver::setContacts(contacts), the deprecated entry point.            *)
SetContacts(c) ==
  /\ contacts' = c
  /\ contacts_changed' = (DOMAIN contacts # {} \/ DOMAIN c # {})
  /\ Erase(Pair)
  /\ cleared' = TRUE
  /\ UNCHANGED <<solver, buttons, shifted>>

(* QPSolver::setContacts(token, contacts): the old contacts are looked up  *)
(* by their indices, and the new ones take their place.                    *)
OldContactsFound ==
  \A p \in DOMAIN solver : \A r \in RobotsOf[p] : solver[p].at[r] <= Len(robots)
InForce(c) ==
  [p \in DOMAIN c \ Fixed |-> [v |-> c[p], at |-> [r \in RobotsOf[p] |-> IndexOf(r)]]]

(* updateContacts(), in run() and reset().                                 *)
Valid(p) == \A r \in RobotsOf[p] : HasRobot(r)
Updatable == (\A p \in DOMAIN contacts : Valid(p)) /\ OldContactsFound
BugUpdateContacts ==
  /\ contacts_changed => Updatable
  /\ solver' = IF contacts_changed THEN InForce(contacts) ELSE solver
  /\ buttons' = buttons \cup DOMAIN contacts
  /\ dangling' = dangling \ {p \in DOMAIN contacts : p \notin buttons}
  /\ contacts_changed' = FALSE
  /\ cleared' = (cleared /\ ~contacts_changed)
  /\ shifted' = (shifted /\ ~contacts_changed)
  /\ UNCHANGED contacts
UpdateContacts ==
  /\ contacts_changed => Updatable
  /\ solver' = IF contacts_changed THEN InForce(contacts) ELSE solver
  /\ buttons' = IF contacts_changed THEN DOMAIN contacts ELSE buttons
  /\ dangling' = IF contacts_changed THEN {} ELSE dangling
  /\ contacts_changed' = FALSE
  /\ cleared' = (cleared /\ ~contacts_changed)
  /\ shifted' = (shifted /\ ~contacts_changed)
  /\ UNCHANGED contacts

(* ... throws; the flag stays up for a caller that catches.                *)
UpdateThrows ==
  /\ contacts_changed /\ ~Updatable
  /\ UNCHANGED contactVars

(* Robots come and go without any effect on the contacts.                  *)
RobotLoaded == (\E r \in RobotName : LoadRobot(r)) /\ UNCHANGED contactVars
RobotRemoved ==
  /\ \E r \in RobotName : RemoveRobot(r)
  /\ shifted' = TRUE
  /\ UNCHANGED <<contacts, contacts_changed, solver, buttons, dangling, cleared>>

EditContacts ==
  \/ \E p \in Pair, v \in Param : AddContact(p, v)
  \/ \E p \in Pair : RemoveContact(p) \/ PressRemove(p)
  \/ ClearContacts
  \/ \E P \in SUBSET Pair : \E c \in [P -> Param] : SetContacts(c)
ContactsNext ==
  \/ (EditContacts \/ UpdateContacts \/ UpdateThrows) /\ UNCHANGED robots
  \/ RobotLoaded \/ RobotRemoved
ContactsSpec == ContactsInit /\ [][ContactsNext]_robotContactVars

-----------------------------------------------------------------------------
(* The flag never hides a contact, or a change of its parameters, from the *)
(* solver: when nothing is left to update the solver has every contact, as *)
(* it was last added, however the editions since the last update followed  *)
(* each other.  And the indices in it are those of the robots the contact  *)
(* names, so that they can be looked up, unless a robot left since.        *)
NoContactMissing ==
  /\ ~contacts_changed =>
       \A p \in DOMAIN contacts \ Fixed :
         p \in DOMAIN solver /\ solver[p].v = contacts[p]
  /\ ~shifted =>
       \A p \in DOMAIN solver : \A r \in RobotsOf[p] :
         solver[p].at[r] \in DOMAIN robots /\ robots[solver[p].at[r]] = r

(* The contacts of c the solver keeps, as it keeps them.                   *)
Kept(c) == Restrict(c, DOMAIN c \ Fixed)

(* A contact that was removed is still in force when nothing is left to    *)
(* update only if clearContacts() was called on an already empty set,      *)
(* which then is still empty.                                              *)
StaleOnlyAfterClear ==
  ~contacts_changed /\ [p \in DOMAIN solver |-> solver[p].v] # Kept(contacts) =>
    cleared /\ contacts = NoContacts

(* The callback of a "Remove" button refers to an element of contacts_. It *)
(* dangles only until the next updateContacts(), or longer after a         *)
(* clearContacts(), however often the contact was removed and added again  *)
(* in between; every other button removes the contact it names.            *)
ButtonsFollowContacts ==
  /\ dangling # {} => contacts_changed \/ cleared
  /\ buttons \ dangling \subseteq DOMAIN contacts
=============================================================================
