------------------------------- MODULE Ticker -------------------------------
(***************************************************************************)
(* mc_control::Ticker: the loop that drives a global controller, by itself *)
(* or step by step, with the requests of its GUI and of the "Change        *)
(* controller" form.  Requests are handled inside gc_.run(), after all     *)
(* that reads what they change: here, between two iterations.  Replay and  *)
(* synchronisation with real time are left out.                            *)
(***************************************************************************)
EXTENDS GlobalController

CONSTANTS MaxSteps   \* bound on the steps asked for

VARIABLES
  ticking,       \* running_
  step_by_step,  \* config_.step_by_step
  rem_steps,     \* rem_steps_, where one negative number stands for all
  do_reset,      \* do_reset_
  controls       \* the controllers whose GUI has the "Ticker" category

tickerVars == <<ticking, step_by_step, rem_steps, do_reset, controls>>
vars == <<gc, tickerVars>>

Init ==
  /\ \E g \in InitController(New) : gc = [g EXCEPT !.running = TRUE]
  /\ ticking = TRUE /\ step_by_step \in BOOLEAN
  /\ rem_steps = 0 /\ do_reset = FALSE
  /\ controls = {First}

-----------------------------------------------------------------------------
(* step()                                                                  *)
BeforeStep ==
  IF do_reset THEN {[g EXCEPT !.running = TRUE] : g \in Reset(gc)} ELSE {gc}
(* setup_gui, in the GUI of the current controller.                        *)
BugSetupGui(with) == with
SetupGui(with) == with \cup {gc.current}
(* reset() destroys the current controller, with its GUI, and makes        *)
(* another, whose GUI is empty.                                            *)
Step ==
  /\ \E g \in BeforeStep : gc' \in Run(g)
  /\ controls' = IF do_reset THEN SetupGui(controls \ {gc.current}) ELSE controls
  /\ do_reset' = FALSE

(* An iteration of run(): a step, or nothing but the GUI.                  *)
CanStep == (step_by_step => rem_steps > 0) /\ gc.running
IterateStep ==
  /\ ticking /\ CanStep
  /\ Step
  /\ rem_steps' = IF rem_steps > 0 THEN rem_steps - 1 ELSE -1
  /\ UNCHANGED <<ticking, step_by_step>>
IterateIdle ==
  /\ ticking /\ ~CanStep
  /\ \E g \in Run([gc EXCEPT !.running = FALSE]) :
       gc' = [g EXCEPT !.running = gc.running]
  /\ UNCHANGED tickerVars
Iterate == IterateStep \/ IterateIdle

-----------------------------------------------------------------------------
(* "Change controller", or the datastore's Global::EnableController.       *)
ChangeController ==
  /\ ticking
  /\ \E c \in Ctl : gc' = EnableController(gc, c)
  /\ UNCHANGED tickerVars

(* Ticker::reset(), by a program or the GUI.                               *)
AskReset ==
  /\ ticking
  /\ step_by_step' = FALSE /\ do_reset' = TRUE
  /\ UNCHANGED <<gc, ticking, rem_steps, controls>>

(* The "Ticker" category, where the controller that is shown has it.       *)
HasControls == gc.current \in controls
PressStop ==
  /\ ticking /\ HasControls /\ ticking' = FALSE
  /\ UNCHANGED <<gc, step_by_step, rem_steps, do_reset, controls>>
PressStepByStep ==
  /\ ticking /\ HasControls /\ step_by_step' = ~step_by_step
  /\ UNCHANGED <<gc, ticking, rem_steps, do_reset, controls>>
PressSteps ==
  /\ ticking /\ HasControls
  /\ \E n \in 1..MaxSteps :
       LET left == (IF rem_steps < 0 THEN 0 ELSE rem_steps) + n
       IN  left <= MaxSteps /\ rem_steps' = left
  /\ UNCHANGED <<gc, ticking, step_by_step, do_reset, controls>>

Next == \/ Iterate \/ ChangeController \/ AskReset
        \/ PressStop \/ PressStepByStep \/ PressSteps

(* The loop goes on by itself.                                             *)
Spec == Init /\ [][Next]_vars /\ WF_vars(Iterate)

-----------------------------------------------------------------------------
(* A controller that was enabled takes over, unless another one is enabled *)
(* before or the loop is stopped, also while paused and after a failure.   *)
SwitchHappens ==
  \A c \in Ctl :
    gc.next = c ~> gc.current = c \/ gc.next \notin {c, NoCtl} \/ ~ticking

(* "Do a reset on the next iteration" (Ticker.h:105): it happens and gives *)
(* the controls back to whichever controller is shown when it is asked     *)
(* for, so that the loop can be paused and resumed: one that took over has *)
(* none, and reset() destroys those of the one that has.  It may be        *)
(* overtaken by a stop, a pause or a change of controller, and after a     *)
(* failure it never happens: the loop takes steps only while gc_.running.  *)
ResetRestoresControls ==
  \A c \in Ctl :
    (do_reset /\ ~step_by_step /\ gc.running /\ gc.current = c)
    ~> (HasControls /\ ~do_reset) \/ step_by_step
       \/ ~ticking \/ ~gc.running \/ gc.current # c
=============================================================================
