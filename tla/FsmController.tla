--------------------------- MODULE FsmController ---------------------------
(***************************************************************************)
(* mc_control::fsm::Controller around its main executor: the idle          *)
(* behaviour that holds the robot while no state is running, and what the  *)
(* common part of every state (State::start_ and teardown_) and the        *)
(* Posture state do to the solver.  One posture task and one free-flyer    *)
(* task stand for those of every robot: the code treats them alike.        *)
(***************************************************************************)
EXTENDS Executor, Iteration, SequencesExt

CONSTANTS
  PostureTask,     \* the FSM's posture task
  FreeFlyerTask,   \* the task that holds the base in idle
  OwnTasks,        \* state -> the tasks of its "tasks" configuration, also for
                   \* the states that run inside another one
  RemovesPosture,  \* the states with RemovePostureTask
  PostureWeight,   \* state -> weight its posture configuration sets, or NoWeight
  NoWeight,
  DefaultWeight,   \* the weight of the controller's configuration
  IdleWeight       \* 10000

ASSUME ControllerAssumption ==
  /\ PostureTask # FreeFlyerTask
  /\ Loaded \subseteq DOMAIN OwnTasks /\ RemovesPosture \subseteq DOMAIN OwnTasks
  /\ NoState \notin DOMAIN OwnTasks
  /\ \A s \in DOMAIN OwnTasks : {PostureTask, FreeFlyerTask} \cap OwnTasks[s] = {}
  /\ \A s, t \in DOMAIN OwnTasks : s # t => OwnTasks[s] \cap OwnTasks[t] = {}
  /\ \A s \in DOMAIN OwnTasks : PostureWeight[s] # IdleWeight
  /\ DefaultWeight # IdleWeight

VARIABLES
  running,      \* running_
  first_reset,  \* first_reset_
  saved,        \* saved_posture_weights_
  qp            \* what states and idle share: the tasks in the solver, the
                \* weight of the posture task, whether its target is the
                \* posture at its last reset, and the live states that have
                \* it in postures_; history: were there two at a time?

controllerVars == <<running, first_reset, saved, qp>>
allVars == <<vars, controllerVars>>

-----------------------------------------------------------------------------
(* State::start_ followed by the state's start.                            *)
Start_(q, s) ==
  [q EXCEPT !.tasks = (@ \ (IF s \in RemovesPosture THEN {PostureTask} ELSE {}))
                        \cup OwnTasks[s],
            !.removers = @ \cup ({s} \cap RemovesPosture),
            !.overlap = @ \/ (s \in RemovesPosture /\ q.removers # {}),
            !.weight = IF PostureWeight[s] = NoWeight THEN @ ELSE PostureWeight[s],
            !.held = @ /\ PostureWeight[s] = NoWeight]

(* State::teardown_: the removed posture tasks come back, its own go.      *)
BugTeardown_(q, s) ==
  [q EXCEPT !.tasks = @ \ OwnTasks[s],
            !.removers = @ \ {s}, !.overlap = @ /\ q.removers # {s}]
Teardown_(q, s) ==
  [q EXCEPT !.tasks = (@ \cup (IF s \in q.removers THEN {PostureTask} ELSE {}))
                        \ OwnTasks[s],
            !.removers = @ \ {s}, !.overlap = @ /\ q.removers # {s}]

ResetPostures(q) == [q EXCEPT !.held = TRUE]

Effect(q, c) ==
  CASE c.op = "start" -> Start_(q, c.state)
    [] c.op = "teardown" -> Teardown_(q, c.state)
    [] c.op = "resetPostures" -> ResetPostures(q)
    [] OTHER -> q

(* What is left of q when calls have acted on it one after the other.      *)
Effects(q, cs) == InTurn(Effect, q, cs)

-----------------------------------------------------------------------------
BugStartIdleState(q) ==
  /\ saved' = q.weight
  /\ qp' = [q EXCEPT !.weight = IdleWeight,
                     !.tasks = @ \cup {FreeFlyerTask}]
StartIdleState(q) ==
  /\ saved' = q.weight
  /\ qp' = [ResetPostures(q) EXCEPT !.weight = IdleWeight,
                                    !.tasks = @ \cup {FreeFlyerTask}]

TeardownIdleState(q) ==
  /\ qp' = [q EXCEPT !.weight = saved, !.tasks = @ \ {FreeFlyerTask}]
  /\ UNCHANGED saved

(* The constructor adds the posture task and initializes the executor.     *)
ControllerInit ==
  /\ Init
  /\ running = FALSE /\ first_reset = TRUE /\ saved = DefaultWeight
  /\ qp = [tasks |-> {PostureTask}, weight |-> DefaultWeight,
           held |-> TRUE, removers |-> {}, overlap |-> FALSE]

(* reset(): the first one enters the idle behaviour.                       *)
Reset ==
  /\ first_reset
  /\ first_reset' = FALSE
  /\ StartIdleState(qp)
  /\ UNCHANGED <<vars, running>>

(* The switch between idle and running at the end of a cycle, when the     *)
(* executor is left with state "s" and the solver with "q".                *)
IdleSwitch(s, q) ==
  CASE s = NoState /\ running  -> running' = FALSE /\ StartIdleState(q)
    [] s # NoState /\ ~running -> running' = TRUE /\ TeardownIdleState(q)
    [] OTHER -> qp' = q /\ UNCHANGED <<running, saved>>

(* interrupt(), the GUI's next() and "Force transition" between cycles;    *)
(* Controller::resume() refuses a state that is not loaded.                *)
Request ==
  /\ ~first_reset
  /\ Interrupt \/ NextRequest \/ (\E s \in Requestable : Resume(s))
  /\ UNCHANGED controllerVars

-----------------------------------------------------------------------------
(* While no state runs the robot is held: the free-flyer and the posture   *)
(* task are in the solver, the latter with the idle weight and, as its     *)
(* target, the posture at the moment the last state ended, whether it      *)
(* finished, was interrupted or could not be created.                      *)
IdleHoldsRobot ==
  ~first_reset /\ state = NoState =>
    /\ {PostureTask, FreeFlyerTask} \subseteq qp.tasks
    /\ qp.weight = IdleWeight
    /\ qp.held

(* While a state runs nothing of the idle behaviour is left: neither its   *)
(* task nor its weight, nor that weight as the one to restore later.       *)
IdleLeavesNoTrace ==
  state # NoState =>
    /\ FreeFlyerTask \notin qp.tasks
    /\ qp.weight # IdleWeight
    /\ saved # IdleWeight

(* The idle behaviour is in force exactly while no state runs, although    *)
(* run() switches it after the executor has started or ended the state.    *)
IdleWithoutState == IdleHoldsRobot /\ IdleLeavesNoTrace
=============================================================================
