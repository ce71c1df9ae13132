------------------------------ MODULE Executor ------------------------------
(***************************************************************************)
(* mc_control::fsm::Executor: runs one finite state machine, one call of   *)
(* run() per control cycle.  Everything happens in the control thread, so  *)
(* a whole run() is one step; what interleaves with it are the requests    *)
(* interrupt(), next() and resume() that the GUI, a message or the          *)
(* controller make between two cycles and, when conf.reentrant, those that *)
(* a state makes on its own executor from inside its run() or start().     *)
(*                                                                         *)
(* "calls" is the list of calls the last step made on state objects, in    *)
(* order: what the rest of the controller sees of the executor.            *)
(***************************************************************************)
EXTENDS TransitionMap, Sequences

CONSTANTS
  State,        \* every name that can be asked for
  Loaded,       \* the names the factory can create
  NoState,      \* the empty string, and the null state_ pointer
  Output,       \* what states output
  Map,          \* the transition map of a self-managed executor
  InitState,    \* TransitionMap::initState()
  Requestable,  \* the names that resume() is called with
  Reentrancy    \* do states call interrupt() or resume() from run()/start()?
                \* {TRUE}, {FALSE}, or both

ASSUME NamesAssumption ==
  /\ Loaded \subseteq State
  /\ NoState \notin State
  /\ Requestable \subseteq State \cup {NoState}
  /\ Reentrancy \subseteq BOOLEAN

(* What TransitionMap::init leaves behind: entries between loaded states.  *)
ASSUME MapAssumption ==
  /\ DOMAIN Map \subseteq Loaded \X (Output \cup {DEFAULT})
  /\ \A k \in DOMAIN Map : Map[k] \in [state : Loaded, type : Types]
  /\ InitState \in Loaded

VARIABLES
  conf,                  \* managed_, step_by_step_, reset_postures_, keep_state,
                         \* and whether the states call back ("reentrant")
  state,                 \* the state state_ points to
  curr_state,            \* curr_state_
  state_output,          \* state_output_
  interrupt_triggered,   \* interrupt_triggered_
  ready,                 \* ready_
  transition_triggered,  \* transition_triggered_
  complete,              \* complete_
  next_state,            \* next_state_
  buttons,               \* the "Force transition to" buttons in the GUI
  calls,                 \* the calls the last step made on states
  wanted,                \* history: the last resume() not yet honoured
  pressed                \* history: next() was accepted since the last start

flags == <<interrupt_triggered, ready, transition_triggered, complete>>
history == <<wanted, pressed>>
vars == <<conf, state, curr_state, state_output, flags, next_state, buttons,
          calls, history>>

Ops == {"start", "run", "stop", "teardown", "resetPostures"}
Call(op, s) == [op |-> op, state |-> s]
map == IF conf.managed THEN [k \in {} |-> NoState] ELSE Map

-----------------------------------------------------------------------------
(* A request made by a state on its own executor from run() or start().    *)
Silent == [op |-> "none", state |-> NoState]
Requests ==
  {Silent} \cup (IF conf.reentrant
                 THEN {[op |-> "interrupt", state |-> NoState]}
                      \cup [op : {"resume"}, state : Requestable]
                 ELSE {})
IsResume(r) == r.op = "resume"

(* The histories after a cycle whose run() made request r and whose start  *)
(* (of s, NoState when nothing was created) made request q.                *)
Track(r, s, q) ==
  LET w == IF IsResume(r) THEN r.state ELSE wanted
  IN  wanted' = IF IsResume(q) THEN q.state
                ELSE IF s = w THEN NoState ELSE w

-----------------------------------------------------------------------------
(* Construction followed by init(): a self-managed executor starts its     *)
(* initial state at the first run().                                       *)
Init ==
  /\ conf \in [managed : BOOLEAN, step_by_step : BOOLEAN,
               reset_postures : BOOLEAN, keep_state : BOOLEAN,
               reentrant : Reentrancy]
  /\ state = NoState /\ curr_state = NoState /\ state_output = NoState
  /\ interrupt_triggered = FALSE /\ ready = TRUE /\ complete = FALSE
  /\ transition_triggered = ~conf.managed
  /\ next_state = IF conf.managed THEN NoState ELSE InitState
  /\ buttons = {} /\ calls = <<>>
  /\ wanted = NoState /\ pressed = FALSE

(* next(ctl) uses up the trigger; start() may have set it again.           *)
BugConsumeTrigger(q) ==
  transition_triggered' = (transition_triggered \/ IsResume(q))
ConsumeTrigger(q) == transition_triggered' = IsResume(q)

(* next(ctl) replaces the buttons of curr_state_ by those of the new one.  *)
BugButtonsFor(name) == buttons \cup Transitions(map, name)
ButtonsFor(name) ==
  (buttons \ Transitions(map, curr_state)) \cup Transitions(map, name)

(* next(ctl) once its guard holds: create and start "s", if the factory    *)
(* has it.  "i" and "c" are the values of interrupt_triggered_ and         *)
(* complete_ at this point, "r" the request run() has made.  curr_state_   *)
(* and the buttons come from next_state_ as the start() leaves it.         *)
Launch(s, i, c, r) ==
  \E q \in IF s \in Loaded THEN Requests ELSE {Silent} :
    LET name == IF IsResume(q) THEN q.state ELSE s
        new == IF s \in Loaded THEN s ELSE NoState
    IN  /\ ready' = FALSE
        /\ ConsumeTrigger(q)
        /\ state' = new
        /\ buttons' = ButtonsFor(name)
        /\ curr_state' = name
        /\ next_state' = NoState
        /\ interrupt_triggered' = (i \/ q # Silent)
        /\ complete' = (c /\ ~IsResume(q))
        /\ Track(r, new, q)
        /\ pressed' = FALSE

(* complete(ctl, keep_state) for a state that has just run.                *)
BugComplete ==
  /\ ready' = TRUE
  /\ state' = IF conf.keep_state THEN state ELSE NoState
  /\ calls' = <<Call("run", state)>>
Complete ==
  /\ ready' = TRUE
  /\ IF conf.keep_state
     THEN state' = state /\ calls' = <<Call("run", state)>>
     ELSE /\ state' = NoState
          /\ calls' = <<Call("run", state), Call("teardown", state)>>

-----------------------------------------------------------------------------
(* run(): there is no state, or a pending interruption has just removed it *)
Interrupting == interrupt_triggered /\ state # NoState
Vacant == interrupt_triggered \/ state = NoState
BugCanLaunch == transition_triggered /\ (ready \/ Interrupting)
CanLaunch ==
  transition_triggered /\ (ready \/ Interrupting) /\ next_state # NoState

RunVacant ==
  /\ Vacant /\ ~CanLaunch
  /\ interrupt_triggered' = FALSE
  /\ state' = NoState
  /\ ready' = (ready \/ Interrupting)
  /\ calls' = IF Interrupting
             THEN <<Call("stop", state), Call("teardown", state)>> ELSE <<>>
  /\ UNCHANGED <<conf, curr_state, state_output, transition_triggered,
                 complete, next_state, buttons, history>>

RunLaunch ==
  /\ Vacant /\ CanLaunch
  /\ Launch(next_state, FALSE, complete, Silent)
  /\ calls' =
       CASE Interrupting /\ next_state \in Loaded ->
              <<Call("stop", state), Call("teardown", state),
                Call("start", next_state)>>
         [] Interrupting /\ next_state \notin Loaded ->
              <<Call("stop", state), Call("teardown", state)>>
         [] ~Interrupting /\ next_state \in Loaded ->
              <<Call("start", next_state)>>
         [] OTHER -> <<>>
  /\ UNCHANGED <<conf, state_output>>

(* run(): the state is not over.                                           *)
RunContinue ==
  /\ ~Vacant /\ ~ready
  /\ \E r \in Requests :
       /\ interrupt_triggered' = (r # Silent)
       /\ transition_triggered' = (transition_triggered \/ IsResume(r))
       /\ complete' = (complete /\ ~IsResume(r))
       /\ next_state' = IF IsResume(r) THEN r.state ELSE next_state
       /\ Track(r, NoState, Silent)
  /\ calls' = <<Call("run", state)>>
  /\ UNCHANGED <<conf, state, curr_state, state_output, ready, buttons,
                 pressed>>

(* run(): the state is over, now or since an earlier cycle; in the latter  *)
(* case its output was latched then.                                       *)
BugLatch(o) == state_output' = o
Latch(o) == state_output' = IF ready THEN state_output ELSE o
Over(o) == IF ready THEN state_output ELSE o

(* ... and managed, or without a transition for its output.                *)
RunFinish ==
  /\ ~Vacant
  /\ \E o \in Output, r \in Requests :
       /\ Latch(o)
       /\ conf.managed \/ ~HasTransition(map, curr_state, Over(o))
       /\ complete' = TRUE
       /\ Complete
       /\ interrupt_triggered' = (r # Silent)
       /\ transition_triggered' = (transition_triggered \/ IsResume(r))
       /\ next_state' = IF IsResume(r) THEN r.state ELSE next_state
       /\ Track(r, NoState, Silent)
  /\ UNCHANGED <<conf, curr_state, buttons, pressed>>

(* A transition is taken at once when its type or a trigger allows it.     *)
Allowed(t, triggered) ==
  \/ t.type = "Auto"
  \/ t.type = "StepByStep" /\ ~conf.step_by_step
  \/ triggered

(* ... and its transition is taken in the same cycle: its destination is   *)
(* loaded (MapAssumption), so a start always follows the teardown.         *)
RunTransition ==
  /\ ~Vacant /\ ~conf.managed
  /\ \E o \in Output, r \in Requests :
       /\ Latch(o)
       /\ HasTransition(map, curr_state, Over(o))
       /\ LET t == Transition(map, curr_state, Over(o))
          IN  /\ Allowed(t, transition_triggered \/ IsResume(r))
              /\ Launch(t.state, r # Silent, complete /\ ~IsResume(r), r)
              /\ calls' =
                   IF conf.reset_postures
                   THEN <<Call("run", state), Call("teardown", state),
                          Call("resetPostures", NoState),
                          Call("start", t.state)>>
                   ELSE <<Call("run", state), Call("teardown", state),
                          Call("start", t.state)>>
  /\ UNCHANGED conf

(* ... and its transition waits for a trigger.                             *)
RunWait ==
  /\ ~Vacant /\ ~conf.managed
  /\ \E o \in Output, r \in Requests :
       /\ Latch(o)
       /\ HasTransition(map, curr_state, Over(o))
       /\ LET t == Transition(map, curr_state, Over(o))
          IN  /\ ~Allowed(t, transition_triggered \/ IsResume(r))
              /\ next_state' = t.state
       /\ Complete
       /\ interrupt_triggered' = (r # Silent)
       /\ Track(r, NoState, Silent)
  /\ UNCHANGED <<conf, curr_state, transition_triggered, complete, buttons,
                 pressed>>

Run == \/ RunVacant \/ RunLaunch
       \/ RunContinue \/ RunFinish \/ RunTransition \/ RunWait

-----------------------------------------------------------------------------
(* Requests made between two cycles.                                       *)
Interrupt ==
  /\ interrupt_triggered' = TRUE
  /\ calls' = <<>>
  /\ UNCHANGED <<conf, state, curr_state, state_output, ready,
                 transition_triggered, complete, next_state, buttons, history>>

(* next(): refused, without effect, unless self-managed and ready.         *)
NextRequest ==
  /\ ~conf.managed /\ ready
  /\ transition_triggered' = TRUE
  /\ pressed' = TRUE
  /\ calls' = <<>>
  /\ UNCHANGED <<conf, state, curr_state, state_output, interrupt_triggered,
                 ready, complete, next_state, buttons, wanted>>

BugResumeWithoutInterrupt(s) ==
  /\ complete' = FALSE
  /\ transition_triggered' = TRUE
  /\ next_state' = s
  /\ wanted' = s
  /\ calls' = <<>>
  /\ UNCHANGED <<conf, state, curr_state, state_output, ready,
                 interrupt_triggered, buttons, pressed>>

(* resume(state): the running state is interrupted at the next cycle.      *)
Resume(s) ==
  /\ complete' = FALSE
  /\ interrupt_triggered' = TRUE
  /\ transition_triggered' = TRUE
  /\ next_state' = s
  /\ wanted' = s
  /\ calls' = <<>>
  /\ UNCHANGED <<conf, state, curr_state, state_output, ready, buttons,
                 pressed>>

Next == Run \/ Interrupt \/ NextRequest \/ (\E s \in Requestable : Resume(s))

(* The control loop calls run() at every period.                           *)
Spec == Init /\ [][Next]_vars /\ WF_vars(Run)

-----------------------------------------------------------------------------
Names == State \cup {NoState}

TypeOK ==
  /\ conf \in [managed : BOOLEAN, step_by_step : BOOLEAN,
               reset_postures : BOOLEAN, keep_state : BOOLEAN,
               reentrant : BOOLEAN]
  /\ state \in Loaded \cup {NoState}
  /\ curr_state \in Names /\ next_state \in Names /\ wanted \in Names
  /\ state_output \in Output \cup {NoState}
  /\ interrupt_triggered \in BOOLEAN /\ ready \in BOOLEAN
  /\ transition_triggered \in BOOLEAN /\ complete \in BOOLEAN
  /\ pressed \in BOOLEAN
  /\ buttons \subseteq Loaded
  /\ calls \in Seq([op : Ops, state : Names])

(* As long as only loaded states are asked for, the executor either has a  *)
(* state or is ready for one: next(ctl) drops the old state and clears     *)
(* ready_ before it knows that the factory can create the new one, and an  *)
(* executor without state that is not ready ignores every later next() and *)
(* resume().                                                               *)
StateOrReady ==
  Requestable \ {NoState} \subseteq Loaded => (state # NoState \/ ready)

(* The "Force transition to" buttons are the destinations of the current   *)
(* state: next(ctl) removes those of curr_state_ before it overwrites it,  *)
(* whatever sequence of interruptions and resumptions came before.         *)
ButtonsFollowState == buttons = Transitions(map, curr_state)

(* The calls of a step, replayed on the life of state objects, lead from   *)
(* the old state_ to the new one: a state is started only when none is     *)
(* alive, and only the live one is run, stopped or torn down.              *)
AliveAfter(c) == IF c.op = "teardown" THEN NoState ELSE c.state
CallsFit ==
  /\ \A i \in DOMAIN calls' :
       LET alive == IF i = 1 THEN state ELSE AliveAfter(calls'[i - 1])
       IN  IF calls'[i].op = "start" THEN alive = NoState
                                     ELSE calls'[i].state = alive
  /\ state' = IF calls' = <<>> THEN state ELSE AliveAfter(calls'[Len(calls')])
LifeCycle == [][CallsFit]_vars

(* A state estimated complete once stays complete, with the output of that *)
(* moment, until something else is started (the "yoyo" comment of run()).  *)
CompletionLatched ==
  [][ready /\ ~(\E i \in DOMAIN calls' : calls'[i].op = "start")
     => ready' /\ state_output' = state_output]_vars

(* Every start has a reason: it is the initial state, the state the last   *)
(* resume() asked for, or the destination of the transition for the last   *)
(* state's output, which an operator has triggered since then unless the   *)
(* transition needs no trigger.  It holds when no state makes requests     *)
(* from inside run() or start().                                           *)
Gated(t) == t.type = "Strict" \/ (t.type = "StepByStep" /\ conf.step_by_step)
Reason(s) ==
  \/ s = wanted
  \/ curr_state = NoState /\ s = InitState
  \/ /\ HasTransition(map, curr_state, state_output')
     /\ LET t == Transition(map, curr_state, state_output')
        IN  s = t.state /\ (Gated(t) => pressed)
StartsHaveReason ==
  \A i \in DOMAIN calls' : calls'[i].op = "start" => Reason(calls'[i].state)
StartJustified == [][~conf.reentrant => StartsHaveReason]_vars

(* A resume() of a loaded state is honoured by a later run() unless        *)
(* another resume() replaces it ("Resume execution to a given state,       *)
(* interrupt current state execution if needed", Executor.h).  The resume  *)
(* a state makes from inside the run() that completes it is excluded: the  *)
(* transition overwrites it.                                               *)
ResumeHonoured ==
  \A s \in Loaded : (wanted = s /\ ~conf.reentrant) ~> (wanted # s)
=============================================================================
