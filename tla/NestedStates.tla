---------------------------- MODULE NestedStates ----------------------------
(***************************************************************************)
(* The FSM controller with states that run others: a Parallel state, which *)
(* creates its sub-states, some after a delay, and runs them all; one of   *)
(* them is a Meta state, an executor inside a state (another instance of   *)
(* Executor, whose variables are the i_... below), another a HalfSitting   *)
(* state or any other.                                                     *)
(*                                                                         *)
(* A cycle in which the main executor runs the Parallel state is two       *)
(* steps: the sub-states run, then the executor goes on with the result.   *)
(* Nothing comes between them.                                             *)
(***************************************************************************)
EXTENDS FsmController

CONSTANTS
  Confs,             \* the configurations of the main executor
  Parallel,          \* the Parallel state
  Sub,               \* the sequence of its sub-states
  Delay,             \* sub-state -> the cycles its creation is delayed
  Meta,              \* the Meta state among them
  Inner,             \* the states of its machine
  InnerMap, InnerInit, InnerRequestable,
  InnerStepByStep,   \* its StepByStep: {TRUE}, {FALSE}, or both
  HalfSitting,       \* those of the sub-states that are HalfSitting
  DefaultStiffness, HalfSittingStiffness

Subs == ToSet(Sub)
ASSUME NestedAssumption ==
  /\ Parallel \in Loaded /\ Meta \in Subs /\ HalfSitting \subseteq Subs \ {Meta}
  /\ \A s \in Subs : Delay[s] \in Nat
  /\ Sub \in Seq(Subs) /\ IsInjective(Sub) /\ \A s, t \in HalfSitting : s = t
  /\ InnerStepByStep \subseteq BOOLEAN
  /\ InnerInit \in Inner
  /\ \A k \in DOMAIN InnerMap : k[1] \in Inner /\ InnerMap[k].state \in Inner
  /\ Loaded \cap (Subs \cup Inner) = {} /\ Subs \cap Inner = {}
  /\ Subs \cup Inner \subseteq DOMAIN OwnTasks

VARIABLES
  i_state, i_curr_state, i_state_output, i_interrupt_triggered, i_ready,
  i_transition_triggered, i_complete, i_next_state, i_buttons, i_calls,
  i_wanted, i_pressed,  \* the executor_ of the Meta state
  i_conf,               \* ... and its configuration
  par,    \* the Parallel state: its time_, the created sub-states, what run()
          \* returned, output() and finished_first_
  half,   \* the stiffness of the posture task, default_stiffness_, whether a
          \* HalfSitting state waits; history: was one torn down while it did?
  ran     \* the sub-states have run in this cycle

innerVars == <<i_state, i_curr_state, i_state_output, i_interrupt_triggered,
               i_ready, i_transition_triggered, i_complete, i_next_state,
               i_buttons, i_calls, i_wanted, i_pressed, i_conf>>
mainVars == <<conf, state, curr_state, state_output, flags, next_state, buttons,
              history>>
nestedVars == <<innerVars, par, half, ran>>
everything == <<allVars, nestedVars>>

(* MetaState::start and ::run: step by step only if configured so, and     *)
(* keeping the last state.                                                 *)
InnerConfs == [managed : {FALSE}, step_by_step : InnerStepByStep,
               reset_postures : {FALSE}, keep_state : {TRUE},
               reentrant : {FALSE}]
E == INSTANCE Executor WITH
       State <- Inner \cup InnerRequestable, Loaded <- Inner, Map <- InnerMap,
       InitState <- InnerInit, Requestable <- InnerRequestable,
       Reentrancy <- {FALSE}, conf <- i_conf, state <- i_state,
       curr_state <- i_curr_state, state_output <- i_state_output,
       interrupt_triggered <- i_interrupt_triggered, ready <- i_ready,
       transition_triggered <- i_transition_triggered, complete <- i_complete,
       next_state <- i_next_state, buttons <- i_buttons, calls <- i_calls,
       wanted <- i_wanted, pressed <- i_pressed

NoPar == [time |-> 0, live |-> {}, ok |-> FALSE, out |-> NoState,
          finished_first |-> FALSE]
NestedInit ==
  /\ ControllerInit /\ conf \in Confs /\ i_conf \in InnerConfs
  /\ i_state = NoState /\ i_curr_state = NoState /\ i_state_output = NoState
  /\ i_interrupt_triggered = FALSE /\ i_ready = TRUE /\ i_complete = FALSE
  /\ i_transition_triggered = TRUE /\ i_next_state = InnerInit
  /\ i_buttons = {} /\ i_calls = <<>> /\ i_wanted = NoState /\ i_pressed = FALSE
  /\ par = NoPar /\ ran = FALSE
  /\ half = [stiffness |-> DefaultStiffness, default |-> DefaultStiffness,
             waits |-> FALSE, abandoned |-> FALSE]

-----------------------------------------------------------------------------
(* MetaState::start: init() of the executor and its first run(), which     *)
(* starts the initial state.                                               *)
MetaStart ==
  /\ i_state' = InnerInit /\ i_curr_state' = InnerInit
  /\ i_state_output' = NoState /\ i_interrupt_triggered' = FALSE
  /\ i_ready' = FALSE /\ i_complete' = FALSE /\ i_transition_triggered' = FALSE
  /\ i_next_state' = NoState /\ i_buttons' = Transitions(InnerMap, InnerInit)
  /\ i_wanted' = NoState /\ i_pressed' = FALSE /\ UNCHANGED i_conf

(* The executor is gone: a new one will have these values.                 *)
MetaGone ==
  /\ i_state' = NoState /\ i_curr_state' = NoState /\ i_state_output' = NoState
  /\ i_interrupt_triggered' = FALSE /\ i_ready' = TRUE /\ i_complete' = FALSE
  /\ i_transition_triggered' = TRUE /\ i_next_state' = InnerInit
  /\ i_buttons' = {} /\ i_calls' = <<>> /\ i_wanted' = NoState
  /\ i_pressed' = FALSE /\ UNCHANGED i_conf

(* The calls that reach the solver when sub-state s is started or torn     *)
(* down: State::start_ and teardown_ do the common part first.             *)
StartSub(s) ==
  IF s = Meta THEN <<Call("start", s), Call("start", InnerInit)>> ELSE <<Call("start", s)>>
BugTeardownSub(s) == <<Call("teardown", s)>>
TeardownSub(s) ==
  IF s = Meta /\ i_state # NoState
  THEN <<Call("teardown", s), Call("teardown", i_state)>> ELSE <<Call("teardown", s)>>

(* The effect of the calls cs[s] of every sub-state s, in their order.     *)
SubEffects(q, cs) == InTurn(LAMBDA r, s : Effects(r, cs[s]), q, Sub)

(* HalfSittingState: start, run when the posture is reached, and nothing   *)
(* in teardown.                                                            *)
HalfStarts(h) ==
  [h EXCEPT !.default = h.stiffness, !.stiffness = HalfSittingStiffness,
            !.waits = TRUE]
BugHalfDone(h) == [h EXCEPT !.waits = FALSE]
HalfDone(h) == [h EXCEPT !.stiffness = h.default, !.waits = FALSE]
HalfTornDown(h) ==
  [h EXCEPT !.abandoned = @ \/ h.waits, !.waits = FALSE,
            !.default = DefaultStiffness]

-----------------------------------------------------------------------------
(* DelayedState::run: the sub-states that exist run, those whose time has  *)
(* come are created.                                                       *)
Due(s) == s \notin par.live /\ par.time > Delay[s]
Cap(n) == Min({n, 1 + Max({Delay[s] : s \in Subs})})

(* ParallelState::run.  "done" are the sub-states, other than the Meta     *)
(* one, that estimate themselves complete, and o what they output.         *)
AllDone(done) ==
  /\ par.live = Subs
  /\ Subs \ {Meta} \subseteq done /\ i_complete'
RunParallel ==
  /\ ~first_reset /\ ~ran /\ state = Parallel /\ ~Vacant
  /\ ran' = TRUE
  /\ IF Meta \in par.live THEN E!Run
     ELSE IF Due(Meta) THEN MetaStart /\ i_calls' = <<Call("start", InnerInit)>>
     ELSE UNCHANGED innerVars
  /\ \E done \in SUBSET (par.live \ {Meta}), o \in Output :
       LET first == AllDone(done) /\ ~par.finished_first
           last == Sub[Len(Sub)]
       IN  /\ par' = [time |-> Cap(par.time + 1),
                      live |-> par.live \cup {s \in Subs : Due(s)},
                      ok |-> AllDone(done),
                      out |-> IF ~first THEN par.out
                              ELSE IF last = Meta THEN i_state_output' ELSE o,
                      finished_first |-> par.finished_first \/ first]
           /\ half' = IF \E s \in HalfSitting : Due(s) THEN HalfStarts(half)
                      ELSE IF done \cap HalfSitting # {} THEN HalfDone(half)
                      ELSE half
  /\ qp' = SubEffects(qp, [s \in Subs |->
                             IF s = Meta /\ s \in par.live THEN i_calls'
                             ELSE IF Due(s) THEN StartSub(s) ELSE <<>>])
  /\ calls' = <<>>
  /\ UNCHANGED <<mainVars, running, first_reset, saved>>

(* State::start_ and teardown_ do the common part, then ParallelState does *)
(* its own.                                                                *)
NestedEffect(q, c) ==
  CASE c = Call("start", Parallel) ->
         SubEffects(Effect(q, c), [s \in Subs |->
                                     IF Delay[s] = 0 THEN StartSub(s) ELSE <<>>])
    [] c = Call("teardown", Parallel) ->
         SubEffects(Effect(q, c), [s \in Subs |->
                                     IF s \in par.live THEN TeardownSub(s) ELSE <<>>])
    [] OTHER -> Effect(q, c)

(* What the step's calls do to the sub-states: they are torn down with the *)
(* Parallel state, and created with it unless delayed.                     *)
Calls(op) == \E n \in DOMAIN calls' : calls'[n] = Call(op, Parallel)
AtOnce == IF Calls("start") THEN {s \in Subs : Delay[s] = 0} ELSE {}
SubStatesFollow ==
  LET h == IF Calls("teardown") /\ HalfSitting \cap par.live # {}
           THEN HalfTornDown(half) ELSE half
  IN  /\ half' = IF HalfSitting \cap AtOnce # {} THEN HalfStarts(h) ELSE h
      /\ IF Calls("start") THEN par' = [NoPar EXCEPT !.live = AtOnce]
         ELSE IF Calls("teardown") THEN par' = NoPar
         ELSE par' = par
      /\ IF Meta \in AtOnce THEN MetaStart /\ i_calls' = <<>>
         ELSE IF Calls("teardown") THEN MetaGone
         ELSE i_calls' = <<>> /\ UNCHANGED <<i_state, i_curr_state,
                i_state_output, i_interrupt_triggered, i_ready,
                i_transition_triggered, i_complete, i_next_state, i_buttons,
                i_wanted, i_pressed, i_conf>>

(* The executor's step agrees with what the Parallel state returned.       *)
Completes == ready' \/ \E n \in DOMAIN calls' : calls'[n].op = "start"
Agrees ==
  ran /\ ~ready => (Completes <=> par.ok) /\ (par.ok => state_output' = par.out)

(* Controller::run: the executor's cycle, then the idle switch.            *)
Cycle ==
  /\ ~first_reset
  /\ state = Parallel /\ ~Vacant => ran
  /\ Run /\ Agrees
  /\ SubStatesFollow
  /\ IdleSwitch(state', InTurn(NestedEffect, qp, calls'))
  /\ ran' = FALSE
  /\ UNCHANGED first_reset

(* Requests to the inner executor: its GUI category, MetaState::read_msg.  *)
InnerRequest ==
  /\ ~ran /\ Meta \in par.live
  /\ E!Interrupt \/ E!NextRequest \/ \E s \in InnerRequestable : E!Resume(s)
  /\ calls' = <<>>
  /\ UNCHANGED <<mainVars, controllerVars, par, half, ran>>

NestedNext ==
  \/ Reset /\ UNCHANGED nestedVars
  \/ RunParallel \/ Cycle
  \/ ~ran /\ Request /\ UNCHANGED nestedVars
  \/ InnerRequest
NestedSpec == NestedInit /\ [][NestedNext]_everything

-----------------------------------------------------------------------------
(* Every state object that was started and not torn down.                  *)
Live == ({state} \cup par.live \cup {i_state}) \ {NoState}

(* "A state should not keep constraints or tasks it created active after   *)
(* the state finished its execution" (State.h): only the tasks of live     *)
(* states are in the solver, at every depth and whoever ended them, and    *)
(* sub-states live only inside the Parallel state.                         *)
SolverMatchesStates ==
  /\ qp.tasks \ {PostureTask, FreeFlyerTask} = UNION {OwnTasks[s] : s \in Live}
  /\ Live \ Loaded # {} => state = Parallel

(* The posture task is out of the solver exactly while a live state wants  *)
(* it out, unless two of them did at the same time: the first one to end   *)
(* then brings it back under the other.                                    *)
PostureOutAsAsked ==
  ~qp.overlap => (PostureTask \notin qp.tasks <=> Live \cap RemovesPosture # {})

(* A HalfSitting state leaves the stiffness of the posture task as it was, *)
(* unless it is torn down before the posture is reached.                   *)
StiffnessRestored ==
  half.stiffness # DefaultStiffness => half.waits \/ half.abandoned
=============================================================================
