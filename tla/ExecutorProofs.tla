--------------------------- MODULE ExecutorProofs ---------------------------
(***************************************************************************)
(* Proofs about Executor.tla, for every set of states, every transition    *)
(* map between loaded states and any number of cycles and requests, and    *)
(* about NestedStates.tla, the controller and the states that run others   *)
(* around it.                                                              *)
(*                                                                         *)
(* The second half has four parts: what one call does to the solver        *)
(* (Matches), and a sequence of them; what the calls of the sub-states and *)
(* of the two executors do; the invariant NestedInv and the theorems that  *)
(* follow from it; and the guarantees of the executor, carried over to the *)
(* controller around it and to the executor of a Meta state.               *)
(***************************************************************************)
EXTENDS NestedStates, IterationProofs, TLAPS

(* The lookups on the map in force only lead to loaded states, and nothing *)
(* leaves the empty name: TransitionMap::init drops the other entries.     *)
LEMMA MapFacts ==
  /\ \A s : Transitions(map, s) \subseteq Loaded
  /\ Transitions(map, NoState) = {}
  /\ \A s, o : HasTransition(map, s, o)
               => Transition(map, s, o) \in [state : Loaded, type : Types]
<1>1. /\ DOMAIN map \subseteq Loaded \X (Output \cup {DEFAULT})
      /\ \A k \in DOMAIN map : map[k] \in [state : Loaded, type : Types]
  BY MapAssumption DEF map
<1>2. NoState \notin Loaded
  BY NamesAssumption
<1>3. \A s : Transitions(map, s) \subseteq Loaded
  BY <1>1 DEF Transitions
<1>4. Transitions(map, NoState) = {}
  BY <1>1, <1>2 DEF Transitions
<1>5. \A s, o : HasTransition(map, s, o)
                => Transition(map, s, o) \in [state : Loaded, type : Types]
  BY <1>1 DEF HasTransition, Transition
<1>6. QED
  BY <1>3, <1>4, <1>5

(* A request made from a callback is one of the three kinds.               *)
LEMMA RequestFacts ==
  /\ Silent \in Requests /\ ~IsResume(Silent)
  /\ \A r \in Requests : IsResume(r) => r.state \in Requestable
BY DEF Requests, Silent, IsResume

-----------------------------------------------------------------------------
(* next(ctl) keeps the types, whatever it replaces and whatever it starts. *)
LEMMA LaunchType ==
  ASSUME TypeOK, conf' = conf, state_output' \in Output \cup {NoState},
         calls' \in Seq([op : Ops, state : Names]), NEW s \in Names,
         NEW i \in BOOLEAN, NEW c \in BOOLEAN, NEW r \in Requests,
         Launch(s, i, c, r)
  PROVE  TypeOK'
<1>1. PICK q \in Requests :
        /\ ready' = FALSE
        /\ transition_triggered' = IsResume(q)
        /\ state' = IF s \in Loaded THEN s ELSE NoState
        /\ buttons' = (buttons \ Transitions(map, curr_state))
             \cup Transitions(map, IF IsResume(q) THEN q.state ELSE s)
        /\ curr_state' = IF IsResume(q) THEN q.state ELSE s
        /\ next_state' = NoState
        /\ interrupt_triggered' = (i \/ q # Silent)
        /\ complete' = (c /\ ~IsResume(q))
        /\ Track(r, IF s \in Loaded THEN s ELSE NoState, q)
        /\ pressed' = FALSE
  BY RequestFacts DEF Launch, ConsumeTrigger, ButtonsFor
<1>2. \A p \in Requests : IsResume(p) => p.state \in Names
  BY RequestFacts, NamesAssumption DEF Names
<1>3. wanted' \in Names
  BY <1>1, <1>2 DEF Track, TypeOK, Names
<1>4. curr_state' \in Names
  BY <1>1, <1>2
<1>5. buttons' \subseteq Loaded
  BY <1>1, MapFacts DEF TypeOK
<1>6. transition_triggered' \in BOOLEAN /\ complete' \in BOOLEAN
      /\ interrupt_triggered' \in BOOLEAN
  BY <1>1 DEF IsResume
<1> QED
  BY <1>1, <1>3, <1>4, <1>5, <1>6 DEF TypeOK, Names

(* Every branch of run() only makes calls on the old or the new state.     *)
LEMMA CallsType ==
  ASSUME TypeOK, Run
  PROVE  calls' \in Seq([op : Ops, state : Names])
<1> DEFINE C == [op : Ops, state : Names]
<1> SUFFICES calls' \in Seq(C)
  OBVIOUS
<1>1. state \in Names /\ next_state \in Names /\ NoState \in Names
  BY NamesAssumption DEF TypeOK, Names
<1>2. \A s \in Names : /\ Call("run", s) \in C /\ Call("stop", s) \in C
                       /\ Call("teardown", s) \in C /\ Call("start", s) \in C
                       /\ Call("resetPostures", s) \in C
  BY DEF Call, Ops
<1>3. \A o : HasTransition(map, curr_state, Over(o))
             => Transition(map, curr_state, Over(o)).state \in Names
  BY MapFacts, NamesAssumption DEF Names
<1> HIDE DEF C
<1>c. Complete => calls' \in Seq(C)
  <2>1. <<Call("run", state)>> \in Seq(C)
    BY <1>1, <1>2
  <2>2. <<Call("run", state), Call("teardown", state)>> \in Seq(C)
    BY <1>1, <1>2
  <2> QED
    BY <2>1, <2>2 DEF Complete
<1>4. CASE RunVacant
  BY <1>1, <1>2, <1>4 DEF RunVacant
<1>5. CASE RunLaunch
  BY <1>1, <1>2, <1>5 DEF RunLaunch
<1>6. CASE RunContinue
  BY <1>1, <1>2, <1>6 DEF RunContinue
<1>7. CASE RunFinish
  BY <1>c, <1>7 DEF RunFinish
<1>8. CASE RunTransition
  BY <1>1, <1>2, <1>3, <1>8 DEF RunTransition
<1>9. CASE RunWait
  BY <1>c, <1>9 DEF RunWait
<1> QED
  BY <1>4, <1>5, <1>6, <1>7, <1>8, <1>9 DEF Run

-----------------------------------------------------------------------------
(* Every step keeps the types.                                             *)
LEMMA TypeStep == TypeOK /\ [Next]_vars => TypeOK'
<1> SUFFICES ASSUME TypeOK, [Next]_vars PROVE TypeOK'
  OBVIOUS
<1>r. \A r \in Requests : IsResume(r) => r.state \in Names
  BY RequestFacts, NamesAssumption DEF Names
<1>t. ASSUME NEW r \in Requests, Track(r, NoState, Silent)
      PROVE  wanted' \in Names
  BY <1>t, <1>r, RequestFacts DEF Track, TypeOK, Names
<1>c. Complete => ready' \in BOOLEAN /\ state' \in Loaded \cup {NoState}
  BY DEF Complete, TypeOK
<1>o. \A o \in Output : Latch(o) => state_output' \in Output \cup {NoState}
  BY DEF Latch, TypeOK
<1>e. <<>> \in Seq([op : Ops, state : Names])
  OBVIOUS
<1>1. CASE RunVacant
  BY <1>1, CallsType DEF Run, RunVacant, TypeOK, history
<1>2. CASE RunLaunch
  <2>1. Launch(next_state, FALSE, complete, Silent)
        /\ conf' = conf /\ state_output' = state_output
    BY <1>2 DEF RunLaunch
  <2>2. /\ state_output' \in Output \cup {NoState}
        /\ next_state \in Names /\ complete \in BOOLEAN
    BY <2>1 DEF TypeOK
  <2> QED
    BY <1>2, <2>1, <2>2, LaunchType, CallsType, RequestFacts DEF Run
<1>3. CASE RunContinue
  <2>1. PICK r \in Requests :
          /\ interrupt_triggered' = (r # Silent)
          /\ transition_triggered' = (transition_triggered \/ IsResume(r))
          /\ complete' = (complete /\ ~IsResume(r))
          /\ next_state' = IF IsResume(r) THEN r.state ELSE next_state
          /\ Track(r, NoState, Silent)
    BY <1>3 DEF RunContinue
  <2>2. wanted' \in Names /\ next_state' \in Names
    BY <2>1, <1>t, <1>r DEF TypeOK
  <2> QED
    BY <1>3, <2>1, <2>2, CallsType DEF Run, RunContinue, TypeOK, IsResume
<1>4. CASE RunFinish
  <2>1. PICK o \in Output, r \in Requests :
          /\ Latch(o)
          /\ complete' = TRUE
          /\ Complete
          /\ interrupt_triggered' = (r # Silent)
          /\ transition_triggered' = (transition_triggered \/ IsResume(r))
          /\ next_state' = IF IsResume(r) THEN r.state ELSE next_state
          /\ Track(r, NoState, Silent)
    BY <1>4 DEF RunFinish
  <2>2. wanted' \in Names /\ next_state' \in Names
    BY <2>1, <1>t, <1>r DEF TypeOK
  <2> QED
    BY <1>4, <2>1, <2>2, <1>c, <1>o, CallsType
       DEF Run, RunFinish, TypeOK, IsResume
<1>5. CASE RunTransition
  <2>1. PICK o \in Output, r \in Requests :
          /\ Latch(o)
          /\ HasTransition(map, curr_state, Over(o))
          /\ Launch(Transition(map, curr_state, Over(o)).state, r # Silent,
                    complete /\ ~IsResume(r), r)
    BY <1>5 DEF RunTransition
  <2>2. Transition(map, curr_state, Over(o)).state \in Names
    BY <2>1, MapFacts, NamesAssumption DEF Names
  <2>3. conf' = conf /\ (r # Silent) \in BOOLEAN
        /\ (complete /\ ~IsResume(r)) \in BOOLEAN
    BY <1>5 DEF RunTransition, IsResume
  <2> QED
    BY <1>5, <2>1, <2>2, <2>3, <1>o, LaunchType, CallsType DEF Run
<1>6. CASE RunWait
  <2>1. PICK o \in Output, r \in Requests :
          /\ Latch(o)
          /\ HasTransition(map, curr_state, Over(o))
          /\ next_state' = Transition(map, curr_state, Over(o)).state
          /\ Complete
          /\ interrupt_triggered' = (r # Silent)
          /\ Track(r, NoState, Silent)
    BY <1>6 DEF RunWait
  <2>2. wanted' \in Names
    BY <2>1, <1>t
  <2>3. next_state' \in Names
    BY <2>1, MapFacts, NamesAssumption DEF Names
  <2> QED
    BY <1>6, <2>1, <2>2, <2>3, <1>c, <1>o, CallsType
       DEF Run, RunWait, TypeOK
<1>7. CASE Interrupt
  BY <1>7 DEF Interrupt, TypeOK, history
<1>8. CASE NextRequest
  BY <1>8 DEF NextRequest, TypeOK
<1>9. CASE \E s \in Requestable : Resume(s)
  <2>1. PICK s \in Requestable : Resume(s)
    BY <1>9
  <2>2. s \in Names
    BY NamesAssumption DEF Names
  <2> QED
    BY <2>1, <2>2, <1>e DEF Resume, TypeOK
<1>10. CASE UNCHANGED vars
  BY <1>10 DEF vars, flags, history, TypeOK
<1> QED
  BY <1>1, <1>2, <1>3, <1>4, <1>5, <1>6, <1>7, <1>8, <1>9, <1>10
     DEF Next, Run

(* The executor starts with the types.                                     *)
LEMMA InitType == Init => TypeOK
<1>1. <<>> \in Seq([op : Ops, state : Names])
  OBVIOUS
<1>2. InitState \in Names /\ NoState \in Names
  BY NamesAssumption, MapAssumption DEF Names
<1>3. Init => conf \in [managed : BOOLEAN, step_by_step : BOOLEAN,
                        reset_postures : BOOLEAN, keep_state : BOOLEAN,
                        reentrant : BOOLEAN]
  BY NamesAssumption DEF Init
<1> QED
  BY <1>1, <1>2, <1>3 DEF Init, TypeOK

(* Type correctness of the executor, reentrant requests included.          *)
THEOREM TypeCorrect == Spec => []TypeOK
BY InitType, TypeStep, PTL DEF Spec

-----------------------------------------------------------------------------
(* StateOrReady is not inductive: a launch keeps it only if next_state_    *)
(* names a loaded state, whoever wrote it there.                           *)
NextLoaded ==
  Requestable \ {NoState} \subseteq Loaded
  => next_state \in Loaded \cup {NoState}

(* next(ctl) on a loaded state always leaves a state behind.               *)
LEMMA LaunchLoaded ==
  ASSUME NEW s \in Loaded, NEW i, NEW c, NEW r, Launch(s, i, c, r)
  PROVE  state' = s /\ next_state' = NoState
BY DEF Launch

(* A step keeps an executor that is only asked for loaded states able to   *)
(* go on, and the name it will start next loaded.                          *)
LEMMA ReadyStep ==
  TypeOK /\ StateOrReady /\ NextLoaded /\ [Next]_vars
  => StateOrReady' /\ NextLoaded'
<1> SUFFICES ASSUME TypeOK, StateOrReady, NextLoaded, [Next]_vars,
                    Requestable \ {NoState} \subseteq Loaded
             PROVE  /\ state' # NoState \/ ready'
                    /\ next_state' \in Loaded \cup {NoState}
  BY DEF StateOrReady, NextLoaded
<1>i. /\ state # NoState \/ ready
      /\ next_state \in Loaded \cup {NoState}
      /\ NoState \notin Loaded
  BY NamesAssumption DEF StateOrReady, NextLoaded
<1>r. \A r \in Requests : IsResume(r) => r.state \in Loaded \cup {NoState}
  BY RequestFacts
<1>1. CASE RunVacant
  BY <1>1, <1>i DEF RunVacant, Interrupting, Vacant, TypeOK
<1>2. CASE RunLaunch
  <2>1. Launch(next_state, FALSE, complete, Silent)
        /\ next_state # NoState
    BY <1>2 DEF RunLaunch, CanLaunch
  <2> QED
    BY <2>1, <1>i, LaunchLoaded
<1>3. CASE RunContinue
  BY <1>3, <1>i, <1>r DEF RunContinue
<1>4. CASE RunFinish
  BY <1>4, <1>i, <1>r DEF RunFinish, Complete
<1>5. CASE RunTransition
  <2>1. PICK o \in Output, r \in Requests :
          /\ HasTransition(map, curr_state, Over(o))
          /\ Launch(Transition(map, curr_state, Over(o)).state, r # Silent,
                    complete /\ ~IsResume(r), r)
    BY <1>5 DEF RunTransition
  <2>2. Transition(map, curr_state, Over(o)).state \in Loaded
    BY <2>1, MapFacts
  <2> QED
    BY <2>1, <2>2, <1>i, LaunchLoaded
<1>6. CASE RunWait
  <2>1. PICK o \in Output :
          /\ HasTransition(map, curr_state, Over(o))
          /\ next_state' = Transition(map, curr_state, Over(o)).state
          /\ ready'
    BY <1>6 DEF RunWait, Complete
  <2> QED
    BY <2>1, MapFacts
<1>7. CASE Interrupt
  BY <1>7, <1>i DEF Interrupt
<1>8. CASE NextRequest
  BY <1>8, <1>i DEF NextRequest
<1>9. CASE \E s \in Requestable : Resume(s)
  BY <1>9, <1>i DEF Resume
<1>10. CASE UNCHANGED vars
  BY <1>10, <1>i DEF vars, flags
<1> QED
  BY <1>1, <1>2, <1>3, <1>4, <1>5, <1>6, <1>7, <1>8, <1>9, <1>10
     DEF Next, Run

(* An executor that is only asked for loaded states never gets stuck       *)
(* without a state and not ready, even when its states interrupt or resume *)
(* it from inside run() or start().                                        *)
THEOREM NeverStuck == Spec => []StateOrReady
<1>1. Init => StateOrReady /\ NextLoaded
  BY MapAssumption DEF Init, StateOrReady, NextLoaded
<1> QED
  BY <1>1, ReadyStep, TypeCorrect, PTL DEF Spec

-----------------------------------------------------------------------------
(* The buttons follow the current state because next(ctl) is the only      *)
(* writer of both.                                                         *)
LEMMA ButtonsStep ==
  TypeOK /\ ButtonsFollowState /\ [Next]_vars => ButtonsFollowState'
<1> SUFFICES ASSUME TypeOK, ButtonsFollowState, [Next]_vars
             PROVE  ButtonsFollowState'
  OBVIOUS
<1>k. ASSUME conf' = conf, curr_state' = curr_state, buttons' = buttons
      PROVE  ButtonsFollowState'
  BY <1>k DEF ButtonsFollowState, map
<1>l. ASSUME conf' = conf, NEW s, NEW i, NEW c, NEW r, Launch(s, i, c, r)
      PROVE  ButtonsFollowState'
  <2>1. PICK name : /\ buttons' = ButtonsFor(name)
                    /\ curr_state' = name
    BY <1>l DEF Launch
  <2>2. map' = map
    BY <1>l DEF map
  <2>3. buttons' = Transitions(map, name)
    BY <2>1 DEF ButtonsFor, ButtonsFollowState
  <2> QED
    BY <2>1, <2>2, <2>3 DEF ButtonsFollowState
<1>1. CASE RunVacant
  BY <1>1, <1>k DEF RunVacant
<1>2. CASE RunLaunch
  BY <1>2, <1>l DEF RunLaunch
<1>3. CASE RunContinue
  BY <1>3, <1>k DEF RunContinue
<1>4. CASE RunFinish
  BY <1>4, <1>k DEF RunFinish
<1>5. CASE RunTransition
  BY <1>5, <1>l DEF RunTransition
<1>6. CASE RunWait
  BY <1>6, <1>k DEF RunWait
<1>7. CASE Interrupt
  BY <1>7, <1>k DEF Interrupt
<1>8. CASE NextRequest
  BY <1>8, <1>k DEF NextRequest
<1>9. CASE \E s \in Requestable : Resume(s)
  BY <1>9, <1>k DEF Resume
<1>10. CASE UNCHANGED vars
  BY <1>10, <1>k DEF vars
<1> QED
  BY <1>1, <1>2, <1>3, <1>4, <1>5, <1>6, <1>7, <1>8, <1>9, <1>10
     DEF Next, Run

(* The GUI offers exactly the transitions of the current state.            *)
THEOREM ButtonsCorrect == Spec => []ButtonsFollowState
<1>1. Init => ButtonsFollowState
  BY MapFacts DEF Init, ButtonsFollowState
<1> QED
  BY <1>1, ButtonsStep, TypeCorrect, PTL DEF Spec
-----------------------------------------------------------------------------
(* The calls of one step respect the life of state objects.                *)
LEMMA FitStep == TypeOK /\ [Next]_vars => CallsFit \/ UNCHANGED vars
<1> SUFFICES ASSUME TypeOK, Next PROVE CallsFit
  OBVIOUS
<1>n. \A op, s : Call(op, s).op = op /\ Call(op, s).state = s
  BY DEF Call
<1>1. CASE RunVacant
  <2>1. CASE Interrupting
    BY <1>1, <2>1, <1>n DEF RunVacant, CallsFit, AliveAfter
  <2>2. CASE ~Interrupting
    BY <1>1, <2>2 DEF RunVacant, CallsFit, Interrupting, Vacant, TypeOK
  <2> QED
    BY <2>1, <2>2
<1>2. CASE RunLaunch
  <2>1. state' = IF next_state \in Loaded THEN next_state ELSE NoState
    BY <1>2 DEF RunLaunch, Launch
  <2>2. Interrupting \/ state = NoState
    BY <1>2 DEF RunLaunch, Interrupting, Vacant
  <2>3. CASE Interrupting /\ next_state \in Loaded
    BY <1>2, <2>1, <2>3, <1>n DEF RunLaunch, CallsFit, AliveAfter
  <2>4. CASE Interrupting /\ next_state \notin Loaded
    BY <1>2, <2>1, <2>4, <1>n DEF RunLaunch, CallsFit, AliveAfter
  <2>5. CASE ~Interrupting /\ next_state \in Loaded
    BY <1>2, <2>1, <2>2, <2>5, <1>n DEF RunLaunch, CallsFit, AliveAfter
  <2>6. CASE ~Interrupting /\ next_state \notin Loaded
    BY <1>2, <2>1, <2>2, <2>6, <1>n DEF RunLaunch, CallsFit, AliveAfter
  <2> QED
    BY <2>3, <2>4, <2>5, <2>6
<1>c. Complete => CallsFit
  BY <1>n DEF Complete, CallsFit, AliveAfter
<1>3. CASE RunContinue
  BY <1>3, <1>n DEF RunContinue, CallsFit, AliveAfter
<1>4. CASE RunFinish
  BY <1>4, <1>c DEF RunFinish
<1>5. CASE RunTransition
  <2>1. PICK o \in Output, r \in Requests :
          LET t == Transition(map, curr_state, Over(o))
          IN  /\ HasTransition(map, curr_state, Over(o))
              /\ Launch(t.state, r # Silent, complete /\ ~IsResume(r), r)
              /\ calls' =
                   IF conf.reset_postures
                   THEN <<Call("run", state), Call("teardown", state),
                          Call("resetPostures", NoState),
                          Call("start", t.state)>>
                   ELSE <<Call("run", state), Call("teardown", state),
                          Call("start", t.state)>>
    BY <1>5 DEF RunTransition
  <2>2. state' = Transition(map, curr_state, Over(o)).state
    BY <2>1, MapFacts, LaunchLoaded
  <2>3. CASE conf.reset_postures
    BY <2>1, <2>2, <2>3, <1>n DEF CallsFit, AliveAfter
  <2>4. CASE ~conf.reset_postures
    BY <2>1, <2>2, <2>4, <1>n DEF CallsFit, AliveAfter
  <2> QED
    BY <2>3, <2>4
<1>6. CASE RunWait
  BY <1>6, <1>c DEF RunWait
<1>7. CASE Interrupt
  BY <1>7 DEF Interrupt, CallsFit
<1>8. CASE NextRequest
  BY <1>8 DEF NextRequest, CallsFit
<1>9. CASE \E s \in Requestable : Resume(s)
  BY <1>9 DEF Resume, CallsFit
<1> QED
  BY <1>1, <1>2, <1>3, <1>4, <1>5, <1>6, <1>7, <1>8, <1>9 DEF Next, Run

(* No state object is leaked, torn down twice or used after its teardown,  *)
(* whatever requests come from outside or from the states themselves.      *)
THEOREM LifeCycleRespected == Spec => LifeCycle
BY FitStep, TypeCorrect, PTL DEF Spec, LifeCycle

-----------------------------------------------------------------------------
(* Why the next start will have a reason: whatever next_state_ holds was   *)
(* put there by init(), by the last resume() or by a transition that was   *)
(* made to wait, and a trigger seen by a live state that is not about to   *)
(* be interrupted is the operator's.                                       *)
PendingReason ==
  next_state # NoState =>
    \/ next_state = wanted
    \/ curr_state = NoState /\ next_state = InitState
    \/ /\ HasTransition(map, curr_state, state_output)
       /\ next_state = Transition(map, curr_state, state_output).state
       /\ transition_triggered => pressed
TriggerReason ==
  state # NoState /\ ~interrupt_triggered =>
    /\ transition_triggered => pressed
    /\ ~ready => next_state = NoState
ReasonInv == TypeOK /\ PendingReason /\ TriggerReason

(* Without reentrant requests, a step keeps a reason for what is pending   *)
(* and for the trigger of a state that is running.                         *)
LEMMA ReasonStep ==
  ASSUME ~conf.reentrant, ReasonInv, [Next]_vars
  PROVE  PendingReason' /\ TriggerReason'
<1>q. Requests = {Silent}
  BY DEF Requests
<1>s. ~IsResume(Silent)
  BY RequestFacts
<1>t. Track(Silent, NoState, Silent) => wanted' = wanted
  BY <1>s DEF Track
<1>l. ASSUME NEW s, NEW i, NEW c, Launch(s, i, c, Silent)
      PROVE  next_state' = NoState /\ ~transition_triggered'
  BY <1>l, <1>q, <1>s DEF Launch, ConsumeTrigger
<1>o. ~Vacant => state # NoState /\ ~interrupt_triggered
  BY DEF Vacant
<1>m. conf' = conf => map' = map
  BY DEF map
<1> USE DEF PendingReason, TriggerReason, ReasonInv
<1>1. CASE RunVacant
  BY <1>1, <1>m DEF RunVacant, history
<1>2. CASE RunLaunch
  BY <1>2, <1>l DEF RunLaunch
<1>3. CASE RunContinue
  <2>1. wanted' = wanted /\ next_state' = next_state
        /\ transition_triggered' = transition_triggered
        /\ interrupt_triggered' = FALSE
    BY <1>3, <1>q, <1>s, <1>t DEF RunContinue, TypeOK
  <2> QED
    BY <1>3, <2>1, <1>m, <1>o DEF RunContinue
<1>4. CASE RunFinish
  <2>1. wanted' = wanted /\ next_state' = next_state
        /\ transition_triggered' = transition_triggered
        /\ interrupt_triggered' = FALSE
    BY <1>4, <1>q, <1>s, <1>t DEF RunFinish, TypeOK
  <2>2. next_state # NoState => state_output' = state_output
    BY <1>4, <1>o DEF RunFinish, Latch
  <2>3. ready' /\ (state' # NoState => state' = state)
    BY <1>4 DEF RunFinish, Complete
  <2> QED
    BY <1>4, <2>1, <2>2, <2>3, <1>m, <1>o DEF RunFinish
<1>5. CASE RunTransition
  BY <1>5, <1>q, <1>l DEF RunTransition
<1>6. CASE RunWait
  <2>1. PICK o \in Output :
          /\ Latch(o)
          /\ HasTransition(map, curr_state, Over(o))
          /\ ~transition_triggered
          /\ next_state' = Transition(map, curr_state, Over(o)).state
          /\ Complete
    BY <1>6, <1>q DEF RunWait, Allowed
  <2>2. state_output' = Over(o) /\ ~transition_triggered' /\ ready'
    BY <2>1, <1>6 DEF RunWait, Latch, Over, Complete
  <2> QED
    BY <2>1, <2>2, <1>6, <1>m DEF RunWait
<1>7. CASE Interrupt
  BY <1>7, <1>m DEF Interrupt, history
<1>8. CASE NextRequest
  BY <1>8, <1>m DEF NextRequest
<1>9. CASE \E s \in Requestable : Resume(s)
  BY <1>9 DEF Resume
<1>10. CASE UNCHANGED vars
  BY <1>10, <1>m DEF vars, flags, history
<1> QED
  BY <1>1, <1>2, <1>3, <1>4, <1>5, <1>6, <1>7, <1>8, <1>9, <1>10
     DEF Next, Run

(* ... and then whatever the step starts has its reason.                   *)
LEMMA ReasonFit ==
  ASSUME ~conf.reentrant, ReasonInv, Next
  PROVE  StartsHaveReason
<1>q. Requests = {Silent} /\ ~IsResume(Silent)
  BY RequestFacts DEF Requests
<1>n. \A op, s : Call(op, s).op = op /\ Call(op, s).state = s
  BY DEF Call
<1>c. Complete => StartsHaveReason
  BY <1>n DEF Complete, StartsHaveReason
<1>1. CASE RunVacant
  BY <1>1, <1>n DEF RunVacant, StartsHaveReason
<1>2. CASE RunLaunch
  <2>1. Reason(next_state)
    BY <1>2 DEF RunLaunch, CanLaunch, ReasonInv, PendingReason, Reason
  <2>2. \A k \in DOMAIN calls' :
          calls'[k].op = "start" => calls'[k].state = next_state
    BY <1>2, <1>n DEF RunLaunch
  <2> QED
    BY <2>1, <2>2 DEF StartsHaveReason
<1>3. CASE RunContinue
  BY <1>3, <1>n DEF RunContinue, StartsHaveReason
<1>4. CASE RunFinish
  BY <1>4, <1>c DEF RunFinish
<1>5. CASE RunTransition
  <2>1. PICK o \in Output :
          LET t == Transition(map, curr_state, Over(o))
          IN  /\ Latch(o)
              /\ HasTransition(map, curr_state, Over(o))
              /\ Allowed(t, transition_triggered)
              /\ calls' =
                   IF conf.reset_postures
                   THEN <<Call("run", state), Call("teardown", state),
                          Call("resetPostures", NoState),
                          Call("start", t.state)>>
                   ELSE <<Call("run", state), Call("teardown", state),
                          Call("start", t.state)>>
    BY <1>5, <1>q DEF RunTransition, Allowed
  <2> DEFINE t == Transition(map, curr_state, Over(o))
  <2>2. state_output' = Over(o)
    BY <2>1 DEF Latch, Over
  <2>3. transition_triggered => pressed
    BY <1>5 DEF RunTransition, Vacant, ReasonInv, TriggerReason
  <2>4. Gated(t) => pressed
    BY <2>1, <2>3 DEF Allowed, Gated
  <2>5. Reason(t.state)
    BY <2>1, <2>2, <2>4 DEF Reason
  <2>6. \A k \in DOMAIN calls' :
          calls'[k].op = "start" => calls'[k].state = t.state
    BY <2>1, <1>n
  <2> QED
    BY <2>5, <2>6 DEF StartsHaveReason
<1>6. CASE RunWait
  BY <1>6, <1>c DEF RunWait
<1>7. CASE Interrupt
  BY <1>7 DEF Interrupt, StartsHaveReason
<1>8. CASE NextRequest
  BY <1>8 DEF NextRequest, StartsHaveReason
<1>9. CASE \E s \in Requestable : Resume(s)
  BY <1>9 DEF Resume, StartsHaveReason
<1> QED
  BY <1>1, <1>2, <1>3, <1>4, <1>5, <1>6, <1>7, <1>8, <1>9 DEF Next, Run

(* The configuration never changes.                                        *)
LEMMA ConfStep == [Next]_vars => conf' = conf
BY DEF Next, Run, RunVacant, RunLaunch, RunContinue, RunFinish, RunTransition,
       RunWait, Interrupt, NextRequest, Resume, vars

(* As long as no state makes requests from inside its own run() or         *)
(* start(), every state is started for a reason: a Strict transition, or a *)
(* StepByStep one in step-by-step mode, never fires without the operator.  *)
THEOREM StartsAreJustified == Spec => StartJustified
<1> DEFINE Inv == ~conf.reentrant => PendingReason /\ TriggerReason
<1>1. Init => Inv
  BY DEF Init, PendingReason, TriggerReason
<1>2. TypeOK /\ Inv /\ [Next]_vars => Inv'
  BY ReasonStep, ConfStep DEF ReasonInv
<1>3. TypeOK /\ Inv /\ [Next]_vars
      => (~conf.reentrant => StartsHaveReason) \/ UNCHANGED vars
  BY ReasonFit DEF ReasonInv
<1> QED
  BY <1>1, <1>2, <1>3, TypeCorrect, PTL DEF Spec, StartJustified

-----------------------------------------------------------------------------
(* Nothing but a start clears ready_, and while it is set the output stays *)
(* as it was latched.                                                      *)
LEMMA LatchStep ==
  ASSUME TypeOK, [Next]_vars, ready,
         ~(\E i \in DOMAIN calls' : calls'[i].op = "start"),
         Requestable \ {NoState} \subseteq Loaded,
         NextLoaded
  PROVE  ready' /\ state_output' = state_output
<1>1. CASE RunVacant
  BY <1>1 DEF RunVacant
<1>2. CASE RunLaunch
  <2>1. next_state \in Loaded
    BY <1>2 DEF RunLaunch, CanLaunch, NextLoaded
  <2>2. CASE Interrupting
    <3>1. calls' = <<Call("stop", state), Call("teardown", state),
                     Call("start", next_state)>>
      BY <1>2, <2>1, <2>2 DEF RunLaunch
    <3>2. 3 \in DOMAIN calls' /\ calls'[3].op = "start"
      BY <3>1 DEF Call
    <3> QED BY <3>2
  <2>3. CASE ~Interrupting
    <3>1. calls' = <<Call("start", next_state)>>
      BY <1>2, <2>1, <2>3 DEF RunLaunch
    <3>2. 1 \in DOMAIN calls' /\ calls'[1].op = "start"
      BY <3>1 DEF Call
    <3> QED BY <3>2
  <2> QED BY <2>2, <2>3
<1>3. CASE RunContinue
  BY <1>3 DEF RunContinue
<1>4. CASE RunFinish
  BY <1>4 DEF RunFinish, Latch, Complete
<1>5. CASE RunTransition
  <2>1. PICK o \in Output, r \in Requests :
          calls' = IF conf.reset_postures
                   THEN <<Call("run", state), Call("teardown", state),
                          Call("resetPostures", NoState),
                          Call("start", Transition(map, curr_state, Over(o)).state)>>
                   ELSE <<Call("run", state), Call("teardown", state),
                          Call("start", Transition(map, curr_state, Over(o)).state)>>
    BY <1>5 DEF RunTransition
  <2>2. CASE conf.reset_postures
    <3>1. 4 \in DOMAIN calls' /\ calls'[4].op = "start"
      BY <2>1, <2>2 DEF Call
    <3> QED BY <3>1
  <2>3. CASE ~conf.reset_postures
    <3>1. 3 \in DOMAIN calls' /\ calls'[3].op = "start"
      BY <2>1, <2>3 DEF Call
    <3> QED BY <3>1
  <2> QED BY <2>2, <2>3
<1>6. CASE RunWait
  BY <1>6 DEF RunWait, Latch, Complete
<1>7. CASE Interrupt
  BY <1>7 DEF Interrupt
<1>8. CASE NextRequest
  BY <1>8 DEF NextRequest
<1>9. ASSUME NEW s \in Requestable, Resume(s)
      PROVE  ready' /\ state_output' = state_output
  BY <1>9 DEF Resume
<1>10. CASE UNCHANGED vars
  BY <1>10 DEF vars, flags
<1> QED
  BY <1>1, <1>2, <1>3, <1>4, <1>5, <1>6, <1>7, <1>8, <1>9, <1>10
     DEF Next, Run

(* When only loaded states are asked for, a state estimated complete once  *)
(* stays complete, with the output of that moment, until something else is *)
(* started: run() ignores the later outputs of the state ("yoyo").         *)
THEOREM CompletionsStayLatched ==
  (Requestable \ {NoState} \subseteq Loaded) => (Spec => CompletionLatched)
<1> SUFFICES ASSUME Requestable \ {NoState} \subseteq Loaded
             PROVE  Spec => CompletionLatched
  OBVIOUS
<1>1. Init => StateOrReady /\ NextLoaded
  BY MapAssumption DEF Init, StateOrReady, NextLoaded
<1>2. TypeOK /\ NextLoaded /\ [Next]_vars
      => \/ (ready /\ ~(\E i \in DOMAIN calls' : calls'[i].op = "start")
              => ready' /\ state_output' = state_output)
         \/ UNCHANGED vars
  BY LatchStep
<1> QED
  BY <1>1, <1>2, ReadyStep, TypeCorrect, PTL DEF Spec, CompletionLatched

-----------------------------------------------------------------------------
Tasks == {PostureTask, FreeFlyerTask} \cup UNION {OwnTasks[s] : s \in DOMAIN OwnTasks}
Weights == {DefaultWeight, IdleWeight} \cup {PostureWeight[s] : s \in DOMAIN OwnTasks}
Qp == [tasks : SUBSET Tasks, weight : Weights, held : BOOLEAN,
       removers : SUBSET RemovesPosture, overlap : BOOLEAN]
FitCall == {c \in [op : Ops, state : DOMAIN OwnTasks \cup {NoState}] :
              c.op \in {"start", "teardown"} => c.state \in DOMAIN OwnTasks}

TasksOf(L) == UNION {OwnTasks[s] : s \in L}

(* The solver is as the states of L have left it, with the free-flyer task *)
(* or not; w says that its weight is not that of the idle behaviour.       *)
Matches(q, L, f, w) ==
  /\ q \in Qp
  /\ q.tasks \ {PostureTask, FreeFlyerTask} = TasksOf(L)
  /\ FreeFlyerTask \in q.tasks <=> f
  /\ q.removers = L \cap RemovesPosture
  /\ q.removers = {} => PostureTask \in q.tasks /\ ~q.overlap
  /\ ~q.overlap => /\ PostureTask \notin q.tasks <=> q.removers # {}
                   /\ \A s, t \in q.removers : s = t
  /\ w => q.weight # IdleWeight
LiveAfter(L, c) ==
  CASE c.op = "start" -> L \cup {c.state}
    [] c.op = "teardown" -> L \ {c.state}
    [] OTHER -> L

(* A call keeps the type of the solver.                                    *)
LEMMA EffectType ==
  ASSUME NEW q \in Qp, NEW c \in FitCall
  PROVE  Effect(q, c) \in Qp
<1>1. CASE c.op = "start"
  <2>1. c.state \in DOMAIN OwnTasks
    BY <1>1 DEF FitCall
  <2>2. OwnTasks[c.state] \subseteq Tasks /\ PostureWeight[c.state] \in Weights
    BY <2>1 DEF Tasks, Weights
  <2> QED BY <1>1, <2>2 DEF Effect, Start_, Qp
<1>2. CASE c.op = "teardown"
  BY <1>2 DEF Effect, Teardown_, Qp, Tasks
<1>3. CASE c.op \notin {"start", "teardown"}
  BY <1>3 DEF Effect, ResetPostures, Qp
<1> QED BY <1>1, <1>2, <1>3

(* The tasks of a set of states, and of one with one more or less.         *)
LEMMA TasksOfFacts ==
  ASSUME NEW L, NEW t
  PROVE  /\ \A x : x \in TasksOf(L) <=> \E s \in L : x \in OwnTasks[s]
         /\ TasksOf(L \cup {t}) = TasksOf(L) \cup OwnTasks[t]
         /\ L \subseteq DOMAIN OwnTasks /\ t \in DOMAIN OwnTasks
              => TasksOf(L \ {t}) = TasksOf(L) \ OwnTasks[t]
<1>1. \A S, x : x \in TasksOf(S) <=> \E s \in S : x \in OwnTasks[s]
  BY Zenon DEF TasksOf
<1>2. TasksOf(L \cup {t}) = TasksOf(L) \cup OwnTasks[t]
  BY <1>1
<1>3. ASSUME L \subseteq DOMAIN OwnTasks, t \in DOMAIN OwnTasks
      PROVE  TasksOf(L \ {t}) = TasksOf(L) \ OwnTasks[t]
  <2>1. \A s \in L : s # t => \A x \in OwnTasks[s] : x \notin OwnTasks[t]
    BY <1>3, ControllerAssumption
  <2> QED BY <1>1, <2>1
<1> QED BY <1>1, <1>2, <1>3

(* A call keeps the solver as the live states have left it.                *)
LEMMA EffectMatches ==
  ASSUME NEW q, NEW L \in SUBSET DOMAIN OwnTasks, NEW f \in BOOLEAN, NEW w \in BOOLEAN,
         NEW c \in FitCall, Matches(q, L, f, w)
  PROVE  Matches(Effect(q, c), LiveAfter(L, c), f, w)
<1> DEFINE r == Effect(q, c)
<1>1. q \in Qp /\ r \in Qp
  BY EffectType DEF Matches
<1>2. CASE c.op = "start"
  <2>1. c.state \in DOMAIN OwnTasks /\ LiveAfter(L, c) = L \cup {c.state}
    BY <1>2 DEF FitCall, LiveAfter
  <2>2. /\ r.tasks = (q.tasks \ (IF c.state \in RemovesPosture THEN {PostureTask} ELSE {}))
                        \cup OwnTasks[c.state]
        /\ r.removers = q.removers \cup ({c.state} \cap RemovesPosture)
        /\ r.overlap = (q.overlap \/ (c.state \in RemovesPosture /\ q.removers # {}))
        /\ r.weight = IF PostureWeight[c.state] = NoWeight THEN q.weight
                      ELSE PostureWeight[c.state]
    BY <1>1, <1>2 DEF Effect, Start_, Qp
  <2> HIDE DEF r
  <2>3. /\ {PostureTask, FreeFlyerTask} \cap OwnTasks[c.state] = {}
        /\ PostureWeight[c.state] # IdleWeight /\ PostureTask # FreeFlyerTask
    BY <2>1, ControllerAssumption
  <2>4. r.tasks \ {PostureTask, FreeFlyerTask} = TasksOf(LiveAfter(L, c))
    <3>1. TasksOf(L \cup {c.state}) = TasksOf(L) \cup OwnTasks[c.state]
      BY TasksOfFacts
    <3> QED BY <2>1, <2>2, <2>3, <3>1 DEF Matches
  <2>5. FreeFlyerTask \in r.tasks <=> f
    BY <2>2, <2>3 DEF Matches
  <2>6. r.removers = LiveAfter(L, c) \cap RemovesPosture
    BY <2>1, <2>2 DEF Matches
  <2>7. PostureTask \in r.tasks <=> PostureTask \in q.tasks /\ c.state \notin RemovesPosture
    BY <2>2, <2>3
  <2>8. r.removers = {} => PostureTask \in r.tasks /\ ~r.overlap
    BY <2>2, <2>7 DEF Matches
  <2>9. ~r.overlap => /\ PostureTask \notin r.tasks <=> r.removers # {}
                      /\ \A s, t \in r.removers : s = t
    BY <2>2, <2>7 DEF Matches
  <2>10. w => r.weight # IdleWeight
    BY <2>2, <2>3 DEF Matches
  <2> QED BY <1>1, <2>4, <2>5, <2>6, <2>8, <2>9, <2>10 DEF Matches, r
<1>3. CASE c.op = "teardown"
  <2>1. c.state \in DOMAIN OwnTasks /\ LiveAfter(L, c) = L \ {c.state}
    BY <1>3 DEF FitCall, LiveAfter
  <2>2. /\ r.tasks = (q.tasks \cup (IF c.state \in q.removers THEN {PostureTask} ELSE {}))
                        \ OwnTasks[c.state]
        /\ r.removers = q.removers \ {c.state}
        /\ r.overlap = (q.overlap /\ q.removers # {c.state})
        /\ r.weight = q.weight
    BY <1>1, <1>3 DEF Effect, Teardown_, Qp
  <2> HIDE DEF r
  <2>3. /\ {PostureTask, FreeFlyerTask} \cap OwnTasks[c.state] = {}
        /\ PostureTask # FreeFlyerTask
        /\ \A s \in DOMAIN OwnTasks : s # c.state => OwnTasks[s] \cap OwnTasks[c.state] = {}
    BY <2>1, ControllerAssumption
  <2>4. r.tasks \ {PostureTask, FreeFlyerTask} = TasksOf(LiveAfter(L, c))
    <3>1. TasksOf(L \ {c.state}) = TasksOf(L) \ OwnTasks[c.state]
      BY <2>1, TasksOfFacts
    <3>2. r.tasks \ {PostureTask, FreeFlyerTask}
            = (q.tasks \ {PostureTask, FreeFlyerTask}) \ OwnTasks[c.state]
      BY <2>2
    <3> QED BY <2>1, <3>1, <3>2 DEF Matches
  <2>5. FreeFlyerTask \in r.tasks <=> f
    BY <2>2, <2>3 DEF Matches
  <2>6. r.removers = LiveAfter(L, c) \cap RemovesPosture
    BY <2>1, <2>2 DEF Matches
  <2>7. PostureTask \in r.tasks <=> PostureTask \in q.tasks \/ c.state \in q.removers
    BY <2>2, <2>3
  <2>8. r.removers = {} => PostureTask \in r.tasks /\ ~r.overlap
    <3>1. CASE q.removers = {}
      BY <2>2, <2>7, <3>1 DEF Matches
    <3>2. CASE q.removers # {}
      <4>1. r.removers = {} => q.removers = {c.state}
        BY <2>2, <3>2
      <4> QED BY <2>2, <2>7, <4>1
    <3> QED BY <3>1, <3>2
  <2>9. ~r.overlap => /\ PostureTask \notin r.tasks <=> r.removers # {}
                      /\ \A s, t \in r.removers : s = t
    BY <2>2, <2>7 DEF Matches
  <2> QED BY <1>1, <2>2, <2>4, <2>5, <2>6, <2>8, <2>9 DEF Matches, r
<1>4. CASE c.op \notin {"start", "teardown"}
  <2>1. LiveAfter(L, c) = L
    BY <1>4 DEF LiveAfter
  <2>2. /\ r.tasks = q.tasks /\ r.removers = q.removers
        /\ r.overlap = q.overlap /\ r.weight = q.weight
    BY <1>1, <1>4 DEF Effect, ResetPostures, Qp
  <2> HIDE DEF r
  <2> QED BY <1>1, <2>1, <2>2 DEF Matches, r
<1> QED BY <1>2, <1>3, <1>4

(* The values of the solver between the calls of a sequence.               *)
Between(f, q, cs) ==
  /\ f \in [0..Len(cs) -> Qp] /\ f[0] = q
  /\ \A n \in 1..Len(cs) : f[n] = Effect(f[n - 1], cs[n])
  /\ Effects(q, cs) = f[Len(cs)]

(* Calls that act on the solver in turn lead through such values.          *)
LEMMA EffectsCourse ==
  ASSUME NEW q \in Qp, NEW cs \in Seq(FitCall)
  PROVE  \E f : Between(f, q, cs)
<1> DEFINE N == Len(cs)
           Rec(g) == [n \in 0..N |-> IF n = 0 THEN q ELSE Effect(g[n - 1], cs[n])]
           a == CHOOSE g : g = Rec(g)
           step == [n \in 1..N |-> [x \in Qp |-> Effect(x, cs[n])]]
<1>1. N \in Nat /\ \A n \in 1..N : cs[n] \in FitCall
  OBVIOUS
<1>2. Effects(q, cs) = a[N]
  BY DEF Effects, InTurn
<1>3. step \in [1..N -> [Qp -> Qp]]
  BY <1>1, EffectType
<1>4. PICK f : IsCourse(f, Qp, N, q, step)
  <2>1. N \in Nat
    BY <1>1
  <2> HIDE DEF step, N, Rec, a
  <2> QED BY <1>3, <2>1, Course
<1>5. ASSUME NEW n \in 1..N PROVE f[n] = Effect(f[n - 1], cs[n])
  <2>1. f[n - 1] \in Qp
    BY <1>1, <1>4 DEF IsCourse
  <2>2. step[n] = [x \in Qp |-> Effect(x, cs[n])]
    OBVIOUS
  <2>3. f[n] = step[n][f[n - 1]]
    BY <1>4 DEF IsCourse
  <2> HIDE DEF step
  <2> QED BY <2>1, <2>2, <2>3
<1>6. f = Rec(f)
  BY <1>1, <1>4, <1>5 DEF IsCourse
<1>7. a = Rec(a)
  <2> HIDE DEF Rec
  <2> QED BY <1>6, Zenon
<1>8. a[N] = f[N]
  <2> DEFINE S == {k \in 0..N : a[k] = f[k]}
  <2> HIDE DEF a
  <2>1. 0 \in S
    BY <1>1, <1>4, <1>7 DEF IsCourse
  <2>2. ASSUME NEW n \in 1..N, n - 1 \in S PROVE n \in S
    <3>1. a[n] = Effect(a[n - 1], cs[n]) /\ a[n - 1] = f[n - 1] /\ n \in 0..N
      BY <1>1, <1>7, <2>2
    <3> QED BY <1>5, <3>1
  <2>3. N \in 0..N
    BY <1>1
  <2>4. N \in S
    <3> HIDE DEF S, N
    <3> QED BY ONLY <1>1, <2>1, <2>2, <2>3, UpTo, Zenon
  <2> QED BY <2>4
<1>9. Between(f, q, cs)
  <2> HIDE DEF a
  <2> QED BY <1>2, <1>4, <1>5, <1>8 DEF IsCourse, Between
<1> QED BY <1>9

(* The effect of no call, of one, of two and of three.                     *)
LEMMA EffectsNone == \A q \in Qp : Effects(q, <<>>) = q
<1> SUFFICES ASSUME NEW q \in Qp PROVE Effects(q, <<>>) = q
  OBVIOUS
<1>1. <<>> \in Seq(FitCall) /\ Len(<<>>) = 0
  OBVIOUS
<1>2. PICK f : Between(f, q, <<>>)
  BY <1>1, EffectsCourse
<1> QED BY <1>1, <1>2 DEF Between

(* One.                                                                    *)
LEMMA EffectsOne ==
  ASSUME NEW q \in Qp, NEW a \in FitCall
  PROVE  Effects(q, <<a>>) = Effect(q, a)
<1>1. <<a>> \in Seq(FitCall) /\ Len(<<a>>) = 1 /\ <<a>>[1] = a
  OBVIOUS
<1>2. PICK f : Between(f, q, <<a>>)
  BY <1>1, EffectsCourse
<1> QED BY <1>1, <1>2 DEF Between

(* Two.                                                                    *)
LEMMA EffectsTwo ==
  ASSUME NEW q \in Qp, NEW a \in FitCall, NEW b \in FitCall
  PROVE  Effects(q, <<a, b>>) = Effect(Effect(q, a), b)
<1> DEFINE cs == <<a, b>>
<1>1. cs \in Seq(FitCall) /\ Len(cs) = 2 /\ cs[1] = a /\ cs[2] = b
  OBVIOUS
<1> HIDE DEF cs
<1>2. PICK f : Between(f, q, cs)
  BY <1>1, EffectsCourse
<1>3. f[1] = Effect(f[0], cs[1]) /\ f[2] = Effect(f[1], cs[2])
  BY <1>1, <1>2 DEF Between
<1> QED BY <1>1, <1>2, <1>3 DEF Between, cs

(* Three.                                                                  *)
LEMMA EffectsThree ==
  ASSUME NEW q \in Qp, NEW a \in FitCall, NEW b \in FitCall, NEW c \in FitCall
  PROVE  Effects(q, <<a, b, c>>) = Effect(Effect(Effect(q, a), b), c)
<1> DEFINE cs == <<a, b, c>>
<1>1. cs \in Seq(FitCall) /\ Len(cs) = 3 /\ cs[1] = a /\ cs[2] = b /\ cs[3] = c
  OBVIOUS
<1> HIDE DEF cs
<1>2. PICK f : Between(f, q, cs)
  BY <1>1, EffectsCourse
<1>3. f[1] = Effect(f[0], cs[1]) /\ f[2] = Effect(f[1], cs[2]) /\ f[3] = Effect(f[2], cs[3])
  BY <1>1, <1>2 DEF Between
<1> QED BY <1>1, <1>2, <1>3 DEF Between, cs

-----------------------------------------------------------------------------
(* The sub-states, one after the other.                                    *)

(* The values of the solver between the sub-states.                        *)
BetweenSubs(f, q, cs) ==
  /\ f \in [0..Len(Sub) -> Qp] /\ f[0] = q
  /\ \A n \in 1..Len(Sub) : f[n] = Effects(f[n - 1], cs[Sub[n]])
  /\ SubEffects(q, cs) = f[Len(Sub)]

(* The sub-states act on the solver in turn.                               *)
LEMMA SubEffectsCourse ==
  ASSUME NEW q \in Qp, NEW cs \in [Subs -> Seq(FitCall)]
  PROVE  \E f : BetweenSubs(f, q, cs)
<1> DEFINE N == Len(Sub)
           Rec(g) == [n \in 0..N |-> IF n = 0 THEN q
                                     ELSE Effects(g[n - 1], cs[Sub[n]])]
           a == CHOOSE g : g = Rec(g)
           step == [n \in 1..N |-> [x \in Qp |-> Effects(x, cs[Sub[n]])]]
<1>1. N \in Nat /\ \A n \in 1..N : cs[Sub[n]] \in Seq(FitCall)
  BY NestedAssumption
<1>2. SubEffects(q, cs) = a[N]
  <2> HIDE DEF Effect
  <2> QED BY DEF SubEffects, InTurn
<1>3. step \in [1..N -> [Qp -> Qp]]
  <2>1. \A x \in Qp, n \in 1..N : Effects(x, cs[Sub[n]]) \in Qp
    <3> SUFFICES ASSUME NEW x \in Qp, NEW n \in 1..N PROVE Effects(x, cs[Sub[n]]) \in Qp
      OBVIOUS
    <3> DEFINE c == cs[Sub[n]]
    <3>1. c \in Seq(FitCall) /\ Len(c) \in 0..Len(c)
      BY <1>1
    <3> HIDE DEF c
    <3>2. PICK f : Between(f, x, c)
      BY <3>1, EffectsCourse
    <3>3. Effects(x, c) \in Qp
      BY <3>1, <3>2 DEF Between
    <3> QED BY <3>3 DEF c
  <2> QED BY <2>1
<1>4. PICK f : IsCourse(f, Qp, N, q, step)
  <2>1. N \in Nat
    BY <1>1
  <2> HIDE DEF step, N, Rec, a
  <2> QED BY <1>3, <2>1, Course
<1>5. ASSUME NEW n \in 1..N PROVE f[n] = Effects(f[n - 1], cs[Sub[n]])
  <2>1. f[n - 1] \in Qp
    BY <1>1, <1>4 DEF IsCourse
  <2>2. step[n] = [x \in Qp |-> Effects(x, cs[Sub[n]])]
    OBVIOUS
  <2>3. f[n] = step[n][f[n - 1]]
    BY <1>4 DEF IsCourse
  <2> HIDE DEF step
  <2> QED BY <2>1, <2>2, <2>3
<1>6. f = Rec(f)
  BY <1>1, <1>4, <1>5 DEF IsCourse
<1>7. a = Rec(a)
  <2> HIDE DEF Rec
  <2> QED BY <1>6, Zenon
<1>8. a[N] = f[N]
  <2> DEFINE S == {k \in 0..N : a[k] = f[k]}
  <2> HIDE DEF a
  <2>1. 0 \in S
    BY <1>1, <1>4, <1>7 DEF IsCourse
  <2>2. ASSUME NEW n \in 1..N, n - 1 \in S PROVE n \in S
    <3>1. a[n] = Effects(a[n - 1], cs[Sub[n]]) /\ a[n - 1] = f[n - 1] /\ n \in 0..N
      BY <1>1, <1>7, <2>2
    <3> QED BY <1>5, <3>1
  <2>3. N \in 0..N
    BY <1>1
  <2>4. N \in S
    <3> HIDE DEF S, N
    <3> QED BY ONLY <1>1, <2>1, <2>2, <2>3, UpTo, Zenon
  <2> QED BY <2>4
<1>9. BetweenSubs(f, q, cs)
  <2> HIDE DEF a
  <2> QED BY <1>2, <1>4, <1>5, <1>8 DEF IsCourse, BetweenSubs
<1> QED BY <1>9

(* What a sub-state answers for: the Meta state also for the states in it. *)
Owned(s) == IF s = Meta THEN {Meta} \cup Inner ELSE {s}

(* Every nested state has one sub-state that answers for it.               *)
LEMMA OwnedFacts ==
  /\ Subs \cup Inner \subseteq DOMAIN OwnTasks
  /\ \A s \in Subs : s \in Owned(s) /\ Owned(s) \subseteq Subs \cup Inner
  /\ \A s, t \in Subs : s # t => Owned(s) \cap Owned(t) = {}
  /\ \A x \in Subs \cup Inner : \E s \in Subs : x \in Owned(s)
BY NestedAssumption DEF Owned

(* A sequence of sub-states has every one at one place.                    *)
LEMMA SubFacts ==
  /\ Len(Sub) \in Nat /\ \A n \in 1..Len(Sub) : Sub[n] \in Subs
  /\ \A m, n \in 1..Len(Sub) : Sub[m] = Sub[n] => m = n
  /\ \A s \in Subs : \E n \in 1..Len(Sub) : Sub[n] = s
<1>1. Sub \in Seq(Subs) /\ IsInjective(Sub)
  BY NestedAssumption
<1>2. Subs = {Sub[n] : n \in DOMAIN Sub} /\ DOMAIN Sub = 1..Len(Sub)
  BY <1>1 DEF Subs, ToSet
<1>3. \A m, n \in 1..Len(Sub) : Sub[m] = Sub[n] => m = n
  BY <1>1, <1>2 DEF IsInjective
<1>4. \A s \in Subs : \E n \in 1..Len(Sub) : Sub[n] = s
  BY <1>2
<1> QED BY <1>1, <1>3, <1>4

(* The calls cs[s] of every sub-state s bring what it answers for from L   *)
(* to M, whatever the others do.                                           *)
Brings(cs, L, M, f, w) ==
  \A s \in Subs, q \in Qp, K \in SUBSET DOMAIN OwnTasks :
    K \cap Owned(s) = L \cap Owned(s) /\ Matches(q, K, f, w)
    => Matches(Effects(q, cs[s]), (K \ Owned(s)) \cup (M \cap Owned(s)), f, w)

(* Then the calls of all of them bring the live states from L to M.        *)
LEMMA SubEffectsMatch ==
  ASSUME NEW q, NEW cs \in [Subs -> Seq(FitCall)],
         NEW f \in BOOLEAN, NEW w \in BOOLEAN,
         NEW L \in SUBSET DOMAIN OwnTasks, NEW M \in SUBSET DOMAIN OwnTasks,
         L \ (Subs \cup Inner) = M \ (Subs \cup Inner),
         Matches(q, L, f, w), Brings(cs, L, M, f, w)
  PROVE  Matches(SubEffects(q, cs), M, f, w)
<1> DEFINE N == Len(Sub)
           Done(n) == {x \in Subs \cup Inner : \E m \in 1..N : m <= n /\ x \in Owned(Sub[m])}
           At(n) == (M \cap Done(n)) \cup (L \ Done(n))
<1>1. q \in Qp
  BY DEF Matches
<1>2. PICK g : BetweenSubs(g, q, cs)
  BY <1>1, SubEffectsCourse
<1> DEFINE S == {n \in 0..N : Matches(g[n], At(n), f, w)}
<1>3. N \in Nat /\ N \in 0..N
  BY SubFacts
<1>4. 0 \in S
  <2>1. Done(0) = {}
    BY <1>3
  <2>2. At(0) = L
    BY <2>1
  <2>3. g[0] = q
    BY <1>2 DEF BetweenSubs
  <2>4. Matches(g[0], At(0), f, w)
    BY <2>2, <2>3
  <2> HIDE DEF At
  <2> QED BY <1>3, <2>4
<1>5. ASSUME NEW n \in 1..N, n - 1 \in S PROVE n \in S
  <2> DEFINE s == Sub[n]
  <2>1. s \in Subs /\ n \in 0..N /\ n - 1 \in 0..N
    BY <1>3, SubFacts
  <2>2. g[n] = Effects(g[n - 1], cs[s]) /\ g[n - 1] \in Qp
    BY <1>2, <2>1 DEF BetweenSubs
  <2>3. Done(n) = Done(n - 1) \cup Owned(s)
    <3>1. \A m \in 1..N : m <= n <=> m <= n - 1 \/ m = n
      BY <1>3
    <3>2. Owned(s) \subseteq Subs \cup Inner
      BY <2>1, OwnedFacts
    <3> QED BY <3>1, <3>2
  <2>4. Done(n - 1) \cap Owned(s) = {}
    <3>1. ASSUME NEW m \in 1..N, m <= n - 1 PROVE Owned(Sub[m]) \cap Owned(s) = {}
      <4>1. m # n
        BY <1>3, <3>1
      <4>2. Sub[m] # s /\ Sub[m] \in Subs
        BY <4>1, SubFacts
      <4> QED BY <2>1, <4>2, OwnedFacts
    <3> QED BY <3>1
  <2>5. Matches(g[n - 1], At(n - 1), f, w)
    BY <1>5
  <2> HIDE DEF s, Done, S, N
  <2>6. At(n - 1) \cap Owned(s) = L \cap Owned(s)
    BY <2>4
  <2>7. (At(n - 1) \ Owned(s)) \cup (M \cap Owned(s)) = At(n)
    BY <2>3, <2>4
  <2>8. At(n - 1) \in SUBSET DOMAIN OwnTasks
    OBVIOUS
  <2> HIDE DEF At
  <2>9. Matches(Effects(g[n - 1], cs[s]),
                (At(n - 1) \ Owned(s)) \cup (M \cap Owned(s)), f, w)
    BY <2>1, <2>2, <2>5, <2>6, <2>8 DEF Brings
  <2>10. Matches(g[n], At(n), f, w)
    BY <2>2, <2>7, <2>9
  <2> QED BY <2>1, <2>10 DEF S
<1>6. N \in S
  <2> HIDE DEF S, N
  <2> QED BY ONLY <1>3, <1>4, <1>5, UpTo, Zenon
<1>7. At(N) = M
  <2>1. Done(N) = Subs \cup Inner
    <3>1. ASSUME NEW x \in Subs \cup Inner PROVE \E m \in 1..N : m <= N /\ x \in Owned(Sub[m])
      <4>1. PICK s \in Subs : x \in Owned(s)
        BY OwnedFacts
      <4>2. PICK m \in 1..N : Sub[m] = s
        BY SubFacts
      <4>3. m <= N
        BY <1>3
      <4> QED BY <4>1, <4>2, <4>3
    <3> QED BY <3>1
  <2> HIDE DEF Done
  <2> QED BY <2>1
<1>8. SubEffects(q, cs) = g[N]
  BY <1>2 DEF BetweenSubs
<1>9. Matches(g[N], At(N), f, w)
  BY <1>6
<1> HIDE DEF At, N
<1> QED BY <1>7, <1>8, <1>9

-----------------------------------------------------------------------------
(* The calls on states that exist, and which states live after each.       *)
LEMMA CallFacts ==
  /\ \A s \in DOMAIN OwnTasks : /\ Call("start", s) \in FitCall
                                /\ Call("teardown", s) \in FitCall
                                /\ Call("run", s) \in FitCall
                                /\ Call("stop", s) \in FitCall
  /\ Call("resetPostures", NoState) \in FitCall
  /\ \A L, s : /\ LiveAfter(L, Call("start", s)) = L \cup {s}
               /\ LiveAfter(L, Call("teardown", s)) = L \ {s}
               /\ LiveAfter(L, Call("run", s)) = L
               /\ LiveAfter(L, Call("stop", s)) = L
               /\ LiveAfter(L, Call("resetPostures", s)) = L
BY DEF Call, FitCall, LiveAfter, Ops

(* A sub-state that is started, with the first state of the Meta state.    *)
LEMMA StartSubMatches ==
  ASSUME NEW s \in Subs, NEW q, NEW K \in SUBSET DOMAIN OwnTasks,
         NEW f \in BOOLEAN, NEW w \in BOOLEAN, Matches(q, K, f, w)
  PROVE  /\ StartSub(s) \in Seq(FitCall)
         /\ Matches(Effects(q, StartSub(s)),
                    K \cup {s} \cup (IF s = Meta THEN {InnerInit} ELSE {}), f, w)
<1>1. s \in DOMAIN OwnTasks /\ InnerInit \in DOMAIN OwnTasks
  BY NestedAssumption
<1>2. q \in Qp /\ K \cup {s} \in SUBSET DOMAIN OwnTasks
  BY <1>1 DEF Matches
<1> DEFINE a == Call("start", s)
           b == Call("start", InnerInit)
<1>3. /\ a \in FitCall /\ b \in FitCall /\ LiveAfter(K, a) = K \cup {s}
      /\ LiveAfter(K \cup {s}, b) = K \cup {s} \cup {InnerInit}
  BY <1>1, CallFacts
<1>4. StartSub(s) = IF s = Meta THEN <<a, b>> ELSE <<a>>
  BY DEF StartSub
<1> HIDE DEF a, b
<1>5. Matches(Effect(q, a), K \cup {s}, f, w)
  BY <1>3, EffectMatches
<1>6. Matches(Effect(Effect(q, a), b), K \cup {s} \cup {InnerInit}, f, w)
  BY <1>2, <1>3, <1>5, EffectMatches
<1>7. /\ Effects(q, <<a>>) = Effect(q, a)
      /\ Effects(q, <<a, b>>) = Effect(Effect(q, a), b)
  BY <1>2, <1>3, EffectsOne, EffectsTwo, Zenon
<1>8. <<a>> \in Seq(FitCall) /\ <<a, b>> \in Seq(FitCall)
  BY <1>3
<1>9. CASE s = Meta
  BY <1>4, <1>6, <1>7, <1>8, <1>9
<1>10. CASE s # Meta
  BY <1>4, <1>5, <1>7, <1>8, <1>10
<1> QED BY <1>9, <1>10

(* A sub-state that is torn down, with the state the Meta state is in.     *)
LEMMA TeardownSubMatches ==
  ASSUME NEW s \in Subs, NEW q, NEW K \in SUBSET DOMAIN OwnTasks,
         NEW f \in BOOLEAN, NEW w \in BOOLEAN, Matches(q, K, f, w),
         i_state \in Inner \cup {NoState}
  PROVE  /\ TeardownSub(s) \in Seq(FitCall)
         /\ Matches(Effects(q, TeardownSub(s)),
                    (K \ {s}) \ (IF s = Meta /\ i_state # NoState THEN {i_state} ELSE {}), f, w)
<1>1. s \in DOMAIN OwnTasks /\ (i_state # NoState => i_state \in DOMAIN OwnTasks)
  BY NestedAssumption
<1>2. q \in Qp /\ K \ {s} \in SUBSET DOMAIN OwnTasks
  BY <1>1 DEF Matches
<1> DEFINE a == Call("teardown", s)
           b == Call("teardown", i_state)
<1>3. /\ a \in FitCall /\ (i_state # NoState => b \in FitCall) /\ LiveAfter(K, a) = K \ {s}
      /\ LiveAfter(K \ {s}, b) = (K \ {s}) \ {i_state}
  BY <1>1, CallFacts
<1>4. TeardownSub(s) = IF s = Meta /\ i_state # NoState THEN <<a, b>> ELSE <<a>>
  BY DEF TeardownSub
<1> HIDE DEF a, b
<1>5. Matches(Effect(q, a), K \ {s}, f, w)
  BY <1>3, EffectMatches
<1>6. Effects(q, <<a>>) = Effect(q, a)
  BY <1>2, <1>3, EffectsOne, Zenon
<1>7. CASE s = Meta /\ i_state # NoState
  <2>1. Matches(Effect(Effect(q, a), b), (K \ {s}) \ {i_state}, f, w)
    BY <1>2, <1>3, <1>5, <1>7, EffectMatches
  <2>2. Effects(q, <<a, b>>) = Effect(Effect(q, a), b)
    BY <1>2, <1>3, <1>7, EffectsTwo, Zenon
  <2> QED BY <1>3, <1>4, <1>7, <2>1, <2>2
<1>8. CASE ~(s = Meta /\ i_state # NoState)
  BY <1>3, <1>4, <1>5, <1>6, <1>8
<1> QED BY <1>7, <1>8

-----------------------------------------------------------------------------
(* The calls that run() of the executor of the Meta state makes.           *)
InnerCalls ==
  \/ i_state' = i_state /\ i_calls' = <<>>
  \/ i_state' = i_state /\ i_state \in Inner /\ i_calls' = <<Call("run", i_state)>>
  \/ /\ i_state' = NoState /\ i_state \in Inner
     /\ i_calls' = <<Call("stop", i_state), Call("teardown", i_state)>>
  \/ /\ i_state' \in Inner /\ i_state = NoState
     /\ i_calls' = <<Call("start", i_state')>>
  \/ /\ i_state' \in Inner /\ i_state \in Inner
     /\ \E op \in {"run", "stop"} :
          i_calls' = <<Call(op, i_state), Call("teardown", i_state), Call("start", i_state')>>

(* Every branch of it makes one of those.                                  *)
LEMMA InnerRun ==
  ASSUME i_state \in Inner \cup {NoState}, i_conf \in InnerConfs, E!Run
  PROVE  InnerCalls /\ i_conf' = i_conf
<1>1. i_conf.keep_state = TRUE /\ i_conf.reset_postures = FALSE /\ i_conf.managed = FALSE
  BY DEF InnerConfs
<1>2. \A op, s : E!Call(op, s) = Call(op, s)
  BY DEF E!Call, Call
<1>3. NoState \notin Inner
  BY NestedAssumption, ControllerAssumption
<1>4. CASE E!RunVacant
  BY <1>2, <1>3, <1>4 DEF E!RunVacant, E!Vacant, E!Interrupting, InnerCalls
<1>5. CASE E!RunLaunch
  <2>1. i_state' = IF i_next_state \in Inner THEN i_next_state ELSE NoState
    BY <1>5 DEF E!RunLaunch, E!Launch
  <2> QED BY <1>2, <1>3, <1>5, <2>1 DEF E!RunLaunch, E!Vacant, E!Interrupting, InnerCalls
<1>6. CASE E!RunContinue
  BY <1>2, <1>3, <1>6 DEF E!RunContinue, E!Vacant, InnerCalls
<1>7. CASE E!RunFinish
  BY <1>1, <1>2, <1>3, <1>7 DEF E!RunFinish, E!Vacant, E!Complete, InnerCalls
<1>8. CASE E!RunTransition
  <2>1. PICK o \in Output, r \in E!Requests :
          LET t == E!Transition(E!map, i_curr_state, E!Over(o))
          IN  /\ E!HasTransition(E!map, i_curr_state, E!Over(o))
              /\ E!Launch(t.state, r # E!Silent, i_complete /\ ~E!IsResume(r), r)
              /\ i_calls' = <<E!Call("run", i_state), E!Call("teardown", i_state),
                              E!Call("start", t.state)>>
    BY <1>1, <1>8 DEF E!RunTransition
  <2> DEFINE t == E!Transition(E!map, i_curr_state, E!Over(o)).state
  <2>2. t \in Inner
    <3>1. E!map = InnerMap
      BY <1>1 DEF E!map
    <3> QED BY <2>1, <3>1, NestedAssumption DEF E!HasTransition, E!Transition
  <2>3. i_state' = t
    BY <2>1, <2>2 DEF E!Launch
  <2>4. i_state \in Inner /\ i_conf' = i_conf
    BY <1>8 DEF E!RunTransition, E!Vacant
  <2>5. i_calls' = <<Call("run", i_state), Call("teardown", i_state), Call("start", i_state')>>
    BY <1>2, <2>1, <2>3
  <2> QED BY <2>2, <2>3, <2>4, <2>5 DEF InnerCalls
<1>9. CASE E!RunWait
  BY <1>1, <1>2, <1>3, <1>9 DEF E!RunWait, E!Vacant, E!Complete, InnerCalls
<1> QED BY <1>4, <1>5, <1>6, <1>7, <1>8, <1>9 DEF E!Run

(* Those calls bring the state the Meta state is in to the next one.       *)
LEMMA InnerCallsMatch ==
  ASSUME i_state \in Inner \cup {NoState}, InnerCalls,
         NEW q, NEW K \in SUBSET DOMAIN OwnTasks,
         i_state # NoState => i_state \in K,
         NEW f \in BOOLEAN, NEW w \in BOOLEAN, Matches(q, K, f, w)
  PROVE  /\ i_calls' \in Seq(FitCall)
         /\ Matches(Effects(q, i_calls'), (K \ {i_state}) \cup ({i_state'} \ {NoState}), f, w)
<1>1. /\ q \in Qp /\ Inner \subseteq DOMAIN OwnTasks
      /\ NoState \notin Inner /\ NoState \notin K
  BY NestedAssumption, ControllerAssumption DEF Matches
<1>7. i_state' = i_state => (K \ {i_state}) \cup ({i_state'} \ {NoState}) = K
  BY <1>1
<1>2. CASE i_state' = i_state /\ i_calls' = <<>>
  <2>1. Effects(q, <<>>) = q /\ <<>> \in Seq(FitCall)
    BY <1>1, EffectsNone
  <2> QED BY <1>2, <1>7, <2>1
<1>3. CASE i_state' = i_state /\ i_state \in Inner /\ i_calls' = <<Call("run", i_state)>>
  <2> DEFINE a == Call("run", i_state)
  <2>1. a \in FitCall /\ LiveAfter(K, a) = K
    BY <1>1, <1>3, CallFacts
  <2>2. i_calls' = <<a>>
    BY <1>3
  <2> HIDE DEF a
  <2>3. Effects(q, <<a>>) = Effect(q, a)
    BY <1>1, <2>1, EffectsOne
  <2>4. Matches(Effect(q, a), K, f, w)
    BY <2>1, EffectMatches
  <2>5. <<a>> \in Seq(FitCall)
    BY <2>1
  <2> QED BY <1>3, <1>7, <2>2, <2>3, <2>4, <2>5
<1>4. CASE /\ i_state' = NoState /\ i_state \in Inner
           /\ i_calls' = <<Call("stop", i_state), Call("teardown", i_state)>>
  <2> DEFINE a == Call("stop", i_state)
             b == Call("teardown", i_state)
  <2>1. /\ a \in FitCall /\ LiveAfter(K, a) = K
        /\ b \in FitCall /\ LiveAfter(K, b) = K \ {i_state}
    BY <1>1, <1>4, CallFacts
  <2>2. i_calls' = <<a, b>>
    BY <1>4
  <2> HIDE DEF a, b
  <2>3. Effects(q, <<a, b>>) = Effect(Effect(q, a), b)
    BY <1>1, <2>1, EffectsTwo
  <2>4. Matches(Effect(q, a), K, f, w)
    BY <2>1, EffectMatches
  <2>5. Matches(Effect(Effect(q, a), b), K \ {i_state}, f, w)
    BY <2>1, <2>4, EffectMatches
  <2>6. <<a, b>> \in Seq(FitCall)
    BY <2>1
  <2>7. (K \ {i_state}) \cup ({i_state'} \ {NoState}) = K \ {i_state}
    BY <1>4
  <2> QED BY <2>2, <2>3, <2>5, <2>6, <2>7
<1>5. CASE i_state' \in Inner /\ i_state = NoState /\ i_calls' = <<Call("start", i_state')>>
  <2> DEFINE a == Call("start", i_state')
  <2>1. a \in FitCall /\ LiveAfter(K, a) = K \cup {i_state'}
    BY <1>1, <1>5, CallFacts
  <2>2. i_calls' = <<a>>
    BY <1>5
  <2> HIDE DEF a
  <2>3. Effects(q, <<a>>) = Effect(q, a)
    BY <1>1, <2>1, EffectsOne
  <2>4. Matches(Effect(q, a), K \cup {i_state'}, f, w)
    BY <2>1, EffectMatches
  <2>5. <<a>> \in Seq(FitCall)
    BY <2>1
  <2>7. (K \ {i_state}) \cup ({i_state'} \ {NoState}) = K \cup {i_state'}
    BY <1>1, <1>5
  <2> QED BY <2>2, <2>3, <2>4, <2>5, <2>7
<1>6. ASSUME i_state' \in Inner, i_state \in Inner, NEW op \in {"run", "stop"},
             i_calls' = <<Call(op, i_state), Call("teardown", i_state), Call("start", i_state')>>
      PROVE  /\ i_calls' \in Seq(FitCall)
             /\ Matches(Effects(q, i_calls'), (K \ {i_state}) \cup ({i_state'} \ {NoState}), f, w)
  <2> DEFINE a == Call(op, i_state)
             b == Call("teardown", i_state)
             c == Call("start", i_state')
             J == K \ {i_state}
  <2>1. /\ a \in FitCall /\ LiveAfter(K, a) = K
        /\ b \in FitCall /\ LiveAfter(K, b) = J
        /\ c \in FitCall /\ LiveAfter(J, c) = J \cup {i_state'}
    BY <1>1, <1>6, CallFacts
  <2>2. i_calls' = <<a, b, c>>
    BY <1>6
  <2>3. J \in SUBSET DOMAIN OwnTasks /\ J \cup ({i_state'} \ {NoState}) = J \cup {i_state'}
    BY <1>1, <1>6
  <2> HIDE DEF a, b, c, J
  <2>4. Effects(q, <<a, b, c>>) = Effect(Effect(Effect(q, a), b), c)
    BY <1>1, <2>1, EffectsThree
  <2>5. Matches(Effect(q, a), K, f, w)
    BY <2>1, EffectMatches
  <2>6. Matches(Effect(Effect(q, a), b), J, f, w)
    BY <2>1, <2>5, EffectMatches
  <2>7. Matches(Effect(Effect(Effect(q, a), b), c), J \cup {i_state'}, f, w)
    BY <2>1, <2>3, <2>6, EffectMatches
  <2>8. <<a, b, c>> \in Seq(FitCall)
    BY <2>1
  <2> QED BY <2>2, <2>3, <2>4, <2>7, <2>8 DEF J
<1> QED BY <1>2, <1>3, <1>4, <1>5, <1>6 DEF InnerCalls

-----------------------------------------------------------------------------
(* Sub-states live in the Parallel state only, and a state of the Meta     *)
(* state's machine only in the Meta state.                                 *)
Inside ==
  /\ i_state \in Inner \cup {NoState} /\ i_conf \in InnerConfs
  /\ par.live \subseteq Subs
  /\ state # Parallel => par.live = {}
  /\ Meta \notin par.live => i_state = NoState

(* The idle behaviour is in force while there is no state, from the first  *)
(* reset on.                                                               *)
Idle == state = NoState /\ ~first_reset
IdleOK ==
  /\ first_reset \in BOOLEAN /\ (running <=> state # NoState) /\ running \in BOOLEAN
  /\ first_reset => state = NoState /\ qp.weight = DefaultWeight
  /\ saved \in Weights \ {IdleWeight}
  /\ Idle => qp.weight = IdleWeight /\ qp.held
SolverOK == Matches(qp, Live, Idle, state # NoState)
NestedInv == TypeOK /\ Inside /\ IdleOK /\ SolverOK

(* The names of the three kinds of states differ.                          *)
LEMMA NameFacts ==
  /\ Loaded \cup Subs \cup Inner \subseteq DOMAIN OwnTasks
  /\ NoState \notin DOMAIN OwnTasks /\ Parallel \in Loaded /\ Meta \in Subs
  /\ Loaded \cap (Subs \cup Inner) = {} /\ Subs \cap Inner = {} /\ InnerInit \in Inner
BY NestedAssumption, ControllerAssumption

(* The live states, seen from one sub-state.                               *)
LEMMA LiveOwned ==
  ASSUME TypeOK, Inside
  PROVE  /\ Live \in SUBSET DOMAIN OwnTasks
         /\ \A s \in Subs \ {Meta} : Live \cap Owned(s) = par.live \cap {s}
         /\ Live \cap Owned(Meta) = (par.live \cap {Meta}) \cup ({i_state} \ {NoState})
         /\ Live \ (Subs \cup Inner) = {state} \ {NoState}
<1>1. state \in Loaded \cup {NoState}
  BY DEF TypeOK
<1> QED BY <1>1, NameFacts DEF Inside, Live, Owned

(* A cycle of the sub-states keeps the solver as the live states left it.  *)
LEMMA RunParallelKeeps == NestedInv /\ RunParallel => NestedInv'
<1> SUFFICES ASSUME NestedInv, RunParallel PROVE NestedInv'
  OBVIOUS
<1>1. /\ state = Parallel /\ UNCHANGED <<mainVars, running, first_reset, saved>>
      /\ calls' = <<>>
      /\ IF Meta \in par.live THEN E!Run
         ELSE IF Due(Meta) THEN MetaStart /\ i_calls' = <<Call("start", InnerInit)>>
         ELSE UNCHANGED innerVars
  BY DEF RunParallel
<1>2. TypeOK'
  <2>1. calls' \in Seq([op : Ops, state : Names])
    BY <1>1
  <2>2. UNCHANGED mainVars /\ TypeOK
    BY <1>1 DEF NestedInv
  <2> QED BY <2>1, <2>2 DEF TypeOK, mainVars, flags, history
<1>3. state' = state /\ first_reset' = first_reset /\ state # NoState
  BY <1>1, NameFacts DEF mainVars
<1>4. par'.live = par.live \cup {s \in Subs : Due(s)}
  BY DEF RunParallel
<1>5. /\ (Meta \in par.live => InnerCalls /\ i_conf' = i_conf)
      /\ (Meta \notin par.live /\ Due(Meta) => i_state' = InnerInit /\ i_conf' = i_conf)
      /\ (Meta \notin par.live /\ ~Due(Meta) => i_state' = i_state /\ i_conf' = i_conf)
  <2>1. CASE Meta \in par.live
    <3>1. E!Run
      BY <1>1, <2>1
    <3> QED BY <2>1, <3>1, InnerRun DEF NestedInv, Inside
  <2>2. CASE Meta \notin par.live
    BY <1>1, <2>2 DEF MetaStart, innerVars
  <2> QED BY <2>1, <2>2
<1>6. Inside'
  <2>1. i_state' \in Inner \cup {NoState} /\ i_conf' \in InnerConfs
    BY <1>5, NameFacts DEF NestedInv, Inside, InnerCalls
  <2>2. par'.live \subseteq Subs
    BY <1>4 DEF NestedInv, Inside
  <2>3. Meta \notin par'.live => i_state' = NoState
    BY <1>4, <1>5, NameFacts DEF NestedInv, Inside
  <2> QED BY <1>1, <1>3, <2>1, <2>2, <2>3 DEF Inside, InnerConfs
<1> DEFINE cs == [s \in Subs |-> IF s = Meta /\ s \in par.live THEN i_calls'
                                 ELSE IF Due(s) THEN StartSub(s) ELSE <<>>]
<1>7. Matches(qp, Live, FALSE, TRUE)
  BY <1>3 DEF NestedInv, SolverOK, Idle
<1>8. qp' = SubEffects(qp, cs)
  BY DEF RunParallel
<1>9. cs \in [Subs -> Seq(FitCall)] /\ Brings(cs, Live, Live', FALSE, TRUE)
  <2> SUFFICES ASSUME NEW s \in Subs
               PROVE  /\ cs[s] \in Seq(FitCall)
                      /\ \A q \in Qp, K \in SUBSET DOMAIN OwnTasks :
                           K \cap Owned(s) = Live \cap Owned(s) /\ Matches(q, K, FALSE, TRUE)
                           => Matches(Effects(q, cs[s]),
                                      (K \ Owned(s)) \cup (Live' \cap Owned(s)), FALSE, TRUE)
    BY DEF Brings
  <2> SUFFICES ASSUME NEW q \in Qp, NEW K \in SUBSET DOMAIN OwnTasks,
                      K \cap Owned(s) = Live \cap Owned(s), Matches(q, K, FALSE, TRUE)
               PROVE  /\ cs[s] \in Seq(FitCall)
                      /\ Matches(Effects(q, cs[s]),
                                 (K \ Owned(s)) \cup (Live' \cap Owned(s)), FALSE, TRUE)
    <3>1. Matches(qp, Live, FALSE, TRUE) /\ qp \in Qp /\ Live \in SUBSET DOMAIN OwnTasks
      BY <1>7, LiveOwned DEF Matches, NestedInv
    <3> QED BY <3>1
  <2>1. /\ Live \cap Owned(s) = IF s = Meta THEN (par.live \cap {Meta}) \cup ({i_state} \ {NoState})
                                ELSE par.live \cap {s}
        /\ Live' \cap Owned(s) = IF s = Meta THEN (par'.live \cap {Meta}) \cup ({i_state'} \ {NoState})
                                 ELSE par'.live \cap {s}
    <3>1. /\ \A t \in Subs \ {Meta} : Live' \cap Owned(t) = par'.live \cap {t}
          /\ Live' \cap Owned(Meta) = (par'.live \cap {Meta}) \cup ({i_state'} \ {NoState})
      <4>1. state' \in Loaded \cup {NoState}
        BY <1>2 DEF TypeOK
      <4> QED BY <1>6, <4>1, NameFacts DEF Inside, Live, Owned
    <3> QED BY <3>1, LiveOwned DEF NestedInv
  <2>2. CASE s = Meta /\ s \in par.live
    <3>1. InnerCalls /\ i_state \in Inner \cup {NoState} /\ Meta \in par'.live
      BY <1>4, <1>5, <2>2 DEF NestedInv, Inside
    <3>2. cs[s] = i_calls'
      BY <2>2
    <3>3. i_state # NoState => i_state \in K
      BY <2>1, <2>2
    <3> HIDE DEF cs
    <3>4. /\ i_calls' \in Seq(FitCall)
          /\ Matches(Effects(q, i_calls'), (K \ {i_state}) \cup ({i_state'} \ {NoState}), FALSE, TRUE)
      BY <3>1, <3>3, InnerCallsMatch
    <3>5. (K \ {i_state}) \cup ({i_state'} \ {NoState}) = (K \ Owned(s)) \cup (Live' \cap Owned(s))
      <4>1. NoState \notin K /\ Meta # i_state
        BY <3>1, NameFacts
      <4>2. K \cap Owned(s) = {Meta} \cup ({i_state} \ {NoState})
        BY <2>1, <2>2
      <4>3. Live' \cap Owned(s) = {Meta} \cup ({i_state'} \ {NoState})
        BY <2>1, <2>2, <3>1
      <4> HIDE DEF Live
      <4> QED BY <4>1, <4>2, <4>3
    <3> QED BY <3>2, <3>4, <3>5
  <2>3. CASE s \notin par.live /\ Due(s)
    <3>1. cs[s] = StartSub(s) /\ s \in par'.live
      BY <1>4, <2>3
    <3> HIDE DEF cs
    <3>2. /\ StartSub(s) \in Seq(FitCall)
          /\ Matches(Effects(q, StartSub(s)),
                     K \cup {s} \cup (IF s = Meta THEN {InnerInit} ELSE {}), FALSE, TRUE)
      BY StartSubMatches
    <3>3. K \cup {s} \cup (IF s = Meta THEN {InnerInit} ELSE {})
            = (K \ Owned(s)) \cup (Live' \cap Owned(s))
      <4>1. K \cap Owned(s) = {}
        BY <2>1, <2>3 DEF NestedInv, Inside
      <4>2. Live' \cap Owned(s) = {s} \cup (IF s = Meta THEN {InnerInit} ELSE {})
        BY <1>5, <2>1, <2>3, <3>1, NameFacts
      <4> QED BY <4>1, <4>2
    <3> QED BY <3>1, <3>2, <3>3
  <2>4. CASE /\ ~(s = Meta /\ s \in par.live)
             /\ ~(s \notin par.live /\ Due(s))
    <3>1. cs[s] = <<>> /\ (s \in par'.live <=> s \in par.live)
      BY <1>4, <2>4 DEF Due
    <3>2. Live' \cap Owned(s) = K \cap Owned(s)
      BY <1>5, <2>1, <2>4, <3>1
    <3> HIDE DEF cs
    <3>3. Effects(q, <<>>) = q /\ <<>> \in Seq(FitCall)
      BY EffectsNone
    <3>4. (K \ Owned(s)) \cup (Live' \cap Owned(s)) = K
      BY <3>2
    <3> QED BY <3>1, <3>3, <3>4
  <2> QED BY <2>2, <2>3, <2>4 DEF Due
<1>10. Matches(qp', Live', FALSE, TRUE)
  <2>1. Live \in SUBSET DOMAIN OwnTasks
    BY LiveOwned DEF NestedInv
  <2>2. Live' \in SUBSET DOMAIN OwnTasks /\ Live' \ (Subs \cup Inner) = Live \ (Subs \cup Inner)
    <3>1. state \in Loaded
      BY <1>3 DEF NestedInv, TypeOK
    <3> QED BY <1>3, <1>6, <3>1, NameFacts DEF NestedInv, Inside, Live
  <2> HIDE DEF cs, Live
  <2> QED BY <1>7, <1>8, <1>9, <2>1, <2>2, SubEffectsMatch
<1>11. SolverOK'
  BY <1>3, <1>10 DEF SolverOK, Idle
<1>12. IdleOK'
  BY <1>1, <1>3 DEF NestedInv, IdleOK, Idle, mainVars
<1> QED BY <1>2, <1>6, <1>11, <1>12 DEF NestedInv

-----------------------------------------------------------------------------
(* The calls of the main executor, which reach the sub-states.             *)
NestedEffects(q, cs) == InTurn(NestedEffect, q, cs)

(* The calls of the sub-states when the Parallel state starts and ends.    *)
Starting == [s \in Subs |-> IF Delay[s] = 0 THEN StartSub(s) ELSE <<>>]
Ending == [s \in Subs |-> IF s \in par.live THEN TeardownSub(s) ELSE <<>>]

(* They are calls on states that have tasks of their own.                  *)
LEMMA SubCallsType ==
  ASSUME Inside
  PROVE  Starting \in [Subs -> Seq(FitCall)] /\ Ending \in [Subs -> Seq(FitCall)]
<1> SUFFICES ASSUME NEW s \in Subs
             PROVE  StartSub(s) \in Seq(FitCall) /\ TeardownSub(s) \in Seq(FitCall)
  BY DEF Starting, Ending
<1>1. s \in DOMAIN OwnTasks /\ InnerInit \in DOMAIN OwnTasks
      /\ (i_state # NoState => i_state \in DOMAIN OwnTasks)
  BY NameFacts DEF Inside
<1>2. /\ Call("start", s) \in FitCall /\ Call("start", InnerInit) \in FitCall
      /\ Call("teardown", s) \in FitCall
      /\ i_state # NoState => Call("teardown", i_state) \in FitCall
  BY <1>1, CallFacts
<1> QED BY <1>2 DEF StartSub, TeardownSub

(* They keep the type of the solver.                                       *)
LEMMA NestedEffectType ==
  ASSUME Inside, NEW q \in Qp, NEW c \in FitCall
  PROVE  NestedEffect(q, c) \in Qp
<1>1. Effect(q, c) \in Qp
  BY EffectType
<1>2. ASSUME NEW cs \in [Subs -> Seq(FitCall)] PROVE SubEffects(Effect(q, c), cs) \in Qp
  <2>1. PICK g : BetweenSubs(g, Effect(q, c), cs)
    BY <1>1, SubEffectsCourse
  <2>2. Len(Sub) \in 0..Len(Sub)
    BY SubFacts
  <2> QED BY <2>1, <2>2 DEF BetweenSubs
<1>3. NestedEffect(q, c) \in {Effect(q, c), SubEffects(Effect(q, c), Starting),
                              SubEffects(Effect(q, c), Ending)}
  BY DEF NestedEffect, Starting, Ending
<1> QED BY <1>1, <1>2, <1>3, SubCallsType

(* The values of the solver between the calls of the executor.             *)
BetweenCalls(f, q, cs) ==
  /\ f \in [0..Len(cs) -> Qp] /\ f[0] = q
  /\ \A n \in 1..Len(cs) : f[n] = NestedEffect(f[n - 1], cs[n])
  /\ NestedEffects(q, cs) = f[Len(cs)]

(* The executor's calls act on the solver in turn.                         *)
LEMMA NestedEffectsCourse ==
  ASSUME Inside, NEW q \in Qp, NEW cs \in Seq(FitCall)
  PROVE  \E f : BetweenCalls(f, q, cs)
<1> DEFINE N == Len(cs)
           Rec(g) == [n \in 0..N |-> IF n = 0 THEN q ELSE NestedEffect(g[n - 1], cs[n])]
           a == CHOOSE g : g = Rec(g)
           step == [n \in 1..N |-> [x \in Qp |-> NestedEffect(x, cs[n])]]
<1>1. N \in Nat /\ \A n \in 1..N : cs[n] \in FitCall
  OBVIOUS
<1>2. NestedEffects(q, cs) = a[N]
  BY DEF NestedEffects, InTurn
<1>3. step \in [1..N -> [Qp -> Qp]]
  BY <1>1, NestedEffectType
<1>4. PICK f : IsCourse(f, Qp, N, q, step)
  <2>1. N \in Nat
    BY <1>1
  <2> HIDE DEF step, N, Rec, a
  <2> QED BY <1>3, <2>1, Course
<1>5. ASSUME NEW n \in 1..N PROVE f[n] = NestedEffect(f[n - 1], cs[n])
  <2>1. f[n - 1] \in Qp
    BY <1>1, <1>4 DEF IsCourse
  <2>2. step[n] = [x \in Qp |-> NestedEffect(x, cs[n])]
    OBVIOUS
  <2>3. f[n] = step[n][f[n - 1]]
    BY <1>4 DEF IsCourse
  <2> HIDE DEF step
  <2> QED BY <2>1, <2>2, <2>3
<1>6. f = Rec(f)
  BY <1>1, <1>4, <1>5 DEF IsCourse
<1>7. a = Rec(a)
  <2> HIDE DEF Rec
  <2> QED BY <1>6, Zenon
<1>8. a[N] = f[N]
  <2> DEFINE S == {k \in 0..N : a[k] = f[k]}
  <2> HIDE DEF a
  <2>1. 0 \in S
    BY <1>1, <1>4, <1>7 DEF IsCourse
  <2>2. ASSUME NEW n \in 1..N, n - 1 \in S PROVE n \in S
    <3>1. a[n] = NestedEffect(a[n - 1], cs[n]) /\ a[n - 1] = f[n - 1] /\ n \in 0..N
      BY <1>1, <1>7, <2>2
    <3> QED BY <1>5, <3>1
  <2>3. N \in 0..N
    BY <1>1
  <2>4. N \in S
    <3> HIDE DEF S, N
    <3> QED BY ONLY <1>1, <2>1, <2>2, <2>3, UpTo, Zenon
  <2> QED BY <2>4
<1>9. BetweenCalls(f, q, cs)
  <2> HIDE DEF a
  <2> QED BY <1>2, <1>4, <1>5, <1>8 DEF IsCourse, BetweenCalls
<1> QED BY <1>9

(* The calls with no effect on the states that live.                       *)
LEMMA NeutralMatches ==
  ASSUME NEW q, NEW K \in SUBSET DOMAIN OwnTasks, NEW f \in BOOLEAN, NEW w \in BOOLEAN,
         Matches(q, K, f, w), NEW c \in FitCall, c.op \notin {"start", "teardown"}
  PROVE  Matches(NestedEffect(q, c), K, f, w)
<1>1. NestedEffect(q, c) = Effect(q, c)
  BY DEF NestedEffect, Call
<1>2. LiveAfter(K, c) = K
  BY DEF LiveAfter
<1> QED BY <1>1, <1>2, EffectMatches

(* A teardown of the state ends every state inside it.                     *)
LEMMA TeardownMatches ==
  ASSUME TypeOK, Inside, state \in Loaded, NEW q, NEW f \in BOOLEAN, NEW w \in BOOLEAN,
         Matches(q, Live, f, w)
  PROVE  Matches(NestedEffect(q, Call("teardown", state)), {}, f, w)
<1> DEFINE c == Call("teardown", state)
           r == Effect(q, c)
           L == Live \ {state}
<1>1. c \in FitCall /\ Live \in SUBSET DOMAIN OwnTasks /\ LiveAfter(Live, c) = L
  BY CallFacts, NameFacts, LiveOwned
<1>2. Matches(r, L, f, w)
  <2> HIDE DEF c, L
  <2> QED BY <1>1, EffectMatches
<1>3. CASE state # Parallel
  <2>1. NestedEffect(q, c) = r
    BY <1>3 DEF NestedEffect, Call
  <2>2. L = {}
    BY <1>3, NameFacts DEF Inside, Live
  <2> HIDE DEF r, L, c
  <2>3. Matches(NestedEffect(q, c), {}, f, w)
    BY <1>2, <2>1, <2>2
  <2> QED BY <2>3 DEF c
<1>4. CASE state = Parallel
  <2>1. NestedEffect(q, c) = SubEffects(r, Ending)
    <3>1. c = Call("teardown", Parallel) /\ c # Call("start", Parallel)
      BY <1>4 DEF Call
    <3> HIDE DEF c
    <3> QED BY <3>1 DEF NestedEffect, Ending, r
  <2>2. L \subseteq Subs \cup Inner
    BY NameFacts DEF Inside, Live
  <2>3. Brings(Ending, L, {}, f, w)
    <3> SUFFICES ASSUME NEW s \in Subs, NEW p \in Qp, NEW K \in SUBSET DOMAIN OwnTasks,
                        K \cap Owned(s) = L \cap Owned(s), Matches(p, K, f, w)
                 PROVE  Matches(Effects(p, Ending[s]), (K \ Owned(s)) \cup ({} \cap Owned(s)), f, w)
      BY DEF Brings
    <3>1. L \cap Owned(s) = Live \cap Owned(s)
      BY NameFacts, OwnedFacts
    <3>2. K \cap Owned(s) = IF s = Meta THEN (par.live \cap {Meta}) \cup ({i_state} \ {NoState})
                                        ELSE par.live \cap {s}
      BY <3>1, LiveOwned
    <3>3. CASE s \in par.live
      <4>1. Ending[s] = TeardownSub(s)
        BY <3>3 DEF Ending
      <4>2. Matches(Effects(p, TeardownSub(s)),
                    (K \ {s}) \ (IF s = Meta /\ i_state # NoState THEN {i_state} ELSE {}), f, w)
        BY TeardownSubMatches DEF Inside
      <4>3. (K \ {s}) \ (IF s = Meta /\ i_state # NoState THEN {i_state} ELSE {})
              = (K \ Owned(s)) \cup ({} \cap Owned(s))
        <5>1. s \in Owned(s) /\ (s = Meta => Inner \subseteq Owned(s))
          BY DEF Owned
        <5> QED BY <3>2, <3>3, <5>1 DEF Inside
      <4> QED BY <4>1, <4>2, <4>3
    <3>4. CASE s \notin par.live
      <4>1. Ending[s] = <<>>
        BY <3>4 DEF Ending
      <4>2. K \cap Owned(s) = {}
        BY <3>2, <3>4 DEF Inside
      <4>3. Effects(p, <<>>) = p
        BY EffectsNone
      <4>4. (K \ Owned(s)) \cup ({} \cap Owned(s)) = K
        BY <4>2
      <4> QED BY <4>1, <4>3, <4>4
    <3> QED BY <3>3, <3>4
  <2>4. L \in SUBSET DOMAIN OwnTasks /\ {} \in SUBSET DOMAIN OwnTasks
        /\ L \ (Subs \cup Inner) = {} \ (Subs \cup Inner)
    BY <1>1, <2>2
  <2>5. Ending \in [Subs -> Seq(FitCall)]
    BY SubCallsType
  <2> HIDE DEF L, r, c
  <2>6. Matches(SubEffects(r, Ending), {}, f, w)
    BY <1>2, <2>3, <2>4, <2>5, SubEffectsMatch
  <2>7. Matches(NestedEffect(q, c), {}, f, w)
    BY <2>1, <2>6
  <2> QED BY <2>7 DEF c
<1> QED BY <1>3, <1>4

(* The states that live once t has been started: the sub-states of the     *)
(* Parallel state that are not delayed start with it.                      *)
Started(t) ==
  ({t} \ {NoState})
    \cup (IF t = Parallel THEN {s \in Subs : Delay[s] = 0} ELSE {})
    \cup (IF t = Parallel /\ Delay[Meta] = 0 THEN {InnerInit} ELSE {})

(* A start brings the state and those that start with it.                  *)
LEMMA StartMatches ==
  ASSUME Inside, NEW t \in Loaded, NEW q, NEW f \in BOOLEAN, NEW w \in BOOLEAN,
         Matches(q, {}, f, w)
  PROVE  Matches(NestedEffect(q, Call("start", t)), Started(t), f, w)
<1> DEFINE c == Call("start", t)
           r == Effect(q, c)
<1>1. c \in FitCall /\ {} \in SUBSET DOMAIN OwnTasks /\ LiveAfter({}, c) = {t}
  BY CallFacts, NameFacts
<1>2. Matches(r, {t}, f, w)
  <2> HIDE DEF c
  <2> QED BY <1>1, EffectMatches
<1>n. t # NoState
  BY NameFacts
<1>3. CASE t # Parallel
  <2>1. NestedEffect(q, c) = r
    BY <1>3 DEF NestedEffect, Call
  <2>2. Started(t) = {t}
    BY <1>3, <1>n DEF Started
  <2> HIDE DEF r, c
  <2>3. Matches(NestedEffect(q, c), Started(t), f, w)
    BY <1>2, <2>1, <2>2
  <2> QED BY <2>3 DEF c
<1>4. CASE t = Parallel
  <2>1. NestedEffect(q, c) = SubEffects(r, Starting)
    <3>1. c = Call("start", Parallel) /\ c # Call("teardown", Parallel)
      BY <1>4 DEF Call
    <3> HIDE DEF c
    <3> QED BY <3>1 DEF NestedEffect, Starting, r
  <2> DEFINE M == Started(t)
  <2>2. M = {t} \cup {s \in Subs : Delay[s] = 0}
              \cup (IF Delay[Meta] = 0 THEN {InnerInit} ELSE {})
    BY <1>4, <1>n DEF Started
  <2> HIDE DEF M
  <2>3. Brings(Starting, {t}, M, f, w)
    <3> SUFFICES ASSUME NEW s \in Subs, NEW p \in Qp, NEW K \in SUBSET DOMAIN OwnTasks,
                        K \cap Owned(s) = {t} \cap Owned(s), Matches(p, K, f, w)
                 PROVE  Matches(Effects(p, Starting[s]), (K \ Owned(s)) \cup (M \cap Owned(s)), f, w)
      BY DEF Brings
    <3>1. K \cap Owned(s) = {}
      BY NameFacts DEF Owned
    <3>2. M \cap Owned(s) = IF Delay[s] # 0 THEN {}
                            ELSE {s} \cup (IF s = Meta THEN {InnerInit} ELSE {})
      BY <2>2, NameFacts DEF Owned
    <3>3. CASE Delay[s] = 0
      <4>1. Starting[s] = StartSub(s)
        BY <3>3 DEF Starting
      <4>2. Matches(Effects(p, StartSub(s)),
                    K \cup {s} \cup (IF s = Meta THEN {InnerInit} ELSE {}), f, w)
        BY StartSubMatches
      <4>3. K \cup {s} \cup (IF s = Meta THEN {InnerInit} ELSE {})
              = (K \ Owned(s)) \cup (M \cap Owned(s))
        BY <3>1, <3>2, <3>3
      <4> QED BY <4>1, <4>2, <4>3
    <3>4. CASE Delay[s] # 0
      <4>1. Starting[s] = <<>>
        BY <3>4 DEF Starting
      <4>2. Effects(p, <<>>) = p
        BY EffectsNone
      <4>3. (K \ Owned(s)) \cup (M \cap Owned(s)) = K
        BY <3>1, <3>2, <3>4
      <4> QED BY <4>1, <4>2, <4>3
    <3> QED BY <3>3, <3>4
  <2>4. {t} \in SUBSET DOMAIN OwnTasks /\ M \in SUBSET DOMAIN OwnTasks
        /\ {t} \ (Subs \cup Inner) = M \ (Subs \cup Inner)
    BY <2>2, NameFacts
  <2>5. Starting \in [Subs -> Seq(FitCall)]
    BY SubCallsType
  <2> HIDE DEF r, c
  <2>6. Matches(SubEffects(r, Starting), M, f, w)
    BY <1>2, <2>3, <2>4, <2>5, SubEffectsMatch
  <2>7. Matches(NestedEffect(q, c), M, f, w)
    BY <2>1, <2>6
  <2> QED BY <2>7 DEF c, M
<1> QED BY <1>3, <1>4

-----------------------------------------------------------------------------
(* What a run of the main executor calls.                                  *)
Keeps == state' = state /\ calls' \in {<<>>, <<Call("run", state)>>}
         /\ (state = NoState => calls' = <<>>)
Ends == /\ state' = NoState /\ state \in Loaded
        /\ \E op \in {"run", "stop"} : calls' = <<Call(op, state), Call("teardown", state)>>
Starts == state = NoState /\ state' \in Loaded /\ calls' = <<Call("start", state')>>
Replaces ==
  /\ state \in Loaded /\ state' \in Loaded
  /\ \E op \in {"run", "stop"} :
       \/ calls' = <<Call(op, state), Call("teardown", state), Call("start", state')>>
       \/ calls' = <<Call(op, state), Call("teardown", state),
                     Call("resetPostures", NoState), Call("start", state')>>

(* Every branch of it makes one of those.                                  *)
LEMMA MainRun ==
  ASSUME TypeOK, Run
  PROVE  Keeps \/ Ends \/ Starts \/ Replaces
<1>1. state \in Loaded \cup {NoState} /\ NoState \notin Loaded
  BY NamesAssumption DEF TypeOK
<1>c. Complete /\ state # NoState => Keeps \/ Ends
  BY <1>1 DEF Complete, Keeps, Ends
<1>4. CASE RunVacant
  BY <1>1, <1>4 DEF RunVacant, Vacant, Interrupting, Keeps, Ends
<1>5. CASE RunLaunch
  <2>1. state' = IF next_state \in Loaded THEN next_state ELSE NoState
    BY <1>5 DEF RunLaunch, Launch
  <2>2. CASE Interrupting
    <3>1. state \in Loaded
      BY <1>1, <2>2 DEF Interrupting
    <3>2. CASE next_state \in Loaded
      BY <1>5, <2>1, <2>2, <3>1, <3>2 DEF RunLaunch, Replaces
    <3>3. CASE next_state \notin Loaded
      BY <1>5, <2>1, <2>2, <3>1, <3>3 DEF RunLaunch, Ends
    <3> QED BY <3>2, <3>3
  <2>3. CASE ~Interrupting
    <3>1. state = NoState
      BY <1>5, <2>3 DEF RunLaunch, Vacant, Interrupting
    <3> QED BY <1>5, <2>1, <2>3, <3>1 DEF RunLaunch, Keeps, Starts
  <2> QED BY <2>2, <2>3
<1>6. CASE RunContinue
  BY <1>1, <1>6 DEF RunContinue, Vacant, Keeps
<1>7. CASE RunFinish
  BY <1>1, <1>7, <1>c DEF RunFinish, Vacant
<1>8. CASE RunTransition
  <2>1. PICK o \in Output, r \in Requests :
          LET t == Transition(map, curr_state, Over(o))
          IN  /\ HasTransition(map, curr_state, Over(o))
              /\ Launch(t.state, r # Silent, complete /\ ~IsResume(r), r)
              /\ calls' \in {<<Call("run", state), Call("teardown", state),
                               Call("resetPostures", NoState), Call("start", t.state)>>,
                             <<Call("run", state), Call("teardown", state),
                               Call("start", t.state)>>}
    BY <1>8 DEF RunTransition
  <2> DEFINE t == Transition(map, curr_state, Over(o)).state
  <2>2. t \in Loaded
    BY <2>1, MapFacts
  <2>3. state' = t
    BY <2>1, <2>2, LaunchLoaded
  <2>4. state \in Loaded
    BY <1>1, <1>8 DEF RunTransition, Vacant
  <2>5. calls' \in {<<Call("run", state), Call("teardown", state),
                      Call("resetPostures", NoState), Call("start", state')>>,
                    <<Call("run", state), Call("teardown", state), Call("start", state')>>}
    BY <2>1, <2>3
  <2> QED BY <2>2, <2>3, <2>4, <2>5 DEF Replaces
<1>9. CASE RunWait
  BY <1>1, <1>9, <1>c DEF RunWait, Vacant
<1> QED BY <1>4, <1>5, <1>6, <1>7, <1>8, <1>9 DEF Run

(* Which of those concern the Parallel state.                              *)
LEMMA ParallelCalls ==
  ASSUME Keeps \/ Ends \/ Starts \/ Replaces
  PROVE  \/ Keeps /\ ~Calls("start") /\ ~Calls("teardown")
         \/ /\ Ends \/ Starts \/ Replaces
            /\ Calls("start") <=> state' = Parallel
            /\ Calls("teardown") <=> state = Parallel
<1>0. NoState # Parallel
  BY NameFacts
<1>n. \A op, s, p, t : Call(op, s) = Call(p, t) <=> op = p /\ s = t
  BY DEF Call
<1>1. CASE Keeps
  <2>1. calls' = <<>> \/ calls' = <<Call("run", state)>>
    BY <1>1 DEF Keeps
  <2> QED BY <1>1, <1>n, <2>1 DEF Calls
<1>2. CASE Ends
  <2>1. PICK op \in {"run", "stop"} : calls' = <<Call(op, state), Call("teardown", state)>>
    BY <1>2 DEF Ends
  <2>2. \A p \in {"start", "teardown"} :
          Calls(p) <=> p = "teardown" /\ state = Parallel
    BY <1>n, <2>1 DEF Calls
  <2> QED BY <1>0, <1>2, <2>2 DEF Ends
<1>3. CASE Starts
  <2>1. \A p \in {"start", "teardown"} : Calls(p) <=> p = "start" /\ state' = Parallel
    BY <1>n, <1>3 DEF Calls, Starts
  <2> QED BY <1>0, <1>3, <2>1 DEF Starts
<1>4. CASE Replaces
  <2>1. PICK op \in {"run", "stop"} :
          \/ calls' = <<Call(op, state), Call("teardown", state), Call("start", state')>>
          \/ calls' = <<Call(op, state), Call("teardown", state),
                        Call("resetPostures", NoState), Call("start", state')>>
    BY <1>4 DEF Replaces
  <2>2. \A p \in {"start", "teardown"} :
          Calls(p) <=> \/ p = "teardown" /\ state = Parallel
                       \/ p = "start" /\ state' = Parallel
    <3>1. CASE calls' = <<Call(op, state), Call("teardown", state), Call("start", state')>>
      BY <1>n, <3>1 DEF Calls
    <3>2. CASE calls' = <<Call(op, state), Call("teardown", state),
                          Call("resetPostures", NoState), Call("start", state')>>
      BY <1>n, <3>2 DEF Calls
    <3> QED BY <2>1, <3>1, <3>2
  <2> QED BY <1>4, <2>2
<1> QED BY <1>1, <1>2, <1>3, <1>4

(* The states that live after the executor's run.                          *)
LEMMA SubsAfter ==
  ASSUME TypeOK, Inside, SubStatesFollow, Keeps \/ Ends \/ Starts \/ Replaces
  PROVE  /\ Inside'
         /\ \/ Keeps /\ Live' = Live
            \/ (Ends \/ Starts \/ Replaces) /\ Live' = Started(state')
<1>1. CASE Keeps /\ ~Calls("start") /\ ~Calls("teardown")
  <2>1. /\ state' = state /\ par' = par /\ i_state' = i_state /\ i_conf' = i_conf
    BY <1>1, NameFacts DEF Keeps, SubStatesFollow, AtOnce
  <2> QED BY <1>1, <2>1 DEF Inside, InnerConfs, Live
<1>2. CASE /\ Ends \/ Starts \/ Replaces
           /\ Calls("start") <=> state' = Parallel
           /\ Calls("teardown") <=> state = Parallel
  <2>1. state' \in Loaded \cup {NoState} /\ state \in Loaded \cup {NoState}
    BY <1>2 DEF Ends, Starts, Replaces
  <2>2. CASE state' = Parallel
    <3>1. /\ AtOnce = {s \in Subs : Delay[s] = 0}
          /\ par' = [NoPar EXCEPT !.live = AtOnce]
      BY <1>2, <2>2 DEF AtOnce, SubStatesFollow
    <3>2. par'.live = {s \in Subs : Delay[s] = 0}
      BY <3>1 DEF NoPar
    <3>3. /\ Meta \in AtOnce <=> Delay[Meta] = 0
          /\ i_state' = IF Delay[Meta] = 0 THEN InnerInit ELSE NoState
          /\ i_conf' = i_conf
      <4>1. Meta \in AtOnce <=> Delay[Meta] = 0
        BY <3>1, NameFacts
      <4>2. CASE Delay[Meta] = 0
        BY <4>1, <4>2 DEF SubStatesFollow, MetaStart
      <4>3. CASE Delay[Meta] # 0
        <5>1. CASE state = Parallel
          BY <1>2, <4>1, <4>3, <5>1 DEF SubStatesFollow, MetaGone
        <5>2. CASE state # Parallel
          <6>1. i_state' = i_state /\ i_conf' = i_conf
            BY <1>2, <4>1, <4>3, <5>2 DEF SubStatesFollow
          <6> QED BY <4>1, <4>3, <5>2, <6>1 DEF Inside
        <5> QED BY <5>1, <5>2
      <4> QED BY <4>1, <4>2, <4>3
    <3>4. Inside'
      BY <2>2, <3>2, <3>3, NameFacts DEF Inside, InnerConfs
    <3>5. Live' = Started(state')
      BY <2>2, <3>2, <3>3, NameFacts DEF Live, Started
    <3> QED BY <1>2, <3>4, <3>5
  <2>3. CASE state' # Parallel
    <3>1. AtOnce = {}
      BY <1>2, <2>3 DEF AtOnce
    <3>2. par'.live = {} /\ i_state' = NoState /\ i_conf' = i_conf
      <4>1. CASE state = Parallel
        BY <1>2, <2>3, <3>1, <4>1 DEF SubStatesFollow, MetaGone, NoPar
      <4>2. CASE state # Parallel
        BY <1>2, <2>3, <3>1, <4>2 DEF SubStatesFollow, Inside
      <4> QED BY <4>1, <4>2
    <3>3. Inside'
      BY <2>3, <3>2, NameFacts DEF Inside, InnerConfs
    <3>4. Live' = Started(state')
      BY <2>3, <3>2 DEF Live, Started
    <3> QED BY <1>2, <3>3, <3>4
  <2> QED BY <2>2, <2>3
<1> QED BY <1>1, <1>2, ParallelCalls

(* What those calls make of the solver when the state stays ...            *)
LEMMA KeepsSolver ==
  ASSUME TypeOK, Inside, Keeps, NEW f \in BOOLEAN, NEW w \in BOOLEAN,
         Matches(qp, Live, f, w)
  PROVE  /\ Matches(NestedEffects(qp, calls'), Live, f, w)
         /\ state = NoState => NestedEffects(qp, calls') = qp
<1>1. qp \in Qp /\ Live \in SUBSET DOMAIN OwnTasks
  BY LiveOwned DEF Matches
<1>2. CASE calls' = <<>>
  <2>1. <<>> \in Seq(FitCall)
    OBVIOUS
  <2>2. PICK g : BetweenCalls(g, qp, <<>>)
    BY <1>1, <2>1, NestedEffectsCourse
  <2>3. NestedEffects(qp, calls') = qp
    BY <1>2, <2>2 DEF BetweenCalls
  <2> QED BY <2>3
<1>3. CASE state # NoState /\ calls' = <<Call("run", state)>>
  <2> DEFINE a == Call("run", state)
  <2>1. a \in FitCall /\ a.op \notin {"start", "teardown"}
    BY <1>3, CallFacts, NameFacts DEF TypeOK, Call
  <2>2. calls' = <<a>>
    BY <1>3
  <2> HIDE DEF a
  <2>3. PICK g : BetweenCalls(g, qp, <<a>>)
    <3>1. <<a>> \in Seq(FitCall)
      BY <2>1
    <3> QED BY <1>1, <3>1, NestedEffectsCourse
  <2>4. NestedEffects(qp, <<a>>) = NestedEffect(qp, a)
    BY <2>3 DEF BetweenCalls
  <2>5. Matches(NestedEffect(qp, a), Live, f, w)
    BY <1>1, <2>1, NeutralMatches
  <2> QED BY <1>3, <2>2, <2>4, <2>5
<1> QED BY <1>2, <1>3 DEF Keeps

(* ... and when it ends, when another starts, or both.                     *)
LEMMA ChangeSolver ==
  ASSUME TypeOK, Inside, Ends \/ Starts \/ Replaces,
         NEW f \in BOOLEAN, NEW w \in BOOLEAN, Matches(qp, Live, f, w)
  PROVE  Matches(NestedEffects(qp, calls'), Started(state'), f, w)
<1>1. qp \in Qp /\ Live \in SUBSET DOMAIN OwnTasks /\ {} \in SUBSET DOMAIN OwnTasks
  BY LiveOwned DEF Matches
<1> DEFINE b == Call("teardown", state)
           c == Call("resetPostures", NoState)
           d == Call("start", state')
<1>b. ASSUME state \in Loaded, NEW q, Matches(q, Live, f, w)
      PROVE  b \in FitCall /\ Matches(NestedEffect(q, b), {}, f, w)
  BY <1>b, CallFacts, NameFacts, TeardownMatches
<1>c. ASSUME NEW q, Matches(q, {}, f, w)
      PROVE  c \in FitCall /\ Matches(NestedEffect(q, c), {}, f, w)
  <2>1. c \in FitCall /\ c.op \notin {"start", "teardown"}
    BY CallFacts DEF Call
  <2> HIDE DEF c
  <2> QED BY <1>1, <1>c, <2>1, NeutralMatches
<1>d. ASSUME state' \in Loaded, NEW q, Matches(q, {}, f, w)
      PROVE  d \in FitCall /\ Matches(NestedEffect(q, d), Started(state'), f, w)
  <2>1. \A t \in Loaded : Matches(NestedEffect(q, Call("start", t)), Started(t), f, w)
    BY <1>d, StartMatches
  <2> QED BY <1>d, <2>1, CallFacts, NameFacts
<1>a. ASSUME state \in Loaded, NEW op \in {"run", "stop"}
      PROVE  /\ Call(op, state) \in FitCall
             /\ Matches(NestedEffect(qp, Call(op, state)), Live, f, w)
  <2> DEFINE a == Call(op, state)
  <2>1. a \in FitCall /\ a.op \notin {"start", "teardown"}
    BY <1>a, CallFacts, NameFacts DEF Call
  <2> HIDE DEF a
  <2>2. Matches(NestedEffect(qp, a), Live, f, w)
    BY <1>1, <2>1, NeutralMatches
  <2> QED BY <2>1, <2>2 DEF a
<1> HIDE DEF b, c, d
<1>2. CASE Ends
  <2>1. PICK op \in {"run", "stop"} : calls' = <<Call(op, state), b>>
    BY <1>2 DEF Ends, b
  <2> DEFINE a == Call(op, state)
  <2>2. a \in FitCall /\ Matches(NestedEffect(qp, a), Live, f, w)
    BY <1>2, <1>a DEF Ends
  <2>3. calls' = <<a, b>>
    BY <2>1
  <2> HIDE DEF a
  <2>4. b \in FitCall /\ Matches(NestedEffect(NestedEffect(qp, a), b), {}, f, w)
    BY <1>2, <1>b, <2>2 DEF Ends
  <2>5. PICK g : BetweenCalls(g, qp, <<a, b>>)
    <3>1. <<a, b>> \in Seq(FitCall)
      BY <2>2, <2>4
    <3> QED BY <1>1, <3>1, NestedEffectsCourse
  <2>6. NestedEffects(qp, <<a, b>>) = NestedEffect(NestedEffect(qp, a), b)
    <3>1. g[0] = qp /\ g[1] = NestedEffect(g[0], a) /\ g[2] = NestedEffect(g[1], b)
          /\ NestedEffects(qp, <<a, b>>) = g[2]
      BY <2>5 DEF BetweenCalls
    <3> QED BY <3>1
  <2>7. Started(state') = {}
    BY <1>2, NameFacts DEF Ends, Started
  <2> QED BY <2>3, <2>4, <2>6, <2>7
<1>3. CASE Starts
  <2>1. Matches(qp, {}, f, w)
    <3>1. Live = {}
      BY <1>3, NameFacts DEF Starts, Inside, Live
    <3> QED BY <3>1
  <2>2. d \in FitCall /\ Matches(NestedEffect(qp, d), Started(state'), f, w)
    BY <1>3, <1>d, <2>1 DEF Starts
  <2>3. PICK g : BetweenCalls(g, qp, <<d>>)
    <3>1. <<d>> \in Seq(FitCall)
      BY <2>2
    <3> QED BY <1>1, <3>1, NestedEffectsCourse
  <2>4. NestedEffects(qp, <<d>>) = NestedEffect(qp, d)
    BY <2>3 DEF BetweenCalls
  <2>5. calls' = <<d>>
    BY <1>3 DEF Starts, d
  <2> QED BY <2>2, <2>4, <2>5
<1>4. CASE Replaces
  <2>1. PICK op \in {"run", "stop"} : \/ calls' = <<Call(op, state), b, d>>
                                      \/ calls' = <<Call(op, state), b, c, d>>
    BY <1>4 DEF Replaces, b, c, d
  <2> DEFINE a == Call(op, state)
             p == NestedEffect(qp, a)
             q == NestedEffect(p, b)
             r == NestedEffect(q, c)
  <2>2. a \in FitCall /\ Matches(p, Live, f, w)
    BY <1>4, <1>a DEF Replaces
  <2>3. calls' = <<a, b, d>> \/ calls' = <<a, b, c, d>>
    BY <2>1
  <2> HIDE DEF a
  <2>4. b \in FitCall /\ Matches(q, {}, f, w)
    BY <1>4, <1>b, <2>2 DEF Replaces
  <2>5. c \in FitCall /\ Matches(r, {}, f, w)
    BY <1>c, <2>4
  <2>6. /\ d \in FitCall /\ Matches(NestedEffect(q, d), Started(state'), f, w)
        /\ Matches(NestedEffect(r, d), Started(state'), f, w)
    BY <1>4, <1>d, <2>4, <2>5 DEF Replaces
  <2>7. NestedEffects(qp, <<a, b, d>>) = NestedEffect(q, d)
    <3>1. <<a, b, d>> \in Seq(FitCall)
      BY <2>2, <2>4, <2>6
    <3>2. PICK g : BetweenCalls(g, qp, <<a, b, d>>)
      BY <1>1, <3>1, NestedEffectsCourse
    <3>3. g[0] = qp /\ g[1] = NestedEffect(g[0], a) /\ g[2] = NestedEffect(g[1], b)
          /\ g[3] = NestedEffect(g[2], d) /\ NestedEffects(qp, <<a, b, d>>) = g[3]
      BY <3>2 DEF BetweenCalls
    <3> QED BY <3>3
  <2>8. NestedEffects(qp, <<a, b, c, d>>) = NestedEffect(r, d)
    <3>1. <<a, b, c, d>> \in Seq(FitCall)
      BY <2>2, <2>4, <2>5, <2>6
    <3>2. PICK g : BetweenCalls(g, qp, <<a, b, c, d>>)
      BY <1>1, <3>1, NestedEffectsCourse
    <3>3. g[0] = qp /\ g[1] = NestedEffect(g[0], a) /\ g[2] = NestedEffect(g[1], b)
          /\ g[3] = NestedEffect(g[2], c) /\ g[4] = NestedEffect(g[3], d)
          /\ NestedEffects(qp, <<a, b, c, d>>) = g[4]
      BY <3>2 DEF BetweenCalls
    <3> QED BY <3>3
  <2> QED BY <2>3, <2>6, <2>7, <2>8
<1> QED BY <1>2, <1>3, <1>4

-----------------------------------------------------------------------------
(* The idle behaviour adds its task and its weight ...                     *)
LEMMA IdleStarts ==
  ASSUME NEW q, NEW L, NEW w \in BOOLEAN, Matches(q, L, FALSE, w),
         q.weight # IdleWeight, StartIdleState(q)
  PROVE  /\ Matches(qp', L, TRUE, FALSE) /\ saved' \in Weights \ {IdleWeight}
         /\ qp'.weight = IdleWeight /\ qp'.held
<1>1. q \in Qp /\ q.weight \in Weights
  BY DEF Matches, Qp
<1>2. /\ qp'.tasks = q.tasks \cup {FreeFlyerTask} /\ qp'.weight = IdleWeight
      /\ qp'.held = TRUE /\ qp'.removers = q.removers /\ qp'.overlap = q.overlap
      /\ saved' = q.weight
  BY <1>1 DEF StartIdleState, ResetPostures, Qp
<1>3. qp' \in Qp
  <2>1. FreeFlyerTask \in Tasks /\ IdleWeight \in Weights
    BY DEF Tasks, Weights
  <2> QED BY <1>1, <2>1 DEF StartIdleState, ResetPostures, Qp
<1>4. PostureTask # FreeFlyerTask
  BY ControllerAssumption
<1>5. /\ qp'.tasks \ {PostureTask, FreeFlyerTask} = q.tasks \ {PostureTask, FreeFlyerTask}
      /\ FreeFlyerTask \in qp'.tasks
      /\ PostureTask \in qp'.tasks <=> PostureTask \in q.tasks
  BY <1>2, <1>4
<1> QED BY <1>1, <1>2, <1>3, <1>5 DEF Matches

(* ... and takes them out again.                                           *)
LEMMA IdleEnds ==
  ASSUME NEW q, NEW L, Matches(q, L, TRUE, FALSE), saved \in Weights \ {IdleWeight},
         TeardownIdleState(q)
  PROVE  Matches(qp', L, FALSE, TRUE) /\ saved' = saved
<1>1. q \in Qp
  BY DEF Matches
<1>2. /\ qp'.tasks = q.tasks \ {FreeFlyerTask} /\ qp'.weight = saved
      /\ qp'.removers = q.removers /\ qp'.overlap = q.overlap /\ saved' = saved
  BY <1>1 DEF TeardownIdleState, Qp
<1>3. qp' \in Qp
  BY <1>1 DEF TeardownIdleState, Qp
<1>4. PostureTask # FreeFlyerTask
  BY ControllerAssumption
<1>5. /\ qp'.tasks \ {PostureTask, FreeFlyerTask} = q.tasks \ {PostureTask, FreeFlyerTask}
      /\ FreeFlyerTask \notin qp'.tasks
      /\ PostureTask \in qp'.tasks <=> PostureTask \in q.tasks
  BY <1>2, <1>4
<1> QED BY <1>1, <1>2, <1>3, <1>5 DEF Matches

(* A cycle of the executor, with the idle switch at its end.               *)
LEMMA CycleKeeps == NestedInv /\ Cycle => NestedInv'
<1> SUFFICES ASSUME NestedInv, Cycle PROVE NestedInv'
  OBVIOUS
<1> DEFINE Q == NestedEffects(qp, calls')
<1>1. /\ ~first_reset /\ first_reset' = first_reset /\ Run /\ SubStatesFollow
      /\ IdleSwitch(state', Q) /\ TypeOK /\ Inside
  BY DEF Cycle, NestedInv, NestedEffects
<1>2. TypeOK'
  BY <1>1, TypeStep DEF Next
<1>3. Keeps \/ Ends \/ Starts \/ Replaces
  BY <1>1, MainRun
<1>4. Idle \in BOOLEAN /\ (state # NoState) \in BOOLEAN
      /\ Matches(qp, Live, Idle, state # NoState)
      /\ (Idle <=> state = NoState) /\ (Idle' <=> state' = NoState)
  BY <1>1 DEF NestedInv, SolverOK, Idle
<1>5. Inside' /\ Matches(Q, Live', Idle, state # NoState)
  <2>1. CASE Keeps /\ Live' = Live
    <3>1. Matches(Q, Live, Idle, state # NoState)
      BY <1>1, <1>4, <2>1, KeepsSolver
    <3> HIDE DEF Q
    <3> QED BY <1>1, <1>3, <2>1, <3>1, SubsAfter
  <2>2. CASE (Ends \/ Starts \/ Replaces) /\ Live' = Started(state')
    <3>1. Matches(Q, Started(state'), Idle, state # NoState)
      BY <1>1, <1>4, <2>2, ChangeSolver
    <3> HIDE DEF Q
    <3> QED BY <1>1, <1>3, <2>2, <3>1, SubsAfter
  <2> QED BY <1>1, <1>3, <2>1, <2>2, SubsAfter
<1>6. state = NoState /\ state' = NoState => Q = qp
  <2>1. state = NoState /\ state' = NoState => Keeps
    BY <1>3, NameFacts DEF Ends, Starts, Replaces
  <2> QED BY <1>1, <1>4, <2>1, KeepsSolver
<1> HIDE DEF Q
<1>7. (running <=> state # NoState) /\ running \in BOOLEAN /\ saved \in Weights \ {IdleWeight}
      /\ (state = NoState => qp.weight = IdleWeight /\ qp.held)
  BY <1>4 DEF NestedInv, IdleOK
<1>8. CASE state # NoState /\ state' = NoState
  <2>1. StartIdleState(Q) /\ running' = FALSE
    BY <1>1, <1>7, <1>8 DEF IdleSwitch
  <2>2. Matches(Q, Live', FALSE, TRUE)
    BY <1>4, <1>5, <1>8
  <2>3. Q.weight # IdleWeight
    BY <2>2 DEF Matches
  <2>4. /\ Matches(qp', Live', TRUE, FALSE) /\ saved' \in Weights \ {IdleWeight}
        /\ qp'.weight = IdleWeight /\ qp'.held
    BY <2>1, <2>2, <2>3, IdleStarts
  <2> QED BY <1>1, <1>2, <1>4, <1>5, <1>8, <2>1, <2>4
          DEF NestedInv, SolverOK, IdleOK, Idle, Weights
<1>9. CASE state = NoState /\ state' # NoState
  <2>1. TeardownIdleState(Q) /\ running' = TRUE
    BY <1>1, <1>7, <1>9 DEF IdleSwitch
  <2>2. Matches(Q, Live', TRUE, FALSE)
    BY <1>4, <1>5, <1>9
  <2>3. Matches(qp', Live', FALSE, TRUE) /\ saved' = saved
    BY <1>7, <2>1, <2>2, IdleEnds
  <2> QED BY <1>1, <1>2, <1>4, <1>5, <1>7, <1>9, <2>1, <2>3
          DEF NestedInv, SolverOK, IdleOK, Idle, Weights
<1>10. CASE state = NoState <=> state' = NoState
  <2>1. qp' = Q /\ running' = running /\ saved' = saved
    BY <1>1, <1>7, <1>10 DEF IdleSwitch
  <2>2. Matches(qp', Live', Idle, state # NoState)
    BY <1>5, <2>1
  <2>3. SolverOK'
    <3>1. Idle' = Idle /\ (state' # NoState) = (state # NoState)
      BY <1>1, <1>4, <1>10 DEF Idle
    <3> QED BY <2>2, <3>1 DEF SolverOK
  <2>4. Idle' => qp'.weight = IdleWeight /\ qp'.held
    BY <1>4, <1>6, <1>7, <1>10, <2>1
  <2>5. IdleOK'
    BY <1>1, <1>7, <1>10, <2>1, <2>4 DEF NestedInv, IdleOK, Weights
  <2> QED BY <1>2, <1>5, <2>3, <2>5 DEF NestedInv
<1> QED BY <1>8, <1>9, <1>10

(* A request between two cycles touches neither the states nor the solver. *)
LEMMA RequestKeeps ==
  ASSUME NestedInv, UNCHANGED <<controllerVars, par>>,
         state' = state, i_state' = i_state, i_conf' = i_conf, TypeOK'
  PROVE  NestedInv'
<1>1. /\ qp' = qp /\ first_reset' = first_reset /\ running' = running /\ saved' = saved
      /\ par' = par
  BY DEF controllerVars
<1>2. Inside'
  BY <1>1 DEF NestedInv, Inside, InnerConfs
<1>3. Live' = Live /\ Idle' = Idle
  BY <1>1 DEF Live, Idle
<1>4. SolverOK'
  BY <1>1, <1>3 DEF NestedInv, SolverOK
<1>5. IdleOK'
  BY <1>1, <1>3 DEF NestedInv, IdleOK, Weights
<1> QED BY <1>2, <1>4, <1>5 DEF NestedInv

(* Every step keeps the invariant.                                         *)
LEMMA NestedStep == NestedInv /\ [NestedNext]_everything => NestedInv'
<1> SUFFICES ASSUME NestedInv, [NestedNext]_everything PROVE NestedInv'
  OBVIOUS
<1>t. TypeOK
  BY DEF NestedInv
<1>1. CASE Reset /\ UNCHANGED nestedVars
  <2>1. /\ first_reset /\ first_reset' = FALSE /\ StartIdleState(qp) /\ UNCHANGED vars
        /\ running' = running /\ state' = state /\ par' = par
        /\ i_state' = i_state /\ i_conf' = i_conf
    BY <1>1 DEF Reset, nestedVars, innerVars, vars
  <2>2. TypeOK'
    BY <1>t, <2>1, TypeStep
  <2>3. Inside' /\ Live' = Live
    BY <2>1 DEF NestedInv, Inside, InnerConfs, Live
  <2>4. /\ state = NoState /\ qp.weight = DefaultWeight /\ DefaultWeight # IdleWeight
        /\ Matches(qp, Live, FALSE, FALSE)
    <3>1. state = NoState /\ qp.weight = DefaultWeight /\ Matches(qp, Live, Idle, state # NoState)
      BY <2>1 DEF NestedInv, IdleOK, SolverOK
    <3>2. Idle = FALSE /\ (state # NoState) = FALSE
      BY <2>1, <3>1 DEF Idle
    <3> QED BY <3>1, <3>2, ControllerAssumption
  <2>5. /\ Matches(qp', Live, TRUE, FALSE) /\ saved' \in Weights \ {IdleWeight}
        /\ qp'.weight = IdleWeight /\ qp'.held
    <3>1. qp.weight # IdleWeight
      BY <2>4
    <3> QED BY <2>1, <2>4, <3>1, IdleStarts
  <2>6. Idle' = TRUE /\ (state' # NoState) = FALSE
    BY <2>1, <2>4 DEF Idle
  <2>7. SolverOK'
    BY <2>3, <2>5, <2>6 DEF SolverOK
  <2>8. IdleOK'
    BY <2>1, <2>4, <2>5 DEF NestedInv, IdleOK, Idle, Weights
  <2> QED BY <2>2, <2>3, <2>7, <2>8 DEF NestedInv
<1>2. CASE RunParallel
  BY <1>2, RunParallelKeeps
<1>3. CASE Cycle
  BY <1>3, CycleKeeps
<1>4. CASE ~ran /\ Request /\ UNCHANGED nestedVars
  <2>1. Interrupt \/ NextRequest \/ \E s \in Requestable : Resume(s)
    BY <1>4 DEF Request
  <2>2. TypeOK'
    BY <1>t, <2>1, TypeStep DEF Next
  <2>3. state' = state
    BY <2>1 DEF Interrupt, NextRequest, Resume
  <2>4. UNCHANGED <<controllerVars, par>> /\ i_state' = i_state /\ i_conf' = i_conf
    BY <1>4 DEF Request, nestedVars, innerVars
  <2> QED BY <2>2, <2>3, <2>4, RequestKeeps
<1>5. CASE InnerRequest
  <2>1. i_state' = i_state /\ i_conf' = i_conf
    BY <1>5 DEF InnerRequest, E!Interrupt, E!NextRequest, E!Resume
  <2>2. UNCHANGED <<controllerVars, par>> /\ UNCHANGED mainVars /\ calls' = <<>>
    BY <1>5 DEF InnerRequest
  <2>3. state' = state
    BY <2>2 DEF mainVars
  <2>4. TypeOK'
    <3>1. calls' \in Seq([op : Ops, state : Names])
      BY <2>2
    <3> QED BY <1>t, <2>2, <3>1 DEF TypeOK, mainVars, flags, history
  <2> QED BY <2>1, <2>2, <2>3, <2>4, RequestKeeps
<1>6. CASE UNCHANGED everything
  <2>1. UNCHANGED vars /\ UNCHANGED <<controllerVars, par>> /\ i_state' = i_state
        /\ i_conf' = i_conf /\ state' = state
    BY <1>6 DEF everything, allVars, nestedVars, innerVars, vars
  <2>2. TypeOK'
    BY <1>t, <2>1, TypeStep
  <2> QED BY <2>1, <2>2, RequestKeeps
<1> QED BY <1>1, <1>2, <1>3, <1>4, <1>5, <1>6 DEF NestedNext

(* It holds at the start.                                                  *)
LEMMA NestedStart == NestedInit => NestedInv
<1> SUFFICES ASSUME NestedInit PROVE NestedInv
  OBVIOUS
<1>1. /\ Init /\ state = NoState /\ par.live = {} /\ i_state = NoState /\ i_conf \in InnerConfs
      /\ running = FALSE /\ first_reset = TRUE /\ saved = DefaultWeight
      /\ qp = [tasks |-> {PostureTask}, weight |-> DefaultWeight,
               held |-> TRUE, removers |-> {}, overlap |-> FALSE]
  BY DEF NestedInit, ControllerInit, Init, NoPar
<1>2. TypeOK
  BY <1>1, InitType
<1>3. Inside
  BY <1>1 DEF Inside
<1>4. Live = {} /\ Idle = FALSE /\ (state # NoState) = FALSE
  BY <1>1 DEF Live, Idle
<1>5. Matches(qp, {}, FALSE, FALSE)
  <2>1. qp \in Qp
    BY <1>1 DEF Qp, Tasks, Weights
  <2>2. TasksOf({}) = {}
    BY TasksOfFacts
  <2> QED BY <1>1, <2>1, <2>2, ControllerAssumption DEF Matches
<1>6. SolverOK
  BY <1>4, <1>5 DEF SolverOK
<1>7. IdleOK
  BY <1>1, <1>4, ControllerAssumption DEF IdleOK, Weights
<1> QED BY <1>2, <1>3, <1>6, <1>7 DEF NestedInv

(* The invariant of the nested states.                                     *)
LEMMA NestedInvariant == NestedSpec => []NestedInv
BY NestedStart, NestedStep, PTL DEF NestedSpec

(* While no state runs the robot is held by the idle behaviour, and no     *)
(* trace of that is left while one runs: Controller::run() switches after  *)
(* the executor and its nested states have changed the solver.             *)
THEOREM IdleCorrect == NestedSpec => []IdleWithoutState
<1>1. NestedInv => IdleWithoutState
  <2> SUFFICES ASSUME NestedInv PROVE IdleWithoutState
    OBVIOUS
  <2>1. ASSUME Idle
        PROVE  {PostureTask, FreeFlyerTask} \subseteq qp.tasks
    <3>1. Live = {}
      BY <2>1, NameFacts DEF Idle, NestedInv, Inside, Live
    <3> QED BY <2>1, <3>1 DEF NestedInv, SolverOK, Matches
  <2>2. state # NoState => FreeFlyerTask \notin qp.tasks /\ qp.weight # IdleWeight
    BY DEF NestedInv, SolverOK, Matches, Idle
  <2> QED BY <2>1, <2>2
          DEF IdleWithoutState, IdleHoldsRobot, IdleLeavesNoTrace, Idle, NestedInv, IdleOK
<1> QED BY <1>1, NestedInvariant, PTL

(* Only the tasks of live states are in the solver, at every depth and     *)
(* whoever ended them, and sub-states live only in the Parallel state.     *)
THEOREM SolverCorrect == NestedSpec => []SolverMatchesStates
<1>1. NestedInv => SolverMatchesStates
  <2> SUFFICES ASSUME NestedInv PROVE SolverMatchesStates
    OBVIOUS
  <2>1. qp.tasks \ {PostureTask, FreeFlyerTask} = UNION {OwnTasks[s] : s \in Live}
    BY DEF NestedInv, SolverOK, Matches, TasksOf
  <2>2. Live \ Loaded # {} => state = Parallel
    <3>1. state \in Loaded \cup {NoState}
      BY DEF NestedInv, TypeOK
    <3> QED BY <3>1, NameFacts DEF NestedInv, Inside, Live
  <2> QED BY <2>1, <2>2 DEF SolverMatchesStates
<1> QED BY <1>1, NestedInvariant, PTL

(* The posture task is out of the solver exactly while a live state wants  *)
(* it out, unless two did at the same time (State::teardown_).             *)
THEOREM PostureCorrect == NestedSpec => []PostureOutAsAsked
<1>1. NestedInv => PostureOutAsAsked
  <2> SUFFICES ASSUME NestedInv PROVE PostureOutAsAsked
    OBVIOUS
  <2>1. /\ qp.removers = Live \cap RemovesPosture
        /\ ~qp.overlap => (PostureTask \notin qp.tasks <=> qp.removers # {})
    BY DEF NestedInv, SolverOK, Matches
  <2> QED BY <2>1 DEF PostureOutAsAsked
<1> QED BY <1>1, NestedInvariant, PTL

-----------------------------------------------------------------------------
(* What a HalfSitting state will restore is the stiffness it found, and it *)
(* waits only while it lives.                                              *)
HalfOK ==
  /\ half \in [stiffness : {DefaultStiffness, HalfSittingStiffness},
               default : {DefaultStiffness, HalfSittingStiffness},
               waits : BOOLEAN, abandoned : BOOLEAN]
  /\ half.waits => HalfSitting \cap par.live # {}
  /\ half.default = DefaultStiffness \/ half.abandoned
  /\ half.stiffness = DefaultStiffness \/ half.waits \/ half.abandoned

(* Every step keeps that: there is one HalfSitting state, so none waits    *)
(* when one starts.                                                        *)
LEMMA HalfStep == NestedInv /\ HalfOK /\ [NestedNext]_everything => HalfOK'
<1> SUFFICES ASSUME NestedInv, HalfOK, [NestedNext]_everything PROVE HalfOK'
  OBVIOUS
<1>k. ASSUME half' = half, par' = par PROVE HalfOK'
  BY <1>k DEF HalfOK
<1>1. CASE RunParallel
  <2>0. par'.live = par.live \cup {s \in Subs : Due(s)}
    BY <1>1 DEF RunParallel
  <2>1. PICK done \in SUBSET (par.live \ {Meta}) :
          half' = IF \E s \in HalfSitting : Due(s) THEN HalfStarts(half)
                  ELSE IF done \cap HalfSitting # {} THEN HalfDone(half)
                  ELSE half
    BY <1>1 DEF RunParallel
  <2>2. CASE \E s \in HalfSitting : Due(s)
    <3>1. PICK s \in HalfSitting : Due(s)
      BY <2>2
    <3>2. HalfSitting = {s} /\ s \in Subs
      BY NestedAssumption
    <3>3. ~half.waits
      BY <3>1, <3>2 DEF HalfOK, Due
    <3>4. half' = HalfStarts(half)
      BY <2>1, <2>2
    <3>5. HalfSitting \cap par'.live # {}
      BY <2>0, <3>1, <3>2
    <3> QED BY <3>3, <3>4, <3>5 DEF HalfOK, HalfStarts
  <2>3. CASE ~(\E s \in HalfSitting : Due(s)) /\ done \cap HalfSitting # {}
    <3>1. half' = HalfDone(half)
      BY <2>1, <2>3
    <3> QED BY <3>1 DEF HalfOK, HalfDone
  <2>4. CASE ~(\E s \in HalfSitting : Due(s)) /\ done \cap HalfSitting = {}
    <3>1. half' = half /\ par.live \subseteq par'.live
      BY <2>0, <2>1, <2>4
    <3> QED BY <3>1 DEF HalfOK
  <2> QED BY <2>2, <2>3, <2>4
<1>2. CASE Cycle
  <2>1. TypeOK /\ Inside /\ Run /\ SubStatesFollow
    BY <1>2 DEF NestedInv, Cycle
  <2>2. Keeps \/ Ends \/ Starts \/ Replaces
    BY <2>1, MainRun
  <2> DEFINE h == IF Calls("teardown") /\ HalfSitting \cap par.live # {}
                  THEN HalfTornDown(half) ELSE half
  <2>3. half' = IF HalfSitting \cap AtOnce # {} THEN HalfStarts(h) ELSE h
    BY <2>1 DEF SubStatesFollow
  <2>4. CASE ~Calls("start") /\ ~Calls("teardown")
    <3>1. half' = half /\ par' = par
      BY <2>1, <2>3, <2>4 DEF SubStatesFollow, AtOnce
    <3> QED BY <1>k, <3>1
  <2>5. CASE /\ Calls("start") <=> state' = Parallel
             /\ Calls("teardown") <=> state = Parallel
             /\ Calls("start") \/ Calls("teardown")
    <3>1. par'.live = AtOnce
      <4>1. par' = IF Calls("start") THEN [NoPar EXCEPT !.live = AtOnce] ELSE NoPar
        BY <2>1, <2>5 DEF SubStatesFollow
      <4>2. ~Calls("start") => AtOnce = {}
        BY DEF AtOnce
      <4> QED BY <4>1, <4>2 DEF NoPar
    <3>2. /\ h \in [stiffness : {DefaultStiffness, HalfSittingStiffness},
                    default : {DefaultStiffness, HalfSittingStiffness},
                    waits : BOOLEAN, abandoned : BOOLEAN]
          /\ ~h.waits
          /\ h.default = DefaultStiffness \/ h.abandoned
          /\ h.stiffness = DefaultStiffness \/ h.abandoned
      <4>1. CASE Calls("teardown") /\ HalfSitting \cap par.live # {}
        BY <4>1 DEF HalfOK, HalfTornDown
      <4>2. CASE ~(Calls("teardown") /\ HalfSitting \cap par.live # {})
        <5>1. HalfSitting \cap par.live = {}
          BY <2>1, <2>5, <4>2 DEF Inside
        <5> QED BY <4>2, <5>1 DEF HalfOK
      <4> QED BY <4>1, <4>2
    <3> HIDE DEF h
    <3>3. CASE HalfSitting \cap AtOnce # {}
      BY <2>3, <3>1, <3>2, <3>3 DEF HalfOK, HalfStarts
    <3>4. CASE HalfSitting \cap AtOnce = {}
      BY <2>3, <3>2, <3>4 DEF HalfOK
    <3> QED BY <3>3, <3>4
  <2> QED BY <2>2, <2>4, <2>5, ParallelCalls
<1>3. CASE (Reset \/ (~ran /\ Request)) /\ UNCHANGED nestedVars
  BY <1>3, <1>k DEF nestedVars
<1>4. CASE InnerRequest
  BY <1>4, <1>k DEF InnerRequest
<1>5. CASE UNCHANGED everything
  BY <1>5, <1>k DEF everything, nestedVars
<1> QED BY <1>1, <1>2, <1>3, <1>4, <1>5 DEF NestedNext

(* A HalfSitting state leaves the stiffness of the posture task as it was, *)
(* unless it is torn down before it is done (HalfSittingState::teardown).  *)
THEOREM StiffnessCorrect == NestedSpec => []StiffnessRestored
<1>1. NestedInit => HalfOK
  BY DEF NestedInit, HalfOK
<1>2. HalfOK => StiffnessRestored
  BY DEF HalfOK, StiffnessRestored
<1> QED BY <1>1, <1>2, HalfStep, NestedInvariant, PTL DEF NestedSpec

-----------------------------------------------------------------------------
(* The main executor keeps its promises inside the controller, whose steps *)
(* are its own, or leave it alone while sub-states run or are asked for.   *)
LEMMA ExecutorStep ==
  [NestedNext]_everything =>
    [Next]_vars \/ (UNCHANGED mainVars /\ calls' = <<>>)
<1> SUFFICES ASSUME [NestedNext]_everything
             PROVE  [Next]_vars \/ (UNCHANGED mainVars /\ calls' = <<>>)
  OBVIOUS
<1>1. CASE Reset /\ UNCHANGED nestedVars
  BY <1>1 DEF Reset
<1>2. CASE RunParallel
  BY <1>2 DEF RunParallel
<1>3. CASE Cycle
  BY <1>3 DEF Cycle, Next
<1>4. CASE ~ran /\ Request /\ UNCHANGED nestedVars
  BY <1>4 DEF Request, Next
<1>5. CASE InnerRequest
  BY <1>5 DEF InnerRequest
<1>6. CASE UNCHANGED everything
  BY <1>6 DEF everything, allVars
<1> QED BY <1>1, <1>2, <1>3, <1>4, <1>5, <1>6 DEF NestedNext

(* What the executor's guarantees rest on, except when a state makes       *)
(* requests from inside run() or start().                                  *)
MainInv ==
  /\ TypeOK /\ StateOrReady /\ NextLoaded /\ ButtonsFollowState
  /\ ~conf.reentrant => PendingReason /\ TriggerReason

(* It holds at the start.                                                  *)
LEMMA MainStart == NestedInit => MainInv
<1> SUFFICES ASSUME NestedInit PROVE MainInv
  OBVIOUS
<1>1. Init
  BY DEF NestedInit, ControllerInit
<1>2. TypeOK
  BY <1>1, InitType
<1>3. StateOrReady /\ NextLoaded
  BY <1>1, MapAssumption DEF Init, StateOrReady, NextLoaded
<1>4. ButtonsFollowState
  BY <1>1, MapFacts DEF Init, ButtonsFollowState
<1>5. PendingReason /\ TriggerReason
  BY <1>1 DEF Init, PendingReason, TriggerReason
<1> QED BY <1>2, <1>3, <1>4, <1>5 DEF MainInv

(* The steps of the executor keep it, and so do those of the sub-states.   *)
LEMMA MainStep == MainInv /\ [NestedNext]_everything => MainInv'
<1> SUFFICES ASSUME MainInv, [NestedNext]_everything PROVE MainInv'
  OBVIOUS
<1>i. /\ TypeOK /\ StateOrReady /\ NextLoaded /\ ButtonsFollowState
      /\ ~conf.reentrant => PendingReason /\ TriggerReason
  BY DEF MainInv
<1>1. CASE [Next]_vars
  <2>1. TypeOK' /\ ButtonsFollowState'
    BY <1>1, <1>i, TypeStep, ButtonsStep
  <2>2. StateOrReady' /\ NextLoaded'
    BY <1>1, <1>i, ReadyStep
  <2>3. ~conf'.reentrant => PendingReason' /\ TriggerReason'
    <3>1. conf' = conf
      BY <1>1, ConfStep
    <3>2. ~conf.reentrant => PendingReason' /\ TriggerReason'
      BY <1>1, <1>i, ReasonStep DEF ReasonInv
    <3> QED BY <3>1, <3>2
  <2> QED BY <2>1, <2>2, <2>3 DEF MainInv
<1>2. CASE UNCHANGED mainVars /\ calls' = <<>>
  <2>1. calls' \in Seq([op : Ops, state : Names])
    BY <1>2
  <2>2. TypeOK'
    BY <1>2, <1>i, <2>1 DEF TypeOK, mainVars, flags, history
  <2>3. StateOrReady' /\ NextLoaded' /\ ButtonsFollowState'
    BY <1>2, <1>i
       DEF StateOrReady, NextLoaded, ButtonsFollowState, map, mainVars, flags
  <2>4. ~conf'.reentrant => PendingReason' /\ TriggerReason'
    BY <1>2, <1>i
       DEF PendingReason, TriggerReason, map, mainVars, flags, history
  <2> QED BY <2>2, <2>3, <2>4 DEF MainInv
<1> QED BY <1>1, <1>2, ExecutorStep

(* Inside the controller too an executor that is only asked for loaded     *)
(* states never gets stuck, whatever its nested states do.                 *)
THEOREM ControllerNeverStuck == NestedSpec => []StateOrReady
<1>1. MainInv => StateOrReady
  BY DEF MainInv
<1> QED BY <1>1, MainStart, MainStep, PTL DEF NestedSpec

(* Its GUI offers the transitions of the current state, while the buttons  *)
(* of the Meta state's executor come and go under it.                      *)
THEOREM ControllerButtonsCorrect == NestedSpec => []ButtonsFollowState
<1>1. MainInv => ButtonsFollowState
  BY DEF MainInv
<1> QED BY <1>1, MainStart, MainStep, PTL DEF NestedSpec

(* No state of the main executor is leaked or torn down twice while others *)
(* run inside it: the Parallel state is ended by its executor only.        *)
THEOREM ControllerLifeCycle == NestedSpec => LifeCycle
<1>1. MainInv /\ [NestedNext]_everything => [CallsFit]_vars
  <2> SUFFICES ASSUME MainInv, [NestedNext]_everything
               PROVE  CallsFit \/ UNCHANGED vars
    OBVIOUS
  <2>1. CASE [Next]_vars
    BY <2>1, FitStep DEF MainInv
  <2>2. CASE UNCHANGED mainVars /\ calls' = <<>>
    <3>1. state' = state /\ DOMAIN calls' = {}
      BY <2>2 DEF mainVars
    <3> QED BY <2>2, <3>1 DEF CallsFit
  <2> QED BY <2>1, <2>2, ExecutorStep
<1> QED BY <1>1, MainStart, MainStep, PTL DEF NestedSpec, LifeCycle

(* Inside the controller too every state is started for a reason: what the *)
(* sub-states or the inner executor are asked for starts nothing outside.  *)
THEOREM ControllerStartsJustified == NestedSpec => StartJustified
<1>1. MainInv /\ [NestedNext]_everything
        => [~conf.reentrant => StartsHaveReason]_vars
  <2> SUFFICES ASSUME MainInv, [NestedNext]_everything, ~conf.reentrant
               PROVE  StartsHaveReason \/ UNCHANGED vars
    OBVIOUS
  <2>1. CASE [Next]_vars
    BY <2>1, ReasonFit DEF MainInv, ReasonInv
  <2>2. CASE UNCHANGED mainVars /\ calls' = <<>>
    <3>1. DOMAIN calls' = {}
      BY <2>2
    <3> QED BY <3>1 DEF StartsHaveReason
  <2> QED BY <2>1, <2>2, ExecutorStep
<1> QED BY <1>1, MainStart, MainStep, PTL DEF NestedSpec, StartJustified

(* ... and when only loaded states are asked for, a completion stays as it *)
(* was latched while the operator or the sub-states go on.                 *)
THEOREM ControllerCompletionsLatched ==
  (Requestable \ {NoState} \subseteq Loaded) => (NestedSpec => CompletionLatched)
<1> SUFFICES ASSUME Requestable \ {NoState} \subseteq Loaded
             PROVE  NestedSpec => CompletionLatched
  OBVIOUS
<1>1. MainInv /\ [NestedNext]_everything
        => [ready /\ ~(\E i \in DOMAIN calls' : calls'[i].op = "start")
              => ready' /\ state_output' = state_output]_vars
  <2> SUFFICES ASSUME MainInv, [NestedNext]_everything, ready,
                      ~(\E i \in DOMAIN calls' : calls'[i].op = "start")
               PROVE  ready' /\ state_output' = state_output
    OBVIOUS
  <2>1. CASE [Next]_vars
    BY <2>1, LatchStep DEF MainInv
  <2>2. CASE UNCHANGED mainVars /\ calls' = <<>>
    BY <2>2 DEF mainVars, flags
  <2> QED BY <2>1, <2>2, ExecutorStep
<1> QED BY <1>1, MainStart, MainStep, PTL DEF NestedSpec, CompletionLatched

-----------------------------------------------------------------------------
(* The executor of the Meta state is made anew whenever the Meta state is  *)
(* started and is gone with it: the guarantees of an executor hold of each *)
(* of them.                                                                *)
InnerLoaded ==
  InnerRequestable \ {NoState} \subseteq Inner => i_next_state \in Inner \cup {NoState}
InnerOK == i_conf \in InnerConfs /\ E!StateOrReady /\ InnerLoaded /\ E!ButtonsFollowState

(* Its map leads from its states to its states.                            *)
LEMMA InnerMapFacts ==
  ASSUME i_conf \in InnerConfs
  PROVE  /\ E!map = InnerMap /\ E!Transitions(InnerMap, NoState) = {}
         /\ E!Requests = {E!Silent} /\ ~E!IsResume(E!Silent) /\ NoState \notin Inner
         /\ i_conf.managed = FALSE /\ i_conf.keep_state = TRUE
         /\ \A s, o : E!HasTransition(InnerMap, s, o) => E!Transition(InnerMap, s, o).state \in Inner
<1>1. i_conf.managed = FALSE /\ i_conf.reentrant = FALSE /\ i_conf.keep_state = TRUE
  BY DEF InnerConfs
<1>2. NoState \notin Inner
  BY NestedAssumption, ControllerAssumption
<1>3. E!map = InnerMap
  BY <1>1 DEF E!map
<1>4. E!Transitions(InnerMap, NoState) = {}
  BY <1>2, NestedAssumption DEF E!Transitions
<1>5. E!Requests = {E!Silent} /\ ~E!IsResume(E!Silent)
  BY <1>1 DEF E!Requests, E!Silent, E!IsResume
<1>6. \A s, o : E!HasTransition(InnerMap, s, o) => E!Transition(InnerMap, s, o).state \in Inner
  BY NestedAssumption DEF E!HasTransition, E!Transition
<1> QED BY <1>1, <1>2, <1>3, <1>4, <1>5, <1>6

(* What next(ctl) leaves, when it is asked for a state of the machine or   *)
(* for one that the factory does not have.                                 *)
LEMMA InnerLaunch ==
  ASSUME InnerOK, i_conf' = i_conf, NEW s, NEW i, NEW c, E!Launch(s, i, c, E!Silent)
  PROVE  /\ s \in Inner => i_state' = s
         /\ i_next_state' = NoState /\ E!ButtonsFollowState'
<1>1. i_conf \in InnerConfs /\ E!ButtonsFollowState
  BY DEF InnerOK
<1>2. /\ E!map = InnerMap /\ E!Requests = {E!Silent} /\ ~E!IsResume(E!Silent)
  BY <1>1, InnerMapFacts
<1>3. /\ i_state' = (IF s \in Inner THEN s ELSE NoState) /\ i_next_state' = NoState
      /\ i_buttons' = E!ButtonsFor(s) /\ i_curr_state' = s
  BY <1>2 DEF E!Launch
<1>4. (E!map)' = InnerMap
  <2>1. i_conf'.managed = FALSE
    BY <1>1 DEF InnerConfs
  <2> QED BY <2>1 DEF E!map
<1>5. i_buttons' = E!Transitions(InnerMap, s)
  BY <1>1, <1>2, <1>3 DEF E!ButtonsFor, E!ButtonsFollowState
<1> QED BY <1>3, <1>4, <1>5 DEF E!ButtonsFollowState

(* A step that leaves state_, curr_state_ and the buttons alone.           *)
LEMMA InnerQuiet ==
  ASSUME InnerOK, i_conf' = i_conf, i_state' = i_state \/ i_ready', i_ready => i_ready',
         InnerRequestable \ {NoState} \subseteq Inner => i_next_state' \in Inner \cup {NoState},
         i_curr_state' = i_curr_state, i_buttons' = i_buttons
  PROVE  InnerOK'
<1>1. i_conf' \in InnerConfs
  BY DEF InnerOK, InnerConfs
<1>2. E!StateOrReady'
  BY DEF InnerOK, E!StateOrReady
<1>3. InnerLoaded'
  BY DEF InnerLoaded
<1>4. E!ButtonsFollowState'
  BY DEF InnerOK, E!ButtonsFollowState, E!map
<1>5. InnerConfs' = InnerConfs
  BY DEF InnerConfs
<1> QED BY <1>1, <1>2, <1>3, <1>4, <1>5 DEF InnerOK

(* One cycle of the inner executor.                                        *)
LEMMA InnerRunKeeps ==
  ASSUME InnerOK, E!Run
  PROVE  InnerOK'
<1>1. /\ i_conf \in InnerConfs /\ InnerLoaded /\ E!StateOrReady
  BY DEF InnerOK
<1>2. /\ E!map = InnerMap /\ E!Requests = {E!Silent} /\ ~E!IsResume(E!Silent)
      /\ NoState \notin Inner /\ i_conf.keep_state = TRUE /\ i_conf.managed = FALSE
      /\ \A s, o : E!HasTransition(InnerMap, s, o) => E!Transition(InnerMap, s, o).state \in Inner
  BY <1>1, InnerMapFacts
<1>3. ASSUME i_conf' = i_conf, NEW s, NEW i, NEW c, E!Launch(s, i, c, E!Silent),
             InnerRequestable \ {NoState} \subseteq Inner => s \in Inner
      PROVE  InnerOK'
  <2>1. (s \in Inner => i_state' = s) /\ i_next_state' = NoState /\ E!ButtonsFollowState'
    BY <1>3, InnerLaunch
  <2>2. E!StateOrReady'
    BY <1>2, <1>3, <2>1 DEF E!StateOrReady
  <2>3. i_conf' \in InnerConfs /\ InnerConfs' = InnerConfs
    BY <1>1, <1>3 DEF InnerConfs
  <2>4. InnerLoaded'
    BY <2>1 DEF InnerLoaded
  <2> QED BY <2>1, <2>2, <2>3, <2>4 DEF InnerOK
<1>4. CASE E!RunVacant
  <2>1. /\ i_conf' = i_conf /\ i_state' = NoState /\ i_next_state' = i_next_state
        /\ i_curr_state' = i_curr_state /\ i_buttons' = i_buttons
        /\ i_ready' = (i_ready \/ E!Interrupting)
    BY <1>4 DEF E!RunVacant
  <2>2. i_state' = i_state \/ i_ready'
    <3>1. CASE i_state = NoState
      BY <2>1, <3>1
    <3>2. CASE i_state # NoState
      <4>1. E!Interrupting
        BY <1>4, <3>2 DEF E!RunVacant, E!Vacant, E!Interrupting
      <4> QED BY ONLY <2>1, <4>1, Zenon
    <3> QED BY <3>1, <3>2
  <2> QED BY <1>1, <2>1, <2>2, InnerQuiet DEF InnerLoaded
<1>5. CASE E!RunLaunch
  <2>1. /\ i_conf' = i_conf /\ E!Launch(i_next_state, FALSE, i_complete, E!Silent)
        /\ i_next_state # NoState
    BY <1>5 DEF E!RunLaunch, E!CanLaunch
  <2> QED BY <1>1, <1>3, <2>1 DEF InnerLoaded
<1>6. CASE E!RunContinue
  <2>1. /\ i_conf' = i_conf /\ i_state' = i_state /\ i_ready' = i_ready
        /\ i_next_state' = i_next_state
        /\ i_curr_state' = i_curr_state /\ i_buttons' = i_buttons
    BY <1>2, <1>6 DEF E!RunContinue
  <2> QED BY <1>1, <2>1, InnerQuiet DEF InnerLoaded
<1>7. CASE E!RunFinish
  <2>1. /\ i_conf' = i_conf /\ i_ready' = TRUE /\ i_next_state' = i_next_state
        /\ i_curr_state' = i_curr_state /\ i_buttons' = i_buttons
    BY <1>2, <1>7 DEF E!RunFinish, E!Complete
  <2> QED BY <1>1, <2>1, InnerQuiet DEF InnerLoaded
<1>8. CASE E!RunTransition
  <2>1. PICK o \in Output :
          /\ i_conf' = i_conf
          /\ E!HasTransition(InnerMap, i_curr_state, E!Over(o))
          /\ E!Launch(E!Transition(InnerMap, i_curr_state, E!Over(o)).state,
                      FALSE, i_complete /\ TRUE, E!Silent)
    BY <1>2, <1>8 DEF E!RunTransition
  <2>2. E!Transition(InnerMap, i_curr_state, E!Over(o)).state \in Inner
    BY <1>2, <2>1
  <2> QED BY <1>3, <2>1, <2>2
<1>9. CASE E!RunWait
  <2>1. PICK o \in Output :
          /\ i_conf' = i_conf /\ i_ready' = TRUE
          /\ E!HasTransition(InnerMap, i_curr_state, E!Over(o))
          /\ i_next_state' = E!Transition(InnerMap, i_curr_state, E!Over(o)).state
          /\ i_curr_state' = i_curr_state /\ i_buttons' = i_buttons
    BY <1>2, <1>9 DEF E!RunWait, E!Complete
  <2>2. i_next_state' \in Inner
    BY <1>2, <2>1
  <2> QED BY <2>1, <2>2, InnerQuiet
<1> QED BY <1>4, <1>5, <1>6, <1>7, <1>8, <1>9 DEF E!Run

(* A new executor, and one that is gone.                                   *)
LEMMA InnerAnew ==
  ASSUME i_conf \in InnerConfs, MetaStart \/ MetaGone
  PROVE  InnerOK'
<1>1. i_conf' = i_conf /\ i_conf' \in InnerConfs /\ InnerConfs' = InnerConfs
  BY DEF MetaStart, MetaGone, InnerConfs
<1>2. (E!map)' = InnerMap
  <2>1. i_conf'.managed = FALSE
    BY <1>1 DEF InnerConfs
  <2> QED BY <2>1 DEF E!map
<1>3. InnerInit \in Inner /\ NoState \notin Inner /\ E!Transitions(InnerMap, NoState) = {}
  BY NestedAssumption, InnerMapFacts
<1>4. CASE MetaStart
  <2>1. i_buttons' = E!Transitions(InnerMap, InnerInit)
    BY <1>4 DEF MetaStart, Transitions, E!Transitions
  <2> QED BY <1>1, <1>2, <1>3, <1>4, <2>1
          DEF MetaStart, InnerOK, E!StateOrReady, InnerLoaded, E!ButtonsFollowState
<1>5. CASE MetaGone
  BY <1>1, <1>2, <1>3, <1>5
     DEF MetaGone, InnerOK, E!StateOrReady, InnerLoaded, E!ButtonsFollowState
<1> QED BY <1>4, <1>5

(* Every step of the controller keeps them.                                *)
LEMMA InnerStep == InnerOK /\ [NestedNext]_everything => InnerOK'
<1> SUFFICES ASSUME InnerOK, [NestedNext]_everything PROVE InnerOK'
  OBVIOUS
<1>1. i_conf \in InnerConfs /\ InnerLoaded
  BY DEF InnerOK
<1>2. ASSUME i_conf' = i_conf, i_state' = i_state, i_ready' = i_ready,
             i_next_state' = i_next_state, i_curr_state' = i_curr_state,
             i_buttons' = i_buttons
      PROVE  InnerOK'
  BY <1>1, <1>2, InnerQuiet DEF InnerLoaded
<1>3. CASE UNCHANGED nestedVars
  BY <1>2, <1>3 DEF nestedVars, innerVars
<1>4. CASE RunParallel
  <2>1. E!Run \/ MetaStart \/ UNCHANGED innerVars
    BY <1>4 DEF RunParallel
  <2> QED BY <1>1, <1>2, <2>1, InnerRunKeeps, InnerAnew DEF innerVars
<1>5. CASE Cycle
  <2>1. \/ MetaStart \/ MetaGone
        \/ UNCHANGED <<i_conf, i_state, i_ready, i_next_state, i_curr_state, i_buttons>>
    BY <1>5 DEF Cycle, SubStatesFollow
  <2> QED BY <1>1, <1>2, <2>1, InnerAnew
<1>6. CASE InnerRequest
  <2>1. /\ i_conf' = i_conf /\ i_state' = i_state /\ i_ready' = i_ready
        /\ i_curr_state' = i_curr_state /\ i_buttons' = i_buttons
        /\ i_next_state' = i_next_state \/ i_next_state' \in InnerRequestable
    BY <1>6 DEF InnerRequest, E!Interrupt, E!NextRequest, E!Resume
  <2> QED BY <1>1, <2>1, InnerQuiet DEF InnerLoaded
<1>7. CASE UNCHANGED everything
  BY <1>3, <1>7 DEF everything
<1> QED BY <1>3, <1>4, <1>5, <1>6, <1>7 DEF NestedNext

(* They hold at the start, when there is no Meta state.                    *)
LEMMA InnerBegins == NestedInit => InnerOK
<1> SUFFICES ASSUME NestedInit PROVE InnerOK
  OBVIOUS
<1>1. /\ i_conf \in InnerConfs /\ i_ready = TRUE /\ i_next_state = InnerInit
      /\ i_buttons = {} /\ i_curr_state = NoState
  BY DEF NestedInit
<1>2. E!map = InnerMap /\ E!Transitions(InnerMap, NoState) = {} /\ InnerInit \in Inner
  BY <1>1, InnerMapFacts, NestedAssumption
<1> QED BY <1>1, <1>2
        DEF InnerOK, E!StateOrReady, InnerLoaded, E!ButtonsFollowState

(* The executor of a Meta state that is only asked for states it knows has *)
(* a state or is ready for one, however often the Meta state is started    *)
(* and torn down by the Parallel state around it, and its buttons are the  *)
(* transitions of its current state.                                       *)
THEOREM MetaExecutorCorrect == NestedSpec => [](E!StateOrReady /\ E!ButtonsFollowState)
<1>1. InnerOK => E!StateOrReady /\ E!ButtonsFollowState
  BY DEF InnerOK
<1> QED BY <1>1, InnerBegins, InnerStep, PTL DEF NestedSpec
=============================================================================
