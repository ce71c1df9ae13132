# TLA+ models of mc_rtc

mc_rtc is a framework for robot controllers: a control loop calls one controller
per period; the controller runs a finite state machine whose states add tasks,
contacts and constraints to a QP solver; a logger records what happened, and a
GUI and global plugins act from outside.  This directory holds TLA+ models of
the parts of that system that carry state across calls, the TLC runs that check
them, and TLAPS proofs of the invariants that matter most.

Contents: [system](#the-system), [modules](#modules-and-the-code-they-model),
[runs](#runs), [bounds](#bounds), [fairness](#fairness), [proofs](#proofs),
[disagreements](#disagreements-between-the-code-and-its-comments),
[not modelled](#what-is-not-modelled), [plan](#plan).

To repeat everything:

    tlc -workers 2 -config Executor.cfg MCExecutor     # one line per run below
    tlapm ExecutorProofs.tla                           # and the other *Proofs

`PROJECT.json` lists the runs, maps every definition to the lines it models,
gives for every property a mutation of the model that violates it, and lists
the hazards of the code.

## The system

| Component | State it keeps | Operations | Talks to |
|---|---|---|---|
| `fsm::Executor` | the live state object, its name and output, four flags (interrupt, ready, trigger, complete), the name to start next, GUI buttons | `init`, `run` every cycle; `interrupt`, `next`, `resume` between cycles or from inside a state; `stop`, `teardown` when nested | transition map, state factory, the states, the controller |
| `fsm::StateFactory` | the loaded states in order, the base of each | reading definitions, resolution passes, `create` | libraries, transition map, executor |
| `fsm::TransitionMap` | (state, output) -> (state, type), the initial state | `init` from a configuration, lookups | factory, executor |
| `fsm::Controller` | running / idle, the posture weights saved when idle began, one posture and one free-flyer task per robot | `run`, `reset`, `interrupt`, `resume` | main executor, solver |
| `fsm::State` and the state library | tasks, constraints, posture tasks put aside; Parallel: its sub-states and their delays; Meta: an executor | `start_`, `run`, `teardown_`, `stop` | solver, controller |
| `MCController` contacts | `contacts_`, the change flag, the GUI buttons | add, remove, clear, `updateContacts` once per cycle | solver, GUI, robots |
| `MCController` collisions | one `CollisionsConstraint` per ordered pair of robots, with ids, monitored collisions, GUI elements and log entries | `addCollisions`, `removeCollisions`, `hasCollision`, `toggleCollisionMonitor`, `reset` | solver, GUI, logger, robots |
| `Robots` | the robots by index | `loadRobot`, `removeRobot` | everything that keeps an index |
| `CircularBuffer` | head, tail, slots | `push` by one thread, `pop` by another | logger, plugins |
| `Logger` | entries, pending key events, the current file, the writer thread and its buffer | `addLogEntry`, `removeLogEntry(ies)`, `clear`, `start`, `open`, `log`, destruction | every component; the log reader afterwards |
| Log reader | the list of typed keys | one step per record | the file |
| `threading::AsyncJob` | future, running flag, input, last result, logger and GUI registration | `startAsync`, `checkResult`, `input`, destruction | a thread per job |
| `MCGlobalController` | the current and the next controller, the plugins, the loggers that are set up | `init`, `run`, `EnableController`, `reset` | everything above |
| `Ticker` | running, step by step, remaining steps, a reset that was asked for | `run`, `step`, `reset`, GUI controls | the global controller |
| `gui::StateBuilder` | the tree of categories and elements | add, remove by name, category or source, `handleRequest`, `update` | everything that shows something |
| `ControllerServer`, `ControllerClient` | pending requests, the publication counter; the receive buffer, the time of the last message | `handle_requests`, `publish`; `run`, `send_request` | state builder, network |
| observers, datastore, grippers, completion criteria | see [not modelled](#what-is-not-modelled) | | |

What is hard here:

* *Requests against cycles.*  The FSM is sequential, but its flags are written by
  `run()`, by requests between cycles, and by states that call back into their own
  executor from `run()` or `start()`; a Meta state has an executor of its own, with its
  own requests.
* *Order within a cycle.*  The controller leaves idle after the executor has started
  a state; `start_`/`teardown_`, sub-states and the idle behaviour share the posture
  task.
* *Two threads.*  The logger's control and writer threads share a ring buffer and,
  without a lock, a stream and two flags; an `AsyncJob` shares its input with its job.
* *Failure half way.*  A state the factory does not have, a definition that repeats a
  name, a file that cannot be opened, a full buffer, a job that throws, a contact whose
  robot is gone, a controller that stops running.
* *Two representations of one thing.*  The columns of a log are told by events and
  rebuilt by the reader; the contacts of the controller are copied to the solver
  when a flag says so; a client shows a tree that has changed since.
* *What callbacks refer to.*  GUI buttons and log entries capture references, ids and
  indices of contacts, collisions, robots, plugins and controllers that come and go.

Correctness of each part, in one line: the executor starts only what it was asked
to or what its map says, never two states at once, and never gets stuck; every state
that can be resolved is loaded, whatever the order; the solver has the tasks of the
live states, at every depth; the idle behaviour holds the robot exactly when no state
runs; the ring buffer is a FIFO; every accepted record is written once, in order, to
its file; a record decodes to what was written; the solver has the contacts and
collisions that were asked for, and the GUI acts on those; a job's result is delivered
once and its input does not change under it; the controller that runs was prepared,
and a switch takes place; a client comes to show what there is.

## Modules and the code they model

How they compose:

    TransitionMap <- Executor <- FsmController <- NestedStates (a second Executor inside)
    TransitionMap, StateFactory <- TransitionMapInit
    Robots <- Contacts,  Robots <- Collisions
    GlobalController <- Ticker        StateBuilder <- GuiServer
    Iteration <- FsmController, LogKeys, StateBuilder
    BoundedFifo <= CircularBuffer (refinement), whose atomicity ThreadedLogger uses
    LogKeys, AsyncJob

**Iteration** - a loop over a sequence, whose elements act on a value one after the other
(`InTurn`): the calls of a step, the events of a record, the names of a row, the requests
of a cycle.

**TransitionMap** - the two lookups of `fsm/TransitionMap.cpp`, as operators.

**StateFactory** - `fsm/StateFactory.cpp`: the definitions of the files and then of the
configuration, read in any order (`ReadDefinition`), and the passes over those whose base
was not there (`ResolveOne`, `EndPass`).  Loading a base `loader#argument` adds that base
itself; a name that is taken throws.  `create()` is the recursion down the bases that
`BasesFirst`, a part of `LoadsResolvable`, shows to be well founded.

**TransitionMapInit** - `TransitionMap::init`, one step per configured entry, over the
states the factory has just loaded: entries of a wrong length throw, entries with a
state that is not loaded are skipped, unknown types become `StepByStep`, a repeated pair
is replaced, an initial state without transition is replaced by the first origin.
`LoadedAsConfigured` implies what `Executor` assumes of its map
(`MapAssumption`), which `LoadingFitsExecutor` proves.

**Executor** - `fsm/Executor.cpp`.  One variable per data member; a whole `run()` is
one step, split into six actions by its early returns (`RunVacant`, `RunLaunch`,
`RunContinue`, `RunFinish`, `RunTransition`, `RunWait`); `Interrupt`, `NextRequest`
and `Resume` are the requests.  `Launch` is `next(ctl)`, with the factory's failure
and with the requests the new state makes inside `start()`.  `conf` holds the four
configuration values and whether the states call back into their executor; `calls` is
the list of calls the step made on state objects; `wanted` and `pressed` are history
variables.  What states compute is abstracted to "not finished" or an output of `Output`.

**FsmController** extends Executor with `fsm/Controller.cpp` and the common part of
`fsm/State.cpp`: what a `start_` or a `teardown_` does to the solver (`Effect`), and
what a sequence of them does (`InTurn`), the idle behaviour, `reset` and the requests.
One posture task and one free-flyer task stand for those of every robot, which the code
treats alike.

**NestedStates** adds the states that run others.  The Parallel state (`Parallel.cpp`)
creates its sub-states at once or after a delay, runs them in order and completes when
all do; one sub-state is a Meta state (`Meta.cpp`), an `INSTANCE` of Executor on the
variables `i_...`, with its own requests; another is a HalfSitting state
(`HalfSitting.cpp`), which changes the stiffness of the posture task.  `Cycle` is
`Controller::run`; when the Parallel state is running, the run of its sub-states is a
step before it (`RunParallel`) whose result the executor's step must agree with, and
nothing comes between the two.

**BoundedFifo** - what a bounded queue promises.  **CircularBuffer** - the class in
`mc_rtc/utils.h`, one step per access to an atomic or to a slot; it refines
BoundedFifo with the item entering the queue when `tail_` is published and leaving it
when `head_` is.

**ThreadedLogger** - the threaded policy in `Logger.cpp`: `Log`, `Start`, `Flushed`,
`OpenFile` (which may fail), `WriteMagic`, `WriteVersion`, `SetValid`, `Destroy`, `Join` for
the control thread, `Check`, `Pop`, `WriteSize`, `WriteData`, `Sleep` for the writer.  Push
and pop are single steps because CircularBuffer shows they behave so.  `log_`, `valid_` and
`log_sync_th_run_` are neither atomic nor locked; the two flags are bytes read in a loop
that makes opaque calls, so every read is taken to return the last value written.  The
stream is shared at the grain of one call: each `write`, `close` and `open` is a step of
its own, so that a switch may come between the size and the bytes of a record, and a record
between the opening of a file and its header.  `writes` is what the stream was given, chunk
by chunk, each with the file it is of and the file it reached; a write to a closed stream
is lost.  What two calls at the very same time might do to the stream object is not
modelled.  Records may be logged before the first `start()`.  The history variable `failed`
tells whether opening a file has failed.

**LogKeys** - the other half of the logger: `addLogEntry`, `removeLogEntry`,
`removeLogEntries`, `clear`, `start`/`open`, which may fail (`RestartFails`), `log`, and the
reader (`internals/LogEntry.h`, used by `iterate_binary_log`), which has nothing but the key
events to tell which value is which.  A value is abstracted to its key and type.  The
history variable `clean` is true as long as nothing happened to the current file that
the events do not tell: an overwrite, `clear(false)`, a record with events that was dropped
or logged while no file is open, a file with keys followed by one that does not repeat them
or does not open.  `start(resume)` makes it true again.

**Robots** - the list of robots with its indices, edited by `loadRobot` and
`removeRobot`; the main robot stays.

**Contacts** - `addContact`, `removeContact`, `clearContacts`, `updateContacts` of
`MCController.cpp`, the buttons it puts under "Remove" and the deprecated
`QPSolver::setContacts`.  A contact is the class of the two orders that
`Contact::operator==` identifies.  What the solver has (`InForce`) are the parameters and
the *indices* of the robots; contacts between two robots without degrees of freedom are
dropped.  `contacts_changed_` has no initializer, so either value is initial.
`updateContacts` throws (`UpdateThrows`) for a contact of a robot that is gone, and also
when an old contact of the solver has an index past the last robot (`OldContactsFound`).
`shifted` tells that a robot left since the last update.  A button refers to an element of
`contacts_`: `dangling` are those whose element was erased, and pressing one of them removes
any contact or none.

**Collisions** - the managers of `MCController` by ordered pair of robots and
`CollisionsConstraint.cpp`: ids, keys, monitors, log entries, and the GUI elements, which
live in a category named after the robots.  A collision is registered under a key, its two
body names put together, which another one may share (`Known`, `Register`, `Unregister`);
it is registered before its bodies are looked up, and the call throws if one is missing, so
`active` holds the ids that did get into the QP.  Constraints keep the indices of their
robots, and calls go on with whatever robots have these indices now; past the last robot
they throw (`InRange`).  `StartOwn` and `TeardownOwn` are a state with a constraint of its
own for the same pair.  GUI elements and log entries are records of the constraint and the
id that their callbacks use.  Four histories state the exceptions: `wanted` and `kept` (asked
for; removed under the other order), `named` (mentioned in a call that reached a manager)
and `exposed` (constraints that were there when a robot left).

**AsyncJob** - `threading/AsyncJob.h`.  A job is the number of the `startAsync()` that
launched it.  `startAsync()` is three steps (launch, assignment to the future, which
waits for the previous job, flags), since the job may run between them.  The library
may defer the job, as `std::async` without a policy allows; a deferred job never runs.
`input()` is the test and a reference (`TakeInput`) that is written through at any later time
(`WriteInput`), also inside a computation.  A job ends with a result, a `std::exception` or
another exception, and the registrations in the logger and the GUI may throw in their turn:
`checkResult()` catches the second only (`escaped`).

**GlobalController** - `mc_global_controller.cpp`: the methods as operators on the record
of its members.  `Switch` has the two branches of `run()`, with and without the hand-over;
`LoadPlugins` may move the vectors that log entries refer to, so it is a set of results.
**Ticker** drives it: `IterateStep` and `IterateIdle` are the two branches of the loop,
the other actions are the requests of its GUI, of a program and of "Change controller".
The controls of the ticker are in the GUI of a controller, which goes with the controller when
a reset makes it anew.

**StateBuilder** - `gui/StateBuilder.cpp` and `.hpp`: the tree of categories and elements
with every edition, as operators on the tree.  **GuiServer** puts a server in front of it
(`handle_requests`, then `publish` once in `rate` cycles), a network that loses
publications, and a client (`ControllerClient::run`) whose buffer may be too small, which
times out if it was given a positive timeout (`SetTimeout`; the default is none), and which
sends requests for what it shows.  A callback may itself add and
remove elements (`Toggles`).

MC modules give TLC the maps, tasks, definitions, entries, robots and the symmetry sets.
`*Proofs` modules hold the theorems: `ExecutorProofs` for the FSM, `FsmLoadingProofs`,
`ThreadingProofs` for the ring buffer and the jobs, `LoggerProofs` for both halves of the
logger, `ConstraintsProofs` for contacts and collisions, `TickerProofs`, `GuiProofs`, and
`IterationProofs`, the induction that they share.  Where two components have their proofs
in one module, the specification of one of them has a name of its own: `ContactsSpec`,
`JobSpec`, `KeysSpec`.

Definitions named `Bug...` stand just before the definition they mutate: each is a
plausible slip in that code, used to see that a property notices it.

## Runs

Passing runs:

| Run | Checks | Shows |
|---|---|---|
| `Executor.cfg` (MCExecutor) | `StateOrReady`, `ButtonsFollowState`, `LifeCycle`, `CompletionLatched` | also when states call back: the executor is never without state and not ready, its buttons are those of its state, states are started once and torn down once, a completed state stays completed |
| | `StartJustified`, `ResumeHonoured` | when they do not: every start is the initial state, the state last resumed to, or the transition of the last output, triggered when its type asks for it; a resume is honoured |
| `NestedStates.cfg` (MCNestedStates) | `IdleWithoutState` | idle tasks, weights and targets are in force exactly while no state runs |
| | `SolverMatchesStates`, `PostureOutAsAsked` | only the tasks of live states are in the solver, at every depth, and the posture task is out exactly while a live state wants it out, unless two did at once |
| | `StiffnessRestored` | HalfSitting restores the stiffness unless it is torn down early |
| `FsmLoading.cfg` (MCFsmLoading) | `LoadsResolvable` | every order of definitions loads the least set closed under them, bases before what is built on them |
| | `LoadedAsConfigured` (`MapIsLatest`, `InitStateLeaves`) | the loaded map is the last valid entry for each pair; the initial state can be left |
| `CircularBuffer.cfg` | `SlotsDisjoint`, `ImplementsFifo` | the ring buffer is a bounded FIFO and its threads are never in the same slot |
| `ThreadedLogger.cfg` | `Accounted`, `OneStrayPerSwitch`, `FilesReadable` | no record is lost, repeated or reordered but those dropped by a full buffer and, as long as every file could be opened, one per file switch; a file that got nothing of another one is a header and whole records |
| | `CallsReturn`, `Consumed` | as long as every file could be opened, `start()` returns and every accepted record is written; the destructor returns |
| `LogKeys.cfg` (MCLogKeys) | `ReaderCatchesUp` (`KeysTold`, `RecordTold`) | the reader's keys plus the pending events are always the writer's columns, unless `clean` says why not, and `start(resume)` repairs that; the last record decodes, with the same exceptions |
| `Contacts.cfg` (MCContacts) | `NoContactMissing`, `StaleOnlyAfterClear`, `ButtonsFollowContacts` | no edition is hidden from the solver by the flag, updates that throw included, and the solver's indices are those of the right robots unless one left since; a removed contact survives only after `clearContacts()` on an empty set; a button dangles only until the next update, or after a clear |
| `Collisions.cfg` (MCCollisions) | `OneManagerPerPair`, `CollisionsAsAsked` | calls never give a pair two managers, which would call each other without end; `hasCollision` tells what was asked, but for removals in the other order and keys that clash |
| | `CollisionsEnforced`, `GuiCallbacksLive`, `LogNamesItsCollision` | what is registered is in the QP, between the right robots, unless a body is missing or a robot left; callbacks find their constraint and their collision |
| `AsyncJob.cfg` | `InputStable`, `ResultIsCurrent`, `JobCompletes` | with overlapping jobs, exceptions and destruction at any moment: what is written to the input between two calls, after `running()` said no, does not change it under a computation, whenever the reference was taken; only the last job's result is delivered; `running()` becomes false again unless an exception escapes `checkResult()` |
| `Ticker.cfg` (MCTicker) | `RunsPrepared`, `LogFollowsController` (`PluginLogLive`, `SetupMatchesLoggers`, `ObserversLogged`), `NextIsAlive` | what runs was reset since it was created or stopped and has its plugins, and its log entries refer to what exists, unless it was installed while nothing ran; `reset()` never leaves a pending switch to a destroyed controller |
| | `SwitchHappens`, `ResetRestoresControls` | a switch takes place, also while paused and after a failure; a reset gives the controls to the controller that is shown, whichever had them |
| `GuiServer.cfg` (MCGuiServer) | `WellFormedTree` (`NoEmptyCategory`, `UniqueNames`), `RowsApart` | no category without content, no name twice, rows on lines of their own unless the end of a row was discarded |
| | `ViewCatchesUp`, `DeadServerShowsNothing` | a client comes to show the tree despite losses, small buffers and timeouts, and, given a timeout, shows nothing once the server is gone |

One run is expected to end with a violation, since it checks a sentence of the
repository that the code does not keep: `LogKeysOverwrite.cfg` (`RecordsDecode`), see
[below](#disagreements-between-the-code-and-its-comments).

Deadlock is checked except in ThreadedLogger and AsyncJob (the object is destroyed in
the end, and the bounded calls run out), FsmLoading (the constructor returns) and Ticker
(the loop is stopped).

## Bounds

* Executor: three loaded states and one that is not, two outputs, a map with every type
  of transition, a loop, a `DEFAULT` entry and outputs without transition; no bound on
  the length of runs, since the state space is finite.
* NestedStates: three states of the main executor and one that is not loaded, two
  sub-states, one of them delayed by a cycle, two states inside the Meta state; three of
  the states remove the posture task, so that they overlap.  Four configurations of the
  main executor cover each option both ways.
* FsmLoading: at most four definitions (`MaxDefs`) out of eight over five names, split in
  every way between files and configuration: chains of three, cycles of two and three,
  and repeated names occur; at most two transition entries (`MaxEntries`) out of eight.
* CircularBuffer: capacity 3 (four slots), three items; the indices wrap.
* ThreadedLogger: capacity 2 with 3 records, so that the buffer overflows and its order
  matters, and 2 files, so that a switch happens, and a first start, with records of before
  in flight; the proofs add any number of switches.
* LogKeys: two keys besides `t`, two types, two sources, at most 3 pending events
  (`MaxEvents`) and 4 keys held by the reader (`MaxKeys`): enough for a key to be
  removed and added again with another type before, between and behind others; restarts
  with and without `resume`, and failing ones.
* Contacts: three pairs, one of them fixed, two values of the parameters, a robot that
  leaves and comes back.
* Collisions: three robots of which two leave and come back, the one between the ends of
  the pair among them, so that indices shift and run past the end; one pair in both orders;
  two collisions and their exchanges, which share a key in one order, and of which one has
  a body that is missing; ids up to 2 (`MaxId`), so that a collision is removed and added
  again; no manager from the configuration, which only the proofs cover.
* AsyncJob: three jobs, so that one is computing, one is waited for and one is new.
* Ticker: three controllers, three plugins (one global, one shared by two controllers, one
  that only the second has), at most two steps asked for (`MaxSteps`).
* GuiServer: two categories, one inside the other, two names, a row of two elements, line
  ids up to 2 (`MaxId`), one publication and one request under way: a publication that
  meets a full queue is one that is lost.  The receive buffer starts at a size that the
  first element exceeds.

What is [proved](#proofs) holds without these bounds.

## Fairness

* Executor: `WF(Run)`; the control loop calls `run()` every period.  No fairness on
  requests.  NestedStates, FsmLoading, LogKeys, Contacts and Collisions check safety only.
* ThreadedLogger: the writer thread is scheduled, and a `start()` or a destructor that
  has begun goes on.  Nobody is obliged to call `log()`, `start()` or the destructor.
* AsyncJob: threads run and computations end; `startAsync()` and the destructor go on;
  `checkResult()` is called again and again, as its documentation demands.
* Ticker: `WF(Iterate)`; the loop goes on.  No fairness on requests.
* GuiServer: `WF(Cycle)`, the control loop; `WF(Timeout)` and `SF(Receive)`, the
  client's thread polls for ever; `Timeout` is possible only while a positive timeout is
  set.  Strong fairness on `Receive` says that the network does not lose every
  publication, without which nothing could be promised.

## Proofs

Checked by TLAPS for every value of the constants that satisfies the named assumptions.

`ExecutorProofs` (assumptions `NamesAssumption`, `MapAssumption`):

* `TypeCorrect`: `TypeOK`, inductive as it stands, one step per action.
* `NeverStuck`: `StateOrReady`.  Not inductive: a launch keeps it only if the name to
  start is loaded, so the invariant is strengthened with `NextLoaded`, which rests on
  the map leading to loaded states only.
* `ButtonsCorrect`: `ButtonsFollowState`, inductive given `TypeOK`.
* `LifeCycleRespected`: the action property `LifeCycle`, by cases on the sequences of
  calls an action can make.
* `StartsAreJustified`: `StartJustified`.  The inductive invariant `ReasonInv` relates the
  pending name and trigger to the two histories.
* `CompletionsStayLatched`: `CompletionLatched` when only loaded states are asked for,
  from `NextLoaded`: only a start clears `ready_`, and a launch is a start.
* These are about the executor alone.  `ControllerNeverStuck`, `ControllerButtonsCorrect`,
  `ControllerLifeCycle`, `ControllerStartsJustified` and `ControllerCompletionsLatched`
  carry them over to NestedStates, where states run others and an inner executor has
  requests of its own: a step of the controller is one of the executor, or leaves it alone
  and makes no call (`ExecutorStep`).
* `MetaExecutorCorrect`: `StateOrReady` and `ButtonsFollowState` of the executor inside a
  Meta state, which is made anew with each start of the Meta state (`InnerOK`).

The second half of `ExecutorProofs` (also `ControllerAssumption`, `NestedAssumption`) is
about NestedStates, for any states, sub-states, delays, inner machine and tasks:
`IdleCorrect`, `SolverCorrect`, `PostureCorrect` and `StiffnessCorrect`.

* The assumptions say that different states have different tasks (a state creates its own
  task objects), that no weight of a configuration is the idle weight, that a Parallel
  state does not list a sub-state twice, that at most one sub-state is a HalfSitting, and
  that the inner map is one between inner states, as loading leaves it.
* `NestedInv` has three parts: sub-states live only inside the Parallel state and inner
  states only inside the Meta state (`Inside`); the idle behaviour and the weight it will
  restore (`IdleOK`); and `Matches`, which relates the solver to the set of live states,
  and also holds between the calls of one step.  The invariants themselves are not
  inductive: bringing the posture task back depends on `postures_` of every live state,
  and leaving idle on the weight saved when it began.
* `EffectMatches` follows one call.  A step makes any number of them, over any number of
  sub-states, so that calls are applied by a recursive function (`InTurn`), and
  `EffectsCourse`, `SubEffectsCourse` and `NestedEffectsCourse` unfold it by induction
  (`IterationProofs`).
  `SubEffectsMatch` then takes the sub-states in turn: each moves only the states it
  answers for (`Owned`), from what lives before the step to what lives after it.
* `InnerRun` and `MainRun` list the sequences of calls that a `run()` of the two executors
  can make, which is all that the rest needs to know of them.
* `HalfOK` is the invariant of the stiffness: what a HalfSitting state will restore is the
  stiffness it found.

`IterationProofs` has no assumptions.  `LeastNumber`: every set of numbers that is not empty
has a least one; `UpTo`: induction up to a number, for the numbers in a set, which the
provers can instantiate where the library's rule for a predicate is out of their reach;
`Course`: the steps of a loop lead through a function of the position, which is what a
recursive function such as `InTurn` chooses.

`ThreadingProofs`, the ring buffer (`SizeAssumption`): `BufferTypes` and
`ThreadsNeverShareSlot`. `SlotsDisjoint` is strengthened with `Granted`, what each thread
knows after its test and the other cannot invalidate; the argument is that `increment` is
injective. `BufferImplementsFifo` is the refinement of BoundedFifo: the queue is read off
the slots from `head_` to `tail_`, and every step is a step of the queue or leaves it
alone.  It adds `InFlight`, that a thread inside a call holds the slot and the item of
that call.

`ConstraintsProofs`, contacts (`PairAssumption`): `ContactsReachSolver`,
`StaleContactsComeFromClear` and `RemoveButtonsFollow`.  `Covered` and `Indexed` are the two
halves of `NoContactMissing`: one is about the flag, the other about the indices, which only a
robot that leaves can spoil, since loading appends.  The invariant of the second says that
with the flag down the solver is up to date or the set was cleared when it was already empty;
`ButtonsFollowContacts` is inductive given the types.

`LoggerProofs`, the threads (`LoggerAssumption`), for any capacity, records and files:

* `AccountedAlways`: `Accounted`.  The invariant says where a record is (`Placed`, `Apart`),
  that a size without its bytes is that of the record the writer holds (`SizeOut`,
  `HoldsOne`), and follows the order of the chunks, of what waits, and of the two (`Ranked`,
  `InLine`, `PopFirst`, `Ahead`).
* `OneStrayPerSwitchAlways`: `OneStrayPerSwitch`.  The bound is not inductive: a switch
  decides the fate of a record that is written later, in two parts.  `StrayBound` counts the
  record that the writer holds (`Pending`) as soon as it has lost its file, and `InStep` says
  that what is in the buffer belongs to the open file.
* `FilesReadableAlways`: `FilesReadable`.  `Growing` says what the last chunk of the open file
  is, from the positions of the two threads, so that the next one continues it or spoils the
  file; `Dated`, that nothing is in a file to come.

`LoggerProofs`, the keys (`LogAssumption`), for any keys, types, owners and bounds:
`ReaderCatchesUpAlways`.

* `KeysInv` adds to the two parts of the property that no two entries have one name (`Distinct`): the
  reader finds a removed key by its name and the writer by its position, and they remove
  the same one only because there is no other.
* `ReadingCourse` follows the reader through the events of a record, `SweepCourse` the loop
  of `removeLogEntries` and `clear` through the entries.  `SweepKeeps` puts the two
  together: after every turn of the loop, the reader who applies the events so far holds
  the entries kept so far and those still to be visited.  `TellAgain` is the same for
  `start(resume)`, which tells every key again to a reader who knows none.

`FsmLoadingProofs` (`FactoryAssumption`, `LoaderAssumption`), for any libraries,
definitions and entries:

* `LoadsResolvableAlways`: `LoadsResolvable`.  The closure of the definitions is the
  intersection of the sets they do not lead out of; `Within` bounds what is loaded from
  both sides, `NoneForgotten` says that every definition read is loaded, undefined or
  without base, and `PassOK` that a pass which removes nothing has found nothing available.
  The passes end when the list stops shrinking, hence with a set the definitions do
  not lead out of.
* `LoadedAsConfiguredAlways`: `LoadedAsConfigured`.  `MapSoFar` is the property for the
  entries before the position of the loop, `StartSoFar` the same for the initial state.
* `LoadingFitsExecutor`: what loading leaves satisfies `MapAssumption` of Executor, so that
  the assumption of `ExecutorProofs` is what the constructor establishes.

`ThreadingProofs`, the jobs (`JobAssumption`): `InputIsStable` and `ResultsAreCurrent`,
two action properties.  `OneComputes` says that only the job of `futureResult_` computes,
but for the one `startAsync()` has launched and not assigned yet; `FutureIsLast` and
`IdleIsEmpty` tie `futureResult_` to the last launch and to `running_`.

`ConstraintsProofs`, collisions (`RobotsAssumption`, `CollisionsAssumption`; the latter
says that configured managers are for robots that are there, that the exchanged order of a
pair and of a collision can be asked for too, and that a state has finitely many collisions
of its own; the configuration may list both orders of a pair, and keys may clash):
`ManagersAreUnique`, `AsAskedAlways`, `CallbacksAreLive`, `LogNamesRight` and
`EnforcedAlways`.  One invariant carries the five:

* `AllIdsOK` (an id is given once, in turn, and the collisions of a constraint have different
  keys) is what keeps an element of the GUI (`GuiOK`) and an entry of the log (`LogOK`) on
  its own collision after a removal.
* `AskedOK` sees what was asked from the managers: each has what was asked of it or lost it to
  a clash (`Tells`), it was asked in both orders (`Mirrored`), of a manager that is there
  (`Homed`), and of no two that hand the calls to each other (`Twins`).
* `AllEnforce`: the indices and the QP of a constraint that has seen no robot leave.

`TickerProofs` (`GlobalAssumption`), for any controllers and plugins:
`RunsPreparedAlways`, `LogFollowsControllerAlways` and `NextIsAliveAlways`.  A step of
the ticker may reset and then switch; `Orderly` holds of every value in between, with
one lemma per operation, `Ready` only of those a step ends with.

`GuiProofs` (`BuilderAssumption`, `ServerAssumption`; they say that a category is a
sequence of names whose beginnings are categories too, that a call adds at least one
element and that an element's callback shows or hides finitely many others), for any
categories, names, rows and editions: `GuiInvariance`, `WellFormedTreeAlways` and
`RowsApartAlways`.

* `NoEmptyCategory` is not inductive: a category may hold nothing but another one, so that
  removing the latter must take the former along.  `AllUsed` says instead that every
  category has an element at or below it, and `Rooted` that the way to it exists.
* A removal takes elements away first and prunes after that.  In between `AllUsedBut`
  holds: the categories on the way to the one touched may be unused.  `PruneFacts` and
  `RemoveCategoryFacts` show that climbing as long as a category leads nowhere else
  (`ClimbEnds`) repairs exactly those.
* `RowsEnded` says that the rows there are have had their line.  While a row is being added
  its own elements are on the current line (`Adding`), until the last one moves it on, or
  is discarded, which `lost` records.
* Callbacks edit the tree in the middle of `handle_requests`: `CallbackSound` and
  `HandleRequestsSound` go through them in turn.

Every invariant and every action property that a passing run checks is proved.  Only
model-checked are the liveness properties (`ResumeHonoured`, `SwitchHappens`,
`ResetRestoresControls`, `CallsReturn`, `Consumed`, `JobCompletes`, `ViewCatchesUp`,
`DeadServerShowsNothing`): they need fairness,
which is out of the prover's reach.

## Disagreements between the code and its comments

This one has a run that ends with a counterexample:

1. *Overwriting a log entry* (`Logger.h:222`) sends no removal: the columns behind it are
   read under the wrong names (`LogKeysOverwrite.cfg`).  In the repository the global
   controller calls `start(resume)` at each switch of controller, which repairs the file
   that follows.

These are visible as the exception that a passing property makes, or as a consequence
of a passing model:

2. *The previous log is closed before it is flushed* (`Logger.cpp:129`, against 128, "Wait
   until the previous log is flushed"): the wait is for an empty buffer, which the writer
   reaches before it writes.  `OneStrayPerSwitch` bounds what goes astray; `FilesReadable`
   says that only the file it goes to is spoilt, but that is the whole next file when a size
   or its bytes come ahead of the header, or alone.
3. *Adding a contact that is present changes it* (`MCController.cpp:1082`), where
   `MCController.h:267` says "No effect if the contact is already present.":
   `NoContactMissing` shows that the change reaches the solver.
4. *A collision that could not be added is there* (`CollisionsConstraint.cpp:308`): it is
   registered before a missing joint or body makes the call throw, so `hasCollision` is true of
   it, where `MCController.h:240` says "Returns true if the given collision is active", and
   adding it again does nothing; `CollisionsEnforced` excludes missing bodies.
5. *A reset asked for after a failure never happens* (`Ticker.cpp:265`): steps need
   `gc_.running`, which only the reset would raise, although `Ticker.h:105` says "Do a reset
   on the next iteration"; `ResetRestoresControls` excludes failures.
6. *A state that cannot be created blocks the executor* (`Executor.cpp:176`).  `ready_`
   is cleared before the factory answers; afterwards no request has an effect, although
   `Executor.h:101` says "Resume execution to a given state".  `StateOrReady` and
   `ResumeHonoured` are stated for requests of loaded states.
7. *A resume made in the `run()` that completes the state is overwritten* by the
   destination of the transition (`Executor.cpp:120`): `ResumeHonoured` excludes
   states that call back.
8. *The weight of a Posture state that ends idle is overwritten* in the cycle that
   starts it (`Controller.cpp:169`): `TeardownIdleState` follows the start in `Cycle`.
9. *Two live states that remove the posture task* (sub-states of a Parallel state): the
   first one to end adds it back under the other (`State.cpp:147`); `PostureOutAsAsked`
   excludes the overlap.
10. *HalfSitting that is torn down before it is reached keeps its stiffness*
    (`HalfSitting.cpp:44`), which the next one takes for the default.
11. *After a failed `start()` the writer is gone* (`Logger.cpp:95`): a later `start()` over
    an open file waits for ever for a buffer that nobody empties; `CallsReturn` and `Consumed`
    exclude failures.
12. *A dropped record loses its key events* (`Logger.cpp:326`), and so does one logged while no
    file is open: `clean` excludes them.
13. *`clearContacts()` forgets a pending removal* (`MCController.cpp:1123`):
    `StaleOnlyAfterClear` says exactly when the solver keeps a contact that is gone.
14. *A "Remove" button refers to a contact that was erased* (`MCController.cpp:987`) until
    the next update: pressing it in between reads the erased element.
15. *The solver's contacts are about other robots* after `removeRobot` (`Robots.cpp:174`) until
    they are updated, and an index past the last robot makes every update throw
    (`TasksQPSolver.cpp:52`) until enough robots are loaded again.
16. *`removeCollisions` knows one order of the robots* (`MCController.cpp:1052`), where
    `addCollisions` and `hasCollision` know both: `CollisionsAsAsked` keeps `kept` for it.
    A configuration that lists both orders of a pair (`MCController.cpp:335`) makes
    `addCollisions` recurse without end (`Endless`); `OneManagerPerPair` says that nothing else
    does.
17. *Two pairs of bodies may share a key* (`CollisionsConstraint.cpp:724`): the second is
    ignored, and removing it removes the first; `CollisionsAsAsked` excludes clashes.
18. *The log entries of a collision are never removed* (`CollisionsConstraint.cpp:466`),
    against `logging.md:34`; those of a state's own constraint refer to a destroyed object.
19. *Constraints keep the index of a robot* that `removeRobot` shifts (`Robots.cpp:174`):
    `CollisionsEnforced` excludes the constraints that were there (`exposed`).
20. *`input()` protects only the moment of the call* (`AsyncJob.h:123`): the reference can be
    kept and written while a job computes.  `AsyncJob.h:26` says that the safeguard "does not
    inherently make modifying the input in-place safe"; `InputStable` says what does.
21. *A job outlives its input* (`AsyncJob.h:108`): the wait happens in the destructor of
    a member that is destroyed after the derived class and after `input_`, while
    `threading.md:390` says "Cleanup handled by AsyncJob destructor".
22. *`running()` may stay true for ever*: after a deferred job (`AsyncJob.h:136`), an exception
    that is no `std::exception` (182), or one in a registration, which comes before the flag is
    lowered (193, 203); `JobCompletes` excludes them.
23. *A switch while nothing runs skips the reset* of the next controller and its plugins
    (`mc_global_controller.cpp:770`), where `MCController.h:214` says that reset is called
    when the controller is switched to; `bypass` marks it.
24. *Plugins of a controller are never removed* (`mc_global_controller.cpp:1127`):
    `controller_plugins_`, whose unneeded members the code removes, is never filled.
25. *Observers are not logged when a controller comes back* (`mc_global_controller.cpp:774`):
    its pipelines are taken out of its log when it is left and never added again.
26. *A reset during a pending switch* (`mc_global_controller.cpp:1117`) loads the plugins
    of the controller that is about to come, not of the one made anew; the hand-over
    that follows loads its own.
27. *The controls of the ticker live in one controller's GUI* (`Ticker.cpp:312`): after a
    switch the loop has none until a reset, which `ResetRestoresControls` shows to bring them.
28. *By default a client shows a dead server for ever* (`ControllerClient.cpp:145`, and
    `ControllerClient.h:72`, where the timeout is 0): `DeadServerShowsNothing` is about clients
    that have one.

## What is not modelled

* The numerics: QP solver, tasks, constraints, rigid-body algorithms, trajectories,
  stabilizer, completion criteria (tests on errors and times), grippers (limits on
  joint positions and commands).  Their sets of tasks, contacts and collisions appear
  as state of other modules.
* Parsing and formatting: `Configuration`, MessagePack, robot modules, loaders of
  shared libraries; the old version-0 log format; the datastore, a map with run-time
  type checks.
* I/O around the system: ROS and Replay plugins and the replay of a log by the ticker,
  Python bindings, command line tools, the log viewer, vendored code (most of the lines
  of the repository).
* Inside modelled components: the options a state inherits from its base, the `outputs`
  option of Parallel, deeper nesting of Meta and Parallel states, the degrees of freedom
  in the contact constraint, wildcards and distances of collisions, what the QP does
  with a collision that was registered and not added (it depends on the Tasks library),
  names of collisions in GUI and log that clash, sensors, grippers, converters and
  plugins that fail to load in the global controller, plots and the contents of GUI
  elements, the server inside the process of its client.

## Plan

Done, in the order of importance: executor, transition map, FSM controller, ring
buffer, logger threads, log format, contacts, asynchronous jobs; then nested states, the
state factory, collisions and robots, the global controller with the ticker, the GUI; the
proofs above, of every safety property.

Smaller models that remain possible: observer pipelines that fail half way, gripper
safety, completion criteria.
