------------------------------ MODULE AsyncJob ------------------------------
(***************************************************************************)
(* mc_rtc::threading::AsyncJob: a computation in another thread, started   *)
(* and polled by the control thread.  A job is the number of the call of   *)
(* startAsync() that launched it.  Nothing stops startAsync() from being   *)
(* called while a job is running: the new one is launched before the       *)
(* assignment to futureResult_ waits for the old one.                      *)
(***************************************************************************)
EXTENDS Naturals

CONSTANTS
  Input,     \* the values of the input
  MaxJobs    \* bound on the calls of startAsync()

ASSUME JobAssumption == MaxJobs \in Nat

VARIABLES
  ctl,         \* the control thread: "idle", inside startAsync() "launched"
               \* or "assigned", in the destructor "destroying", "gone"
  job,         \* job -> "none", "deferred", "computing", "done", "failed"
               \* (std::exception) or "thrown" (anything else)
  started,     \* the number of jobs launched
  future,      \* the job futureResult_ refers to, 0 when it is not valid
  running,     \* running_
  canGet,      \* canGetSharedState_
  input,       \* input_
  held,        \* somebody holds a reference that input() returned
  lastResult,  \* the job whose result lastResult_ holds, or 0
  entries,     \* "logger" and "gui" -> "none", "asked" (addToLogger or
               \* addToGUI was called), "added"
  escaped      \* history: an exception left checkResult() since the last
               \* startAsync()

futureVars == <<future, running, canGet>>
jobVars == <<ctl, job, started, futureVars, input, held, lastResult, entries,
             escaped>>
Hook == {"logger", "gui"}

JobInit ==
  /\ ctl = "idle" /\ job = [j \in 1..MaxJobs |-> "none"] /\ started = 0
  /\ future = 0 /\ running = FALSE /\ canGet = FALSE
  /\ input \in Input /\ held = FALSE /\ lastResult = 0
  /\ entries = [h \in Hook |-> "none"] /\ escaped = FALSE

-----------------------------------------------------------------------------
(* input() is refused while running_, but the reference it returns can be  *)
(* kept, and written through at any time.                                  *)
TakeInput ==
  /\ ctl = "idle" /\ ~running
  /\ held' = TRUE
  /\ UNCHANGED <<ctl, job, started, futureVars, input, lastResult, entries, escaped>>
WriteInput(v) ==
  /\ held /\ ctl \in {"idle", "launched", "assigned"}
  /\ input' = v
  /\ UNCHANGED <<ctl, job, started, futureVars, held, lastResult, entries, escaped>>

(* startAsync(): std::async(...), which has no policy and may defer the    *)
(* job, as the library does when it cannot create a thread.                *)
Launch ==
  /\ ctl = "idle" /\ started < MaxJobs
  /\ started' = started + 1
  /\ \E how \in {"computing", "deferred"} :
       job' = [job EXCEPT ![started'] = how]
  /\ ctl' = "launched"
  /\ UNCHANGED <<futureVars, input, held, lastResult, entries, escaped>>

(* ... assigned to futureResult_: releasing the previous job waits for it, *)
(* unless it was deferred and never ran.                                   *)
BugAssign ==
  /\ ctl = "launched"
  /\ future' = IF future # 0 /\ job[future] = "computing" THEN future ELSE started
  /\ ctl' = "assigned"
  /\ UNCHANGED <<job, started, running, canGet, input, held, lastResult,
                 entries, escaped>>
Assign ==
  /\ ctl = "launched"
  /\ future # 0 => job[future] # "computing"
  /\ future' = started
  /\ ctl' = "assigned"
  /\ UNCHANGED <<job, started, running, canGet, input, held, lastResult,
                 entries, escaped>>

(* ... and running_ is set last.                                           *)
BugStarted ==
  /\ ctl = "assigned"
  /\ canGet' = TRUE /\ escaped' = FALSE
  /\ ctl' = "idle"
  /\ UNCHANGED <<job, started, future, running, input, held, lastResult, entries>>
Started ==
  /\ ctl = "assigned"
  /\ running' = TRUE /\ canGet' = TRUE /\ escaped' = FALSE
  /\ ctl' = "idle"
  /\ UNCHANGED <<job, started, future, input, held, lastResult, entries>>

(* computeJob() ends, with a result or with an exception.                  *)
Ended == {"done", "failed", "thrown"}
Compute(j) ==
  /\ job[j] = "computing"
  /\ \E end \in Ended : job' = [job EXCEPT ![j] = end]
  /\ UNCHANGED <<ctl, started, futureVars, input, held, lastResult, entries, escaped>>

Ready == running /\ future # 0 /\ job[future] \in Ended /\ canGet

(* addToLogger_() and addToGUI_(), in this order, for what was asked: an   *)
(* exception in one of them ends checkResult().                            *)
AddHooks(threw) ==
  [h \in Hook |-> IF entries[h] = "asked" /\ (threw = "none" \/ (h = "logger" /\ threw = "gui"))
                  THEN "added" ELSE entries[h]]

(* checkResult(): get() leaves futureResult_ without a job in all cases.   *)
(* Only a std::exception is caught, and running_ is lowered last.          *)
BugCheckResultKeepsRunning ==
  /\ ctl = "idle" /\ Ready
  /\ future' = 0
  /\ \/ /\ job[future] = "done"
        /\ lastResult' = future /\ canGet' = FALSE
        /\ \E threw \in {"none"} \cup {h \in Hook : entries[h] = "asked"} :
             /\ entries' = AddHooks(threw)
             /\ running' = (threw # "none") /\ escaped' = (threw # "none")
     \/ /\ job[future] = "failed"
        /\ canGet' = FALSE
        /\ UNCHANGED <<running, lastResult, entries, escaped>>
     \/ /\ job[future] = "thrown"
        /\ escaped' = TRUE
        /\ UNCHANGED <<running, canGet, lastResult, entries>>
  /\ UNCHANGED <<ctl, job, started, input, held>>
CheckResult ==
  /\ ctl = "idle" /\ Ready
  /\ future' = 0
  /\ \/ /\ job[future] = "done"
        /\ lastResult' = future /\ canGet' = FALSE
        /\ \E threw \in {"none"} \cup {h \in Hook : entries[h] = "asked"} :
             /\ entries' = AddHooks(threw)
             /\ running' = (threw # "none") /\ escaped' = (threw # "none")
     \/ /\ job[future] = "failed"
        /\ running' = FALSE /\ canGet' = FALSE
        /\ UNCHANGED <<lastResult, entries, escaped>>
     \/ /\ job[future] = "thrown"
        /\ escaped' = TRUE
        /\ UNCHANGED <<running, canGet, lastResult, entries>>
  /\ UNCHANGED <<ctl, job, started, input, held>>

(* addToLogger() and addToGUI() defer the registration to a result;        *)
(* removeFromLogger() and removeFromGUI() keep the logger_ and gui_.       *)
SetEntry(h, from, to) ==
  /\ ctl = "idle" /\ entries[h] = from
  /\ entries' = [entries EXCEPT ![h] = to]
  /\ UNCHANGED <<ctl, job, started, futureVars, input, held, lastResult, escaped>>
AddEntry(h) == SetEntry(h, "none", "asked")
RemoveEntry(h) == SetEntry(h, "added", "asked")

(* The derived class is gone when ~AsyncJob() removes the entries; then    *)
(* the members go in reverse order, input_ before futureResult_, whose     *)
(* destructor waits for the job.                                           *)
Destroy ==
  /\ ctl = "idle"
  /\ entries' = [h \in Hook |-> "none"]
  /\ ctl' = "destroying"
  /\ UNCHANGED <<job, started, futureVars, input, held, lastResult, escaped>>
Destroyed ==
  /\ ctl = "destroying"
  /\ future # 0 => job[future] # "computing"
  /\ future' = 0
  /\ ctl' = "gone"
  /\ UNCHANGED <<job, started, running, canGet, input, held, lastResult,
                 entries, escaped>>

Worker == \E j \in 1..MaxJobs : Compute(j)
JobNext ==
  \/ TakeInput \/ \E v \in Input : WriteInput(v)
  \/ Launch \/ Assign \/ Started \/ CheckResult
  \/ \E h \in Hook : AddEntry(h) \/ RemoveEntry(h)
  \/ Destroy \/ Destroyed
  \/ Worker

(* Threads run, startAsync() and the destructor go on, and checkResult()   *)
(* "must be called at every iteration of the controller".                  *)
JobSpec ==
  /\ JobInit /\ [][JobNext]_jobVars
  /\ \A j \in 1..MaxJobs : WF_jobVars(Compute(j))
  /\ WF_jobVars(Assign \/ Started)
  /\ WF_jobVars(CheckResult) /\ WF_jobVars(Destroyed)

-----------------------------------------------------------------------------
(* Whoever writes the input between two calls and only after running()     *)
(* said no never changes it under a computation, however old the reference *)
(* he writes through, although startAsync() launches the job before it     *)
(* sets running_ and may be called again while an earlier job is           *)
(* computing.  input() itself only protects the moment it is called.       *)
InputStable ==
  [][input' # input /\ ctl = "idle" /\ ~running
       => \A j \in 1..MaxJobs : job[j] # "computing"]_jobVars

(* A new result is always that of the last startAsync(): the result of a   *)
(* job that was superseded is never delivered.                             *)
ResultIsCurrent ==
  [][lastResult' # lastResult => lastResult' = started]_jobVars

(* running() becomes false again, whether the job ends with a result or    *)
(* with a std::exception, unless the object is destroyed or started again  *)
(* first, or an exception escapes from checkResult(): one of computeJob()  *)
(* that is no std::exception, or one of the registrations in the logger    *)
(* and the GUI, which come before running_ is lowered.  A deferred job is  *)
(* excluded: checkResult() only polls it, which never runs it, so that     *)
(* running() stays true.                                                   *)
JobCompletes ==
  (running /\ ctl = "idle" /\ ~(future # 0 /\ job[future] = "deferred"))
  ~> (~running \/ ctl # "idle" \/ escaped)
=============================================================================
