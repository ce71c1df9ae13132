-------------------------- MODULE GlobalController --------------------------
(***************************************************************************)
(* mc_control::MCGlobalController: which controller runs, how one takes    *)
(* over from another, and what that does to the plugins, the observer      *)
(* pipelines and the log entries that live in each controller's logger.    *)
(* The operators are the methods, on the record "gc" of its members; one   *)
(* that loads plugins is the set of its possible results.                  *)
(* Sensors, encoders, grippers and timing are left out; logging is on,     *)
(* every pipeline is logged and every plugin can be loaded.                *)
(***************************************************************************)
EXTENDS Integers, FiniteSets

CONSTANTS
  Ctl,        \* the enabled controllers
  First,      \* initial_controller
  NoCtl,      \* the null next_controller_
  Plugin,     \* every plugin
  Global,     \* those of the global configuration
  Plugins     \* controller -> its "Plugins"

ASSUME GlobalAssumption ==
  /\ First \in Ctl /\ NoCtl \notin Ctl /\ Global \subseteq Plugin
  /\ \A c \in Ctl : Plugins[c] \subseteq Plugin

VARIABLE gc
  (* current_ctrl, next_ctrl, next (next_controller_), running, setup      *)
  (* (setup_logger_), loaded (plugins_) and, for every controller, ctl:    *)
  (*   prepared: reset() since it was created or stopped                   *)
  (*   pipes: its observer pipelines are in its log                        *)
  (*   perf: its logger has the entries of setup_log                       *)
  (*   plog: the state of the log entry of each plugin, which refers to an *)
  (*         element of plugins_before_ or plugins_after_                  *)
  (* history, bypass: the last switch was made while not running;          *)
  (* returned: the controllers left while running since they were created; *)
  (* dangling: next_controller_ points to a destroyed controller           *)

NewCtl == [prepared |-> FALSE, pipes |-> TRUE, perf |-> FALSE,
           plog |-> [p \in Plugin |-> "none"]]

-----------------------------------------------------------------------------
(* start_log and setup_log                                                 *)
StartLog(g) ==
  IF g.current \in g.setup THEN g
  ELSE [g EXCEPT !.setup = @ \cup {g.current}, !.ctl[g.current].perf = TRUE]

(* setup_plugin_log, of the controller c.                                  *)
BugSetupPluginLog(g, c) ==
  [g EXCEPT !.ctl[c].plog =
     [p \in Plugin |-> IF p \in g.loaded /\ @[p] = "none" THEN "live" ELSE @[p]]]
SetupPluginLog(g, c) ==
  [g EXCEPT !.ctl[c].plog =
     [p \in Plugin |-> IF p \in g.loaded THEN "live" ELSE @[p]]]

(* loadPlugin: the vectors may move, and with them what is referred to.    *)
Moved(k) ==
  [k EXCEPT !.plog = [p \in Plugin |-> IF @[p] = "live" THEN "stale" ELSE @[p]]]
LoadPlugins(g, new) ==
  {[g EXCEPT !.loaded = @ \cup new,
             !.ctl = [c \in Ctl |-> IF m THEN Moved(@[c]) ELSE @[c]]] :
     m \in IF new = {} THEN {FALSE} ELSE BOOLEAN}

(* resetControllerPlugins, for next_ctrl and in the log of c.              *)
(* controller_plugins_ is never filled, so that no plugin is ever removed. *)
ResetControllerPlugins(g, c) ==
  {SetupPluginLog(l, c) : l \in LoadPlugins(g, Plugins[g.next_ctrl] \ g.loaded)}

(* initController                                                          *)
InitController(g) ==
  UNION {ResetControllerPlugins([h EXCEPT !.ctl[h.current].prepared = TRUE],
                                h.current) : h \in {StartLog(g)}}

(* Construction, then init().                                              *)
New == [current |-> First, next_ctrl |-> First, next |-> NoCtl,
        running |-> FALSE, setup |-> {}, loaded |-> Global,
        ctl |-> [c \in Ctl |-> NewCtl],
        bypass |-> FALSE, returned |-> {}, dangling |-> FALSE]

(* reset(): the current controller is created anew.                        *)
Recreate(g) ==
  [g EXCEPT !.ctl[g.current] = NewCtl, !.returned = @ \ {g.current},
            !.bypass = FALSE, !.dangling = @ \/ g.next = g.current]
Reset(g) ==
  UNION {InitController([h EXCEPT !.setup = @ \ {h.current}]) : h \in {Recreate(g)}}

(* EnableController                                                        *)
BugEnableController(g, c) == [g EXCEPT !.next_ctrl = c, !.next = c]
EnableController(g, c) ==
  IF c # g.current THEN [g EXCEPT !.next_ctrl = c, !.next = c] ELSE g

-----------------------------------------------------------------------------
(* run(), when next_controller_ is set: the other controller is stopped    *)
(* and the next one reset only while running.                              *)
BugHandOver(g, c) ==
  ResetControllerPlugins([g EXCEPT !.ctl[g.current].pipes = FALSE,
                                   !.ctl[g.current].prepared = FALSE,
                                   !.returned = @ \cup {g.current},
                                   !.bypass = FALSE], c)
HandOver(g, c) ==
  ResetControllerPlugins([g EXCEPT !.ctl[g.current].pipes = FALSE,
                                   !.ctl[g.current].prepared = FALSE,
                                   !.ctl[c].prepared = TRUE,
                                   !.returned = @ \cup {g.current},
                                   !.bypass = FALSE], c)
BugSwitch(g) ==
  IF g.next = NoCtl \/ ~g.running THEN {g}
  ELSE {StartLog([h EXCEPT !.current = g.next, !.next = NoCtl]) :
          h \in HandOver(g, g.next)}
Switch(g) ==
  IF g.next = NoCtl THEN {g}
  ELSE {StartLog([h EXCEPT !.current = g.next, !.next = NoCtl]) :
          h \in IF g.running THEN HandOver(g, g.next)
                ELSE {[g EXCEPT !.bypass = TRUE]}}

(* run(): the controller succeeds or not, and then runs no more.           *)
Run(g) ==
  {[h EXCEPT !.running = @ /\ ok] : h \in Switch(g), ok \in BOOLEAN}

-----------------------------------------------------------------------------
(* A controller runs only if it was reset after it was created and since   *)
(* it was last stopped, and with its plugins, whatever the sequence of     *)
(* switches, resets and failures, unless the last switch came while        *)
(* nothing was running, which skips both.                                  *)
RunsPrepared ==
  gc.running /\ ~gc.bypass =>
    gc.ctl[gc.current].prepared /\ Plugins[gc.current] \subseteq gc.loaded

(* Every plugin entry in the log of the running controller refers to where *)
(* the plugin's times are now, although later controllers load plugins and *)
(* the vectors move, with the same exception.                              *)
PluginLogLive ==
  gc.running /\ ~gc.bypass =>
    \A p \in Plugin : gc.ctl[gc.current].plog[p] # "stale"

(* setup_logger_ tells the loggers that have the performance entries: a    *)
(* controller made anew starts again, and start() resumes no other log.    *)
SetupMatchesLoggers ==
  /\ gc.current \in gc.setup
  /\ \A c \in Ctl : c \in gc.setup <=> gc.ctl[c].perf

(* The observers of the running controller are in its log, unless it was   *)
(* left while running and came back: nothing adds them again.              *)
ObserversLogged ==
  gc.running /\ ~gc.ctl[gc.current].pipes => gc.current \in gc.returned

(* The log of the running controller has the entries it should, and they   *)
(* refer to what exists, after any sequence of switches and resets: those  *)
(* of the plugins, of the performance measures and of the observers.       *)
LogFollowsController ==
  PluginLogLive /\ SetupMatchesLoggers /\ ObserversLogged

(* A pending switch never leads to a controller that reset() destroyed.    *)
NextIsAlive == ~gc.dangling
=============================================================================
