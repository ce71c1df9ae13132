---------------------------- MODULE TickerProofs ----------------------------
(***************************************************************************)
(* What the global controller keeps in order through every sequence of     *)
(* switches, resets, pauses and failures, for any set of controllers and   *)
(* plugins.  Orderly holds of every value the members take, also between   *)
(* the reset and the switch of one step; Ready of those a step ends with.  *)
(***************************************************************************)
EXTENDS Ticker, TLAPS

CtlRecord == [prepared : BOOLEAN, pipes : BOOLEAN, perf : BOOLEAN,
              plog : [Plugin -> {"none", "live", "stale"}]]
GcRecord ==
  [current : Ctl, next_ctrl : Ctl, next : Ctl \cup {NoCtl},
   running : BOOLEAN, setup : SUBSET Ctl, loaded : SUBSET Plugin,
   ctl : [Ctl -> CtlRecord],
   bypass : BOOLEAN, returned : SUBSET Ctl, dangling : BOOLEAN]

(* next_ctrl names the pending controller, or the current one; the         *)
(* bookkeeping of the loggers agrees with them; only plugins that are      *)
(* loaded have been logged.                                                *)
Orderly(g) ==
  /\ g \in GcRecord
  /\ g.next_ctrl = IF g.next = NoCtl THEN g.current ELSE g.next
  /\ g.next # g.current
  /\ ~g.dangling
  /\ \A c \in Ctl : c \in g.setup <=> g.ctl[c].perf
  /\ \A c \in Ctl : g.ctl[c].pipes \/ c \in g.returned
  /\ \A c \in Ctl, p \in Plugin : g.ctl[c].plog[p] # "none" => p \in g.loaded

(* The current controller can run, unless it was installed by the bypass.  *)
Fresh(g, c) ==
  g.ctl[c].prepared /\ (\A p \in Plugin : g.ctl[c].plog[p] # "stale")
Ready(g) ==
  /\ g.current \in g.setup
  /\ ~g.bypass => Fresh(g, g.current) /\ Plugins[g.current] \subseteq g.loaded

(* The members that logging and plugins leave alone.                       *)
SameSwitch(g, h) ==
  /\ h.current = g.current /\ h.next_ctrl = g.next_ctrl /\ h.next = g.next
  /\ h.running = g.running /\ h.bypass = g.bypass

-----------------------------------------------------------------------------
(* A controller that was just made is a controller.                        *)
LEMMA NewCtlType == NewCtl \in CtlRecord
BY DEF NewCtl, CtlRecord

(* The record of one controller changes in one member.                     *)
LEMMA CtlRecordUpdates ==
  ASSUME NEW r \in CtlRecord, NEW b \in BOOLEAN
  PROVE  /\ [r EXCEPT !.perf = b] \in CtlRecord
         /\ [r EXCEPT !.pipes = b] \in CtlRecord
         /\ [r EXCEPT !.prepared = b] \in CtlRecord
BY DEF CtlRecord

(* The same, of the entries of the plugins in its log.                     *)
LEMMA CtlLogUpdate ==
  ASSUME NEW r \in CtlRecord, NEW f \in [Plugin -> {"none", "live", "stale"}]
  PROVE  [r EXCEPT !.plog = f] \in CtlRecord
BY DEF CtlRecord

(* start_log registers the current logger once.                            *)
LEMMA StartLogKeeps ==
  ASSUME NEW g, Orderly(g)
  PROVE  LET h == StartLog(g)
         IN  /\ Orderly(h) /\ SameSwitch(g, h)
             /\ h.current \in h.setup /\ h.loaded = g.loaded
             /\ Fresh(g, g.current) => Fresh(h, h.current)
<1> DEFINE h == StartLog(g)
<1>1. CASE g.current \in g.setup
  BY <1>1 DEF StartLog, SameSwitch, Orderly
<1>2. CASE g.current \notin g.setup
  <2>1. h = [g EXCEPT !.setup = @ \cup {g.current}, !.ctl[g.current].perf = TRUE]
    BY <1>2 DEF StartLog
  <2>2. g \in GcRecord
    BY DEF Orderly
  <2>3. h.ctl = [g.ctl EXCEPT ![g.current].perf = TRUE] /\ h.setup = g.setup \cup {g.current}
    BY <2>1, <2>2 DEF GcRecord
  <2>4. SameSwitch(g, h) /\ h.loaded = g.loaded /\ h.returned = g.returned /\ h.dangling = g.dangling
    BY <2>1, <2>2 DEF GcRecord, SameSwitch
  <2>5. h.ctl \in [Ctl -> CtlRecord]
    <3>1. g.ctl \in [Ctl -> CtlRecord] /\ g.current \in Ctl
      BY <2>2 DEF GcRecord
    <3>2. [g.ctl[g.current] EXCEPT !.perf = TRUE] \in CtlRecord
      BY <3>1, CtlRecordUpdates
    <3>3. h.ctl = [g.ctl EXCEPT ![g.current] = [g.ctl[g.current] EXCEPT !.perf = TRUE]]
      BY <2>3
    <3> QED BY <3>1, <3>2, <3>3
  <2>6. h \in GcRecord
    BY <2>1, <2>2, <2>5, <2>3 DEF GcRecord
  <2>7. \A c \in Ctl : /\ h.ctl[c].pipes = g.ctl[c].pipes
                       /\ h.ctl[c].plog = g.ctl[c].plog
                       /\ h.ctl[c].prepared = g.ctl[c].prepared
                       /\ h.ctl[c].perf = IF c = g.current THEN TRUE ELSE g.ctl[c].perf
    <3> TAKE c \in Ctl
    <3>1. g.ctl \in [Ctl -> CtlRecord] /\ g.ctl[c] \in CtlRecord
      BY <2>2 DEF GcRecord
    <3>2. CASE c = g.current
      <4>1. h.ctl[c] = [g.ctl[c] EXCEPT !.perf = TRUE]
        BY <2>3, <3>1, <3>2
      <4> QED BY <3>1, <3>2, <4>1 DEF CtlRecord
    <3>3. CASE c # g.current
      <4>1. h.ctl[c] = g.ctl[c]
        BY <2>3, <3>1, <3>3
      <4> QED BY <3>3, <4>1
    <3> QED BY <3>2, <3>3
  <2>8. g.current \in Ctl
    BY <2>2 DEF GcRecord
  <2> HIDE DEF h
  <2>9. Orderly(h)
    BY <2>2, <2>3, <2>4, <2>6, <2>7, <2>8, ZenonT(60) DEF Orderly, SameSwitch
  <2> QED BY <2>3, <2>4, <2>7, <2>8, <2>9 DEF Fresh, SameSwitch, h
<1> QED BY <1>1, <1>2

(* loadPlugin adds plugins; what the vectors do to the log entries changes *)
(* nothing else, and makes no entry of a plugin that had none.             *)
LEMMA LoadPluginsKeeps ==
  ASSUME NEW g, Orderly(g), NEW new \in SUBSET Plugin,
         NEW l \in LoadPlugins(g, new)
  PROVE  /\ Orderly(l) /\ SameSwitch(g, l)
         /\ l.setup = g.setup /\ l.loaded = g.loaded \cup new
         /\ \A c \in Ctl : l.ctl[c].prepared = g.ctl[c].prepared
<1>1. g \in GcRecord /\ g.ctl \in [Ctl -> CtlRecord]
  BY DEF Orderly, GcRecord
<1>2. PICK m \in BOOLEAN :
        l = [g EXCEPT !.loaded = g.loaded \cup new,
                      !.ctl = [c \in Ctl |->
                                 IF m THEN Moved(g.ctl[c]) ELSE g.ctl[c]]]
  BY DEF LoadPlugins
<1>3. /\ l.loaded = g.loaded \cup new
      /\ l.ctl = [c \in Ctl |->
                    IF m THEN Moved(g.ctl[c]) ELSE g.ctl[c]]
  BY <1>1, <1>2 DEF GcRecord
<1>4. /\ SameSwitch(g, l) /\ l.setup = g.setup /\ l.returned = g.returned
      /\ l.dangling = g.dangling
  BY <1>1, <1>2 DEF GcRecord, SameSwitch
<1>5. ASSUME NEW c \in Ctl
      PROVE  /\ l.ctl[c] \in CtlRecord
             /\ l.ctl[c].pipes = g.ctl[c].pipes
             /\ l.ctl[c].perf = g.ctl[c].perf
             /\ l.ctl[c].prepared = g.ctl[c].prepared
             /\ \A p \in Plugin : l.ctl[c].plog[p] # "none" => g.ctl[c].plog[p] # "none"
  <2>1. g.ctl[c] \in CtlRecord /\ g.ctl[c].plog \in [Plugin -> {"none", "live", "stale"}]
    BY <1>1 DEF CtlRecord
  <2> DEFINE f == [p \in Plugin |-> IF g.ctl[c].plog[p] = "live" THEN "stale"
                                   ELSE g.ctl[c].plog[p]]
  <2>2. f \in [Plugin -> {"none", "live", "stale"}]
    BY <2>1
  <2>3. CASE m
    <3>1. l.ctl[c] = [g.ctl[c] EXCEPT !.plog = f]
      BY <1>3, <2>3 DEF Moved
    <3>2. l.ctl[c] \in CtlRecord
      BY <2>1, <2>2, <3>1, CtlLogUpdate
    <3>3. /\ l.ctl[c].pipes = g.ctl[c].pipes /\ l.ctl[c].perf = g.ctl[c].perf
          /\ l.ctl[c].prepared = g.ctl[c].prepared
          /\ l.ctl[c].plog = f
      BY <2>1, <3>1 DEF CtlRecord
    <3> QED BY <2>1, <3>2, <3>3
  <2>4. CASE ~m
    BY <1>3, <2>1, <2>4
  <2> QED BY <2>3, <2>4
<1>6. l \in GcRecord
  <2>1. l.ctl \in [Ctl -> CtlRecord]
    BY <1>3, <1>5
  <2>2. l.loaded \in SUBSET Plugin
    BY <1>1, <1>3 DEF GcRecord
  <2> QED BY <1>1, <1>2, <1>3, <2>1, <2>2 DEF GcRecord
<1>7. Orderly(l)
  BY <1>3, <1>4, <1>5, <1>6 DEF Orderly, SameSwitch
<1> QED BY <1>3, <1>4, <1>5, <1>7

(* setup_plugin_log leaves no entry behind that refers to an old place.    *)
LEMMA SetupPluginLogKeeps ==
  ASSUME NEW g, Orderly(g), NEW c \in Ctl
  PROVE  LET h == SetupPluginLog(g, c)
         IN  /\ Orderly(h) /\ SameSwitch(g, h)
             /\ h.setup = g.setup /\ h.loaded = g.loaded
             /\ \A d \in Ctl : h.ctl[d].prepared = g.ctl[d].prepared
             /\ \A p \in Plugin : h.ctl[c].plog[p] # "stale"
<1> DEFINE h == SetupPluginLog(g, c)
           f == [p \in Plugin |-> IF p \in g.loaded THEN "live" ELSE g.ctl[c].plog[p]]
<1>1. g \in GcRecord /\ g.ctl \in [Ctl -> CtlRecord] /\ g.ctl[c] \in CtlRecord
  BY DEF Orderly, GcRecord
<1>2. h = [g EXCEPT !.ctl[c].plog = f]
  BY DEF SetupPluginLog
<1>3. h.ctl = [g.ctl EXCEPT ![c] = [g.ctl[c] EXCEPT !.plog = f]]
  BY <1>1, <1>2 DEF GcRecord
<1>4. /\ SameSwitch(g, h) /\ h.setup = g.setup /\ h.returned = g.returned
      /\ h.dangling = g.dangling /\ h.loaded = g.loaded
  BY <1>1, <1>2 DEF GcRecord, SameSwitch
<1>5. /\ f \in [Plugin -> {"none", "live", "stale"}]
      /\ \A p \in Plugin : f[p] # "none" => p \in g.loaded
      /\ \A p \in Plugin : f[p] # "stale"
  <2>1. g.ctl[c].plog \in [Plugin -> {"none", "live", "stale"}]
    BY <1>1 DEF CtlRecord
  <2>2. \A p \in Plugin : p \notin g.loaded => g.ctl[c].plog[p] = "none"
    BY DEF Orderly
  <2> QED BY <2>1, <2>2
<1> HIDE DEF h, f
<1>6. ASSUME NEW d \in Ctl
      PROVE  /\ h.ctl[d] \in CtlRecord
             /\ h.ctl[d].pipes = g.ctl[d].pipes
             /\ h.ctl[d].perf = g.ctl[d].perf
             /\ h.ctl[d].prepared = g.ctl[d].prepared
             /\ h.ctl[d].plog = IF d = c THEN f ELSE g.ctl[d].plog
  <2>1. CASE d = c
    <3>1. h.ctl[d] = [g.ctl[c] EXCEPT !.plog = f]
      BY <1>1, <1>3, <2>1
    <3>2. h.ctl[d] \in CtlRecord
      BY <1>1, <1>5, <3>1, CtlLogUpdate
    <3> QED BY <1>1, <2>1, <3>1, <3>2 DEF CtlRecord
  <2>2. CASE d # c
    BY <1>1, <1>3, <2>2
  <2> QED BY <2>1, <2>2
<1>7. h \in GcRecord
  <2>1. h.ctl \in [Ctl -> CtlRecord]
    BY <1>1, <1>3, <1>6
  <2> QED BY <1>1, <1>2, <2>1 DEF GcRecord
<1>8. Orderly(h)
  BY <1>4, <1>5, <1>6, <1>7 DEF Orderly, SameSwitch
<1> QED BY <1>4, <1>5, <1>6, <1>8 DEF h

(* resetControllerPlugins brings the plugins of next_ctrl in.              *)
LEMMA ResetPluginsKeeps ==
  ASSUME NEW g, Orderly(g), NEW c \in Ctl,
         NEW h \in ResetControllerPlugins(g, c)
  PROVE  /\ Orderly(h) /\ SameSwitch(g, h)
         /\ h.setup = g.setup /\ h.loaded = g.loaded \cup Plugins[g.next_ctrl]
         /\ \A d \in Ctl : h.ctl[d].prepared = g.ctl[d].prepared
         /\ \A p \in Plugin : h.ctl[c].plog[p] # "stale"
<1> DEFINE new == Plugins[g.next_ctrl] \ g.loaded
<1>1. g.next_ctrl \in Ctl /\ new \in SUBSET Plugin
  BY GlobalAssumption DEF Orderly, GcRecord
<1>2. PICK l \in LoadPlugins(g, new) : h = SetupPluginLog(l, c)
  BY DEF ResetControllerPlugins
<1> HIDE DEF new
<1>3. /\ Orderly(l) /\ SameSwitch(g, l)
      /\ l.setup = g.setup /\ l.loaded = g.loaded \cup new
      /\ \A d \in Ctl : l.ctl[d].prepared = g.ctl[d].prepared
  BY <1>1, LoadPluginsKeeps
<1>4. /\ Orderly(h) /\ SameSwitch(l, h)
      /\ h.setup = l.setup /\ h.loaded = l.loaded
      /\ \A d \in Ctl : h.ctl[d].prepared = l.ctl[d].prepared
      /\ \A p \in Plugin : h.ctl[c].plog[p] # "stale"
  BY <1>2, <1>3, SetupPluginLogKeeps
<1> QED BY <1>3, <1>4 DEF SameSwitch, new

(* reset() of the controller itself, or its stop().                        *)
LEMMA PreparedKeeps ==
  ASSUME NEW g, Orderly(g)
  PROVE  LET h == [g EXCEPT !.ctl[g.current].prepared = TRUE]
         IN  /\ Orderly(h) /\ SameSwitch(g, h)
             /\ h.setup = g.setup /\ h.loaded = g.loaded
             /\ h.ctl[h.current].prepared
<1> DEFINE h == [g EXCEPT !.ctl[g.current].prepared = TRUE]
<1>1. /\ g \in GcRecord /\ g.ctl \in [Ctl -> CtlRecord] /\ g.current \in Ctl
      /\ g.ctl[g.current] \in CtlRecord
  BY DEF Orderly, GcRecord
<1>2. h.ctl = [g.ctl EXCEPT ![g.current] = [g.ctl[g.current] EXCEPT !.prepared = TRUE]]
  BY <1>1 DEF GcRecord
<1>3. /\ SameSwitch(g, h) /\ h.setup = g.setup /\ h.returned = g.returned
      /\ h.dangling = g.dangling /\ h.loaded = g.loaded
  BY <1>1 DEF GcRecord, SameSwitch
<1>4. [g.ctl[g.current] EXCEPT !.prepared = TRUE] \in CtlRecord
  BY <1>1, CtlRecordUpdates
<1>5. h \in GcRecord
  <2>1. h.ctl \in [Ctl -> CtlRecord]
    BY <1>1, <1>2, <1>4
  <2> QED BY <1>1, <2>1 DEF GcRecord
<1> HIDE DEF h
<1>6. ASSUME NEW d \in Ctl
      PROVE  /\ h.ctl[d].pipes = g.ctl[d].pipes
             /\ h.ctl[d].perf = g.ctl[d].perf
             /\ h.ctl[d].plog = g.ctl[d].plog
             /\ d = g.current => h.ctl[d].prepared
  <2>1. CASE d = g.current
    <3>1. h.ctl[d] = [g.ctl[d] EXCEPT !.prepared = TRUE]
      BY <1>1, <1>2, <2>1
    <3> QED BY <1>1, <2>1, <3>1 DEF CtlRecord
  <2>2. CASE d # g.current
    BY <1>1, <1>2, <2>2
  <2> QED BY <2>1, <2>2
<1>7. Orderly(h)
  BY <1>3, <1>5, <1>6 DEF Orderly, SameSwitch
<1> QED BY <1>1, <1>3, <1>6, <1>7 DEF h, SameSwitch

(* initController leaves a controller that can run, if next_ctrl is it.    *)
LEMMA InitControllerKeeps ==
  ASSUME NEW g, Orderly(g), NEW h \in InitController(g)
  PROVE  /\ Orderly(h) /\ SameSwitch(g, h)
         /\ g.next = NoCtl => Ready(h)
<1> DEFINE s == StartLog(g)
           t == [s EXCEPT !.ctl[s.current].prepared = TRUE]
<1>1. Orderly(s) /\ SameSwitch(g, s) /\ s.current \in s.setup
  BY StartLogKeeps
<1>2. h \in ResetControllerPlugins(t, s.current)
  BY DEF InitController
<1> HIDE DEF s
<1>3. /\ Orderly(t) /\ SameSwitch(s, t)
      /\ t.setup = s.setup /\ t.loaded = s.loaded
      /\ t.ctl[t.current].prepared
  BY <1>1, PreparedKeeps
<1>4. t.current = s.current /\ s.current \in Ctl
  BY <1>1, <1>3 DEF SameSwitch, Orderly, GcRecord
<1> HIDE DEF t
<1>5. /\ Orderly(h) /\ SameSwitch(t, h)
      /\ h.setup = t.setup /\ h.loaded = t.loaded \cup Plugins[t.next_ctrl]
      /\ \A d \in Ctl : h.ctl[d].prepared = t.ctl[d].prepared
      /\ \A p \in Plugin : h.ctl[s.current].plog[p] # "stale"
  BY <1>2, <1>3, <1>4, ResetPluginsKeeps
<1>6. SameSwitch(g, h)
  BY <1>1, <1>3, <1>5 DEF SameSwitch
<1>7. ASSUME g.next = NoCtl PROVE Ready(h)
  <2>1. h.current = s.current /\ t.next_ctrl = h.current
    BY <1>3, <1>4, <1>5, <1>6, <1>7 DEF SameSwitch, Orderly
  <2> QED BY <1>1, <1>3, <1>4, <1>5, <2>1 DEF Ready, Fresh
<1> QED BY <1>5, <1>6, <1>7

(* reset() forgets the controller it destroys wherever it is remembered.   *)
LEMMA ResetKeeps ==
  ASSUME NEW g, Orderly(g), NEW h \in Reset(g)
  PROVE  /\ Orderly(h)
         /\ g.next = NoCtl => Ready(h)
         /\ h.next = g.next /\ h.current = g.current
<1> DEFINE r == Recreate(g)
           k == [r EXCEPT !.setup = @ \ {r.current}]
<1>1. /\ g \in GcRecord /\ g.ctl \in [Ctl -> CtlRecord] /\ g.current \in Ctl
      /\ g.dangling = FALSE /\ g.next # g.current
  BY DEF Orderly, GcRecord
<1>2. /\ r.ctl = [g.ctl EXCEPT ![g.current] = NewCtl]
      /\ r.returned = g.returned \ {g.current} /\ r.bypass = FALSE
      /\ r.dangling = FALSE
      /\ r.current = g.current /\ r.next_ctrl = g.next_ctrl /\ r.next = g.next
      /\ r.running = g.running /\ r.setup = g.setup /\ r.loaded = g.loaded
  BY <1>1 DEF Recreate, GcRecord
<1>3. r \in GcRecord
  <2>1. r.ctl \in [Ctl -> CtlRecord]
    BY <1>1, <1>2, NewCtlType
  <2>2. r.returned \in SUBSET Ctl
    BY <1>1, <1>2 DEF GcRecord
  <2> QED BY <1>1, <1>2, <2>1, <2>2 DEF GcRecord, Recreate
<1> HIDE DEF r
<1>4. /\ k.setup = g.setup \ {g.current} /\ k.ctl = r.ctl
      /\ k.returned = r.returned /\ k.dangling = FALSE /\ k.bypass = FALSE
      /\ k.current = g.current /\ k.next_ctrl = g.next_ctrl /\ k.next = g.next
      /\ k.loaded = g.loaded
  BY <1>2, <1>3 DEF GcRecord
<1>5. k \in GcRecord
  BY <1>3 DEF GcRecord
<1>6. ASSUME NEW d \in Ctl
      PROVE  k.ctl[d] = IF d = g.current THEN NewCtl ELSE g.ctl[d]
  BY <1>1, <1>2, <1>4
<1>7. h \in InitController(k)
  BY DEF Reset, r
<1> HIDE DEF k
<1>8. Orderly(k)
  <2>1. ~NewCtl.perf /\ NewCtl.pipes /\ \A p \in Plugin : NewCtl.plog[p] = "none"
    BY DEF NewCtl
  <2> QED BY <1>1, <1>2, <1>4, <1>5, <1>6, <2>1 DEF Orderly
<1>9. /\ Orderly(h) /\ SameSwitch(k, h)
      /\ k.next = NoCtl => Ready(h)
  BY <1>7, <1>8, InitControllerKeeps
<1> QED BY <1>4, <1>9 DEF SameSwitch

(* The controller that takes over in run() while running has been reset,   *)
(* has its plugins, and its log refers to them.                            *)
LEMMA HandOverKeeps ==
  ASSUME NEW g, Orderly(g), g.next # NoCtl, NEW h \in HandOver(g, g.next)
  PROVE  /\ Orderly(h) /\ h.next = g.next /\ h.next_ctrl = g.next
         /\ Fresh(h, g.next) /\ Plugins[g.next] \subseteq h.loaded
         /\ h.running = g.running
<1> DEFINE c == g.next
           x == [g.ctl[g.current] EXCEPT !.pipes = FALSE]
           y == [x EXCEPT !.prepared = FALSE]
           z == [g.ctl[c] EXCEPT !.prepared = TRUE]
           a == [g EXCEPT !.ctl[g.current].pipes = FALSE,
                          !.ctl[g.current].prepared = FALSE,
                          !.ctl[c].prepared = TRUE,
                          !.returned = @ \cup {g.current},
                          !.bypass = FALSE]
<1>1. /\ g \in GcRecord /\ g.ctl \in [Ctl -> CtlRecord] /\ g.current \in Ctl
      /\ c \in Ctl /\ c # g.current /\ g.next_ctrl = c
      /\ g.ctl[g.current] \in CtlRecord /\ g.ctl[c] \in CtlRecord
  BY DEF Orderly, GcRecord
<1>2. x \in CtlRecord /\ y \in CtlRecord /\ z \in CtlRecord
  BY <1>1, CtlRecordUpdates
<1>3. /\ y.pipes = FALSE /\ y.perf = g.ctl[g.current].perf
      /\ y.plog = g.ctl[g.current].plog
      /\ z.prepared = TRUE /\ z.pipes = g.ctl[c].pipes
      /\ z.perf = g.ctl[c].perf /\ z.plog = g.ctl[c].plog
  BY <1>1 DEF CtlRecord
<1>4. /\ a.ctl = [[[g.ctl EXCEPT ![g.current].pipes = FALSE]
                   EXCEPT ![g.current].prepared = FALSE]
                   EXCEPT ![c].prepared = TRUE]
      /\ a.returned = g.returned \cup {g.current} /\ a.bypass = FALSE
      /\ a.dangling = g.dangling /\ a.current = g.current
      /\ a.next_ctrl = g.next_ctrl /\ a.next = g.next /\ a.running = g.running
      /\ a.setup = g.setup /\ a.loaded = g.loaded
  BY <1>1 DEF GcRecord
<1>5. a.ctl = [g.ctl EXCEPT ![g.current] = y, ![c] = z]
  BY <1>1, <1>4
<1> HIDE DEF x, y, z
<1>6. a.ctl \in [Ctl -> CtlRecord]
  <2>1. [g.ctl EXCEPT ![g.current] = y, ![c] = z] \in [Ctl -> CtlRecord]
    BY <1>1, <1>2
  <2> QED BY <1>5, <2>1
<1>7. a \in GcRecord
  BY <1>1, <1>6 DEF GcRecord
<1>8. h \in ResetControllerPlugins(a, c)
  BY DEF HandOver
<1> HIDE DEF a
<1>9. ASSUME NEW d \in Ctl
      PROVE  a.ctl[d] = IF d = c THEN z ELSE IF d = g.current THEN y ELSE g.ctl[d]
  BY <1>1, <1>5
<1>10. Orderly(a)
  <2>1. \A d \in Ctl : d \in a.setup <=> a.ctl[d].perf
    BY <1>1, <1>3, <1>4, <1>9 DEF Orderly
  <2>2. \A d \in Ctl : a.ctl[d].pipes \/ d \in a.returned
    BY <1>1, <1>3, <1>4, <1>9 DEF Orderly
  <2>3. \A d \in Ctl, p \in Plugin : a.ctl[d].plog[p] # "none" => p \in a.loaded
    <3> SUFFICES ASSUME NEW d \in Ctl, NEW p \in Plugin, a.ctl[d].plog[p] # "none"
                 PROVE  p \in a.loaded
      OBVIOUS
    <3>1. a.ctl[d].plog = g.ctl[d].plog
      BY <1>3, <1>9
    <3> QED BY <1>4, <3>1 DEF Orderly
  <2> QED BY <1>4, <1>7, <2>1, <2>2, <2>3 DEF Orderly
<1>11. /\ Orderly(h) /\ SameSwitch(a, h)
       /\ h.loaded = a.loaded \cup Plugins[a.next_ctrl]
       /\ \A d \in Ctl : h.ctl[d].prepared = a.ctl[d].prepared
       /\ \A p \in Plugin : h.ctl[c].plog[p] # "stale"
  BY <1>1, <1>8, <1>10, ResetPluginsKeeps
<1>12. h.ctl[c].prepared
  BY <1>1, <1>3, <1>9, <1>11
<1> QED BY <1>1, <1>4, <1>11, <1>12 DEF Fresh, SameSwitch

(* The switch itself: what is pending becomes current and logs.            *)
LEMMA InstallKeeps ==
  ASSUME NEW g, Orderly(g), NEW c \in Ctl, g.next = c, g.next_ctrl = c,
         ~g.bypass => Fresh(g, c) /\ Plugins[c] \subseteq g.loaded
  PROVE  LET h == StartLog([g EXCEPT !.current = c, !.next = NoCtl])
         IN  Orderly(h) /\ Ready(h) /\ h.current = c /\ h.next = NoCtl
<1> DEFINE k == [g EXCEPT !.current = c, !.next = NoCtl]
           h == StartLog(k)
<1>1. g \in GcRecord
  BY DEF Orderly
<1>2. k \in GcRecord
  BY <1>1 DEF GcRecord
<1>3. /\ k.current = c /\ k.next = NoCtl /\ k.next_ctrl = c /\ k.ctl = g.ctl
      /\ k.setup = g.setup /\ k.loaded = g.loaded /\ k.returned = g.returned
      /\ k.dangling = g.dangling /\ k.bypass = g.bypass
  BY <1>1 DEF GcRecord
<1> HIDE DEF k
<1>4. Orderly(k)
  BY <1>2, <1>3, GlobalAssumption DEF Orderly
<1>5. /\ Orderly(h) /\ SameSwitch(k, h)
      /\ h.current \in h.setup /\ h.loaded = k.loaded
      /\ Fresh(k, k.current) => Fresh(h, h.current)
  BY <1>4, StartLogKeeps
<1>6. Ready(h)
  BY <1>3, <1>5 DEF Ready, Fresh, SameSwitch
<1> QED BY <1>3, <1>5, <1>6 DEF SameSwitch, k

(* run() up to the controller's own run(): nothing is pending any more.    *)
LEMMA SwitchKeeps ==
  ASSUME NEW g, Orderly(g), g.next = NoCtl => Ready(g), NEW h \in Switch(g)
  PROVE  Orderly(h) /\ Ready(h) /\ h.next = NoCtl
<1>1. CASE g.next = NoCtl
  BY <1>1 DEF Switch
<1>2. CASE g.next # NoCtl /\ g.running
  <2>1. PICK k \in HandOver(g, g.next) :
          h = StartLog([k EXCEPT !.current = g.next, !.next = NoCtl])
    BY <1>2 DEF Switch
  <2>2. g.next \in Ctl
    BY <1>2 DEF Orderly, GcRecord
  <2>3. /\ Orderly(k) /\ k.next = g.next /\ k.next_ctrl = g.next
        /\ Fresh(k, g.next) /\ Plugins[g.next] \subseteq k.loaded
    BY <1>2, HandOverKeeps
  <2> QED BY <2>1, <2>2, <2>3, InstallKeeps
<1>3. CASE g.next # NoCtl /\ ~g.running
  <2> DEFINE k == [g EXCEPT !.bypass = TRUE]
  <2>1. h = StartLog([k EXCEPT !.current = g.next, !.next = NoCtl])
    BY <1>3 DEF Switch
  <2>2. g.next \in Ctl /\ g.next_ctrl = g.next /\ g \in GcRecord
    BY <1>3 DEF Orderly, GcRecord
  <2>3. /\ k \in GcRecord
        /\ k.bypass = TRUE /\ k.next = g.next /\ k.next_ctrl = g.next_ctrl
        /\ k.current = g.current /\ k.ctl = g.ctl /\ k.setup = g.setup
        /\ k.loaded = g.loaded /\ k.returned = g.returned
        /\ k.dangling = g.dangling
    BY <2>2 DEF GcRecord
  <2> HIDE DEF k
  <2>4. Orderly(k)
    BY <2>3 DEF Orderly
  <2> QED BY <2>1, <2>2, <2>3, <2>4, InstallKeeps
<1> QED BY <1>1, <1>2, <1>3

(* Whether the controller runs plays no part in either.                    *)
LEMMA RunningPlaysNoPart ==
  ASSUME NEW g, Orderly(g), NEW b \in BOOLEAN
  PROVE  LET h == [g EXCEPT !.running = b]
         IN  /\ Orderly(h)
             /\ Ready(g) => Ready(h)
             /\ h.next = g.next /\ h.current = g.current
<1> DEFINE h == [g EXCEPT !.running = b]
<1>1. g \in GcRecord
  BY DEF Orderly
<1>2. /\ h \in GcRecord
      /\ h.bypass = g.bypass /\ h.next = g.next /\ h.next_ctrl = g.next_ctrl
      /\ h.current = g.current /\ h.ctl = g.ctl /\ h.setup = g.setup
      /\ h.loaded = g.loaded /\ h.returned = g.returned
      /\ h.dangling = g.dangling
  BY <1>1 DEF GcRecord
<1> HIDE DEF h
<1>3. Orderly(h)
  BY <1>2 DEF Orderly
<1>4. Ready(g) => Ready(h)
  BY <1>2 DEF Ready, Fresh
<1> QED BY <1>2, <1>3, <1>4 DEF h

-----------------------------------------------------------------------------
TypeOK ==
  /\ ticking \in BOOLEAN /\ step_by_step \in BOOLEAN
  /\ do_reset \in BOOLEAN /\ controls \in SUBSET Ctl

(* What every iteration and every request keeps.                           *)
Inv == TypeOK /\ Orderly(gc) /\ Ready(gc)

(* The first controller is made, started and can run.                      *)
LEMMA InitInv == Init => Inv
<1> SUFFICES ASSUME Init PROVE Inv
  OBVIOUS
<1>1. Orderly(New) /\ New.next = NoCtl
  <2>1. New \in GcRecord
    <3>1. [c \in Ctl |-> NewCtl] \in [Ctl -> CtlRecord]
      BY NewCtlType
    <3> QED BY <3>1, GlobalAssumption DEF New, GcRecord
  <2>2. /\ New.current = First /\ New.next_ctrl = First /\ New.next = NoCtl
        /\ New.setup = {} /\ New.dangling = FALSE /\ New.loaded = Global
        /\ New.ctl = [c \in Ctl |-> NewCtl]
    BY DEF New
  <2>3. \A c \in Ctl : New.ctl[c] = NewCtl
    BY <2>2
  <2>4. ~NewCtl.perf /\ NewCtl.pipes /\ \A p \in Plugin : NewCtl.plog[p] = "none"
    BY DEF NewCtl
  <2> QED BY <2>1, <2>2, <2>3, <2>4, GlobalAssumption DEF Orderly
<1>2. PICK g \in InitController(New) : gc = [g EXCEPT !.running = TRUE]
  BY DEF Init
<1>3. Orderly(g) /\ Ready(g)
  BY <1>1, <1>2, InitControllerKeeps
<1>4. Orderly(gc) /\ Ready(gc)
  BY <1>2, <1>3, RunningPlaysNoPart
<1> QED BY <1>4, GlobalAssumption DEF Inv, TypeOK, Init

(* run(), with the controller's verdict.                                   *)
LEMMA RunKeeps ==
  ASSUME NEW g, Orderly(g), g.next = NoCtl => Ready(g), NEW h \in Run(g)
  PROVE  Orderly(h) /\ Ready(h)
<1>1. PICK k \in Switch(g), ok \in BOOLEAN : h = [k EXCEPT !.running = k.running /\ ok]
  BY DEF Run
<1>2. Orderly(k) /\ Ready(k)
  BY SwitchKeeps
<1>3. (k.running /\ ok) \in BOOLEAN
  OBVIOUS
<1> QED BY <1>1, <1>2, <1>3, RunningPlaysNoPart

(* Every action keeps the invariant.                                       *)
LEMMA NextInv == Inv /\ [Next]_vars => Inv'
<1> SUFFICES ASSUME Inv, [Next]_vars PROVE Inv'
  OBVIOUS
<1>0. TypeOK /\ Orderly(gc) /\ Ready(gc) /\ gc.current \in Ctl
  BY DEF Inv, Orderly, GcRecord
<1>1. CASE IterateStep
  <2>1. PICK g \in BeforeStep : gc' \in Run(g)
    BY <1>1 DEF IterateStep, Step
  <2>2. Orderly(g) /\ (g.next = NoCtl => Ready(g))
    <3>1. CASE do_reset
      <4>1. PICK r \in Reset(gc) : g = [r EXCEPT !.running = TRUE]
        BY <2>1, <3>1 DEF BeforeStep
      <4>2. /\ Orderly(r) /\ r.next = gc.next
            /\ gc.next = NoCtl => Ready(r)
        BY <1>0, ResetKeeps
      <4> QED BY <4>1, <4>2, RunningPlaysNoPart
    <3>2. CASE ~do_reset
      BY <1>0, <2>1, <3>2 DEF BeforeStep
    <3> QED BY <3>1, <3>2
  <2>3. Orderly(gc') /\ Ready(gc')
    BY <2>1, <2>2, RunKeeps
  <2>4. TypeOK'
    BY <1>0, <1>1 DEF TypeOK, IterateStep, Step, SetupGui
  <2> QED BY <2>3, <2>4 DEF Inv
<1>2. CASE IterateIdle
  <2> DEFINE i == [gc EXCEPT !.running = FALSE]
  <2>1. PICK g \in Run(i) : gc' = [g EXCEPT !.running = gc.running]
    BY <1>2 DEF IterateIdle
  <2>2. Orderly(i) /\ Ready(i)
    BY <1>0, RunningPlaysNoPart
  <2> HIDE DEF i
  <2>3. Orderly(g) /\ Ready(g)
    BY <2>1, <2>2, RunKeeps
  <2>4. gc.running \in BOOLEAN
    BY <1>0 DEF Orderly, GcRecord
  <2>5. Orderly(gc') /\ Ready(gc')
    BY <2>1, <2>3, <2>4, RunningPlaysNoPart
  <2> QED BY <1>0, <1>2, <2>5 DEF Inv, TypeOK, IterateIdle, tickerVars
<1>3. CASE ChangeController
  <2>1. PICK c \in Ctl : gc' = EnableController(gc, c)
    BY <1>3 DEF ChangeController
  <2>2. CASE c = gc.current
    BY <1>0, <1>3, <2>1, <2>2
       DEF EnableController, ChangeController, Inv, TypeOK, tickerVars
  <2>3. CASE c # gc.current
    <3>1. gc \in GcRecord /\ gc' = [gc EXCEPT !.next_ctrl = c, !.next = c]
      BY <1>0, <2>1, <2>3 DEF EnableController, Orderly
    <3>2. /\ gc' \in GcRecord
          /\ gc'.next = c /\ gc'.next_ctrl = c /\ gc'.current = gc.current
          /\ gc'.bypass = gc.bypass /\ gc'.ctl = gc.ctl /\ gc'.setup = gc.setup
          /\ gc'.loaded = gc.loaded /\ gc'.returned = gc.returned
          /\ gc'.dangling = gc.dangling
      BY <3>1 DEF GcRecord
    <3>3. Orderly(gc')
      BY <1>0, <2>3, <3>2, GlobalAssumption DEF Orderly
    <3>4. Ready(gc')
      BY <1>0, <3>2 DEF Ready, Fresh
    <3> QED BY <1>0, <1>3, <3>3, <3>4 DEF ChangeController, Inv, TypeOK, tickerVars
  <2> QED BY <2>2, <2>3
<1>4. CASE AskReset
  BY <1>0, <1>4 DEF AskReset, Inv, TypeOK
<1>5. CASE PressStop
  BY <1>0, <1>5 DEF PressStop, Inv, TypeOK
<1>6. CASE PressStepByStep
  BY <1>0, <1>6 DEF PressStepByStep, Inv, TypeOK
<1>7. CASE PressSteps
  BY <1>0, <1>7 DEF PressSteps, Inv, TypeOK
<1>8. CASE UNCHANGED vars
  BY <1>0, <1>8 DEF vars, tickerVars, Inv, TypeOK
<1> QED BY <1>1, <1>2, <1>3, <1>4, <1>5, <1>6, <1>7, <1>8 DEF Next, Iterate

(* Inv holds in every reachable state.                                     *)
THEOREM Invariance == Spec => []Inv
BY InitInv, NextInv, PTL DEF Spec

-----------------------------------------------------------------------------
(* Whatever the order of switches, resets, pauses and failures, a          *)
(* controller that runs was reset and has its plugins loaded, unless it    *)
(* was installed while nothing was running.                                *)
THEOREM RunsPreparedAlways == Spec => []RunsPrepared
<1>1. Inv => RunsPrepared
  BY DEF Inv, Ready, Fresh, RunsPrepared
<1> QED BY <1>1, Invariance, PTL

(* The entries in the log of the running controller are those it should    *)
(* have and refer to what exists: plugins, performance measures and        *)
(* observer pipelines.                                                     *)
THEOREM LogFollowsControllerAlways == Spec => []LogFollowsController
<1>1. Inv => LogFollowsController
  <2> SUFFICES ASSUME Inv PROVE LogFollowsController
    OBVIOUS
  <2>1. gc.current \in Ctl
    BY DEF Inv, Orderly, GcRecord
  <2>2. PluginLogLive
    BY DEF Inv, Ready, Fresh, PluginLogLive
  <2>3. SetupMatchesLoggers
    BY DEF Inv, Orderly, Ready, SetupMatchesLoggers
  <2>4. ObserversLogged
    BY <2>1 DEF Inv, Orderly, ObserversLogged
  <2> QED BY <2>2, <2>3, <2>4 DEF LogFollowsController
<1> QED BY <1>1, Invariance, PTL

(* A pending switch never points to a controller that reset() destroyed:   *)
(* reset() destroys the current one, and EnableController never makes the  *)
(* current one pending.                                                    *)
THEOREM NextIsAliveAlways == Spec => []NextIsAlive
<1>1. Inv => NextIsAlive
  BY DEF Inv, Orderly, NextIsAlive
<1> QED BY <1>1, Invariance, PTL
=============================================================================
