--------------------------- MODULE ThreadedLogger ---------------------------
(***************************************************************************)
(* The threaded policy of mc_rtc::Logger: log() pushes records into a      *)
(* bounded buffer, a writer thread pops and writes them, start() and       *)
(* open() switch to a new file.  Pushing and popping are single steps:     *)
(* CircularBuffer.tla shows that the buffer behaves that way.  log_,       *)
(* valid_ and log_sync_th_run_ are shared without a lock; every access the *)
(* two threads make to them, and every call on the stream log_, is a step. *)
(*                                                                         *)
(* A record is [id, file]: its number, and the file that start() had last  *)
(* opened when it was logged, 0 before the first.  What is handed to the   *)
(* stream is a chunk [part, id, of, in]: of a file's header or of a        *)
(* record, the file it is of, and the file it reaches, 0 if none is open.  *)
(***************************************************************************)
EXTENDS Naturals, Sequences, FiniteSets

CONSTANTS
  Size,        \* capacity of the buffer, 2048 in the code
  MaxRecords,  \* bound on the number of calls of log()
  MaxFiles     \* bound on the number of calls of start()

ASSUME LoggerAssumption ==
  /\ Size \in Nat \ {0} /\ MaxRecords \in Nat /\ MaxFiles \in Nat

VARIABLES
  ctl,      \* control thread: "ready", in start() "waiting", "closed",
            \* "opened", "magic", "headed", then "joining", "gone"
  writer,   \* writer thread: "check", "drain", "size", "data", "sleep",
            \* "exited"
  final,    \* the writer has left its loop for the last drain
  run,      \* log_sync_th_run_
  valid,    \* valid_
  isOpen,   \* log_.is_open()
  current,  \* the number of calls of start(), which names the file
  buffer,   \* data_
  pop,      \* pop_: the record between pop() and the end of fwrite(), or <<>>
  writes,   \* the chunks that log_.write() was given, in order
  logged,   \* the number of calls of log()
  dropped,  \* the ids refused by the full buffer
  failed    \* history: opening a file has failed

vars == <<ctl, writer, final, run, valid, isOpen, current, buffer, pop, writes,
          logged, dropped, failed>>
flags == <<run, valid>>
fileVars == <<isOpen, current, failed>>
queue == <<buffer, pop>>
ghosts == <<logged, dropped>>

Init ==
  /\ ctl = "ready" /\ writer = "check" /\ final = FALSE
  /\ run = TRUE /\ valid = TRUE /\ isOpen = FALSE /\ current = 0
  /\ buffer = <<>> /\ pop = <<>> /\ writes = <<>>
  /\ logged = 0 /\ dropped = {} /\ failed = FALSE

(* log_.write(): the bytes go to whatever log_ has open now.               *)
Hand(part, id, of) ==
  writes' = Append(writes, [part |-> part, id |-> id, of |-> of,
                            in |-> IF isOpen THEN current ELSE 0])

-----------------------------------------------------------------------------
(* The control thread.                                                     *)

(* log(): serialize and write().                                           *)
Log ==
  /\ ctl = "ready" /\ logged < MaxRecords
  /\ logged' = logged + 1
  /\ IF Len(buffer) < Size
     THEN /\ buffer' = Append(buffer, [id |-> logged', file |-> current])
          /\ UNCHANGED dropped
     ELSE /\ dropped' = dropped \cup {logged'}
          /\ UNCHANGED buffer
  /\ UNCHANGED <<ctl, writer, final, flags, fileVars, pop, writes>>

(* start() or open(): initialize() waits only if a file is open.           *)
Start ==
  /\ ctl = "ready" /\ current < MaxFiles
  /\ ctl' = IF isOpen THEN "waiting" ELSE "closed"
  /\ UNCHANGED <<writer, final, flags, fileVars, queue, writes, ghosts>>

(* while(!data_.empty()), then log_.close().                               *)
BugFlushed ==
  /\ ctl = "waiting"
  /\ isOpen' = FALSE
  /\ ctl' = "closed"
  /\ UNCHANGED <<writer, final, flags, current, failed, queue, writes, ghosts>>
Flushed ==
  /\ ctl = "waiting" /\ buffer = <<>>
  /\ isOpen' = FALSE
  /\ ctl' = "closed"
  /\ UNCHANGED <<writer, final, flags, current, failed, queue, writes, ghosts>>

(* LoggerImpl::open(): log_.open(), which may fail ...                     *)
OpenFile ==
  /\ ctl = "closed"
  /\ isOpen' \in BOOLEAN /\ failed' = (failed \/ ~isOpen')
  /\ current' = current + 1
  /\ ctl' = "opened"
  /\ UNCHANGED <<writer, final, flags, queue, writes, ghosts>>

(* ... then the header, in two writes, whether it failed or not.           *)
BugWriteMagic ==
  /\ ctl = "opened" /\ ctl' = "headed"
  /\ Hand("magic", 0, current)
  /\ UNCHANGED <<writer, final, flags, fileVars, queue, ghosts>>
WriteMagic ==
  /\ ctl = "opened" /\ ctl' = "magic"
  /\ Hand("magic", 0, current)
  /\ UNCHANGED <<writer, final, flags, fileVars, queue, ghosts>>
WriteVersion ==
  /\ ctl = "magic" /\ ctl' = "headed"
  /\ Hand("version", 0, current)
  /\ UNCHANGED <<writer, final, flags, fileVars, queue, ghosts>>

(* valid_ follows the outcome, after the new file is in place.             *)
SetValid ==
  /\ ctl = "headed"
  /\ valid' = isOpen
  /\ ctl' = "ready"
  /\ UNCHANGED <<writer, final, run, fileVars, queue, writes, ghosts>>

(* The destructor asks the writer to stop and joins it.                    *)
Destroy ==
  /\ ctl = "ready"
  /\ run' = FALSE
  /\ ctl' = "joining"
  /\ UNCHANGED <<writer, final, valid, fileVars, queue, writes, ghosts>>

Join ==
  /\ ctl = "joining" /\ writer = "exited"
  /\ ctl' = "gone"
  /\ UNCHANGED <<writer, final, flags, fileVars, queue, writes, ghosts>>

-----------------------------------------------------------------------------
(* The writer thread.                                                      *)

(* while(log_sync_th_run_ && valid_), then a last drain.                   *)
BugCheckIgnoresStop ==
  /\ writer = "check" /\ writer' = "drain"
  /\ final' = ~valid
  /\ UNCHANGED <<ctl, flags, fileVars, queue, writes, ghosts>>
BugCheckNeedsFile ==
  /\ writer = "check" /\ writer' = "drain"
  /\ final' = ~(run /\ isOpen)
  /\ UNCHANGED <<ctl, flags, fileVars, queue, writes, ghosts>>
Check ==
  /\ writer = "check" /\ writer' = "drain"
  /\ final' = ~(run /\ valid)
  /\ UNCHANGED <<ctl, flags, fileVars, queue, writes, ghosts>>

(* data_.pop(pop_), in the loop or in the last drain after it.             *)
BugPop ==
  /\ writer = "drain"
  /\ IF buffer # <<>>
     THEN /\ pop' = <<Head(buffer)>>
          /\ writer' = "size"
          /\ UNCHANGED buffer
     ELSE /\ writer' = IF final THEN "exited" ELSE "sleep"
          /\ UNCHANGED queue
  /\ UNCHANGED <<ctl, final, flags, fileVars, writes, ghosts>>
Pop ==
  /\ writer = "drain"
  /\ IF buffer # <<>>
     THEN /\ pop' = <<Head(buffer)>> /\ buffer' = Tail(buffer)
          /\ writer' = "size"
     ELSE /\ writer' = IF final THEN "exited" ELSE "sleep"
          /\ UNCHANGED queue
  /\ UNCHANGED <<ctl, final, flags, fileVars, writes, ghosts>>

(* fwrite(): the size, then the bytes.                                     *)
WriteSize ==
  /\ writer = "size" /\ writer' = "data"
  /\ Hand("size", pop[1].id, pop[1].file)
  /\ UNCHANGED <<ctl, final, flags, fileVars, queue, ghosts>>
WriteData ==
  /\ writer = "data" /\ writer' = "drain"
  /\ Hand("data", pop[1].id, pop[1].file)
  /\ pop' = <<>>
  /\ UNCHANGED <<ctl, final, flags, fileVars, buffer, ghosts>>

Sleep ==
  /\ writer = "sleep" /\ writer' = "check"
  /\ UNCHANGED <<ctl, final, flags, fileVars, queue, writes, ghosts>>

Writer == Check \/ Pop \/ WriteSize \/ WriteData \/ Sleep
Starting == Flushed \/ OpenFile \/ WriteMagic \/ WriteVersion \/ SetValid
Control == Log \/ Start \/ Starting \/ Destroy \/ Join
Next == Writer \/ Control

(* Both threads are scheduled; a start() in progress goes on, but nobody   *)
(* has to call log(), start() or the destructor.                           *)
Spec ==
  /\ Init /\ [][Next]_vars
  /\ WF_vars(Writer)
  /\ WF_vars(Starting \/ Join)

-----------------------------------------------------------------------------
Ids(s) == {s[i].id : i \in DOMAIN s}
Handed(part) == {writes[i].id : i \in {k \in DOMAIN writes : writes[k].part = part}}
Before(M, N) == \A m \in M, n \in N : m < n

(* Where a chunk comes in the order of the records.                        *)
OfRecord == {i \in DOMAIN writes : writes[i].part \in {"size", "data"}}
Rank(c) == 2 * c.id + IF c.part = "data" THEN 1 ELSE 0

(* Every call of log() ends in exactly one place: refused, waiting, in the *)
(* writer's hands, or given to the stream, once, its size before its       *)
(* bytes; and what is given to the stream keeps the order of the calls,    *)
(* across files as well.                                                   *)
Accounted ==
  /\ 1..logged = dropped \cup Ids(buffer) \cup Ids(pop) \cup Handed("data")
  /\ dropped \cap (Ids(buffer) \cup Ids(pop) \cup Handed("size")) = {}
  /\ \A i, j \in DOMAIN buffer : i < j => buffer[i].id < buffer[j].id
  /\ \A i, j \in OfRecord : i < j => Rank(writes[i]) < Rank(writes[j])
  /\ Before(Handed("data"), Ids(pop)) /\ Before(Handed("size") \cup Ids(pop), Ids(buffer))
  /\ Handed("data") \subseteq Handed("size")
  /\ Handed("size") \subseteq Handed("data") \cup Ids(pop)

(* start() waits for the buffer to drain (Logger.cpp:128, "Wait until the  *)
(* previous log is flushed"), which it may have done before the last       *)
(* record is written: so at most one record, the one between pop() and the *)
(* end of fwrite(), can miss its file, with its size or its bytes or both, *)
(* each time the file is switched, as long as every file opens.  Records   *)
(* of before the first file are not counted.                               *)
Strays == {writes[i].id : i \in {k \in OfRecord : writes[k].of > 0
                                                  /\ writes[k].in # writes[k].of}}
Switches == IF ctl = "closed" \/ current = 0 THEN current ELSE current - 1
OneStrayPerSwitch == ~failed => Cardinality(Strays) <= Switches

(* What a stray chunk spoils is the whole file, whose lengths are no more  *)
(* where a reader looks for them.  A file that received none can be read:  *)
(* it is its magic number and version, then the size of a record and its   *)
(* bytes, again and again, up to wherever it ends.                         *)
Chunks(f) == {i \in DOMAIN writes : writes[i].in = f}
Spoilt(f) == \E i \in Chunks(f) : writes[i].of # f
Follows(c, d) ==
  /\ d.part = "version" <=> c.part = "magic"
  /\ d.part = "size" <=> c.part \in {"version", "data"}
  /\ d.part = "data" <=> c.part = "size"
  /\ d.part = "data" => d.id = c.id
Readable(f) ==
  /\ \A i \in Chunks(f) : (\A k \in Chunks(f) : i <= k) => writes[i].part = "magic"
  /\ \A i, j \in Chunks(f) :
       i < j /\ (\A k \in Chunks(f) : k <= i \/ j <= k) => Follows(writes[i], writes[j])
FilesReadable == \A f \in 1..current : Spoilt(f) \/ Readable(f)

(* A start() in progress and a destructor in progress end; a start() in    *)
(* the first case only if every file has opened so far.                    *)
CallsReturn ==
  /\ (ctl = "waiting" /\ ~failed) ~> (ctl = "ready")
  /\ (ctl = "joining") ~> (ctl = "gone")

(* Every record the buffer accepted reaches the stream, while the logger   *)
(* lives as well as when it is destroyed, with the same exception.         *)
Consumed ==
  \A i \in 1..MaxRecords :
    (i \in Ids(buffer)) ~> (i \in Handed("data") \/ failed)
=============================================================================
