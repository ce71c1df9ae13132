------------------------------ MODULE LogKeys ------------------------------
(***************************************************************************)
(* The binary log: mc_rtc::Logger writes a record as the key events since  *)
(* the last record followed by the bare values of its entries, in order;   *)
(* the reader (internal::LogEntry, iterate_binary_log) keeps a list of     *)
(* typed keys, applies the events to it and pairs the i-th value with the  *)
(* i-th key.  Nothing else ties a value to its name or to its type.        *)
(*                                                                         *)
(* Reading is deterministic, so a record is read in the step that writes   *)
(* it.  GUI and start events change no key and are left out.               *)
(***************************************************************************)
EXTENDS Iteration, SequencesExt

CONSTANTS
  Key, T,      \* the names; T is the time entry "t", which start() adds
  LogType,     \* the types of values; T has type TimeType
  TimeType,
  Source,      \* the owners of entries
  Overwrites,  \* the values of addLogEntry's "overwrite" in use
  Recorded,    \* the values of clear's "record" in use
  Restarts,    \* what start() and open() may do: "resume", "plain",
               \* "failed" when the file cannot be opened
  CanDrop,     \* can the buffer be full when a record is pushed?
  MaxEvents,   \* bound on the events between two records
  MaxKeys      \* bound on the keys the reader holds

ASSUME LogAssumption ==
  /\ T \notin Key /\ TimeType \in LogType
  /\ Overwrites \subseteq BOOLEAN /\ Recorded \subseteq BOOLEAN
  /\ Restarts \subseteq {"resume", "plain", "failed"}
  /\ CanDrop \in BOOLEAN /\ MaxEvents \in Nat /\ MaxKeys \in Nat

VARIABLES
  open,     \* log_.is_open()
  entries,  \* log_entries_: [key, type, source]
  events,   \* log_events_: [op, key, type]
  keys,     \* the reader's keysOut for the current file: [key, type]
  written,  \* the keys and types of the values of the last record
  clean     \* history: nothing has been done to the current file that the
            \* events do not tell

keyVars == <<open, entries, events, keys, written, clean>>

Named(k) == {i \in DOMAIN entries : entries[i].key = k}
Columns(es) == [i \in DOMAIN es |-> [key |-> es[i].key, type |-> es[i].type]]
Added(k, t) == [op |-> "added", key |-> k, type |-> t]
Removed(e) == [op |-> "removed", key |-> e.key, type |-> e.type]

-----------------------------------------------------------------------------
(* The reader.                                                             *)
Apply(ks, e) ==
  IF e.op = "added" THEN Append(ks, [key |-> e.key, type |-> e.type])
  ELSE LET hits == {i \in DOMAIN ks : ks[i].key = e.key}
       IN  IF hits = {} THEN ks ELSE RemoveAt(ks, Min(hits))
ApplyAll(ks, evs) == InTurn(Apply, ks, evs)

-----------------------------------------------------------------------------
(* The writer.                                                             *)
TimeEntry == [key |-> T, type |-> TimeType, source |-> T]

(* The first start(): entries may have been added before it.               *)
KeysInit ==
  /\ open = TRUE
  /\ entries = <<TimeEntry>> /\ events = <<Added(T, TimeType)>>
  /\ keys = <<>> /\ written = <<>> /\ clean = TRUE

(* Without the entry find_entry(k) finds, if it finds one.                 *)
Erased(k) == IF Named(k) = {} THEN entries ELSE RemoveAt(entries, Min(Named(k)))

AddLogEntry(k, t, s, overwrite) ==
  /\ Named(k) = {} \/ overwrite
  /\ Len(events) < MaxEvents /\ Len(keys) + Len(events) < MaxKeys
  /\ events' = Append(events, Added(k, t))
  /\ entries' = Append(Erased(k), [key |-> k, type |-> t, source |-> s])
  /\ clean' = (clean /\ Named(k) = {})
  /\ UNCHANGED <<open, keys, written>>

RemoveLogEntry(k) ==
  /\ Named(k) # {}
  /\ Len(events) < MaxEvents
  /\ events' = Append(events, Removed(entries[Min(Named(k))]))
  /\ entries' = Erased(k)
  /\ UNCHANGED <<open, keys, written, clean>>

(* The loops that erase: an entry that is to go leaves a removal behind.   *)
SweepOne(q, e, gone) ==
  IF e \in gone THEN [q EXCEPT !.told = Append(@, Removed(e))]
                ELSE [q EXCEPT !.kept = Append(@, e)]
Sweep(es, evs, gone) ==
  InTurn(LAMBDA q, e : SweepOne(q, e, gone), [kept |-> <<>>, told |-> evs], es)

BugRemoveLogEntries(s) ==
  LET swept == Sweep(entries, events, {e \in ToSet(entries) : e.source = s})
  IN  /\ Len(swept.told) <= MaxEvents
      /\ entries' = swept.kept
      /\ UNCHANGED <<open, events, keys, written, clean>>
RemoveLogEntries(s) ==
  LET swept == Sweep(entries, events, {e \in ToSet(entries) : e.source = s})
  IN  /\ Len(swept.told) <= MaxEvents
      /\ events' = swept.told
      /\ entries' = swept.kept
      /\ UNCHANGED <<open, keys, written, clean>>

(* clear(record) keeps "t" only; without the events "if the log is written *)
(* again it might be invalid" (Logger.h).                                  *)
Clear(record) ==
  LET swept == Sweep(entries, events, {e \in ToSet(entries) : e.key # T})
  IN  /\ Len(swept.told) <= MaxEvents
      /\ events' = IF record THEN swept.told ELSE events
      /\ entries' = swept.kept
      /\ clean' = (clean /\ (record \/ swept.told = events))
      /\ UNCHANGED <<open, keys, written>>

(* A new file: start(resume = true) tells every key again, start() and     *)
(* open() keep the pending events only; "t" is added when it is missing.   *)
Restart(how) ==
  LET missing == IF Named(T) = {} THEN <<TimeEntry>> ELSE <<>>
      told == IF how = "resume"
              THEN [i \in DOMAIN entries |->
                      Added(entries[i].key, entries[i].type)]
              ELSE events
  IN  /\ entries' = entries \o missing
      /\ events' = told \o [i \in DOMAIN missing |-> Added(T, TimeType)]
      /\ open' = TRUE /\ keys' = <<>> /\ written' = <<>>
      /\ clean' = (how = "resume" \/ (clean /\ keys = <<>>))

(* ... or the file does not open: no key is told, and nothing that is      *)
(* logged until the next one reaches a file.                               *)
RestartFails ==
  /\ "failed" \in Restarts
  /\ open' = FALSE /\ keys' = <<>> /\ written' = <<>>
  /\ clean' = (clean /\ keys = <<>>)
  /\ UNCHANGED <<entries, events>>

(* log(): the events are gone whether the buffer takes the record and the  *)
(* stream is open or not.                                                  *)
LogRecord ==
  \E accepted \in BOOLEAN :
    /\ accepted => open
    /\ ~accepted => CanDrop \/ ~open
    /\ events' = <<>>
    /\ keys' = IF accepted THEN ApplyAll(keys, events) ELSE keys
    /\ written' = IF accepted THEN Columns(entries) ELSE written
    /\ clean' = (clean /\ (accepted \/ events = <<>>))
    /\ UNCHANGED <<open, entries>>

KeysNext ==
  \/ \E k \in Key, t \in LogType, s \in Source, o \in Overwrites :
       AddLogEntry(k, t, s, o)
  \/ \E k \in Key \cup {T} : RemoveLogEntry(k)
  \/ \E s \in Source : RemoveLogEntries(s)
  \/ \E record \in Recorded : Clear(record)
  \/ \E how \in Restarts \ {"failed"} : Restart(how)
  \/ RestartFails \/ LogRecord
KeysSpec == KeysInit /\ [][KeysNext]_keyVars

-----------------------------------------------------------------------------
(* The reader can always catch up: what it knows plus the pending events   *)
(* is the list of entries in the order their values will be written, and   *)
(* the last record, read back, gave every value the name and the type it   *)
(* was written with.  Only overwriting an entry, clear(false), a record    *)
(* with events that reached no file and a restart that does not tell the   *)
(* keys of the last file again break it, and a start(resume = true) mends  *)
(* it.                                                                     *)
Decodes ==
  /\ Len(written) <= Len(keys)
  /\ \A i \in DOMAIN written : keys[i] = written[i]
KeysTold == clean => ApplyAll(keys, events) = Columns(entries)
RecordTold == clean => Decodes
ReaderCatchesUp == KeysTold /\ RecordTold

(* "At this point keysOut is up-to-date, data is stored in the             *)
(* corresponding order" (internals/LogEntry.h), whatever of the API of     *)
(* Logger was used.                                                        *)
RecordsDecode == Decodes
=============================================================================
