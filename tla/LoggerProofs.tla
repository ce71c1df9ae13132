---------------------------- MODULE LoggerProofs ----------------------------
(***************************************************************************)
(* The threaded logger, for any capacity of the buffer and any number of   *)
(* records and files.  The order of the records and the places they are in *)
(* are followed apart; what may still go astray is counted with what has;  *)
(* and the last chunk of the open file tells which one comes next.         *)
(*                                                                         *)
(* Then the keys of the binary log, for any number of keys, types and      *)
(* owners: what the reader holds after the pending events is the list of   *)
(* the entries, and it stays so because no two entries have one name.      *)
(***************************************************************************)
EXTENDS ThreadedLogger, LogKeys, Integers, IterationProofs, FiniteSetTheorems,
        SequenceTheorems, TLAPS

Record == [id : Nat, file : Nat]
Part == {"magic", "version", "size", "data"}
Chunk == [part : Part, id : Nat, of : Nat, in : Nat]
Header == {"opened", "magic", "headed"}
Holding == {"size", "data"}

TypeOK ==
  /\ ctl \in {"ready", "waiting", "closed", "joining", "gone"} \cup Header
  /\ writer \in {"check", "drain", "sleep", "exited"} \cup Holding
  /\ isOpen \in BOOLEAN /\ failed \in BOOLEAN
  /\ current \in Nat /\ logged \in Nat
  /\ buffer \in Seq(Record) /\ pop \in Seq(Record) /\ writes \in Seq(Chunk)
  /\ dropped \in SUBSET (1..logged)

(* The writer holds a record exactly between pop() and the end of fwrite().*)
HoldsOne == Len(pop) = IF writer \in Holding THEN 1 ELSE 0

(* The places of a record: it is in one, and given to the stream in two    *)
(* parts.                                                                  *)
Placed == 1..logged = dropped \cup Ids(buffer) \cup Ids(pop) \cup Handed("data")
Apart == dropped \cap (Ids(buffer) \cup Ids(pop) \cup Handed("size")) = {}
SizeOut ==
  Handed("size") = Handed("data") \cup IF writer = "data" THEN Ids(pop) ELSE {}

(* The order: of what waits, of what was given to the stream, and of the   *)
(* two.                                                                    *)
InLine == \A i, j \in DOMAIN buffer : i < j => buffer[i].id < buffer[j].id
PopFirst == Before(Ids(pop), Ids(buffer))
Ranked == \A i, j \in OfRecord : i < j => Rank(writes[i]) < Rank(writes[j])
Ahead ==
  \A i \in OfRecord :
    /\ \A j \in DOMAIN pop :
         Rank(writes[i]) < 2 * pop[j].id + IF writer = "data" THEN 1 ELSE 0
    /\ \A j \in DOMAIN buffer : Rank(writes[i]) < 2 * buffer[j].id

Inv ==
  /\ TypeOK /\ HoldsOne /\ Placed /\ Apart /\ SizeOut
  /\ InLine /\ PopFirst /\ Ranked /\ Ahead

-----------------------------------------------------------------------------
(* Sequences of records and of chunks.                                     *)

(* Appending a record.                                                     *)
LEMMA PushRecord ==
  ASSUME NEW s \in Seq(Record), NEW r \in Record
  PROVE  /\ Append(s, r) \in Seq(Record) /\ Len(Append(s, r)) = Len(s) + 1
         /\ DOMAIN s = 1..Len(s) /\ DOMAIN Append(s, r) = (1..Len(s)) \cup {Len(s) + 1}
         /\ Len(s) \in Nat
         /\ \A i \in 1..Len(s) : Append(s, r)[i] = s[i]
         /\ Append(s, r)[Len(s) + 1] = r
         /\ Ids(Append(s, r)) = Ids(s) \cup {r.id}
<1>1. /\ Append(s, r) \in Seq(Record) /\ Len(Append(s, r)) = Len(s) + 1
      /\ \A i \in 1..Len(s) : Append(s, r)[i] = s[i]
      /\ Append(s, r)[Len(s) + 1] = r
  OBVIOUS
<1>2. Len(s) \in Nat /\ DOMAIN s = 1..Len(s) /\ DOMAIN Append(s, r) = 1..(Len(s) + 1)
  OBVIOUS
<1>3. 1..(Len(s) + 1) = (1..Len(s)) \cup {Len(s) + 1}
  BY <1>2
<1> QED BY <1>1, <1>2, <1>3 DEF Ids

(* log_.write() appends a chunk.                                           *)
LEMMA PushChunk ==
  ASSUME writes \in Seq(Chunk), NEW c \in Chunk, writes' = Append(writes, c)
  PROVE  /\ writes' \in Seq(Chunk) /\ Len(writes) \in Nat
         /\ DOMAIN writes = 1..Len(writes)
         /\ DOMAIN writes' = (1..Len(writes)) \cup {Len(writes) + 1}
         /\ \A i \in 1..Len(writes) : writes'[i] = writes[i]
         /\ writes'[Len(writes) + 1] = c
         /\ Handed("size")' = Handed("size") \cup IF c.part = "size" THEN {c.id} ELSE {}
         /\ Handed("data")' = Handed("data") \cup IF c.part = "data" THEN {c.id} ELSE {}
         /\ OfRecord' = OfRecord \cup IF c.part \in Holding THEN {Len(writes) + 1} ELSE {}
<1> DEFINE n == Len(writes) + 1
<1>1. /\ writes' \in Seq(Chunk) /\ Len(writes) \in Nat
      /\ DOMAIN writes = 1..Len(writes) /\ DOMAIN writes' = 1..n
      /\ \A i \in 1..Len(writes) : writes'[i] = writes[i]
      /\ writes'[n] = c
  OBVIOUS
<1>2. 1..n = (1..Len(writes)) \cup {n} /\ n \notin 1..Len(writes)
  BY <1>1
<1> HIDE DEF n
<1>3. ASSUME NEW part
      PROVE  {writes'[i].id : i \in {k \in DOMAIN writes' : writes'[k].part = part}}
               = Handed(part) \cup IF c.part = part THEN {c.id} ELSE {}
  <2> DEFINE old == {k \in DOMAIN writes : writes[k].part = part}
             more == IF c.part = part THEN {n} ELSE {}
  <2>1. {k \in DOMAIN writes' : writes'[k].part = part} = old \cup more
    BY <1>1, <1>2
  <2>2. \A k \in old : writes'[k].id = writes[k].id
    BY <1>1
  <2>3. Handed(part) = {writes[i].id : i \in old}
    BY DEF Handed
  <2>4. {writes'[i].id : i \in more} = IF c.part = part THEN {c.id} ELSE {}
    BY <1>1
  <2> HIDE DEF old, more
  <2>5. {writes'[i].id : i \in old \cup more}
          = {writes[i].id : i \in old} \cup {writes'[i].id : i \in more}
    BY <2>2
  <2> QED BY <2>1, <2>3, <2>4, <2>5
<1>4. Handed("size")' = Handed("size") \cup IF c.part = "size" THEN {c.id} ELSE {}
  BY <1>3 DEF Handed
<1>5. Handed("data")' = Handed("data") \cup IF c.part = "data" THEN {c.id} ELSE {}
  BY <1>3 DEF Handed
<1>6. OfRecord' = OfRecord \cup IF c.part \in Holding THEN {n} ELSE {}
  BY <1>1, <1>2 DEF OfRecord, Holding
<1> QED BY <1>1, <1>2, <1>4, <1>5, <1>6 DEF n

(* Taking the first record.                                                *)
LEMMA TakeRecord ==
  ASSUME NEW s \in Seq(Record), s # <<>>
  PROVE  /\ Len(s) \in Nat \ {0}
         /\ Head(s) = s[1] /\ Head(s) \in Record
         /\ Tail(s) \in Seq(Record) /\ Len(Tail(s)) = Len(s) - 1
         /\ DOMAIN s = 1..Len(s) /\ DOMAIN Tail(s) = 1..Len(Tail(s))
         /\ \A i \in 1..Len(Tail(s)) : Tail(s)[i] = s[i + 1]
         /\ Ids(s) = Ids(Tail(s)) \cup {Head(s).id}
<1>1. /\ Len(s) \in Nat \ {0}
      /\ Head(s) = s[1] /\ Head(s) \in Record
      /\ Tail(s) \in Seq(Record) /\ Len(Tail(s)) = Len(s) - 1
      /\ \A i \in 1..Len(Tail(s)) : Tail(s)[i] = s[i + 1]
  OBVIOUS
<1>2. DOMAIN s = 1..Len(s) /\ DOMAIN Tail(s) = 1..(Len(s) - 1)
  BY <1>1
<1>3. ASSUME NEW i \in 1..Len(s) PROVE i = 1 \/ i - 1 \in 1..Len(Tail(s))
  BY <1>1
<1>4. ASSUME NEW i \in 1..Len(s) PROVE s[i].id \in Ids(Tail(s)) \cup {Head(s).id}
  <2>1. CASE i = 1
    BY <1>1, <2>1
  <2>2. CASE i - 1 \in 1..Len(Tail(s))
    <3>1. s[i] = Tail(s)[i - 1]
      BY <1>1, <2>2
    <3> QED BY <1>1, <1>2, <2>2, <3>1 DEF Ids
  <2> QED BY <1>3, <2>1, <2>2
<1>5. ASSUME NEW i \in 1..Len(Tail(s)) PROVE Tail(s)[i].id \in Ids(s)
  <2>1. i + 1 \in 1..Len(s)
    BY <1>1
  <2> QED BY <1>1, <1>2, <2>1 DEF Ids
<1>6. Head(s).id \in Ids(s)
  BY <1>1, <1>2 DEF Ids
<1> QED BY <1>1, <1>2, <1>4, <1>5, <1>6 DEF Ids

(* The sequences of no record and of one.                                  *)
LEMMA OneRecord ==
  /\ <<>> \in Seq(Record) /\ Len(<<>>) = 0 /\ Ids(<<>>) = {} /\ DOMAIN <<>> = {}
  /\ \A r \in Record : /\ <<r>> \in Seq(Record) /\ Len(<<r>>) = 1
                       /\ <<r>>[1] = r /\ Ids(<<r>>) = {r.id} /\ DOMAIN <<r>> = {1}
BY DEF Ids

(* The record in the writer's hands.                                       *)
LEMMA HeldRecord ==
  ASSUME TypeOK, HoldsOne
  PROVE  /\ writer \notin Holding => pop = <<>> /\ Ids(pop) = {} /\ DOMAIN pop = {}
         /\ writer \in Holding => /\ DOMAIN pop = {1} /\ pop[1] \in Record
                                  /\ Ids(pop) = {pop[1].id}
<1>1. pop \in Seq(Record) /\ Len(pop) = IF writer \in Holding THEN 1 ELSE 0
  BY DEF TypeOK, HoldsOne
<1>2. CASE writer \notin Holding
  <2>1. pop = <<>>
    BY <1>1, <1>2
  <2> QED BY <1>2, <2>1, OneRecord
<1>3. CASE writer \in Holding
  <2>1. DOMAIN pop = {1} /\ pop[1] \in Record
    BY <1>1, <1>3
  <2> QED BY <1>3, <2>1 DEF Ids
<1> QED BY <1>2, <1>3

(* Everything recorded is the number of a call of log().                   *)
LEMMA IdsBounded ==
  ASSUME Inv
  PROVE  /\ Ids(buffer) \subseteq 1..logged /\ Ids(pop) \subseteq 1..logged
         /\ Handed("size") \subseteq 1..logged /\ Handed("data") \subseteq 1..logged
         /\ DOMAIN buffer = 1..Len(buffer) /\ DOMAIN writes = 1..Len(writes)
         /\ \A i \in DOMAIN buffer : buffer[i].id \in 1..logged /\ buffer[i].id \in Ids(buffer)
         /\ \A i \in DOMAIN pop : pop[i].id \in 1..logged /\ pop[i].id \in Ids(pop)
         /\ \A i \in OfRecord : /\ writes[i].id \in 1..logged
                                /\ writes[i].part \in Holding
                                /\ Rank(writes[i]) \in Nat
                                /\ Rank(writes[i]) <= 2 * logged + 1
<1>1. DOMAIN buffer = 1..Len(buffer) /\ DOMAIN writes = 1..Len(writes) /\ logged \in Nat
  BY DEF Inv, TypeOK
<1>2. /\ \A i \in DOMAIN buffer : buffer[i].id \in Ids(buffer)
      /\ \A i \in DOMAIN pop : pop[i].id \in Ids(pop)
  BY DEF Ids
<1>3. /\ Ids(buffer) \subseteq 1..logged /\ Ids(pop) \subseteq 1..logged
      /\ Handed("data") \subseteq 1..logged
  BY DEF Inv, Placed
<1>4. Handed("size") \subseteq 1..logged
  BY <1>3 DEF Inv, SizeOut
<1>5. ASSUME NEW i \in OfRecord
      PROVE  /\ writes[i].id \in 1..logged /\ writes[i].part \in Holding
             /\ Rank(writes[i]) \in Nat /\ Rank(writes[i]) <= 2 * logged + 1
  <2>1. writes[i].part \in Holding /\ i \in DOMAIN writes
    BY DEF OfRecord, Holding
  <2>2. writes[i].id \in Handed("size") \cup Handed("data")
    BY <2>1 DEF Handed, Holding
  <2>3. writes[i].id \in 1..logged
    BY <1>3, <1>4, <2>2
  <2>4. CASE writes[i].part = "data"
    BY <1>1, <2>1, <2>3, <2>4 DEF Rank
  <2>5. CASE writes[i].part # "data"
    BY <1>1, <2>1, <2>3, <2>5 DEF Rank
  <2> QED BY <2>4, <2>5
<1> QED BY <1>1, <1>2, <1>3, <1>4, <1>5

-----------------------------------------------------------------------------
(* log() files its record under a new number, the largest.                 *)
LEMMA LogKeeps == Inv /\ Log => Inv'
<1> SUFFICES ASSUME Inv, Log PROVE Inv'
  OBVIOUS
<1> DEFINE r == [id |-> logged + 1, file |-> current]
<1>1. /\ logged' = logged + 1
      /\ UNCHANGED <<ctl, writer, isOpen, current, pop, writes, failed>>
  BY DEF Log, fileVars
<1>2. r \in Record /\ r.id = logged + 1 /\ logged \in Nat /\ current \in Nat
  BY DEF Inv, TypeOK, Record
<1>3. buffer \in Seq(Record) /\ dropped \in SUBSET (1..logged)
  BY DEF Inv, TypeOK
<1>4. 1..(logged + 1) = (1..logged) \cup {logged + 1} /\ logged + 1 \notin 1..logged
  BY <1>2
<1>6. Handed("size")' = Handed("size") /\ Handed("data")' = Handed("data")
      /\ OfRecord' = OfRecord
  BY <1>1 DEF Handed, OfRecord
<1>5. HoldsOne' /\ SizeOut' /\ Ranked'
  BY <1>1, <1>6 DEF Inv, HoldsOne, SizeOut, Ranked
<1> HIDE DEF r
<1>7. CASE Len(buffer) < Size
  <2>1. buffer' = Append(buffer, r) /\ dropped' = dropped
    BY <1>1, <1>7 DEF Log, r
  <2>2. /\ buffer' \in Seq(Record) /\ Len(buffer) \in Nat
        /\ DOMAIN buffer = 1..Len(buffer)
        /\ DOMAIN buffer' = (1..Len(buffer)) \cup {Len(buffer) + 1}
        /\ \A i \in 1..Len(buffer) : buffer'[i] = buffer[i]
        /\ buffer'[Len(buffer) + 1] = r
        /\ Ids(buffer') = Ids(buffer) \cup {r.id}
    BY <1>2, <1>3, <2>1, PushRecord
  <2>3. TypeOK'
    BY <1>1, <1>2, <1>3, <2>1, <2>2 DEF Inv, TypeOK
  <2>4. InLine'
    <3> SUFFICES ASSUME NEW i \in DOMAIN buffer', NEW j \in DOMAIN buffer', i < j
                 PROVE  buffer'[i].id < buffer'[j].id
      BY DEF InLine
    <3>1. i \in 1..Len(buffer)
      BY <2>2
    <3>2. CASE j \in 1..Len(buffer)
      BY <2>2, <3>1, <3>2 DEF Inv, InLine
    <3>3. CASE j = Len(buffer) + 1
      <4>1. buffer[i].id \in 1..logged
        BY <2>2, <3>1, IdsBounded
      <4> QED BY <1>2, <2>2, <3>1, <3>3, <4>1
    <3> QED BY <2>2, <3>2, <3>3
  <2>5. PopFirst'
    <3>1. Ids(pop') = Ids(pop) /\ Ids(pop) \subseteq 1..logged
      BY <1>1, IdsBounded
    <3> QED BY <1>2, <2>2, <3>1 DEF Inv, PopFirst, Before
  <2>6. Placed' /\ Apart'
    <3>1. Placed'
      BY <1>1, <1>2, <1>4, <1>6, <2>1, <2>2 DEF Inv, Placed
    <3>2. r.id \notin dropped
      BY <1>2, <1>3
    <3> QED BY <1>1, <1>6, <2>1, <2>2, <3>1, <3>2 DEF Inv, Apart
  <2>7. Ahead'
    <3> SUFFICES ASSUME NEW i \in OfRecord
                 PROVE  /\ \A j \in DOMAIN pop :
                             Rank(writes[i]) < 2 * pop[j].id + IF writer = "data" THEN 1 ELSE 0
                        /\ \A j \in DOMAIN buffer' : Rank(writes[i]) < 2 * buffer'[j].id
      BY <1>1, <1>6 DEF Ahead, Rank
    <3>1. Rank(writes[i]) \in Nat /\ Rank(writes[i]) <= 2 * logged + 1
      BY IdsBounded
    <3>2. Rank(writes[i]) < 2 * (logged + 1)
      BY <1>2, <3>1
    <3> QED BY <1>2, <2>2, <3>2 DEF Inv, Ahead
  <2> QED BY <1>5, <2>3, <2>4, <2>5, <2>6, <2>7 DEF Inv
<1>8. CASE ~(Len(buffer) < Size)
  <2>1. buffer' = buffer /\ dropped' = dropped \cup {logged + 1}
    BY <1>1, <1>8 DEF Log
  <2>2. TypeOK'
    BY <1>1, <1>2, <1>3, <1>4, <2>1 DEF Inv, TypeOK
  <2>3. InLine' /\ PopFirst' /\ Ahead'
    BY <1>1, <1>6, <2>1 DEF Inv, InLine, PopFirst, Ahead, Before, Ids, Rank
  <2>4. Placed'
    BY <1>1, <1>4, <1>6, <2>1 DEF Inv, Placed
  <2>5. Apart'
    BY <1>1, <1>4, <1>6, <2>1, IdsBounded DEF Inv, Apart
  <2> QED BY <1>5, <2>2, <2>3, <2>4, <2>5 DEF Inv
<1> QED BY <1>7, <1>8

(* pop() moves the oldest record of the buffer to the writer's hands.      *)
LEMMA PopKeeps == Inv /\ Pop => Inv'
<1> SUFFICES ASSUME Inv, Pop PROVE Inv'
  OBVIOUS
<1>1. /\ writer = "drain"
      /\ UNCHANGED <<ctl, isOpen, current, writes, logged, dropped, failed>>
  BY DEF Pop, fileVars, ghosts
<1>2. buffer \in Seq(Record) /\ pop = <<>> /\ Ids(pop) = {} /\ DOMAIN pop = {}
      /\ pop \in Seq(Record)
  <2>1. buffer \in Seq(Record) /\ pop \in Seq(Record) /\ writer \notin Holding
    BY <1>1 DEF Inv, TypeOK, Holding
  <2> QED BY <2>1, HeldRecord DEF Inv
<1>3. /\ Handed("size")' = Handed("size") /\ Handed("data")' = Handed("data")
      /\ OfRecord' = OfRecord /\ Ranked'
  BY <1>1 DEF Handed, OfRecord, Inv, Ranked
<1>4. CASE buffer = <<>>
  <2>1. buffer' = buffer /\ pop' = pop /\ writer' \in {"sleep", "exited"}
    BY <1>1, <1>4 DEF Pop, queue
  <2>2. TypeOK'
    BY <1>1, <2>1 DEF Inv, TypeOK
  <2>3. HoldsOne' /\ SizeOut'
    BY <1>1, <1>2, <1>3, <2>1 DEF Inv, HoldsOne, SizeOut, Holding
  <2>4. Placed' /\ Apart' /\ InLine' /\ PopFirst'
    BY <1>1, <1>3, <2>1 DEF Inv, Placed, Apart, InLine, PopFirst
  <2>5. Ahead'
    BY <1>1, <1>2, <1>3, <2>1 DEF Inv, Ahead, Rank
  <2> QED BY <1>3, <2>2, <2>3, <2>4, <2>5 DEF Inv
<1>5. CASE buffer # <<>>
  <2> DEFINE r == Head(buffer)
  <2>1. buffer' = Tail(buffer) /\ pop' = <<r>> /\ writer' = "size"
    BY <1>1, <1>5 DEF Pop
  <2>2. /\ Len(buffer) \in Nat \ {0} /\ r = buffer[1] /\ r \in Record
        /\ buffer' \in Seq(Record) /\ Len(buffer') = Len(buffer) - 1
        /\ DOMAIN buffer = 1..Len(buffer) /\ DOMAIN buffer' = 1..Len(buffer')
        /\ \A i \in 1..Len(buffer') : buffer'[i] = buffer[i + 1]
        /\ Ids(buffer) = Ids(buffer') \cup {r.id}
    BY <1>2, <1>5, <2>1, TakeRecord
  <2>3. /\ pop' \in Seq(Record) /\ Len(pop') = 1 /\ pop'[1] = r /\ Ids(pop') = {r.id}
        /\ DOMAIN pop' = {1}
    BY <2>1, <2>2, OneRecord
  <2> HIDE DEF r
  <2>4. \A i \in 1..Len(buffer') : i + 1 \in 1..Len(buffer) /\ i + 1 > 1
    BY <2>2
  <2>5. TypeOK'
    BY <1>1, <2>1, <2>2, <2>3 DEF Inv, TypeOK, Holding
  <2>6. HoldsOne' /\ SizeOut'
    BY <1>1, <1>3, <2>1, <2>3 DEF Inv, HoldsOne, SizeOut, Holding
  <2>7. InLine'
    <3> SUFFICES ASSUME NEW i \in 1..Len(buffer'), NEW j \in 1..Len(buffer'), i < j
                 PROVE  buffer'[i].id < buffer'[j].id
      BY <2>2 DEF InLine
    <3>1. i + 1 \in 1..Len(buffer) /\ j + 1 \in 1..Len(buffer) /\ i + 1 < j + 1
      BY <2>2
    <3> QED BY <2>2, <3>1 DEF Inv, InLine
  <2>8. PopFirst'
    <3>1. 1 \in DOMAIN buffer
      BY <2>2
    <3>2. ASSUME NEW i \in DOMAIN buffer' PROVE r.id < buffer'[i].id
      BY <2>2, <2>4, <3>1 DEF Inv, InLine
    <3> QED BY <2>3, <3>2 DEF PopFirst, Before, Ids
  <2>9. Placed' /\ Apart'
    BY <1>1, <1>2, <1>3, <2>2, <2>3 DEF Inv, Placed, Apart
  <2>10. Ahead'
    <3> SUFFICES ASSUME NEW i \in OfRecord
                 PROVE  /\ Rank(writes[i]) < 2 * r.id + 0
                        /\ \A j \in DOMAIN buffer' : Rank(writes[i]) < 2 * buffer'[j].id
      BY <1>1, <1>3, <2>1, <2>3 DEF Ahead, Rank
    <3>1. \A j \in DOMAIN buffer : Rank(writes[i]) < 2 * buffer[j].id
      BY DEF Inv, Ahead
    <3>2. Rank(writes[i]) < 2 * r.id
      BY <2>2, <3>1
    <3>3. \A j \in DOMAIN buffer' : Rank(writes[i]) < 2 * buffer'[j].id
      BY <2>2, <2>4, <3>1
    <3>4. r.id \in Nat
      BY <2>2 DEF Record
    <3> QED BY <3>2, <3>3, <3>4
  <2> QED BY <1>3, <2>5, <2>6, <2>7, <2>8, <2>9, <2>10 DEF Inv
<1> QED BY <1>4, <1>5

(* fwrite() hands the size of the record to the stream ...                 *)
LEMMA SizeKeeps == Inv /\ WriteSize => Inv'
<1> SUFFICES ASSUME Inv, WriteSize PROVE Inv'
  OBVIOUS
<1> DEFINE p == pop[1]
           c == [part |-> "size", id |-> p.id, of |-> p.file,
                 in |-> IF isOpen THEN current ELSE 0]
           n == Len(writes) + 1
<1>1. /\ writer = "size" /\ writer' = "data" /\ writes' = Append(writes, c)
      /\ UNCHANGED <<ctl, isOpen, current, buffer, pop, logged, dropped, failed>>
  BY DEF WriteSize, Hand, fileVars, queue, ghosts
<1>2. DOMAIN pop = {1} /\ p \in Record /\ Ids(pop) = {p.id}
  BY <1>1, HeldRecord DEF Inv, Holding
<1>3. c \in Chunk /\ c.id = p.id /\ c.part = "size" /\ p.id \in Nat
  BY <1>2 DEF Inv, TypeOK, Chunk, Part, Record
<1> HIDE DEF c
<1>4. /\ writes' \in Seq(Chunk) /\ Len(writes) \in Nat /\ DOMAIN writes = 1..Len(writes)
      /\ \A i \in 1..Len(writes) : writes'[i] = writes[i]
      /\ writes'[n] = c
      /\ Handed("size")' = Handed("size") \cup {p.id}
      /\ Handed("data")' = Handed("data")
      /\ OfRecord' = OfRecord \cup {n}
  BY <1>1, <1>3, PushChunk DEF Inv, TypeOK, Holding
<1>5. Rank(c) = 2 * p.id
  BY <1>3 DEF Rank
<1>6. \A i \in OfRecord : i \in 1..Len(writes) /\ Rank(writes[i]) < 2 * p.id
                          /\ Rank(writes'[i]) = Rank(writes[i])
  <2> SUFFICES ASSUME NEW i \in OfRecord
               PROVE  i \in 1..Len(writes) /\ Rank(writes[i]) < 2 * p.id
                      /\ Rank(writes'[i]) = Rank(writes[i])
    OBVIOUS
  <2>1. i \in 1..Len(writes)
    BY <1>4 DEF OfRecord
  <2>2. Rank(writes[i]) < 2 * p.id + 0
    BY <1>1, <1>2 DEF Inv, Ahead
  <2> QED BY <1>3, <1>4, <2>1, <2>2
<1> HIDE DEF p, n
<1>7. TypeOK' /\ HoldsOne'
  BY <1>1, <1>4 DEF Inv, TypeOK, HoldsOne, Holding
<1>8. Placed' /\ InLine' /\ PopFirst'
  BY <1>1, <1>4 DEF Inv, Placed, InLine, PopFirst
<1>9. Apart' /\ SizeOut'
  BY <1>1, <1>2, <1>4 DEF Inv, Apart, SizeOut
<1>10. Ranked'
  <2> SUFFICES ASSUME NEW i \in OfRecord', NEW j \in OfRecord', i < j
               PROVE  Rank(writes'[i]) < Rank(writes'[j])
    BY DEF Ranked
  <2>1. i \in OfRecord
    BY <1>4, <1>6 DEF n
  <2>2. CASE j \in OfRecord
    BY <1>6, <2>1, <2>2 DEF Inv, Ranked
  <2>3. CASE j = n
    BY <1>4, <1>5, <1>6, <2>1, <2>3
  <2> QED BY <1>4, <2>2, <2>3
<1>11. Ahead'
  <2> SUFFICES ASSUME NEW i \in OfRecord'
               PROVE  /\ Rank(writes'[i]) < 2 * p.id + 1
                      /\ \A j \in DOMAIN buffer : Rank(writes'[i]) < 2 * buffer[j].id
    BY <1>1, <1>2 DEF Ahead, p
  <2>1. CASE i \in OfRecord
    <3>1. Rank(writes'[i]) = Rank(writes[i]) /\ Rank(writes[i]) < 2 * p.id
      BY <1>6, <2>1
    <3>2. Rank(writes[i]) \in Nat
      BY <2>1, IdsBounded
    <3> QED BY <1>3, <2>1, <3>1, <3>2 DEF Inv, Ahead
  <2>2. CASE i = n
    <3>1. \A j \in DOMAIN buffer : p.id < buffer[j].id /\ buffer[j].id \in Nat
      <4>1. \A j \in DOMAIN buffer : buffer[j].id \in Ids(buffer) /\ buffer[j].id \in 1..logged
        BY IdsBounded
      <4> QED BY <1>2, <4>1 DEF Inv, PopFirst, Before
    <3> QED BY <1>3, <1>4, <1>5, <2>2, <3>1
  <2> QED BY <1>4, <2>1, <2>2
<1> QED BY <1>7, <1>8, <1>9, <1>10, <1>11 DEF Inv

(* ... and then the bytes.                                                 *)
LEMMA DataKeeps == Inv /\ WriteData => Inv'
<1> SUFFICES ASSUME Inv, WriteData PROVE Inv'
  OBVIOUS
<1> DEFINE p == pop[1]
           c == [part |-> "data", id |-> p.id, of |-> p.file,
                 in |-> IF isOpen THEN current ELSE 0]
           n == Len(writes) + 1
<1>1. /\ writer = "data" /\ writer' = "drain" /\ writes' = Append(writes, c)
      /\ pop' = <<>>
      /\ UNCHANGED <<ctl, isOpen, current, buffer, logged, dropped, failed>>
  BY DEF WriteData, Hand, fileVars, ghosts
<1>2. DOMAIN pop = {1} /\ p \in Record /\ Ids(pop) = {p.id}
  BY <1>1, HeldRecord DEF Inv, Holding
<1>3. c \in Chunk /\ c.id = p.id /\ c.part = "data" /\ p.id \in Nat
  BY <1>2 DEF Inv, TypeOK, Chunk, Part, Record
<1>4. pop' \in Seq(Record) /\ Len(pop') = 0 /\ Ids(pop') = {} /\ DOMAIN pop' = {}
  BY <1>1, OneRecord
<1> HIDE DEF c
<1>5. /\ writes' \in Seq(Chunk) /\ Len(writes) \in Nat /\ DOMAIN writes = 1..Len(writes)
      /\ \A i \in 1..Len(writes) : writes'[i] = writes[i]
      /\ writes'[n] = c
      /\ Handed("size")' = Handed("size")
      /\ Handed("data")' = Handed("data") \cup {p.id}
      /\ OfRecord' = OfRecord \cup {n}
  BY <1>1, <1>3, PushChunk DEF Inv, TypeOK, Holding
<1>6. Rank(c) = 2 * p.id + 1
  BY <1>3 DEF Rank
<1>7. \A i \in OfRecord : i \in 1..Len(writes) /\ Rank(writes[i]) < 2 * p.id + 1
                          /\ Rank(writes'[i]) = Rank(writes[i])
  <2> SUFFICES ASSUME NEW i \in OfRecord
               PROVE  i \in 1..Len(writes) /\ Rank(writes[i]) < 2 * p.id + 1
                      /\ Rank(writes'[i]) = Rank(writes[i])
    OBVIOUS
  <2>1. i \in 1..Len(writes)
    BY <1>5 DEF OfRecord
  <2>2. Rank(writes[i]) < 2 * p.id + 1
    BY <1>1, <1>2 DEF Inv, Ahead
  <2> QED BY <1>5, <2>1, <2>2
<1> HIDE DEF p, n
<1>8. TypeOK' /\ HoldsOne'
  BY <1>1, <1>4, <1>5 DEF Inv, TypeOK, HoldsOne, Holding
<1>9. Placed' /\ InLine' /\ PopFirst'
  BY <1>1, <1>2, <1>4, <1>5 DEF Inv, Placed, InLine, PopFirst, Before
<1>10. Apart' /\ SizeOut'
  <2>1. Handed("size") = Handed("data") \cup {p.id}
    BY <1>1, <1>2 DEF Inv, SizeOut
  <2>2. SizeOut'
    BY <1>1, <1>5, <2>1 DEF SizeOut
  <2>3. Apart'
    BY <1>1, <1>4, <1>5 DEF Inv, Apart
  <2> QED BY <2>2, <2>3
<1>11. Ranked'
  <2> SUFFICES ASSUME NEW i \in OfRecord', NEW j \in OfRecord', i < j
               PROVE  Rank(writes'[i]) < Rank(writes'[j])
    BY DEF Ranked
  <2>1. i \in OfRecord
    BY <1>5, <1>7 DEF n
  <2>2. CASE j \in OfRecord
    BY <1>7, <2>1, <2>2 DEF Inv, Ranked
  <2>3. CASE j = n
    BY <1>5, <1>6, <1>7, <2>1, <2>3
  <2> QED BY <1>5, <2>2, <2>3
<1>12. Ahead'
  <2> SUFFICES ASSUME NEW i \in OfRecord', NEW j \in DOMAIN buffer
               PROVE  Rank(writes'[i]) < 2 * buffer[j].id
    BY <1>1, <1>4 DEF Ahead
  <2>1. CASE i \in OfRecord
    BY <1>7, <2>1 DEF Inv, Ahead
  <2>2. CASE i = n
    <3>1. buffer[j].id \in Ids(buffer) /\ buffer[j].id \in 1..logged
      BY IdsBounded
    <3>2. p.id < buffer[j].id /\ buffer[j].id \in Nat
      BY <1>2, <3>1 DEF Inv, PopFirst, Before
    <3> QED BY <1>3, <1>5, <1>6, <2>2, <3>2
  <2> QED BY <1>5, <2>1, <2>2
<1> QED BY <1>8, <1>9, <1>10, <1>11, <1>12 DEF Inv

(* The header of a file is no record's.                                    *)
LEMMA HeaderKeeps == Inv /\ (WriteMagic \/ WriteVersion) => Inv'
<1> SUFFICES ASSUME Inv, WriteMagic \/ WriteVersion PROVE Inv'
  OBVIOUS
<1>1. PICK part \in {"magic", "version"} : Hand(part, 0, current)
  BY DEF WriteMagic, WriteVersion
<1> DEFINE c == [part |-> part, id |-> 0, of |-> current,
                 in |-> IF isOpen THEN current ELSE 0]
<1>2. /\ ctl' \in Header /\ writes' = Append(writes, c)
      /\ UNCHANGED <<writer, isOpen, current, buffer, pop, logged, dropped, failed>>
  BY <1>1 DEF WriteMagic, WriteVersion, Hand, fileVars, queue, ghosts, Header
<1>3. c \in Chunk /\ c.part \notin Holding
  BY DEF Inv, TypeOK, Chunk, Part, Holding
<1> HIDE DEF c
<1>4. /\ writes' \in Seq(Chunk) /\ DOMAIN writes = 1..Len(writes)
      /\ \A i \in 1..Len(writes) : writes'[i] = writes[i]
      /\ Handed("size")' = Handed("size")
      /\ Handed("data")' = Handed("data")
      /\ OfRecord' = OfRecord
  BY <1>2, <1>3, PushChunk DEF Inv, TypeOK, Holding
<1>5. \A i \in OfRecord : writes'[i] = writes[i]
  BY <1>4 DEF OfRecord
<1>6. TypeOK' /\ HoldsOne'
  BY <1>2, <1>4 DEF Inv, TypeOK, HoldsOne
<1>7. Placed' /\ Apart' /\ SizeOut' /\ InLine' /\ PopFirst'
  BY <1>2, <1>4 DEF Inv, Placed, Apart, SizeOut, InLine, PopFirst
<1>8. Ranked' /\ Ahead'
  BY <1>2, <1>4, <1>5 DEF Inv, Ranked, Ahead
<1> QED BY <1>6, <1>7, <1>8 DEF Inv

(* The steps that leave the records and the stream alone.                  *)
LEMMA RecordsKept ==
  ASSUME Inv, UNCHANGED <<buffer, pop, writes, logged, dropped>>, TypeOK',
         writer' = writer \/ {writer, writer'} \cap Holding = {}
  PROVE  Inv'
<1>1. /\ Handed("size")' = Handed("size") /\ Handed("data")' = Handed("data")
      /\ OfRecord' = OfRecord
  BY DEF Handed, OfRecord
<1>2. HoldsOne'
  BY DEF Inv, HoldsOne
<1>3. Placed' /\ Apart' /\ InLine' /\ PopFirst' /\ Ranked'
  BY <1>1 DEF Inv, Placed, Apart, InLine, PopFirst, Ranked
<1>4. SizeOut' /\ Ahead'
  BY <1>1 DEF Inv, SizeOut, Ahead, Holding
<1> QED BY <1>2, <1>3, <1>4 DEF Inv

(* The other steps of either thread.                                       *)
LEMMA OthersKeep ==
  Inv /\ (Check \/ Sleep \/ Start \/ Flushed \/ OpenFile \/ SetValid \/ Destroy \/ Join)
    => Inv'
<1> SUFFICES ASSUME Inv, Check \/ Sleep \/ Start \/ Flushed \/ OpenFile \/ SetValid
                         \/ Destroy \/ Join
             PROVE  Inv'
  OBVIOUS
<1>1. CASE Check \/ Sleep
  <2>1. /\ writer \in {"check", "sleep"} /\ writer' \in {"check", "drain"}
        /\ UNCHANGED <<ctl, isOpen, current, buffer, pop, writes, logged, dropped, failed>>
    BY <1>1 DEF Check, Sleep, fileVars, queue, ghosts
  <2>2. TypeOK'
    BY <2>1 DEF Inv, TypeOK
  <2> QED BY <2>1, <2>2, RecordsKept DEF Holding
<1>2. CASE Start \/ Flushed \/ OpenFile \/ SetValid \/ Destroy \/ Join
  <2>1. UNCHANGED <<writer, buffer, pop, writes, logged, dropped>>
    BY <1>2 DEF Start, Flushed, OpenFile, SetValid, Destroy, Join, queue, ghosts
  <2>2. /\ ctl' \in {"ready", "waiting", "closed", "joining", "gone"} \cup Header
        /\ current' \in {current, current + 1}
        /\ isOpen' \in BOOLEAN /\ failed' \in BOOLEAN
    BY <1>2 DEF Start, Flushed, OpenFile, SetValid, Destroy, Join, fileVars, Header,
                Inv, TypeOK
  <2>3. TypeOK'
    BY <2>1, <2>2 DEF Inv, TypeOK
  <2> QED BY <2>1, <2>3, RecordsKept
<1> QED BY <1>1, <1>2

(* The initial state.                                                      *)
LEMMA InitInv == Init => Inv
<1> SUFFICES ASSUME Init PROVE Inv
  OBVIOUS
<1>1. /\ ctl = "ready" /\ writer = "check" /\ isOpen = FALSE /\ current = 0
      /\ buffer = <<>> /\ pop = <<>> /\ writes = <<>>
      /\ logged = 0 /\ dropped = {} /\ failed = FALSE
  BY DEF Init
<1>2. Len(pop) = 0 /\ DOMAIN buffer = {} /\ DOMAIN pop = {} /\ DOMAIN writes = {}
  BY <1>1
<1>3. TypeOK
  <2>1. buffer \in Seq(Record) /\ pop \in Seq(Record) /\ writes \in Seq(Chunk)
    BY <1>1
  <2>2. dropped \in SUBSET (1..logged) /\ logged \in Nat
    BY <1>1
  <2> QED BY <1>1, <2>1, <2>2 DEF TypeOK
<1>4. HoldsOne
  BY <1>1, <1>2 DEF HoldsOne, Holding
<1>5. Ids(buffer) = {} /\ Ids(pop) = {} /\ Handed("size") = {} /\ Handed("data") = {}
      /\ OfRecord = {}
  BY <1>2 DEF Ids, Handed, OfRecord
<1>6. Placed /\ Apart /\ SizeOut
  BY <1>1, <1>5 DEF Placed, Apart, SizeOut
<1>7. InLine /\ PopFirst /\ Ranked /\ Ahead
  BY <1>2, <1>5 DEF InLine, PopFirst, Before, Ranked, Ahead
<1> QED BY <1>3, <1>4, <1>6, <1>7 DEF Inv

(* Every step keeps the invariant.                                         *)
LEMMA NextInv == Inv /\ [Next]_vars => Inv'
<1> SUFFICES ASSUME Inv, [Next]_vars PROVE Inv'
  OBVIOUS
<1>1. CASE Next
  BY <1>1, LogKeeps, PopKeeps, SizeKeeps, DataKeeps, HeaderKeeps, OthersKeep
     DEF Next, Writer, Control, Starting
<1>2. CASE UNCHANGED vars
  <2>1. UNCHANGED <<ctl, writer, isOpen, current, buffer, pop, writes, logged, dropped, failed>>
    BY <1>2 DEF vars
  <2>2. TypeOK'
    BY <2>1 DEF Inv, TypeOK
  <2> QED BY <2>1, <2>2, RecordsKept
<1> QED BY <1>1, <1>2

(* The records are where they should be, in every reachable state.         *)
THEOREM Invariance == Spec => []Inv
BY InitInv, NextInv, PTL DEF Spec

(* Every call of log() ends in one place, its size and its bytes are given *)
(* to the stream once and in order, whatever the capacity and however the  *)
(* threads interleave.                                                     *)
THEOREM AccountedAlways == Spec => []Accounted
<1>1. Inv => Accounted
  <2> SUFFICES ASSUME Inv PROVE Accounted
    OBVIOUS
  <2>1. Before(Handed("data"), Ids(pop))
    <3> SUFFICES ASSUME NEW i \in DOMAIN writes, writes[i].part = "data",
                        NEW j \in DOMAIN pop
                 PROVE  writes[i].id < pop[j].id
      BY DEF Before, Handed, Ids
    <3>1. i \in OfRecord
      BY DEF OfRecord
    <3>2. writes[i].id \in 1..logged /\ pop[j].id \in 1..logged /\ logged \in Nat
      BY <3>1, IdsBounded DEF Inv, TypeOK
    <3>3. 2 * writes[i].id + 1 < 2 * pop[j].id + IF writer = "data" THEN 1 ELSE 0
      BY <3>1 DEF Inv, Ahead, Rank
    <3>4. writes[i].id \in Nat /\ pop[j].id \in Nat
      BY <3>2
    <3> QED BY <3>3, <3>4
  <2>2. Before(Handed("size"), Ids(buffer))
    <3> SUFFICES ASSUME NEW i \in DOMAIN writes, writes[i].part = "size",
                        NEW j \in DOMAIN buffer
                 PROVE  writes[i].id < buffer[j].id
      BY DEF Before, Handed, Ids
    <3>1. i \in OfRecord
      BY DEF OfRecord
    <3>2. writes[i].id \in 1..logged /\ buffer[j].id \in 1..logged /\ logged \in Nat
      BY <3>1, IdsBounded DEF Inv, TypeOK
    <3>3. 2 * writes[i].id + 0 < 2 * buffer[j].id
      BY <3>1 DEF Inv, Ahead, Rank
    <3>4. writes[i].id \in Nat /\ buffer[j].id \in Nat
      BY <3>2
    <3> QED BY <3>3, <3>4
  <2>3. Before(Handed("size") \cup Ids(pop), Ids(buffer))
    BY <2>2 DEF Inv, PopFirst, Before
  <2>4. Handed("data") \subseteq Handed("size") /\ Handed("size") \subseteq Handed("data") \cup Ids(pop)
    BY DEF Inv, SizeOut
  <2> QED BY <2>1, <2>3, <2>4 DEF Accounted, Inv, Placed, Apart, InLine, Ranked
<1> QED BY <1>1, Invariance, PTL

-----------------------------------------------------------------------------
(* What goes astray.  While every file opens: a stream is open but in      *)
(* start(), what waits in the buffer belongs to it or to no file, and to   *)
(* none while start() switches.                                            *)
InStep ==
  ~failed =>
    /\ isOpen <=> (current > 0 /\ ctl # "closed")
    /\ \A i \in DOMAIN buffer : buffer[i].file \in {0, current}
    /\ ctl = "waiting" => isOpen
    /\ ctl \in {"closed"} \cup Header => \A i \in DOMAIN buffer : buffer[i].file = 0

(* The record the writer holds, if it is to miss its file.                 *)
Pending ==
  {pop[i].id : i \in {k \in DOMAIN pop : pop[k].file > 0
                                         /\ (~isOpen \/ pop[k].file # current)}}
StrayBound == ~failed => Cardinality(Strays \cup Pending) <= Switches
StrayInv == InStep /\ StrayBound

(* What can go astray is finite.                                           *)
LEMMA AstrayFinite ==
  ASSUME Inv
  PROVE  IsFiniteSet(Strays \cup Pending) /\ Cardinality(Strays \cup Pending) \in Nat
<1>1. IsFiniteSet(1..logged)
  BY FS_Interval DEF Inv, TypeOK
<1>2. Strays \cup Pending \in SUBSET (1..logged)
  BY IdsBounded DEF Strays, Pending
<1>3. IsFiniteSet(Strays \cup Pending)
  BY <1>1, <1>2, FS_Subset
<1> QED BY <1>3, FS_CardinalityType

(* log() and pop() strand nothing.                                         *)
LEMMA QueueStrays == Inv /\ StrayInv /\ (Log \/ Pop) => StrayInv'
<1> SUFFICES ASSUME Inv, StrayInv, Log \/ Pop PROVE StrayInv'
  OBVIOUS
<1>1. UNCHANGED <<ctl, isOpen, current, writes, failed>>
  BY DEF Log, Pop, fileVars
<1>2. Strays' = Strays /\ Switches' = Switches
  BY <1>1 DEF Strays, Switches, OfRecord
<1>3. buffer \in Seq(Record) /\ current \in Nat
  BY DEF Inv, TypeOK
<1>4. CASE Log
  <2> DEFINE r == [id |-> logged + 1, file |-> current]
  <2>1. pop' = pop /\ ctl = "ready" /\ (buffer' = buffer \/ buffer' = Append(buffer, r))
    BY <1>4 DEF Log
  <2>2. r \in Record /\ r.file = current
    BY <1>3 DEF Inv, TypeOK, Record
  <2> HIDE DEF r
  <2>3. \A i \in DOMAIN buffer' : \/ i \in DOMAIN buffer /\ buffer'[i] = buffer[i]
                                  \/ buffer'[i].file = current
    <3>1. CASE buffer' = buffer
      BY <3>1
    <3>2. CASE buffer' = Append(buffer, r)
      BY <1>3, <2>2, <3>2, PushRecord
    <3> QED BY <2>1, <3>1, <3>2
  <2>4. InStep'
    BY <1>1, <2>1, <2>3 DEF StrayInv, InStep, Header
  <2>5. Pending' = Pending
    BY <1>1, <2>1 DEF Pending
  <2> QED BY <1>1, <1>2, <2>4, <2>5 DEF StrayInv, StrayBound
<1>5. CASE Pop
  <2>1. writer = "drain" /\ DOMAIN pop = {} /\ Ids(pop) = {}
    BY <1>5, HeldRecord DEF Pop, Inv, Holding
  <2>2. CASE buffer = <<>>
    <3>1. pop' = pop /\ buffer' = buffer
      BY <1>5, <2>2 DEF Pop, queue
    <3> QED BY <1>1, <1>2, <3>1 DEF StrayInv, StrayBound, InStep, Pending
  <2>3. CASE buffer # <<>>
    <3> DEFINE r == Head(buffer)
    <3>1. buffer' = Tail(buffer) /\ pop' = <<r>>
      BY <1>5, <2>3 DEF Pop
    <3>2. /\ Len(buffer) \in Nat \ {0} /\ r = buffer[1] /\ r \in Record
          /\ Len(buffer') = Len(buffer) - 1
          /\ DOMAIN buffer = 1..Len(buffer) /\ DOMAIN buffer' = 1..Len(buffer')
          /\ \A i \in 1..Len(buffer') : buffer'[i] = buffer[i + 1]
      BY <1>3, <2>3, <3>1, TakeRecord
    <3>3. DOMAIN pop' = {1} /\ pop'[1] = r
      BY <3>1, <3>2, OneRecord
    <3> HIDE DEF r
    <3>4. \A i \in DOMAIN buffer' : i + 1 \in DOMAIN buffer /\ buffer'[i] = buffer[i + 1]
      BY <3>2
    <3>5. InStep'
      BY <1>1, <3>4 DEF StrayInv, InStep
    <3>6. StrayBound'
      <4> SUFFICES ASSUME ~failed PROVE Cardinality((Strays \cup Pending)') <= Switches
        BY <1>1, <1>2 DEF StrayBound
      <4>1. 1 \in DOMAIN buffer /\ r.file \in Nat
        BY <3>2 DEF Record
      <4>2. r.file > 0 => r.file = current /\ isOpen
        BY <1>3, <3>2, <4>1 DEF StrayInv, InStep
      <4>3. Pending' = {}
        BY <1>1, <3>3, <4>2 DEF Pending
      <4>4. Pending = {}
        BY <2>1 DEF Pending
      <4> QED BY <1>2, <4>3, <4>4 DEF StrayInv, StrayBound
    <3> QED BY <3>5, <3>6 DEF StrayInv
  <2> QED BY <2>2, <2>3
<1> QED BY <1>4, <1>5

(* fwrite(): what had to go astray does, and nothing else.                 *)
LEMMA FwriteStrays == Inv /\ StrayInv /\ (WriteSize \/ WriteData) => StrayInv'
<1> SUFFICES ASSUME Inv, StrayInv, WriteSize \/ WriteData PROVE StrayInv'
  OBVIOUS
<1> DEFINE p == pop[1]
           n == Len(writes) + 1
<1>1. /\ writer \in Holding /\ UNCHANGED <<ctl, isOpen, current, buffer, failed>>
      /\ pop' \in {pop, <<>>}
  BY DEF WriteSize, WriteData, Holding, fileVars, queue
<1>2. DOMAIN pop = {1} /\ p \in Record
  BY <1>1, HeldRecord DEF Inv
<1>3. PICK c \in Chunk : /\ writes' = Append(writes, c)
                         /\ c.part \in Holding /\ c.id = p.id /\ c.of = p.file
                         /\ c.in = IF isOpen THEN current ELSE 0
  <2>1. PICK part \in Holding : Hand(part, p.id, p.file)
    BY DEF WriteSize, WriteData, Holding
  <2> DEFINE d == [part |-> part, id |-> p.id, of |-> p.file,
                   in |-> IF isOpen THEN current ELSE 0]
  <2>2. d \in Chunk
    BY <1>2 DEF Inv, TypeOK, Chunk, Part, Record, Holding
  <2> QED BY <2>1, <2>2 DEF Hand
<1>4. /\ Len(writes) \in Nat /\ DOMAIN writes = 1..Len(writes)
      /\ \A i \in 1..Len(writes) : writes'[i] = writes[i]
      /\ writes'[n] = c
      /\ OfRecord' = OfRecord \cup {n}
  BY <1>3, PushChunk DEF Inv, TypeOK
<1> DEFINE off == {k \in OfRecord : writes[k].of > 0 /\ writes[k].in # writes[k].of}
<1>5. Pending = IF p.file > 0 /\ (~isOpen \/ p.file # current) THEN {p.id} ELSE {}
  BY <1>2 DEF Pending
<1>6. p.file \in Nat /\ current \in Nat /\ isOpen \in BOOLEAN
  BY <1>2 DEF Record, Inv, TypeOK
<1>7. Pending = IF c.of > 0 /\ c.in # c.of THEN {c.id} ELSE {}
  BY <1>3, <1>5, <1>6
<1>8. Pending' \in SUBSET Pending
  <2>1. CASE pop' = pop
    BY <1>1, <2>1 DEF Pending
  <2>2. CASE pop' = <<>>
    BY <2>2 DEF Pending
  <2> QED BY <1>1, <2>1, <2>2
<1>9. \A k \in OfRecord : k \in 1..Len(writes)
  BY <1>4 DEF OfRecord
<1>10. n \notin OfRecord
  BY <1>4, <1>9
<1> HIDE DEF n, p
<1>11. {k \in OfRecord' : writes'[k].of > 0 /\ writes'[k].in # writes'[k].of}
         = off \cup IF c.of > 0 /\ c.in # c.of THEN {n} ELSE {}
  BY <1>4, <1>9, <1>10
<1>12. \A k \in off : writes'[k].id = writes[k].id
  BY <1>4, <1>9
<1>13. Strays = {writes[k].id : k \in off}
  BY DEF Strays
<1> HIDE DEF off
<1>14. Strays' = Strays \cup Pending
  <2>1. Strays' = {writes'[k].id : k \in off \cup IF c.of > 0 /\ c.in # c.of THEN {n} ELSE {}}
    BY <1>11 DEF Strays
  <2>2. CASE c.of > 0 /\ c.in # c.of
    BY <1>4, <1>7, <1>12, <1>13, <2>1, <2>2
  <2>3. CASE ~(c.of > 0 /\ c.in # c.of)
    BY <1>7, <1>12, <1>13, <2>1, <2>3
  <2> QED BY <2>2, <2>3
<1>15. (Strays \cup Pending)' = Strays \cup Pending
  BY <1>8, <1>14
<1>16. InStep' /\ Switches' = Switches
  BY <1>1 DEF StrayInv, InStep, Switches
<1> QED BY <1>1, <1>15, <1>16 DEF StrayInv, StrayBound

(* The header is no stray.                                                 *)
LEMMA HeaderStrays == Inv /\ StrayInv /\ (WriteMagic \/ WriteVersion) => StrayInv'
<1> SUFFICES ASSUME Inv, StrayInv, WriteMagic \/ WriteVersion PROVE StrayInv'
  OBVIOUS
<1>1. PICK part \in {"magic", "version"} : Hand(part, 0, current)
  BY DEF WriteMagic, WriteVersion
<1> DEFINE c == [part |-> part, id |-> 0, of |-> current,
                 in |-> IF isOpen THEN current ELSE 0]
<1>2. /\ ctl \in Header /\ ctl' \in Header /\ writes' = Append(writes, c)
      /\ UNCHANGED <<isOpen, current, buffer, pop, failed>>
  BY <1>1 DEF WriteMagic, WriteVersion, Hand, fileVars, queue, Header
<1>3. c \in Chunk /\ c.part \notin Holding
  BY DEF Inv, TypeOK, Chunk, Part, Holding
<1> HIDE DEF c
<1>4. /\ DOMAIN writes = 1..Len(writes) /\ OfRecord' = OfRecord
      /\ \A i \in 1..Len(writes) : writes'[i] = writes[i]
  BY <1>2, <1>3, PushChunk DEF Inv, TypeOK
<1>5. \A i \in OfRecord : writes'[i] = writes[i]
  BY <1>4 DEF OfRecord
<1>6. Strays' = Strays
  BY <1>4, <1>5 DEF Strays
<1>7. Pending' = Pending /\ Switches' = Switches
  BY <1>2 DEF Pending, Switches, Header
<1>8. InStep'
  BY <1>2 DEF StrayInv, InStep, Header
<1> QED BY <1>2, <1>6, <1>7, <1>8 DEF StrayInv, StrayBound

(* The steps that touch neither stream nor record.                         *)
LEMMA CallsStrays ==
  Inv /\ StrayInv /\ (Check \/ Sleep \/ Start \/ SetValid \/ Destroy \/ Join) => StrayInv'
<1> SUFFICES ASSUME Inv, StrayInv, Check \/ Sleep \/ Start \/ SetValid \/ Destroy \/ Join
             PROVE  StrayInv'
  OBVIOUS
<1>1. UNCHANGED <<isOpen, current, buffer, pop, writes, failed>>
  BY DEF Check, Sleep, Start, SetValid, Destroy, Join, fileVars, queue
<1>2. \/ ctl = "ready" /\ ctl' = IF isOpen THEN "waiting" ELSE "closed"
      \/ ctl = "headed" /\ ctl' = "ready"
      \/ ctl = "ready" /\ ctl' = "joining"
      \/ ctl = "joining" /\ ctl' = "gone"
      \/ ctl' = ctl
  BY DEF Check, Sleep, Start, SetValid, Destroy, Join
<1>3. current \in Nat /\ isOpen \in BOOLEAN
  BY DEF Inv, TypeOK
<1>4. ASSUME ~failed, ctl' = "closed", ctl # "closed"
      PROVE  current = 0 /\ ~isOpen
  BY <1>2, <1>3, <1>4 DEF StrayInv, InStep
<1>5. InStep'
  <2> SUFFICES ASSUME ~failed PROVE InStep'
    BY <1>1 DEF InStep
  <2>1. /\ isOpen <=> (current > 0 /\ ctl # "closed")
        /\ \A i \in DOMAIN buffer : buffer[i].file \in {0, current}
        /\ ctl = "waiting" => isOpen
        /\ ctl \in {"closed"} \cup Header => \A i \in DOMAIN buffer : buffer[i].file = 0
    BY DEF StrayInv, InStep
  <2>2. isOpen <=> (current > 0 /\ ctl' # "closed")
    BY <1>2, <1>3, <1>4, <2>1
  <2>3. ctl' = "waiting" => isOpen
    BY <1>2, <2>1
  <2>4. ctl' \in {"closed"} \cup Header => \A i \in DOMAIN buffer : buffer[i].file = 0
    BY <1>2, <1>4, <2>1 DEF Header
  <2> QED BY <1>1, <2>1, <2>2, <2>3, <2>4 DEF InStep
<1>6. Strays' = Strays /\ Pending' = Pending
  BY <1>1 DEF Strays, Pending, OfRecord
<1>7. ASSUME ~failed PROVE Switches' = Switches
  BY <1>1, <1>2, <1>4, <1>7 DEF Switches
<1>8. StrayBound'
  BY <1>1, <1>6, <1>7 DEF StrayInv, StrayBound
<1> QED BY <1>5, <1>8 DEF StrayInv

(* log_.close() strands the record that the writer holds, and no other.    *)
LEMMA FlushedStrays == Inv /\ StrayInv /\ Flushed => StrayInv'
<1> SUFFICES ASSUME Inv, StrayInv, Flushed PROVE StrayInv'
  OBVIOUS
<1>1. /\ ctl = "waiting" /\ buffer = <<>> /\ isOpen' = FALSE /\ ctl' = "closed"
      /\ UNCHANGED <<writer, current, buffer, pop, writes, failed>>
  BY DEF Flushed, queue
<1>2. DOMAIN buffer = {}
  BY <1>1
<1>3. InStep'
  BY <1>1, <1>2 DEF InStep
<1>4. current \in Nat
  BY DEF Inv, TypeOK
<1>5. StrayBound'
  <2> SUFFICES ASSUME ~failed PROVE Cardinality((Strays \cup Pending)') <= Switches'
    BY <1>1 DEF StrayBound
  <2>1. current > 0
    BY <1>1 DEF StrayInv, InStep
  <2>2. Switches = current - 1 /\ Switches' = current
    BY <1>1, <1>4, <2>1 DEF Switches
  <2> DEFINE astray == Strays \cup Pending
  <2>3. /\ IsFiniteSet(astray) /\ Cardinality(astray) \in Nat
        /\ Cardinality(astray) <= current - 1
    BY <2>2, AstrayFinite DEF StrayInv, StrayBound
  <2>4. Strays' = Strays
    BY <1>1 DEF Strays, OfRecord
  <2>5. CASE writer \notin Holding
    <3>1. DOMAIN pop = {}
      BY <2>5, HeldRecord DEF Inv
    <3>2. Pending' = {} /\ Pending = {}
      BY <1>1, <3>1 DEF Pending
    <3> QED BY <1>4, <2>2, <2>3, <2>4, <3>2
  <2>6. CASE writer \in Holding
    <3>1. DOMAIN pop = {1}
      BY <2>6, HeldRecord DEF Inv
    <3>2. Pending' \in SUBSET {pop[1].id} /\ Pending \in SUBSET Pending'
      BY <1>1, <3>1 DEF Pending
    <3>3. astray' = astray \/ astray' = astray \cup {pop[1].id}
      BY <2>4, <3>2
    <3> HIDE DEF astray
    <3>4. Cardinality(astray \cup {pop[1].id})
            = IF pop[1].id \in astray THEN Cardinality(astray) ELSE Cardinality(astray) + 1
      BY <2>3, FS_AddElement
    <3>5. Cardinality(astray') <= current
      <4>1. CASE astray' = astray
        <5>1. Cardinality(astray') = Cardinality(astray)
          BY <4>1
        <5> QED BY <1>4, <2>3, <5>1
      <4>2. CASE astray' = astray \cup {pop[1].id}
        <5>1. Cardinality(astray') = Cardinality(astray \cup {pop[1].id})
          BY <4>2
        <5> QED BY <1>4, <2>3, <3>4, <5>1
      <4> QED BY <3>3, <4>1, <4>2
    <3> QED BY <2>2, <3>5 DEF astray
  <2> QED BY <2>5, <2>6
<1> QED BY <1>3, <1>5 DEF StrayInv

(* log_.open() strands nothing more.                                       *)
LEMMA OpenStrays == Inv /\ StrayInv /\ OpenFile => StrayInv'
<1> SUFFICES ASSUME Inv, StrayInv, OpenFile PROVE StrayInv'
  OBVIOUS
<1>1. /\ ctl = "closed" /\ ctl' = "opened" /\ current' = current + 1
      /\ isOpen' \in BOOLEAN /\ failed' = (failed \/ ~isOpen')
      /\ UNCHANGED <<buffer, pop, writes>>
  BY DEF OpenFile, queue
<1>2. current \in Nat /\ failed \in BOOLEAN
  BY DEF Inv, TypeOK
<1>3. ~failed' => ~failed /\ isOpen'
  BY <1>1, <1>2
<1>4. InStep'
  <2> SUFFICES ASSUME ~failed' PROVE InStep'
    BY DEF InStep
  <2>1. \A i \in DOMAIN buffer : buffer[i].file = 0
    BY <1>1, <1>3 DEF StrayInv, InStep
  <2> QED BY <1>1, <1>2, <1>3, <2>1 DEF InStep
<1>5. StrayBound'
  <2> SUFFICES ASSUME ~failed' PROVE Cardinality((Strays \cup Pending)') <= Switches'
    BY DEF StrayBound
  <2>1. ~failed /\ ~isOpen
    BY <1>1, <1>3 DEF StrayInv, InStep
  <2>2. Switches = current /\ Switches' = current
    BY <1>1, <1>2 DEF Switches
  <2>3. /\ IsFiniteSet(Strays \cup Pending) /\ Cardinality(Strays \cup Pending) \in Nat
        /\ Cardinality(Strays \cup Pending) <= current
    BY <2>1, <2>2, AstrayFinite DEF StrayInv, StrayBound
  <2>4. Strays' = Strays
    BY <1>1 DEF Strays, OfRecord
  <2>5. Pending' \in SUBSET Pending
    BY <1>1, <2>1 DEF Pending
  <2>6. (Strays \cup Pending)' \in SUBSET (Strays \cup Pending)
    BY <2>4, <2>5
  <2>7. /\ IsFiniteSet((Strays \cup Pending)')
        /\ Cardinality((Strays \cup Pending)') <= Cardinality(Strays \cup Pending)
    BY <2>3, <2>6, FS_Subset
  <2>8. Cardinality((Strays \cup Pending)') \in Nat
    BY <2>7, FS_CardinalityType
  <2> QED BY <1>2, <2>2, <2>3, <2>7, <2>8
<1> QED BY <1>4, <1>5 DEF StrayInv

(* A switch of files misplaces one record at most, in part or as a whole,  *)
(* while files open.                                                       *)
THEOREM OneStrayPerSwitchAlways == Spec => []OneStrayPerSwitch
<1>1. Init => StrayInv
  <2> SUFFICES ASSUME Init PROVE StrayInv
    OBVIOUS
  <2>1. /\ ctl = "ready" /\ isOpen = FALSE /\ current = 0
        /\ DOMAIN buffer = {} /\ DOMAIN pop = {} /\ DOMAIN writes = {}
    BY DEF Init
  <2>2. InStep
    BY <2>1 DEF InStep, Header
  <2>3. Strays \cup Pending = {} /\ Switches = 0
    BY <2>1 DEF Strays, Pending, Switches, OfRecord
  <2>4. Cardinality({}) = 0
    BY FS_EmptySet
  <2> QED BY <2>2, <2>3, <2>4 DEF StrayInv, StrayBound
<1>2. Inv /\ StrayInv /\ [Next]_vars => StrayInv'
  <2> SUFFICES ASSUME Inv, StrayInv, [Next]_vars PROVE StrayInv'
    OBVIOUS
  <2>1. CASE Next
    BY <2>1, QueueStrays, FwriteStrays, HeaderStrays, CallsStrays, FlushedStrays, OpenStrays
       DEF Next, Writer, Control, Starting
  <2>2. CASE UNCHANGED vars
    <3>1. UNCHANGED <<ctl, isOpen, current, buffer, pop, writes, failed>>
      BY <2>2 DEF vars
    <3> QED BY <3>1 DEF StrayInv, InStep, StrayBound, Strays, Pending, Switches, OfRecord
  <2> QED BY <2>1, <2>2
<1>3. Inv /\ StrayInv => OneStrayPerSwitch
  <2> SUFFICES ASSUME Inv, StrayInv, ~failed PROVE Cardinality(Strays) <= Switches
    BY DEF OneStrayPerSwitch
  <2>1. /\ IsFiniteSet(Strays \cup Pending) /\ Cardinality(Strays \cup Pending) \in Nat
        /\ Cardinality(Strays \cup Pending) <= Switches
    BY AstrayFinite DEF StrayInv, StrayBound
  <2>2. Strays \in SUBSET (Strays \cup Pending)
    OBVIOUS
  <2>3. IsFiniteSet(Strays) /\ Cardinality(Strays) <= Cardinality(Strays \cup Pending)
    BY <2>1, <2>2, FS_Subset
  <2>4. Cardinality(Strays) \in Nat
    BY <2>3, FS_CardinalityType
  <2>5. Switches \in Int
    BY DEF Switches, Inv, TypeOK
  <2> QED BY <2>1, <2>3, <2>4, <2>5
<1> QED BY <1>1, <1>2, <1>3, Invariance, PTL DEF Spec

-----------------------------------------------------------------------------
(* The files.  A record that is not written yet belongs to a file of       *)
(* before; no chunk is in a file to come.                                  *)
Dated ==
  /\ isOpen => current > 0
  /\ ctl \in Header => current > 0
  /\ \A i \in DOMAIN writes : writes[i].in <= current
  /\ \A i \in DOMAIN buffer : buffer[i].file <= current
  /\ \A i \in DOMAIN pop : pop[i].file <= current
  /\ ctl \in Header => /\ \A i \in DOMAIN buffer : buffer[i].file < current
                       /\ \A i \in DOMAIN pop : pop[i].file < current

(* What the last chunk c of the open file tells: the part of the header or *)
(* of a record that comes next.                                            *)
Tip(c) ==
  /\ ctl = "magic" => c.part = "magic"
  /\ ctl # "magic" =>
       IF writer = "data" /\ pop[1].file = current
       THEN c.part = "size" /\ c.id = pop[1].id
       ELSE c.part \in {"version", "data"}
IsLast(i, f) == i \in Chunks(f) /\ \A k \in Chunks(f) : k <= i
Growing ==
  isOpen /\ ~Spoilt(current) =>
    /\ ctl = "opened" <=> Chunks(current) = {}
    /\ \A i \in Chunks(current) : IsLast(i, current) => Tip(writes[i])

FileInv == Dated /\ Growing /\ FilesReadable

(* A chunk that reaches no file.                                           *)
LEMMA Unseen ==
  ASSUME TypeOK, NEW c \in Chunk, writes' = Append(writes, c), NEW f \in Nat, c.in # f
  PROVE  /\ Chunks(f)' = Chunks(f) /\ (Spoilt(f)' <=> Spoilt(f))
         /\ \A i \in Chunks(f) : writes'[i] = writes[i]
         /\ Readable(f)' <=> Readable(f)
<1>1. /\ Len(writes) \in Nat /\ DOMAIN writes = 1..Len(writes)
      /\ DOMAIN writes' = (1..Len(writes)) \cup {Len(writes) + 1}
      /\ \A i \in 1..Len(writes) : writes'[i] = writes[i]
      /\ writes'[Len(writes) + 1] = c
  BY PushChunk DEF TypeOK
<1>2. Chunks(f)' = Chunks(f) /\ \A i \in Chunks(f) : writes'[i] = writes[i]
  BY <1>1 DEF Chunks
<1>3. Spoilt(f)' <=> Spoilt(f)
  BY <1>2 DEF Spoilt
<1>4. Readable(f)' <=> Readable(f)
  BY <1>2 DEF Readable
<1> QED BY <1>2, <1>3, <1>4

(* A chunk at the end of a file.                                           *)
LEMMA Reached ==
  ASSUME TypeOK, NEW c \in Chunk, writes' = Append(writes, c), NEW f \in Nat, c.in = f
  PROVE  LET n == Len(writes) + 1
         IN  /\ Chunks(f)' = Chunks(f) \cup {n} /\ writes'[n] = c
             /\ \A i \in Chunks(f) : i \in Nat /\ i < n /\ writes'[i] = writes[i]
             /\ Spoilt(f)' <=> (Spoilt(f) \/ c.of # f)
             /\ \A i : IsLast(i, f)' => i = n
<1> DEFINE n == Len(writes) + 1
<1>1. /\ Len(writes) \in Nat /\ DOMAIN writes = 1..Len(writes)
      /\ DOMAIN writes' = (1..Len(writes)) \cup {n}
      /\ \A i \in 1..Len(writes) : writes'[i] = writes[i]
      /\ writes'[n] = c
  BY PushChunk DEF TypeOK
<1>2. Chunks(f) \subseteq 1..Len(writes)
  BY <1>1 DEF Chunks
<1>3. \A i \in Chunks(f) : i \in Nat /\ i < n /\ writes'[i] = writes[i]
  BY <1>1, <1>2
<1>4. n \in Nat
  BY <1>1
<1>5. Chunks(f)' = Chunks(f) \cup {n}
  BY <1>1, <1>3 DEF Chunks
<1> HIDE DEF n
<1>6. Spoilt(f)' <=> (Spoilt(f) \/ c.of # f)
  <2>1. Spoilt(f)' <=> \E i \in Chunks(f) \cup {n} : writes'[i].of # f
    BY <1>5 DEF Spoilt
  <2>2. Spoilt(f) <=> \E i \in Chunks(f) : writes'[i].of # f
    BY <1>3 DEF Spoilt
  <2>3. writes'[n].of = c.of
    BY <1>1
  <2> QED BY <2>1, <2>2, <2>3
<1>7. ASSUME NEW i, IsLast(i, f)' PROVE i = n
  <2>1. IsLast(i, f)' <=> i \in Chunks(f)' /\ \A k \in Chunks(f)' : k <= i
    BY DEF IsLast
  <2>2. i \in Chunks(f) \cup {n} /\ n <= i
    BY <1>5, <1>7, <2>1
  <2>3. i \in Chunks(f) => i < n /\ i \in Nat
    BY <1>3
  <2> QED BY <1>4, <2>2, <2>3
<1> QED BY <1>1, <1>3, <1>5, <1>6, <1>7 DEF n

(* A file that can be read can be read with another chunk, if that is the  *)
(* one its last chunk announces, or the magic number.                      *)
LEMMA ReadableGrows ==
  ASSUME TypeOK, NEW c \in Chunk, writes' = Append(writes, c), NEW f \in Nat, c.in = f,
         Readable(f),
         Chunks(f) = {} => c.part = "magic",
         \A i \in Chunks(f) : IsLast(i, f) => Follows(writes[i], c)
  PROVE  Readable(f)'
<1> DEFINE n == Len(writes) + 1
<1>1. /\ Chunks(f)' = Chunks(f) \cup {n} /\ writes'[n] = c
      /\ \A i \in Chunks(f) : i \in Nat /\ i < n /\ writes'[i] = writes[i]
  BY Reached
<1>2. n \in Nat
  BY DEF TypeOK
<1> HIDE DEF n
<1>3. ASSUME NEW i \in Chunks(f) \cup {n}, \A k \in Chunks(f) \cup {n} : i <= k
      PROVE  writes'[i].part = "magic"
  <2>1. CASE i \in Chunks(f)
    BY <1>1, <1>3, <2>1 DEF Readable
  <2>2. CASE i = n
    <3>1. ASSUME NEW k \in Chunks(f) PROVE FALSE
      <4>1. k \in Nat /\ k < n
        BY <1>1
      <4>2. n <= k
        BY <1>3, <2>2
      <4> QED BY <1>2, <4>1, <4>2
    <3>2. Chunks(f) = {}
      BY <3>1
    <3> QED BY <1>1, <2>2, <3>2
  <2> QED BY <2>1, <2>2
<1>4. ASSUME NEW i \in Chunks(f) \cup {n}, NEW j \in Chunks(f) \cup {n}, i < j,
             \A k \in Chunks(f) \cup {n} : k <= i \/ j <= k
      PROVE  Follows(writes'[i], writes'[j])
  <2>1. i \in Chunks(f)
    BY <1>1, <1>2, <1>4
  <2>2. CASE j \in Chunks(f)
    <3>1. writes'[i] = writes[i] /\ writes'[j] = writes[j]
      BY <1>1, <2>1, <2>2
    <3> QED BY <1>4, <2>1, <2>2, <3>1 DEF Readable
  <2>3. CASE j = n
    <3>1. IsLast(i, f)
      BY <1>1, <1>2, <1>4, <2>1, <2>3 DEF IsLast
    <3> QED BY <1>1, <2>1, <2>3, <3>1
  <2> QED BY <2>2, <2>3
<1> QED BY <1>1, <1>3, <1>4 DEF Readable

(* Giving a chunk to the stream, when it is the one that comes next in the *)
(* open file or spoils it, and what it announces then.                     *)
LEMMA HandedOn ==
  ASSUME Inv, FileInv, NEW c \in Chunk, writes' = Append(writes, c),
         c.in = IF isOpen THEN current ELSE 0,
         UNCHANGED <<isOpen, current>>,
         isOpen /\ c.of = current /\ ~Spoilt(current) =>
           /\ Chunks(current) = {} => c.part = "magic"
           /\ \A i \in Chunks(current) : IsLast(i, current) => Follows(writes[i], c)
           /\ ctl' # "opened" /\ Tip(c)'
  PROVE  Growing' /\ FilesReadable' /\ \A i \in DOMAIN writes' : writes'[i].in <= current'
<1>1. TypeOK /\ current \in Nat /\ isOpen \in BOOLEAN /\ (isOpen => current > 0)
  BY DEF Inv, TypeOK, FileInv, Dated
<1>2. \A i \in DOMAIN writes' : writes'[i].in <= current'
  <2>1. /\ DOMAIN writes = 1..Len(writes)
        /\ DOMAIN writes' = (1..Len(writes)) \cup {Len(writes) + 1}
        /\ \A i \in 1..Len(writes) : writes'[i] = writes[i]
        /\ writes'[Len(writes) + 1] = c
    BY PushChunk DEF Inv, TypeOK
  <2>2. c.in <= current
    BY <1>1
  <2> QED BY <2>1, <2>2 DEF FileInv, Dated
<1>3. CASE ~isOpen
  <2>1. ASSUME NEW f \in 1..current PROVE (Spoilt(f) \/ Readable(f))'
    <3>1. f \in Nat /\ c.in # f
      BY <1>1, <1>3
    <3>2. Spoilt(f)' <=> Spoilt(f)
      BY <1>1, <3>1, Unseen
    <3>3. Readable(f)' <=> Readable(f)
      BY <1>1, <3>1, Unseen
    <3> QED BY <3>2, <3>3 DEF FileInv, FilesReadable
  <2> QED BY <1>2, <1>3, <2>1 DEF Growing, FilesReadable
<1>4. CASE isOpen
  <2>1. c.in = current /\ current > 0
    BY <1>1, <1>4
  <2>2. ASSUME NEW f \in 1..current, f # current PROVE (Spoilt(f) \/ Readable(f))'
    <3>1. f \in Nat /\ c.in # f
      BY <1>1, <2>1, <2>2
    <3>2. Spoilt(f)' <=> Spoilt(f)
      BY <1>1, <3>1, Unseen
    <3>3. Readable(f)' <=> Readable(f)
      BY <1>1, <3>1, Unseen
    <3> QED BY <3>2, <3>3 DEF FileInv, FilesReadable
  <2> DEFINE n == Len(writes) + 1
  <2>3. /\ Chunks(current)' = Chunks(current) \cup {n} /\ writes'[n] = c
        /\ \A i : IsLast(i, current)' => i = n
    BY <1>1, <2>1, Reached
  <2>4. Spoilt(current)' <=> (Spoilt(current) \/ c.of # current)
    BY <1>1, <2>1, Reached
  <2> HIDE DEF n
  <2>5. CASE Spoilt(current)'
    BY <1>2, <1>4, <2>2, <2>5 DEF Growing, FilesReadable
  <2>6. CASE ~Spoilt(current)'
    <3>1. c.of = current /\ ~Spoilt(current)
      BY <2>4, <2>6
    <3>2. /\ Chunks(current) = {} => c.part = "magic"
          /\ \A i \in Chunks(current) : IsLast(i, current) => Follows(writes[i], c)
          /\ ctl' # "opened" /\ Tip(c)'
      BY <1>4, <3>1
    <3>3. Readable(current)
      BY <1>1, <2>1, <3>1 DEF FileInv, FilesReadable
    <3>4. Readable(current)'
      BY <1>1, <2>1, <3>2, <3>3, ReadableGrows
    <3>5. FilesReadable'
      BY <2>2, <3>4 DEF FilesReadable
    <3>6. Growing'
      BY <2>3, <3>2 DEF Growing
    <3> QED BY <1>2, <3>5, <3>6
  <2> QED BY <2>5, <2>6
<1> QED BY <1>1, <1>3, <1>4

(* Steps that give nothing to the stream leave every file as it is.        *)
LEMMA FilesKept ==
  ASSUME UNCHANGED writes
  PROVE  \A f : /\ Chunks(f)' = Chunks(f) /\ (Spoilt(f)' <=> Spoilt(f))
                /\ (Readable(f)' <=> Readable(f))
                /\ \A i : IsLast(i, f)' <=> IsLast(i, f)
<1>1. \A f : Chunks(f)' = Chunks(f)
  BY DEF Chunks
<1>2. \A f : Spoilt(f)' <=> Spoilt(f)
  BY <1>1 DEF Spoilt
<1>3. \A f : Readable(f)' <=> Readable(f)
  BY <1>1 DEF Readable
<1>4. \A f, i : IsLast(i, f)' <=> IsLast(i, f)
  BY <1>1 DEF IsLast
<1> QED BY <1>1, <1>2, <1>3, <1>4

(* They keep the open file growing as it should if they leave the two      *)
(* threads where the next chunk is the same.                               *)
LEMMA GrowthKept ==
  ASSUME FileInv, UNCHANGED <<writes, current>>,
         isOpen' =>
           /\ isOpen /\ (ctl' = "opened" <=> ctl = "opened")
           /\ (ctl' = "magic" <=> ctl = "magic")
           /\ (writer' = "data" /\ pop'[1].file = current')
                <=> (writer = "data" /\ pop[1].file = current)
           /\ writer = "data" => pop'[1].id = pop[1].id
  PROVE  Growing' /\ FilesReadable'
<1>1. FilesReadable'
  BY FilesKept DEF FileInv, FilesReadable
<1>2. ASSUME isOpen', ~Spoilt(current)'
      PROVE  /\ ctl' = "opened" <=> Chunks(current)' = {}
             /\ \A i \in Chunks(current)' : IsLast(i, current)' => Tip(writes[i])'
  <2>1. /\ Chunks(current)' = Chunks(current) /\ ~Spoilt(current)
        /\ \A i : IsLast(i, current)' <=> IsLast(i, current)
    BY <1>2, FilesKept
  <2>2. /\ ctl = "opened" <=> Chunks(current) = {}
        /\ \A i \in Chunks(current) : IsLast(i, current) => Tip(writes[i])
    BY <1>2, <2>1 DEF FileInv, Growing
  <2>3. ASSUME NEW i \in Chunks(current), Tip(writes[i]) PROVE Tip(writes[i])'
    BY <1>2, <2>3 DEF Tip
  <2> QED BY <1>2, <2>1, <2>2, <2>3
<1> QED BY <1>1, <1>2 DEF Growing

(* The control thread outside the header.                                  *)
LEMMA LogFiles == Inv /\ FileInv /\ Log => FileInv'
<1> SUFFICES ASSUME Inv, FileInv, Log PROVE FileInv'
  OBVIOUS
<1>1. /\ UNCHANGED <<ctl, writer, isOpen, current, pop, writes>>
      /\ ctl = "ready"
  BY DEF Log, fileVars
<1>2. Growing' /\ FilesReadable'
  BY <1>1, GrowthKept
<1>3. \A i \in DOMAIN buffer' : buffer'[i].file <= current
  <2> DEFINE r == [id |-> logged', file |-> current]
  <2>1. CASE buffer' = buffer
    BY <2>1 DEF FileInv, Dated
  <2>2. CASE buffer' = Append(buffer, r)
    <3>1. r \in Record /\ r.file = current /\ current \in Nat
      BY DEF Log, Inv, TypeOK, Record
    <3>2. /\ DOMAIN buffer = 1..Len(buffer)
          /\ DOMAIN buffer' = (1..Len(buffer)) \cup {Len(buffer) + 1}
          /\ \A i \in 1..Len(buffer) : buffer'[i] = buffer[i]
          /\ buffer'[Len(buffer) + 1] = r
      BY <2>2, <3>1, PushRecord DEF Inv, TypeOK
    <3> QED BY <3>1, <3>2 DEF FileInv, Dated
  <2> QED BY <2>1, <2>2 DEF Log
<1>4. Dated'
  BY <1>1, <1>3 DEF FileInv, Dated, Header
<1> QED BY <1>2, <1>4 DEF FileInv

LEMMA CallsFiles ==
  Inv /\ FileInv /\ (Start \/ SetValid \/ Destroy \/ Join \/ Check \/ Sleep) => FileInv'
<1> SUFFICES ASSUME Inv, FileInv, Start \/ SetValid \/ Destroy \/ Join \/ Check \/ Sleep
             PROVE  FileInv'
  OBVIOUS
<1>1. UNCHANGED <<isOpen, current, buffer, pop, writes>>
  BY DEF Start, SetValid, Destroy, Join, Check, Sleep, fileVars, queue
<1>2. /\ ctl' = "opened" <=> ctl = "opened"
      /\ ctl' = "magic" <=> ctl = "magic"
      /\ writer' = "data" <=> writer = "data"
      /\ ctl' \in Header => ctl \in Header
  BY DEF Start, SetValid, Destroy, Join, Check, Sleep, Header
<1>3. Growing' /\ FilesReadable'
  BY <1>1, <1>2, GrowthKept
<1>4. Dated'
  BY <1>1, <1>2 DEF FileInv, Dated
<1> QED BY <1>3, <1>4 DEF FileInv

LEMMA FlushedFiles == Inv /\ FileInv /\ Flushed => FileInv'
<1> SUFFICES ASSUME Inv, FileInv, Flushed PROVE FileInv'
  OBVIOUS
<1>1. UNCHANGED <<current, buffer, pop, writes>> /\ ~isOpen' /\ ctl' = "closed"
  BY DEF Flushed, queue
<1>2. Growing' /\ FilesReadable'
  BY <1>1, GrowthKept
<1>3. Dated'
  BY <1>1 DEF FileInv, Dated, Header
<1> QED BY <1>2, <1>3 DEF FileInv

(* A new file is empty.                                                    *)
LEMMA OpenFiles == Inv /\ FileInv /\ OpenFile => FileInv'
<1> SUFFICES ASSUME Inv, FileInv, OpenFile PROVE FileInv'
  OBVIOUS
<1>1. /\ UNCHANGED <<buffer, pop, writes>>
      /\ current' = current + 1 /\ current \in Nat /\ ctl' = "opened"
  BY DEF OpenFile, queue, Inv, TypeOK
<1>2. /\ buffer \in Seq(Record) /\ pop \in Seq(Record) /\ writes \in Seq(Chunk)
  BY DEF Inv, TypeOK
<1>3. /\ \A i \in DOMAIN buffer : buffer[i].file \in Nat
      /\ \A i \in DOMAIN pop : pop[i].file \in Nat
      /\ \A i \in DOMAIN writes : writes[i].in \in Nat
  <2>1. /\ \A i \in DOMAIN buffer : buffer[i] \in Record
        /\ \A i \in DOMAIN pop : pop[i] \in Record
        /\ \A i \in DOMAIN writes : writes[i] \in Chunk
    BY <1>2
  <2>2. (\A r \in Record : r.file \in Nat) /\ \A c \in Chunk : c.in \in Nat
    BY DEF Record, Chunk
  <2> QED BY <2>1, <2>2
<1>4. Dated'
  BY <1>1, <1>3 DEF FileInv, Dated, Header
<1>5. Chunks(current + 1) = {}
  BY <1>1, <1>3 DEF FileInv, Dated, Chunks
<1>6. Growing'
  <2>1. Chunks(current)' = {}
    BY <1>1, <1>5 DEF Chunks
  <2> QED BY <1>1, <2>1 DEF Growing
<1>7. Readable(current + 1)
  BY <1>5 DEF Readable
<1>8. FilesReadable'
  <2> SUFFICES ASSUME NEW f \in 1..(current + 1) PROVE (Spoilt(f) \/ Readable(f))'
    BY <1>1 DEF FilesReadable
  <2>1. (Spoilt(f)' <=> Spoilt(f)) /\ (Readable(f)' <=> Readable(f))
    BY <1>1, FilesKept
  <2>2. CASE f = current + 1
    BY <1>7, <2>1, <2>2
  <2>3. CASE f # current + 1
    <3>1. f \in 1..current
      BY <1>1, <2>3
    <3> QED BY <2>1, <3>1 DEF FileInv, FilesReadable
  <2> QED BY <2>2, <2>3
<1> QED BY <1>4, <1>6, <1>8 DEF FileInv

(* The writer takes a record.                                              *)
LEMMA PopFiles == Inv /\ FileInv /\ Pop => FileInv'
<1> SUFFICES ASSUME Inv, FileInv, Pop PROVE FileInv'
  OBVIOUS
<1>1. UNCHANGED <<ctl, isOpen, current, writes>> /\ writer = "drain" /\ writer' # "data"
  BY DEF Pop, fileVars
<1>2. Growing' /\ FilesReadable'
  BY <1>1, GrowthKept
<1>3. CASE buffer = <<>>
  <2>1. UNCHANGED <<buffer, pop>>
    BY <1>3 DEF Pop, queue
  <2>2. Dated'
    BY <1>1, <2>1 DEF FileInv, Dated
  <2> QED BY <1>2, <2>2 DEF FileInv
<1>4. CASE buffer # <<>>
  <2>1. pop' = <<Head(buffer)>> /\ buffer' = Tail(buffer)
    BY <1>4 DEF Pop
  <2>2. /\ Head(buffer) = buffer[1] /\ buffer[1] \in Record /\ 1 \in DOMAIN buffer
        /\ DOMAIN buffer' = 1..Len(buffer') /\ DOMAIN buffer = 1..Len(buffer)
        /\ Len(buffer) \in Nat /\ Len(buffer') = Len(buffer) - 1
        /\ \A i \in 1..Len(buffer') : buffer'[i] = buffer[i + 1]
    BY <1>4, <2>1, TakeRecord DEF Inv, TypeOK
  <2>3. DOMAIN pop' = {1} /\ pop'[1] = buffer[1]
    BY <2>1, <2>2, OneRecord
  <2>4. \A i \in DOMAIN buffer' : i + 1 \in DOMAIN buffer /\ buffer'[i] = buffer[i + 1]
    BY <2>2
  <2>5. Dated'
    BY <1>1, <2>2, <2>3, <2>4 DEF FileInv, Dated
  <2> QED BY <1>2, <2>5 DEF FileInv
<1> QED BY <1>3, <1>4

(* The writer gives a part of a record to the stream: in the file of the   *)
(* record, whose header is out, it comes where it should.                  *)
LEMMA FwriteFiles == Inv /\ FileInv /\ (WriteSize \/ WriteData) => FileInv'
<1> SUFFICES ASSUME Inv, FileInv, WriteSize \/ WriteData PROVE FileInv'
  OBVIOUS
<1>1. /\ UNCHANGED <<ctl, isOpen, current, buffer>>
      /\ \/ writer = "size" /\ writer' = "data" /\ pop' = pop
         \/ writer = "data" /\ writer' = "drain" /\ pop' = <<>>
  BY DEF WriteSize, WriteData, fileVars, queue
<1>2. DOMAIN pop = {1} /\ pop[1] \in Record
  BY <1>1, HeldRecord DEF Inv, Holding
<1> DEFINE part == IF writer = "size" THEN "size" ELSE "data"
           d == [part |-> part, id |-> pop[1].id, of |-> pop[1].file,
                 in |-> IF isOpen THEN current ELSE 0]
<1>3. writes' = Append(writes, d) /\ d \in Chunk
  BY <1>1, <1>2 DEF WriteSize, WriteData, Hand, Inv, TypeOK, Chunk, Part, Record
<1>4. PICK c \in Chunk : /\ writes' = Append(writes, c)
                        /\ c = d
  BY <1>3
<1> HIDE DEF d
<1>5. /\ c.id = pop[1].id /\ c.of = pop[1].file
      /\ c.part = (IF writer = "size" THEN "size" ELSE "data")
      /\ c.in = (IF isOpen THEN current ELSE 0)
  BY <1>4 DEF d
<1>6. ASSUME isOpen, c.of = current, ~Spoilt(current)
      PROVE  /\ Chunks(current) = {} => c.part = "magic"
             /\ \A i \in Chunks(current) : IsLast(i, current) => Follows(writes[i], c)
             /\ ctl' # "opened" /\ Tip(c)'
  <2>1. ctl \notin Header
    <3>1. pop[1].file = current /\ current \in Nat
      BY <1>5, <1>6 DEF Inv, TypeOK
    <3> QED BY <1>2, <3>1 DEF FileInv, Dated
  <2>2. ctl # "opened" /\ ctl # "magic" /\ ctl' # "opened" /\ ctl' # "magic"
    BY <1>1, <2>1 DEF Header
  <2>3. /\ Chunks(current) # {}
        /\ \A i \in Chunks(current) : IsLast(i, current) => Tip(writes[i])
    BY <1>6, <2>2 DEF FileInv, Growing
  <2>4. ASSUME NEW i \in Chunks(current), IsLast(i, current)
        PROVE  Follows(writes[i], c)
    <3>1. Tip(writes[i])
      BY <2>3, <2>4
    <3>2. IF writer = "data"
          THEN writes[i].part = "size" /\ writes[i].id = pop[1].id
          ELSE writes[i].part \in {"version", "data"}
      BY <1>5, <1>6, <2>2, <3>1 DEF Tip
    <3> QED BY <1>1, <1>5, <3>2 DEF Follows
  <2>5. Tip(c)'
    BY <1>1, <1>5, <1>6, <2>2 DEF Tip
  <2> QED BY <2>2, <2>3, <2>4, <2>5
<1>7. /\ Growing' /\ FilesReadable'
      /\ \A i \in DOMAIN writes' : writes'[i].in <= current'
  BY <1>1, <1>4, <1>5, <1>6, HandedOn
<1>8. DOMAIN pop' \subseteq DOMAIN pop /\ \A i \in DOMAIN pop' : pop'[i] = pop[i]
  BY <1>1, <1>2, OneRecord
<1>9. Dated'
  BY <1>1, <1>7, <1>8 DEF FileInv, Dated
<1> QED BY <1>7, <1>9 DEF FileInv

(* The header comes first: until it is out no record is of this file.      *)
LEMMA HeaderFiles == Inv /\ FileInv /\ (WriteMagic \/ WriteVersion) => FileInv'
<1> SUFFICES ASSUME Inv, FileInv, WriteMagic \/ WriteVersion PROVE FileInv'
  OBVIOUS
<1>1. /\ UNCHANGED <<writer, isOpen, current, buffer, pop>>
      /\ \/ ctl = "opened" /\ ctl' = "magic"
         \/ ctl = "magic" /\ ctl' = "headed"
  BY DEF WriteMagic, WriteVersion, fileVars, queue
<1> DEFINE part == IF ctl = "opened" THEN "magic" ELSE "version"
           d == [part |-> part, id |-> 0, of |-> current,
                 in |-> IF isOpen THEN current ELSE 0]
<1>2. writes' = Append(writes, d) /\ d \in Chunk
  BY DEF WriteMagic, WriteVersion, Hand, Inv, TypeOK, Chunk, Part
<1>3. PICK c \in Chunk : /\ writes' = Append(writes, c)
                        /\ c = d
  BY <1>2
<1> HIDE DEF d
<1>4. /\ c.part = (IF ctl = "opened" THEN "magic" ELSE "version")
      /\ c.in = (IF isOpen THEN current ELSE 0)
  BY <1>3 DEF d
<1>5. ctl \in Header /\ ctl' \in Header
  BY <1>1 DEF Header
<1>6. ~(writer' = "data" /\ pop'[1].file = current')
  <2> SUFFICES ASSUME writer = "data", pop[1].file = current PROVE FALSE
    BY <1>1
  <2>1. DOMAIN pop = {1} /\ pop[1] \in Record
    BY HeldRecord DEF Inv, Holding
  <2>2. current \in Nat
    BY DEF Inv, TypeOK
  <2> QED BY <1>5, <2>1, <2>2 DEF FileInv, Dated
<1>7. ASSUME isOpen, ~Spoilt(current)
      PROVE  /\ Chunks(current) = {} => c.part = "magic"
             /\ \A i \in Chunks(current) : IsLast(i, current) => Follows(writes[i], c)
             /\ ctl' # "opened" /\ Tip(c)'
  <2>1. /\ ctl = "opened" <=> Chunks(current) = {}
        /\ \A i \in Chunks(current) : IsLast(i, current) => Tip(writes[i])
    BY <1>7 DEF FileInv, Growing
  <2>2. CASE ctl = "opened"
    BY <1>1, <1>4, <2>1, <2>2 DEF Tip
  <2>3. CASE ctl = "magic"
    <3>1. ASSUME NEW i \in Chunks(current), IsLast(i, current) PROVE writes[i].part = "magic"
      BY <2>1, <2>3, <3>1 DEF Tip
    <3>2. c.part = "version" /\ ctl' = "headed"
      BY <1>1, <1>4, <2>3
    <3>3. Tip(c)'
      BY <1>6, <3>2 DEF Tip
    <3> QED BY <2>1, <2>3, <3>1, <3>2, <3>3 DEF Follows
  <2> QED BY <1>1, <2>2, <2>3
<1>8. /\ Growing' /\ FilesReadable'
      /\ \A i \in DOMAIN writes' : writes'[i].in <= current'
  BY <1>1, <1>3, <1>4, <1>7, HandedOn
<1>9. Dated'
  BY <1>1, <1>5, <1>8 DEF FileInv, Dated
<1> QED BY <1>8, <1>9 DEF FileInv

(* A file that received no chunk of another can be read.                   *)
THEOREM FilesReadableAlways == Spec => []FilesReadable
<1>1. Init => FileInv
  <2> SUFFICES ASSUME Init PROVE FileInv
    OBVIOUS
  <2>1. /\ ctl = "ready" /\ isOpen = FALSE /\ current = 0
        /\ DOMAIN buffer = {} /\ DOMAIN pop = {} /\ DOMAIN writes = {}
    BY DEF Init
  <2>2. Dated /\ Growing
    BY <2>1 DEF Dated, Growing, Header
  <2>3. 1..0 = {}
    OBVIOUS
  <2> QED BY <2>1, <2>2, <2>3 DEF FileInv, FilesReadable
<1>2. Inv /\ FileInv /\ [Next]_vars => FileInv'
  <2> SUFFICES ASSUME Inv, FileInv, [Next]_vars PROVE FileInv'
    OBVIOUS
  <2>1. CASE Next
    BY <2>1, LogFiles, CallsFiles, FlushedFiles, OpenFiles, PopFiles, FwriteFiles, HeaderFiles
       DEF Next, Writer, Control, Starting
  <2>2. CASE UNCHANGED vars
    <3>1. UNCHANGED <<ctl, writer, isOpen, current, buffer, pop, writes>>
      BY <2>2 DEF vars
    <3>2. Growing' /\ FilesReadable'
      BY <3>1, GrowthKept
    <3>3. Dated'
      BY <3>1 DEF FileInv, Dated
    <3> QED BY <3>2, <3>3 DEF FileInv
  <2> QED BY <2>1, <2>2
<1>3. FileInv => FilesReadable
  BY DEF FileInv
<1> QED BY <1>1, <1>2, <1>3, Invariance, PTL DEF Spec

-----------------------------------------------------------------------------
(* The keys of the binary log.                                             *)
(* What is listed, and that no two entries have one name.                  *)
KeyName == Key \cup {T}
Column == [key : KeyName, type : LogType]
Entry == [key : KeyName, type : LogType, source : Source \cup {T}]
KeyEvent == [op : {"added", "removed"}, key : KeyName, type : LogType]
Distinct(es) == \A i, j \in 1..Len(es) : es[i].key = es[j].key => i = j

KeysInv ==
  /\ entries \in Seq(Entry) /\ events \in Seq(KeyEvent) /\ keys \in Seq(Column)
  /\ clean \in BOOLEAN
  /\ Distinct(entries)
  /\ KeysTold /\ RecordTold

-----------------------------------------------------------------------------
(* An entry, or a key, less.                                               *)
LEMMA RemoveAtFacts ==
  ASSUME NEW S, NEW s \in Seq(S), NEW i \in 1..Len(s)
  PROVE  /\ RemoveAt(s, i) \in Seq(S)
         /\ Len(RemoveAt(s, i)) = Len(s) - 1
         /\ \A j \in 1..(Len(s) - 1) :
              RemoveAt(s, i)[j] = IF j < i THEN s[j] ELSE s[j + 1]
<1>1. Len(s) \in Nat
  OBVIOUS
<1> DEFINE a == SubSeq(s, 1, i - 1)
           b == SubSeq(s, i + 1, Len(s))
<1>2. /\ a \in Seq(S) /\ Len(a) = i - 1
      /\ \A j \in 1..(i - 1) : a[j] = s[j]
  BY <1>1
<1>3. /\ b \in Seq(S) /\ Len(b) = Len(s) - i
      /\ \A j \in 1..(Len(s) - i) : b[j] = s[i + j]
  BY <1>1
<1>4. RemoveAt(s, i) = a \o b
  BY DEF RemoveAt
<1> HIDE DEF a, b
<1>5. a \o b \in Seq(S) /\ Len(a \o b) = Len(s) - 1
  <2>1. a \o b \in Seq(S) /\ Len(a \o b) = Len(a) + Len(b)
    BY ONLY <1>2, <1>3, ConcatProperties
  <2> QED BY <1>1, <1>2, <1>3, <2>1
<1>6. ASSUME NEW j \in 1..(Len(s) - 1)
      PROVE  (a \o b)[j] = IF j < i THEN s[j] ELSE s[j + 1]
  <2>1. (a \o b)[j] = IF j <= Len(a) THEN a[j] ELSE b[j - Len(a)]
    <3>1. j \in 1..(Len(a) + Len(b))
      BY <1>1, <1>2, <1>3
    <3> QED BY ONLY <1>2, <1>3, <3>1, ConcatProperties
  <2>2. CASE j < i
    BY <1>2, <2>1, <2>2
  <2>3. CASE ~(j < i)
    <3>1. j - (i - 1) \in 1..(Len(s) - i) /\ i + (j - (i - 1)) = j + 1
      BY <1>1, <2>3
    <3> QED BY <1>2, <1>3, <2>1, <2>3, <3>1
  <2> QED BY <2>2, <2>3
<1> QED BY <1>4, <1>5, <1>6

(* The first of the positions there are.                                   *)
LEMMA MinOfSome ==
  ASSUME NEW A, A \subseteq Nat, A # {}
  PROVE  Min(A) \in A
<1>1. \E x \in A : \A y \in A : x <= y
  BY LeastNumber
<1> QED BY <1>1 DEF Min

(* What the reader holds stays a list of keys.                             *)
LEMMA ApplyType ==
  ASSUME NEW ks \in Seq(Column), NEW e \in KeyEvent
  PROVE  Apply(ks, e) \in Seq(Column)
<1> DEFINE hits == {i \in DOMAIN ks : ks[i].key = e.key}
<1>1. CASE e.op = "added"
  BY <1>1 DEF Apply, Column, KeyEvent
<1>2. CASE e.op # "added" /\ hits # {}
  <2>1. hits \subseteq Nat /\ DOMAIN ks = 1..Len(ks)
    OBVIOUS
  <2>2. Min(hits) \in hits
    BY <1>2, <2>1, MinOfSome
  <2>3. Min(hits) \in 1..Len(ks)
    BY <2>1, <2>2
  <2>4. Apply(ks, e) = RemoveAt(ks, Min(hits))
    BY <1>2 DEF Apply
  <2> HIDE DEF hits
  <2> QED BY <2>3, <2>4, RemoveAtFacts
<1>3. CASE e.op # "added" /\ hits = {}
  BY <1>3 DEF Apply
<1> QED BY <1>1, <1>2, <1>3

(* What the reader holds between the events of a record.                   *)
Reading(f, ks, evs) ==
  /\ f \in [0..Len(evs) -> Seq(Column)] /\ f[0] = ks
  /\ \A n \in 1..Len(evs) : f[n] = Apply(f[n - 1], evs[n])
  /\ ApplyAll(ks, evs) = f[Len(evs)]

(* The events of a record lead the reader through such lists.              *)
LEMMA ReadingCourse ==
  ASSUME NEW ks \in Seq(Column), NEW evs \in Seq(KeyEvent)
  PROVE  \E f : Reading(f, ks, evs)
<1> DEFINE V == Seq(Column)
           N == Len(evs)
           Rec(g) == [n \in 0..N |-> IF n = 0 THEN ks ELSE Apply(g[n - 1], evs[n])]
           a == CHOOSE g : g = Rec(g)
           step == [n \in 1..N |-> [x \in V |-> Apply(x, evs[n])]]
<1>1. N \in Nat /\ \A n \in 1..N : evs[n] \in KeyEvent
  OBVIOUS
<1>2. ApplyAll(ks, evs) = a[N]
  BY DEF ApplyAll, InTurn
<1>3. step \in [1..N -> [V -> V]]
  BY <1>1, ApplyType
<1>4. PICK f : IsCourse(f, V, N, ks, step)
  <2>1. N \in Nat /\ ks \in V
    BY <1>1
  <2> HIDE DEF step, N, Rec, a, V
  <2> QED BY <1>3, <2>1, Course
<1>5. ASSUME NEW n \in 1..N PROVE f[n] = Apply(f[n - 1], evs[n])
  <2>1. f[n - 1] \in V
    BY <1>1, <1>4 DEF IsCourse
  <2>2. step[n] = [x \in V |-> Apply(x, evs[n])]
    OBVIOUS
  <2>3. f[n] = step[n][f[n - 1]]
    BY <1>4 DEF IsCourse
  <2> HIDE DEF step, V
  <2> QED BY <2>1, <2>2, <2>3
<1>6. f = Rec(f)
  BY <1>1, <1>4, <1>5 DEF IsCourse
<1>7. a = Rec(a)
  <2> HIDE DEF Rec
  <2> QED BY <1>6, Zenon
<1>8. a[N] = f[N]
  <2> DEFINE S == {k \in 0..N : a[k] = f[k]}
  <2> HIDE DEF a
  <2>1. 0 \in S
    BY <1>1, <1>4, <1>7 DEF IsCourse
  <2>2. ASSUME NEW n \in 1..N, n - 1 \in S PROVE n \in S
    <3>1. a[n - 1] = f[n - 1] /\ n \in 0..N /\ n # 0
      BY <1>1, <2>2
    <3>2. a[n] = Apply(a[n - 1], evs[n])
      BY ONLY <1>7, <3>1
    <3> QED BY <1>5, <3>1, <3>2
  <2>3. N \in 0..N
    BY <1>1
  <2>4. N \in S
    <3> HIDE DEF S, N
    <3> QED BY ONLY <1>1, <2>1, <2>2, <2>3, UpTo, Zenon
  <2> QED BY <2>4
<1>9. Reading(f, ks, evs)
  <2> HIDE DEF a
  <2> QED BY <1>2, <1>4, <1>5, <1>8 DEF IsCourse, Reading
<1> QED BY <1>9

(* No event changes nothing.                                               *)
LEMMA ReadNothing ==
  ASSUME NEW ks \in Seq(Column)
  PROVE  ApplyAll(ks, <<>>) = ks
<1>1. <<>> \in Seq(KeyEvent) /\ Len(<<>>) = 0
  OBVIOUS
<1>2. PICK f : Reading(f, ks, <<>>)
  BY <1>1, ReadingCourse
<1> QED BY <1>1, <1>2 DEF Reading

(* What has been read so far is a list of keys.                            *)
LEMMA ReadType ==
  ASSUME NEW ks \in Seq(Column), NEW evs \in Seq(KeyEvent)
  PROVE  ApplyAll(ks, evs) \in Seq(Column)
<1>1. PICK f : Reading(f, ks, evs)
  BY ReadingCourse
<1>2. Len(evs) \in 0..Len(evs)
  OBVIOUS
<1> QED BY <1>1, <1>2 DEF Reading

(* An event at the end is applied last.                                    *)
LEMMA ReadOneMore ==
  ASSUME NEW ks \in Seq(Column), NEW evs \in Seq(KeyEvent), NEW e \in KeyEvent
  PROVE  ApplyAll(ks, Append(evs, e)) = Apply(ApplyAll(ks, evs), e)
<1> DEFINE N == Len(evs)
           more == Append(evs, e)
<1>1. /\ N \in Nat /\ more \in Seq(KeyEvent) /\ Len(more) = N + 1
      /\ more[N + 1] = e /\ \A n \in 1..N : more[n] = evs[n]
  OBVIOUS
<1>2. PICK f : Reading(f, ks, evs)
  BY ReadingCourse
<1>3. PICK g : Reading(g, ks, more)
  <2> HIDE DEF more
  <2> QED BY <1>1, ReadingCourse
<1> DEFINE S == {n \in 0..N : f[n] = g[n]}
<1>4. 0 \in S
  BY <1>1, <1>2, <1>3 DEF Reading
<1>5. ASSUME NEW n \in 1..N, n - 1 \in S PROVE n \in S
  <2>1. f[n] = Apply(f[n - 1], evs[n]) /\ n \in 0..N
    BY <1>2 DEF Reading
  <2>2. n \in 1..Len(more)
    BY <1>1
  <2>3. g[n] = Apply(g[n - 1], more[n])
    BY <1>3, <2>2 DEF Reading
  <2> HIDE DEF more
  <2> QED BY <1>1, <1>5, <2>1, <2>3
<1>6. N \in S
  <2>1. N \in 0..N
    BY <1>1
  <2> HIDE DEF S, N
  <2> QED BY ONLY <1>1, <1>4, <1>5, <2>1, UpTo, Zenon
<1>7. N + 1 \in 1..Len(more) /\ (N + 1) - 1 = N
  BY <1>1
<1>8. g[N + 1] = Apply(g[N], more[N + 1]) /\ ApplyAll(ks, more) = g[N + 1]
  <2> HIDE DEF more, N
  <2> QED BY <1>1, <1>3, <1>7 DEF Reading
<1>9. f[N] = g[N] /\ ApplyAll(ks, evs) = f[N]
  BY <1>2, <1>6 DEF Reading
<1> HIDE DEF N, more
<1> QED BY <1>1, <1>8, <1>9 DEF more

-----------------------------------------------------------------------------
(* The columns of a record.                                                *)
LEMMA ColumnsFacts ==
  ASSUME NEW es \in Seq(Entry)
  PROVE  /\ Columns(es) \in Seq(Column) /\ Len(Columns(es)) = Len(es)
         /\ DOMAIN Columns(es) = 1..Len(es)
         /\ \A i \in 1..Len(es) : Columns(es)[i] = [key |-> es[i].key, type |-> es[i].type]
<1>1. DOMAIN es = 1..Len(es) /\ Len(es) \in Nat
  OBVIOUS
<1>2. \A i \in 1..Len(es) : [key |-> es[i].key, type |-> es[i].type] \in Column
  <2> SUFFICES ASSUME NEW i \in 1..Len(es)
               PROVE  [key |-> es[i].key, type |-> es[i].type] \in Column
    OBVIOUS
  <2>1. es[i] \in Entry
    BY <1>1
  <2> QED BY <2>1 DEF Entry, Column
<1>3. Columns(es) \in [1..Len(es) -> Column]
  BY <1>1, <1>2 DEF Columns
<1>4. Columns(es) \in Seq(Column) /\ Len(Columns(es)) = Len(es)
  BY <1>1, <1>3
<1> QED BY <1>1, <1>3, <1>4 DEF Columns

(* Entries with different keys: the event that names one of them makes the *)
(* reader forget the column of that one.                                   *)
LEMMA ForgetOne ==
  ASSUME NEW es \in Seq(Entry), Distinct(es), NEW i \in 1..Len(es),
         NEW e, e.op = "removed", e.key = es[i].key
  PROVE  /\ Apply(Columns(es), e) = Columns(RemoveAt(es, i))
         /\ RemoveAt(es, i) \in Seq(Entry)
         /\ Distinct(RemoveAt(es, i))
<1> DEFINE ks == Columns(es)
           r == RemoveAt(es, i)
           h == {n \in DOMAIN ks : ks[n].key = e.key}
<1>1. /\ ks \in Seq(Column) /\ Len(ks) = Len(es) /\ DOMAIN ks = 1..Len(es)
      /\ \A n \in 1..Len(es) : ks[n] = [key |-> es[n].key, type |-> es[n].type]
  BY ColumnsFacts
<1>2. /\ r \in Seq(Entry) /\ Len(r) = Len(es) - 1 /\ Len(es) \in Nat
      /\ \A j \in 1..(Len(es) - 1) : r[j] = IF j < i THEN es[j] ELSE es[j + 1]
  <2>1. Len(es) \in Nat
    OBVIOUS
  <2> QED BY ONLY <2>1, es \in Seq(Entry), i \in 1..Len(es), RemoveAtFacts
<1> HIDE DEF ks, r
<1>3. h = {i}
  BY <1>1 DEF Distinct
<1>4. Min(h) = i
  BY <1>3 DEF Min
<1>5. Apply(ks, e) = RemoveAt(ks, i)
  BY <1>3, <1>4 DEF Apply
<1>6. /\ RemoveAt(ks, i) \in Seq(Column) /\ Len(RemoveAt(ks, i)) = Len(es) - 1
      /\ \A j \in 1..(Len(es) - 1) :
           RemoveAt(ks, i)[j] = IF j < i THEN ks[j] ELSE ks[j + 1]
  <2>1. i \in 1..Len(ks)
    BY <1>1
  <2> QED BY <1>1, <2>1, RemoveAtFacts
<1>7. /\ Columns(r) \in Seq(Column) /\ Len(Columns(r)) = Len(es) - 1
      /\ \A j \in 1..(Len(es) - 1) : Columns(r)[j] = [key |-> r[j].key, type |-> r[j].type]
  BY <1>2, ColumnsFacts
<1>8. \A j \in 1..(Len(es) - 1) : RemoveAt(ks, i)[j] = Columns(r)[j]
  <2> SUFFICES ASSUME NEW j \in 1..(Len(es) - 1)
               PROVE  RemoveAt(ks, i)[j] = Columns(r)[j]
    OBVIOUS
  <2>1. j \in 1..Len(es) /\ j + 1 \in 1..Len(es)
    BY <1>2
  <2> QED BY <1>1, <1>2, <1>6, <1>7, <2>1
<1>9. RemoveAt(ks, i) = Columns(r)
  BY <1>2, <1>6, <1>7, <1>8
<1>10. Distinct(r)
  <2> SUFFICES ASSUME NEW j \in 1..Len(r), NEW k \in 1..Len(r), r[j].key = r[k].key
               PROVE  j = k
    BY DEF Distinct
  <2> DEFINE at(n) == IF n < i THEN n ELSE n + 1
  <2>1. at(j) \in 1..Len(es) /\ at(k) \in 1..Len(es)
    BY <1>2
  <2>2. r[j] = es[at(j)] /\ r[k] = es[at(k)]
    BY <1>2
  <2>3. at(j) = at(k)
    <3> HIDE DEF at
    <3> QED BY <2>1, <2>2 DEF Distinct
  <2> QED BY <1>2, <2>3
<1> QED BY <1>2, <1>5, <1>9, <1>10 DEF ks, r

(* A new key: the reader learns the column.                                *)
LEMMA LearnOne ==
  ASSUME NEW es \in Seq(Entry), NEW n \in Entry,
         NEW e, e.op = "added", e.key = n.key, e.type = n.type
  PROVE  Apply(Columns(es), e) = Columns(Append(es, n))
<1> DEFINE ks == Columns(es)
           m == Append(es, n)
           c == [key |-> n.key, type |-> n.type]
<1>1. /\ ks \in Seq(Column) /\ Len(ks) = Len(es)
      /\ \A i \in 1..Len(es) : ks[i] = [key |-> es[i].key, type |-> es[i].type]
  BY ColumnsFacts
<1>2. /\ m \in Seq(Entry) /\ Len(m) = Len(es) + 1 /\ m[Len(es) + 1] = n
      /\ \A i \in 1..Len(es) : m[i] = es[i]
  OBVIOUS
<1> HIDE DEF m, ks
<1>3. /\ Columns(m) \in Seq(Column) /\ Len(Columns(m)) = Len(m)
      /\ \A i \in 1..Len(m) : Columns(m)[i] = [key |-> m[i].key, type |-> m[i].type]
  BY <1>2, ColumnsFacts
<1>4. Apply(ks, e) = Append(ks, c)
  BY DEF Apply
<1>5. c \in Column /\ Len(es) \in Nat
  BY DEF Entry, Column
<1>6. Append(ks, c) \in Seq(Column) /\ Len(Append(ks, c)) = Len(es) + 1
  BY <1>1, <1>5
<1>7. ASSUME NEW i \in 1..(Len(es) + 1) PROVE Append(ks, c)[i] = Columns(m)[i]
  <2>1. CASE i \in 1..Len(es)
    BY <1>1, <1>2, <1>3, <1>5, <2>1
  <2>2. CASE i = Len(es) + 1
    BY <1>1, <1>2, <1>3, <1>5, <2>2
  <2>3. i \in 1..Len(es) \/ i = Len(es) + 1
    BY <1>5
  <2> QED BY ONLY <2>1, <2>2, <2>3
<1>8. Append(ks, c) = Columns(m)
  BY <1>2, <1>3, <1>5, <1>6, <1>7
<1> QED BY <1>4, <1>8 DEF ks, m

-----------------------------------------------------------------------------
(* A loop that erases, at its n-th entry: what it has kept and told, and   *)
(* the entries there are at that moment.                                   *)
Sweeps == [kept : Seq(Entry), told : Seq(KeyEvent)]
Left(q, es, n) == q.kept \o SubSeq(es, n + 1, Len(es))

(* The entries at that moment, one by one.                                 *)
LEMMA LeftFacts ==
  ASSUME NEW q \in Sweeps, NEW es \in Seq(Entry), NEW n \in 0..Len(es)
  PROVE  /\ Left(q, es, n) \in Seq(Entry)
         /\ Len(Left(q, es, n)) = Len(q.kept) + (Len(es) - n)
         /\ \A j \in 1..(Len(q.kept) + (Len(es) - n)) :
              Left(q, es, n)[j] = IF j <= Len(q.kept) THEN q.kept[j]
                                  ELSE es[n + (j - Len(q.kept))]
<1> DEFINE b == SubSeq(es, n + 1, Len(es))
           k == q.kept
<1>1. Len(es) \in Nat /\ k \in Seq(Entry) /\ Len(k) \in Nat
  BY DEF Sweeps
<1>2. /\ b \in Seq(Entry) /\ Len(b) = Len(es) - n
      /\ \A j \in 1..(Len(es) - n) : b[j] = es[n + j]
  BY <1>1
<1> HIDE DEF b, k
<1>3. k \o b \in Seq(Entry) /\ Len(k \o b) = Len(k) + (Len(es) - n)
  BY ONLY <1>1, <1>2, ConcatProperties
<1>4. ASSUME NEW j \in 1..(Len(k) + (Len(es) - n))
      PROVE  (k \o b)[j] = IF j <= Len(k) THEN k[j] ELSE es[n + (j - Len(k))]
  <2>1. (k \o b)[j] = IF j <= Len(k) THEN k[j] ELSE b[j - Len(k)]
    <3>1. j \in 1..(Len(k) + Len(b))
      BY <1>2
    <3> QED BY ONLY <1>1, <1>2, <3>1, ConcatProperties
  <2>2. CASE j <= Len(k)
    BY <2>1, <2>2
  <2>3. CASE ~(j <= Len(k))
    <3>1. j - Len(k) \in 1..(Len(es) - n)
      BY <1>1, <2>3
    <3> QED BY <1>2, <2>1, <2>3, <3>1
  <2> QED BY <2>2, <2>3
<1> QED BY <1>3, <1>4 DEF Left, b, k

(* One turn of the loop keeps the entry or erases it where it stands.      *)
LEMMA SweepOneFacts ==
  ASSUME NEW q \in Sweeps, NEW es \in Seq(Entry), NEW n \in 1..Len(es), NEW gone
  PROVE  LET r == SweepOne(q, es[n], gone)
             was == Left(q, es, n - 1)
             i == Len(q.kept) + 1
         IN  /\ r \in Sweeps
             /\ es[n] \notin gone => r.told = q.told /\ Left(r, es, n) = was
             /\ es[n] \in gone => /\ r.told = Append(q.told, Removed(es[n]))
                                  /\ i \in 1..Len(was) /\ was[i] = es[n]
                                  /\ Left(r, es, n) = RemoveAt(was, i)
<1> DEFINE r == SweepOne(q, es[n], gone)
           was == Left(q, es, n - 1)
           now == Left(r, es, n)
           K == Len(q.kept)
           N == Len(es)
           i == K + 1
<1>1. N \in Nat /\ q.kept \in Seq(Entry) /\ q.told \in Seq(KeyEvent) /\ K \in Nat
      /\ es[n] \in Entry
  BY DEF Sweeps
<1>2. Removed(es[n]) \in KeyEvent
  BY <1>1 DEF Entry, KeyEvent, Removed
<1>3. /\ es[n] \notin gone => r = [q EXCEPT !.kept = Append(@, es[n])]
      /\ es[n] \in gone => r = [q EXCEPT !.told = Append(@, Removed(es[n]))]
  BY DEF SweepOne
<1>4. r \in Sweeps
  <2>1. CASE es[n] \in gone
    <3>1. Append(q.told, Removed(es[n])) \in Seq(KeyEvent)
      BY <1>1, <1>2
    <3> QED BY <1>3, <2>1, <3>1 DEF Sweeps
  <2>2. CASE es[n] \notin gone
    <3>1. Append(q.kept, es[n]) \in Seq(Entry)
      BY <1>1
    <3> QED BY <1>3, <2>2, <3>1 DEF Sweeps
  <2> QED BY <2>1, <2>2
<1>5. /\ es[n] \notin gone => r.told = q.told /\ r.kept = Append(q.kept, es[n])
      /\ es[n] \in gone => r.told = Append(q.told, Removed(es[n])) /\ r.kept = q.kept
  BY <1>3 DEF Sweeps
<1>6. /\ was \in Seq(Entry) /\ Len(was) = K + (N - (n - 1))
      /\ \A j \in 1..(K + (N - (n - 1))) :
           was[j] = IF j <= K THEN q.kept[j] ELSE es[(n - 1) + (j - K)]
  <2>1. n - 1 \in 0..Len(es)
    OBVIOUS
  <2> QED BY <2>1, LeftFacts
<1>7. /\ now \in Seq(Entry) /\ Len(now) = Len(r.kept) + (N - n)
      /\ \A j \in 1..(Len(r.kept) + (N - n)) :
           now[j] = IF j <= Len(r.kept) THEN r.kept[j] ELSE es[n + (j - Len(r.kept))]
  <2>1. n \in 0..Len(es)
    OBVIOUS
  <2> HIDE DEF r
  <2> QED BY <1>4, <2>1, LeftFacts
<1> HIDE DEF r, was, now, N, K
<1>8. n \in 1..N /\ n \in Nat
  BY <1>1 DEF N
<1>9. ASSUME es[n] \notin gone PROVE now = was
  <2>1. /\ Len(r.kept) = K + 1 /\ r.kept[K + 1] = es[n]
        /\ \A j \in 1..K : r.kept[j] = q.kept[j]
    <3>1. r.kept = Append(q.kept, es[n])
      BY <1>5, <1>9
    <3> QED BY ONLY <1>1, <3>1, AppendProperties DEF K
  <2>2. Len(now) = Len(was)
    BY <1>1, <1>6, <1>7, <1>8, <2>1
  <2>3. ASSUME NEW j \in 1..Len(was) PROVE now[j] = was[j]
    <3>1. j \in 1..(K + (N - (n - 1))) /\ j \in 1..(Len(r.kept) + (N - n)) /\ j \in Nat
      BY <1>1, <1>6, <1>7, <1>8, <2>1, <2>3
    <3>2. CASE j <= K
      BY <1>1, <1>6, <1>7, <2>1, <3>1, <3>2
    <3>3. CASE j = K + 1
      <4>1. (n - 1) + (j - K) = n /\ ~(j <= K) /\ j <= Len(r.kept)
        BY <1>1, <1>8, <2>1, <3>3
      <4> QED BY <1>6, <1>7, <2>1, <3>1, <3>3, <4>1
    <3>4. CASE j > K + 1
      <4>1. /\ (n - 1) + (j - K) = n + (j - Len(r.kept))
            /\ ~(j <= K) /\ ~(j <= Len(r.kept))
        BY <1>1, <1>8, <2>1, <3>1, <3>4
      <4> QED BY <1>6, <1>7, <3>1, <4>1
    <3>5. j <= K \/ j = K + 1 \/ j > K + 1
      BY <1>1, <3>1
    <3> QED BY ONLY <3>2, <3>3, <3>4, <3>5
  <2> QED BY ONLY <1>6, <1>7, <2>2, <2>3, SeqEqual
<1>10. ASSUME es[n] \in gone
       PROVE  i \in 1..Len(was) /\ was[i] = es[n] /\ now = RemoveAt(was, i)
  <2>1. r.kept = q.kept /\ Len(r.kept) = K
    BY <1>5, <1>10 DEF K
  <2>2. i \in 1..Len(was) /\ Len(was) = (K + (N - n)) + 1 /\ Len(was) - 1 = K + (N - n)
    BY <1>1, <1>6, <1>8
  <2>3. was[i] = es[n]
    <3>1. i \in 1..(K + (N - (n - 1))) /\ ~(i <= K) /\ (n - 1) + (i - K) = n
      BY <1>1, <1>8
    <3> QED BY <1>6, <3>1
  <2>4. /\ RemoveAt(was, i) \in Seq(Entry) /\ Len(RemoveAt(was, i)) = Len(was) - 1
        /\ \A j \in 1..(Len(was) - 1) :
             RemoveAt(was, i)[j] = IF j < i THEN was[j] ELSE was[j + 1]
    BY ONLY <1>6, <2>2, RemoveAtFacts
  <2>5. Len(now) = Len(RemoveAt(was, i))
    BY <1>7, <2>1, <2>2, <2>4
  <2>6. ASSUME NEW j \in 1..Len(RemoveAt(was, i))
        PROVE  now[j] = RemoveAt(was, i)[j]
    <3>1. /\ j \in 1..(Len(was) - 1) /\ j \in Nat
          /\ j \in 1..(Len(r.kept) + (N - n))
          /\ j \in 1..(K + (N - (n - 1))) /\ j + 1 \in 1..(K + (N - (n - 1)))
      <4>1. j \in 1..(K + (N - n)) /\ K + (N - (n - 1)) = (K + (N - n)) + 1
        BY <1>1, <1>8, <2>2, <2>4, <2>6
      <4> QED BY <1>1, <1>8, <2>1, <2>2, <4>1
    <3>2. CASE j <= K
      <4>1. j < i
        BY <1>1, <3>1, <3>2
      <4> QED BY <1>6, <1>7, <2>1, <2>4, <3>1, <3>2, <4>1
    <3>3. CASE ~(j <= K)
      <4>1. ~(j < i) /\ ~(j + 1 <= K) /\ (n - 1) + ((j + 1) - K) = n + (j - K)
        BY <1>1, <1>8, <3>1, <3>3
      <4> QED BY <1>6, <1>7, <2>1, <2>4, <3>1, <3>3, <4>1
    <3> QED BY ONLY <3>2, <3>3
  <2>7. now = RemoveAt(was, i)
    BY ONLY <1>7, <2>4, <2>5, <2>6, SeqEqual
  <2> QED BY <2>2, <2>3, <2>7
<1> QED BY <1>4, <1>5, <1>9, <1>10 DEF r, was, now, K

(* The loop from its first entry to its last.                              *)
Sweeping(f, es, evs, gone) ==
  /\ f \in [0..Len(es) -> Sweeps] /\ f[0] = [kept |-> <<>>, told |-> evs]
  /\ \A n \in 1..Len(es) : f[n] = SweepOne(f[n - 1], es[n], gone)
  /\ Sweep(es, evs, gone) = f[Len(es)]

(* The loop takes its turns one after the other.                           *)
LEMMA SweepCourse ==
  ASSUME NEW es \in Seq(Entry), NEW evs \in Seq(KeyEvent), NEW gone
  PROVE  \E f : Sweeping(f, es, evs, gone)
<1> DEFINE N == Len(es)
           v == [kept |-> <<>>, told |-> evs]
           Rec(g) == [n \in 0..N |-> IF n = 0 THEN v ELSE SweepOne(g[n - 1], es[n], gone)]
           a == CHOOSE g : g = Rec(g)
           step == [n \in 1..N |-> [x \in Sweeps |-> SweepOne(x, es[n], gone)]]
<1>1. N \in Nat /\ v \in Sweeps
  BY DEF Sweeps
<1>2. Sweep(es, evs, gone) = a[N]
  BY DEF Sweep, InTurn
<1>3. step \in [1..N -> [Sweeps -> Sweeps]]
  BY <1>1, SweepOneFacts
<1>4. PICK f : IsCourse(f, Sweeps, N, v, step)
  <2> HIDE DEF step, N, Rec, a, v
  <2> QED BY <1>1, <1>3, Course
<1>5. ASSUME NEW n \in 1..N PROVE f[n] = SweepOne(f[n - 1], es[n], gone)
  <2>1. f[n - 1] \in Sweeps
    BY <1>1, <1>4 DEF IsCourse
  <2>2. step[n] = [x \in Sweeps |-> SweepOne(x, es[n], gone)]
    OBVIOUS
  <2>3. f[n] = step[n][f[n - 1]]
    BY <1>4 DEF IsCourse
  <2> HIDE DEF step
  <2> QED BY <2>1, <2>2, <2>3
<1>6. f = Rec(f)
  <2> HIDE DEF v
  <2> QED BY <1>1, <1>4, <1>5 DEF IsCourse
<1>7. a = Rec(a)
  <2> HIDE DEF Rec
  <2> QED BY <1>6, Zenon
<1>8. a[N] = f[N]
  <2> DEFINE S == {k \in 0..N : a[k] = f[k]}
  <2> HIDE DEF a, v
  <2>1. 0 \in S
    BY <1>1, <1>4, <1>7 DEF IsCourse
  <2>2. ASSUME NEW n \in 1..N, n - 1 \in S PROVE n \in S
    <3>1. a[n] = SweepOne(a[n - 1], es[n], gone) /\ a[n - 1] = f[n - 1] /\ n \in 0..N
      BY <1>1, <1>7, <2>2
    <3> QED BY <1>5, <3>1
  <2>3. N \in 0..N
    BY <1>1
  <2>4. N \in S
    <3> HIDE DEF S, N
    <3> QED BY ONLY <1>1, <2>1, <2>2, <2>3, UpTo, Zenon
  <2> QED BY <2>4
<1>9. Sweeping(f, es, evs, gone)
  <2> HIDE DEF a
  <2> QED BY <1>2, <1>4, <1>5, <1>8 DEF IsCourse, Sweeping
<1> QED BY <1>9

(* A reader that could catch up before the loop can after it, with the     *)
(* removals the loop told.                                                 *)
LEMMA SweepKeeps ==
  ASSUME NEW ks \in Seq(Column), NEW es \in Seq(Entry), NEW evs \in Seq(KeyEvent),
         NEW gone, Distinct(es)
  PROVE  LET r == Sweep(es, evs, gone)
         IN  /\ r.kept \in Seq(Entry) /\ r.told \in Seq(KeyEvent) /\ Distinct(r.kept)
             /\ ApplyAll(ks, evs) = Columns(es)
                  => ApplyAll(ks, r.told) = Columns(r.kept)
<1> DEFINE N == Len(es)
           Caught == ApplyAll(ks, evs) = Columns(es)
<1>1. PICK f : Sweeping(f, es, evs, gone)
  BY SweepCourse
<1>2. N \in Nat /\ \A n \in 0..N : f[n] \in Sweeps
  <2>1. f \in [0..N -> Sweeps]
    BY ONLY <1>1 DEF Sweeping
  <2>2. N \in Nat
    OBVIOUS
  <2> HIDE DEF N
  <2> QED BY ONLY <2>1, <2>2
<1> DEFINE now(n) == Left(f[n], es, n)
           Good(n) == /\ Distinct(now(n))
                      /\ Caught => ApplyAll(ks, f[n].told) = Columns(now(n))
           S == {n \in 0..N : Good(n)}
<1>3. 0 \in S
  <2>1. f[0].kept = <<>> /\ f[0].told = evs /\ 0 \in 0..N /\ f[0] \in Sweeps
    BY <1>1, <1>2 DEF Sweeping
  <2>2. /\ now(0) \in Seq(Entry) /\ Len(now(0)) = N
        /\ \A j \in 1..N : now(0)[j] = es[j]
    <3>1. /\ now(0) \in Seq(Entry)
          /\ Len(now(0)) = Len(f[0].kept) + (N - 0)
          /\ \A j \in 1..(Len(f[0].kept) + (N - 0)) :
               now(0)[j] = IF j <= Len(f[0].kept) THEN f[0].kept[j]
                           ELSE es[0 + (j - Len(f[0].kept))]
      BY <2>1, LeftFacts
    <3> HIDE DEF now
    <3> QED BY <1>2, <2>1, <3>1
  <2>3. now(0) = es
    <3> HIDE DEF now
    <3> QED BY ONLY <2>2, es \in Seq(Entry), N = Len(es), SeqEqual
  <2> HIDE DEF now
  <2> QED BY <2>1, <2>3
<1>4. ASSUME NEW n \in 1..N, n - 1 \in S PROVE n \in S
  <2> DEFINE q == f[n - 1]
             was == Left(q, es, n - 1)
             i == Len(q.kept) + 1
  <2>1. n - 1 \in 0..N /\ n \in 0..N /\ q \in Sweeps /\ n \in 1..Len(es)
        /\ q.told \in Seq(KeyEvent)
    BY <1>2 DEF Sweeps
  <2>2. f[n] = SweepOne(q, es[n], gone)
    BY <1>1, <2>1 DEF Sweeping
  <2>3. Distinct(was) /\ (Caught => ApplyAll(ks, q.told) = Columns(was))
    BY <1>4
  <2>4. was \in Seq(Entry)
    <3> HIDE DEF q
    <3> QED BY <2>1, LeftFacts
  <2>5. /\ es[n] \notin gone => f[n].told = q.told /\ now(n) = was
        /\ es[n] \in gone => /\ f[n].told = Append(q.told, Removed(es[n]))
                             /\ i \in 1..Len(was) /\ was[i] = es[n]
                             /\ now(n) = RemoveAt(was, i)
    <3> HIDE DEF q
    <3> DEFINE r == SweepOne(q, es[n], gone)
    <3>1. /\ es[n] \notin gone => r.told = q.told /\ Left(r, es, n) = was
          /\ es[n] \in gone => /\ r.told = Append(q.told, Removed(es[n]))
                               /\ i \in 1..Len(was) /\ was[i] = es[n]
                               /\ Left(r, es, n) = RemoveAt(was, i)
      BY ONLY <2>1, es \in Seq(Entry), SweepOneFacts, Zenon
    <3> QED BY ONLY <2>2, <3>1 DEF now
  <2>6. es[n] \in Entry
    BY <2>1
  <2> HIDE DEF now, was, q, i
  <2>7. CASE es[n] \notin gone
    BY <2>1, <2>3, <2>5, <2>7
  <2>8. CASE es[n] \in gone
    <3>1. Removed(es[n]) \in KeyEvent /\ Removed(es[n]).op = "removed"
          /\ Removed(es[n]).key = was[i].key
      BY <2>5, <2>6, <2>8 DEF Removed, KeyEvent, Entry
    <3>2. /\ Apply(Columns(was), Removed(es[n])) = Columns(RemoveAt(was, i))
          /\ Distinct(RemoveAt(was, i))
      BY <2>3, <2>4, <2>5, <2>8, <3>1, ForgetOne
    <3>3. ApplyAll(ks, f[n].told) = Apply(ApplyAll(ks, q.told), Removed(es[n]))
      <4>1. f[n].told = Append(q.told, Removed(es[n]))
        BY ONLY <2>5, <2>8
      <4>2. ApplyAll(ks, Append(q.told, Removed(es[n])))
              = Apply(ApplyAll(ks, q.told), Removed(es[n]))
        BY ONLY <2>1, <3>1, ks \in Seq(Column), ReadOneMore
      <4> QED BY ONLY <4>1, <4>2
    <3> QED BY <2>1, <2>3, <2>5, <2>8, <3>2, <3>3
  <2> QED BY <2>7, <2>8
<1>5. N \in S
  <2>1. N \in 0..N
    BY <1>2
  <2> HIDE DEF S, N
  <2> QED BY ONLY <1>2, <1>3, <1>4, <2>1, UpTo, Zenon
<1>6. f[N] \in Sweeps /\ N \in 0..Len(es)
  BY <1>2
<1>7. f[N].kept \in Seq(Entry) /\ f[N].told \in Seq(KeyEvent)
  BY <1>6 DEF Sweeps
<1>8. now(N) = f[N].kept
  <2>1. /\ now(N) \in Seq(Entry)
        /\ Len(now(N)) = Len(f[N].kept) + (Len(es) - N)
        /\ \A j \in 1..(Len(f[N].kept) + (Len(es) - N)) :
             now(N)[j] = IF j <= Len(f[N].kept) THEN f[N].kept[j]
                         ELSE es[N + (j - Len(f[N].kept))]
    BY <1>6, LeftFacts
  <2>2. Len(es) - N = 0 /\ Len(f[N].kept) \in Nat
    BY <1>2, <1>7
  <2> HIDE DEF now, N
  <2>3. Len(now(N)) = Len(f[N].kept)
    BY <2>1, <2>2
  <2>4. \A j \in 1..Len(now(N)) : now(N)[j] = f[N].kept[j]
    BY <2>1, <2>2, <2>3
  <2> QED BY ONLY <1>7, <2>1, <2>3, <2>4, SeqEqual
<1>9. Sweep(es, evs, gone) = f[N]
  BY <1>1 DEF Sweeping
<1> HIDE DEF now, N
<1> QED BY <1>5, <1>7, <1>8, <1>9

-----------------------------------------------------------------------------
(* Every key told again, to a reader that holds none.                      *)
Told(es) == [i \in DOMAIN es |-> Added(es[i].key, es[i].type)]

(* The reader learns all of them, in order.                                *)
LEMMA TellAgain ==
  ASSUME NEW es \in Seq(Entry)
  PROVE  Told(es) \in Seq(KeyEvent) /\ ApplyAll(<<>>, Told(es)) = Columns(es)
<1> DEFINE N == Len(es)
<1>1. N \in Nat /\ DOMAIN es = 1..N /\ <<>> \in Seq(Column)
      /\ \A i \in 1..N : es[i] \in Entry
  OBVIOUS
<1>2. \A i \in 1..N : Added(es[i].key, es[i].type) \in KeyEvent
  BY <1>1 DEF Added, KeyEvent, Entry
<1>3. Told(es) \in Seq(KeyEvent) /\ Len(Told(es)) = N
      /\ \A i \in 1..N : Told(es)[i] = Added(es[i].key, es[i].type)
  BY <1>1, <1>2 DEF Told
<1>4. PICK f : Reading(f, <<>>, Told(es))
  BY <1>1, <1>3, ReadingCourse
<1> DEFINE first(n) == SubSeq(es, 1, n)
           S == {n \in 0..N : f[n] = Columns(first(n))}
<1>5. \A n \in 0..N : first(n) \in Seq(Entry) /\ Len(first(n)) = n
                      /\ \A i \in 1..n : first(n)[i] = es[i]
  BY <1>1
<1> HIDE DEF first
<1>6. 0 \in S
  <2>1. first(0) \in Seq(Entry) /\ Len(first(0)) = 0
    BY <1>1, <1>5
  <2>2. Columns(first(0)) \in Seq(Column) /\ Len(Columns(first(0))) = 0
    BY <2>1, ColumnsFacts
  <2>3. Columns(first(0)) = <<>>
    BY <2>2
  <2> QED BY <1>1, <1>4, <2>3 DEF Reading
<1>7. ASSUME NEW n \in 1..N, n - 1 \in S PROVE n \in S
  <2>1. f[n] = Apply(f[n - 1], Told(es)[n])
    BY <1>3, <1>4 DEF Reading
  <2>2. f[n - 1] = Columns(first(n - 1)) /\ n - 1 \in 0..N /\ n \in 0..N
    BY <1>7
  <2>3. first(n) = Append(first(n - 1), es[n])
    <3> DEFINE m == Append(first(n - 1), es[n])
    <3>1. /\ first(n - 1) \in Seq(Entry) /\ Len(first(n - 1)) = n - 1
          /\ \A i \in 1..(n - 1) : first(n - 1)[i] = es[i]
      BY <1>5, <2>2
    <3>2. /\ m \in Seq(Entry) /\ Len(m) = (n - 1) + 1 /\ m[(n - 1) + 1] = es[n]
          /\ \A i \in 1..(n - 1) : m[i] = first(n - 1)[i]
      BY <1>1, <3>1
    <3> HIDE DEF m
    <3>3. first(n) \in Seq(Entry) /\ Len(first(n)) = n /\ \A i \in 1..n : first(n)[i] = es[i]
      BY <1>5, <2>2
    <3>4. Len(first(n)) = Len(m) /\ \A i \in 1..Len(first(n)) : first(n)[i] = m[i]
      BY <3>1, <3>2, <3>3
    <3> QED BY ONLY <3>2, <3>3, <3>4, SeqEqual DEF m
  <2>4. Apply(Columns(first(n - 1)), Told(es)[n]) = Columns(Append(first(n - 1), es[n]))
    <3>1. Told(es)[n].op = "added" /\ Told(es)[n].key = es[n].key
          /\ Told(es)[n].type = es[n].type
      <4>1. Told(es)[n] = Added(es[n].key, es[n].type)
        BY <1>3
      <4> QED BY ONLY <4>1 DEF Added
    <3>2. first(n - 1) \in Seq(Entry) /\ es[n] \in Entry
      BY <1>1, <1>5, <2>2
    <3> QED BY <3>1, <3>2, LearnOne
  <2> QED BY <2>1, <2>2, <2>3, <2>4
<1>8. N \in S
  <2>1. N \in 0..N
    BY <1>1
  <2> HIDE DEF S, N
  <2> QED BY ONLY <1>1, <1>6, <1>7, <2>1, UpTo, Zenon
<1>9. first(N) = es
  <2>1. first(N) \in Seq(Entry) /\ Len(first(N)) = Len(es)
        /\ \A i \in 1..Len(first(N)) : first(N)[i] = es[i]
    BY <1>1, <1>5
  <2> QED BY ONLY <2>1, es \in Seq(Entry), SeqEqual
<1> QED BY <1>3, <1>4, <1>8, <1>9 DEF Reading

-----------------------------------------------------------------------------
(* What find_entry finds.                                                  *)
LEMMA FoundEntry ==
  ASSUME entries \in Seq(Entry), Distinct(entries), NEW k, Named(k) # {}
  PROVE  /\ Min(Named(k)) \in 1..Len(entries)
         /\ entries[Min(Named(k))].key = k
         /\ Erased(k) = RemoveAt(entries, Min(Named(k)))
<1>1. Named(k) \subseteq Nat
  BY DEF Named
<1>2. Min(Named(k)) \in Named(k)
  BY <1>1, MinOfSome
<1> QED BY <1>2 DEF Named, Erased

(* What is left when it is erased has no entry of that key.                *)
LEMMA ErasedFacts ==
  ASSUME entries \in Seq(Entry), Distinct(entries), NEW k
  PROVE  /\ Erased(k) \in Seq(Entry) /\ Distinct(Erased(k))
         /\ \A i \in 1..Len(Erased(k)) : Erased(k)[i].key # k
<1>1. CASE Named(k) = {}
  BY <1>1 DEF Named, Erased
<1>2. CASE Named(k) # {}
  <2> DEFINE i == Min(Named(k))
             r == RemoveAt(entries, i)
  <2>1. i \in 1..Len(entries) /\ entries[i].key = k /\ Erased(k) = r
    BY <1>2, FoundEntry
  <2> HIDE DEF i
  <2>2. /\ r \in Seq(Entry) /\ Len(r) = Len(entries) - 1 /\ Len(entries) \in Nat
        /\ \A j \in 1..(Len(entries) - 1) :
             r[j] = IF j < i THEN entries[j] ELSE entries[j + 1]
    <3>1. Len(entries) \in Nat
      OBVIOUS
    <3> QED BY ONLY <2>1, <3>1, entries \in Seq(Entry), RemoveAtFacts
  <2> HIDE DEF r
  <2>3. ASSUME NEW j \in 1..Len(r) PROVE r[j].key # k
    BY <2>1, <2>2 DEF Distinct
  <2>4. Distinct(r)
    BY <2>1, <2>2 DEF Distinct
  <2> QED BY <2>1, <2>2, <2>3, <2>4
<1> QED BY <1>1, <1>2

(* An entry more, of a key that was not there.                             *)
LEMMA DistinctAppend ==
  ASSUME NEW es \in Seq(Entry), Distinct(es), NEW n \in Entry,
         \A i \in 1..Len(es) : es[i].key # n.key
  PROVE  Append(es, n) \in Seq(Entry) /\ Distinct(Append(es, n))
<1>1. /\ Append(es, n) \in Seq(Entry) /\ Len(Append(es, n)) = Len(es) + 1
      /\ \A i \in 1..Len(es) : Append(es, n)[i] = es[i]
      /\ Append(es, n)[Len(es) + 1] = n /\ Len(es) \in Nat
  OBVIOUS
<1> DEFINE m == Append(es, n)
<1> HIDE DEF m
<1>2. ASSUME NEW i \in 1..Len(m), NEW j \in 1..Len(m), m[i].key = m[j].key PROVE i = j
  <2>1. (i \in 1..Len(es) \/ i = Len(es) + 1) /\ (j \in 1..Len(es) \/ j = Len(es) + 1)
    BY <1>1 DEF m
  <2> QED BY <1>1, <1>2, <2>1 DEF m, Distinct
<1> QED BY <1>1, <1>2 DEF Distinct, m

(* The time entry and its event.                                           *)
LEMMA TimeFacts == TimeEntry \in Entry /\ Added(T, TimeType) \in KeyEvent
BY LogAssumption DEF TimeEntry, Added, Entry, KeyEvent, KeyName

(* addLogEntry.                                                            *)
LEMMA AddKeeps ==
  ASSUME KeysInv, NEW k \in Key, NEW t \in LogType, NEW s \in Source,
         NEW o \in Overwrites, AddLogEntry(k, t, s, o)
  PROVE  KeysInv'
<1> DEFINE n == [key |-> k, type |-> t, source |-> s]
           e == Added(k, t)
<1>1. n \in Entry /\ n.key = k /\ n.type = t
  BY DEF Entry, KeyName
<1>2. e \in KeyEvent /\ e.op = "added" /\ e.key = k /\ e.type = t
  BY DEF KeyEvent, KeyName, Added
<1>3. /\ entries' = Append(Erased(k), n) /\ events' = Append(events, e)
      /\ keys' = keys /\ written' = written /\ clean' = (clean /\ Named(k) = {})
  BY DEF AddLogEntry
<1>4. /\ entries \in Seq(Entry) /\ events \in Seq(KeyEvent) /\ keys \in Seq(Column)
      /\ clean \in BOOLEAN /\ Distinct(entries)
      /\ KeysTold /\ RecordTold
  BY DEF KeysInv
<1> HIDE DEF n, e
<1>5. /\ Erased(k) \in Seq(Entry) /\ Distinct(Erased(k))
      /\ \A i \in 1..Len(Erased(k)) : Erased(k)[i].key # k
  BY <1>4, ErasedFacts
<1>6. entries' \in Seq(Entry) /\ Distinct(entries')
  BY <1>1, <1>3, <1>5, DistinctAppend
<1>7. events' \in Seq(KeyEvent) /\ keys' \in Seq(Column) /\ clean' \in BOOLEAN
  BY <1>2, <1>3, <1>4
<1>8. ASSUME clean' PROVE ApplyAll(keys', events') = Columns(entries')
  <2>1. clean /\ Erased(k) = entries
    BY <1>3, <1>4, <1>8 DEF Erased
  <2>2. ApplyAll(keys, events) = Columns(entries)
    BY <1>4, <2>1 DEF KeysTold
  <2>3. ApplyAll(keys, Append(events, e)) = Apply(Columns(entries), e)
    BY <1>2, <1>4, <2>2, ReadOneMore
  <2>4. Apply(Columns(entries), e) = Columns(Append(entries, n))
    BY <1>1, <1>2, <1>4, LearnOne
  <2> QED BY <1>3, <2>1, <2>3, <2>4
<1>9. RecordTold'
  BY <1>3, <1>4 DEF RecordTold, Decodes
<1> QED BY <1>6, <1>7, <1>8, <1>9 DEF KeysInv, KeysTold, Distinct

(* removeLogEntry.                                                         *)
LEMMA RemoveKeeps ==
  ASSUME KeysInv, NEW k, RemoveLogEntry(k)
  PROVE  KeysInv'
<1> DEFINE i == Min(Named(k))
           e == Removed(entries[i])
<1>1. /\ Named(k) # {} /\ entries' = Erased(k) /\ events' = Append(events, e)
      /\ keys' = keys /\ written' = written /\ clean' = clean
  BY DEF RemoveLogEntry
<1>2. /\ entries \in Seq(Entry) /\ events \in Seq(KeyEvent) /\ keys \in Seq(Column)
      /\ clean \in BOOLEAN /\ Distinct(entries)
      /\ KeysTold /\ RecordTold
  BY DEF KeysInv
<1>3. i \in 1..Len(entries) /\ Erased(k) = RemoveAt(entries, i)
  BY <1>1, <1>2, FoundEntry
<1> HIDE DEF i
<1>4. entries[i] \in Entry
  BY <1>2, <1>3
<1>5. e \in KeyEvent /\ e.op = "removed" /\ e.key = entries[i].key
  BY <1>4 DEF Removed, KeyEvent, Entry
<1> HIDE DEF e
<1>6. /\ Apply(Columns(entries), e) = Columns(RemoveAt(entries, i))
      /\ RemoveAt(entries, i) \in Seq(Entry)
      /\ Distinct(RemoveAt(entries, i))
  BY <1>2, <1>3, <1>5, ForgetOne
<1>7. events' \in Seq(KeyEvent)
  BY <1>1, <1>2, <1>5
<1>8. ApplyAll(keys, Append(events, e)) = Apply(ApplyAll(keys, events), e)
  BY <1>2, <1>5, ReadOneMore
<1>9. KeysTold'
  BY <1>1, <1>2, <1>3, <1>6, <1>8 DEF KeysTold
<1>10. RecordTold'
  BY <1>1, <1>2 DEF RecordTold, Decodes
<1> QED BY <1>1, <1>2, <1>3, <1>6, <1>7, <1>9, <1>10 DEF KeysInv, Distinct

(* removeLogEntries.                                                       *)
LEMMA RemoveSomeKeeps ==
  ASSUME KeysInv, NEW s, RemoveLogEntries(s)
  PROVE  KeysInv'
<1> DEFINE r == Sweep(entries, events, {e \in ToSet(entries) : e.source = s})
<1>1. /\ entries' = r.kept /\ events' = r.told
      /\ keys' = keys /\ written' = written /\ clean' = clean
  BY DEF RemoveLogEntries
<1>2. /\ entries \in Seq(Entry) /\ events \in Seq(KeyEvent) /\ keys \in Seq(Column)
      /\ clean \in BOOLEAN /\ Distinct(entries)
      /\ KeysTold /\ RecordTold
  BY DEF KeysInv
<1>3. /\ r.kept \in Seq(Entry) /\ r.told \in Seq(KeyEvent) /\ Distinct(r.kept)
      /\ ApplyAll(keys, events) = Columns(entries) => ApplyAll(keys, r.told) = Columns(r.kept)
  BY <1>2, SweepKeeps
<1> HIDE DEF r
<1>4. KeysTold'
  BY <1>1, <1>2, <1>3 DEF KeysTold
<1>5. RecordTold'
  BY <1>1, <1>2 DEF RecordTold, Decodes
<1> QED BY <1>1, <1>2, <1>3, <1>4, <1>5 DEF KeysInv, Distinct

(* clear.                                                                  *)
LEMMA ClearKeeps ==
  ASSUME KeysInv, NEW record \in BOOLEAN, Clear(record)
  PROVE  KeysInv'
<1> DEFINE r == Sweep(entries, events, {e \in ToSet(entries) : e.key # T})
<1>1. /\ entries' = r.kept /\ events' = IF record THEN r.told ELSE events
      /\ keys' = keys /\ written' = written
      /\ clean' = (clean /\ (record \/ r.told = events))
  BY DEF Clear
<1>2. /\ entries \in Seq(Entry) /\ events \in Seq(KeyEvent) /\ keys \in Seq(Column)
      /\ clean \in BOOLEAN /\ Distinct(entries)
      /\ KeysTold /\ RecordTold
  BY DEF KeysInv
<1>3. /\ r.kept \in Seq(Entry) /\ r.told \in Seq(KeyEvent) /\ Distinct(r.kept)
      /\ ApplyAll(keys, events) = Columns(entries) => ApplyAll(keys, r.told) = Columns(r.kept)
  BY <1>2, SweepKeeps
<1> HIDE DEF r
<1>4. clean' => clean /\ events' = r.told
  BY <1>1
<1>5. KeysTold'
  BY <1>1, <1>2, <1>3, <1>4 DEF KeysTold
<1>6. RecordTold'
  BY <1>1, <1>2, <1>4 DEF RecordTold, Decodes
<1>7. events' \in Seq(KeyEvent) /\ clean' \in BOOLEAN
  BY <1>1, <1>2, <1>3
<1> QED BY <1>1, <1>2, <1>3, <1>5, <1>6, <1>7 DEF KeysInv, Distinct

(* start() and open().                                                     *)
LEMMA RestartKeeps ==
  ASSUME KeysInv, NEW how \in {"resume", "plain"}, Restart(how)
  PROVE  KeysInv'
<1> DEFINE told == IF how = "resume" THEN Told(entries) ELSE events
           e == Added(T, TimeType)
<1>1. /\ entries \in Seq(Entry) /\ events \in Seq(KeyEvent) /\ keys \in Seq(Column)
      /\ clean \in BOOLEAN /\ Distinct(entries) /\ KeysTold
  BY DEF KeysInv
<1>2. /\ keys' = <<>> /\ written' = <<>>
      /\ clean' = (how = "resume" \/ (clean /\ keys = <<>>))
  BY DEF Restart
<1>3. told \in Seq(KeyEvent)
  BY <1>1, TellAgain
<1>4. clean' => ApplyAll(<<>>, told) = Columns(entries)
  <2>1. CASE how = "resume"
    BY <1>1, <2>1, TellAgain
  <2>2. CASE how # "resume"
    BY <1>1, <1>2, <2>2 DEF KeysTold
  <2> QED BY <2>1, <2>2
<1> HIDE DEF told
<1>5. /\ entries' \in Seq(Entry) /\ Distinct(entries') /\ events' \in Seq(KeyEvent)
      /\ clean' => ApplyAll(<<>>, events') = Columns(entries')
  <2>1. CASE Named(T) # {}
    <3>1. entries' = entries \o <<>> /\ events' = told \o [i \in DOMAIN <<>> |-> e]
      BY <2>1 DEF Restart, told, Told
    <3>2. [i \in DOMAIN <<>> |-> e] = <<>>
      OBVIOUS
    <3>3. entries' = entries /\ events' = told
      BY <1>1, <1>3, <3>1, <3>2
    <3> QED BY <1>1, <1>3, <1>4, <3>3
  <2>2. CASE Named(T) = {}
    <3>1. entries' = entries \o <<TimeEntry>>
          /\ events' = told \o [i \in DOMAIN <<TimeEntry>> |-> e]
      BY <2>2 DEF Restart, told, Told
    <3>2. TimeEntry \in Entry /\ e \in KeyEvent
      BY TimeFacts
    <3>3. [i \in DOMAIN <<TimeEntry>> |-> e] = <<e>>
      OBVIOUS
    <3> HIDE DEF e
    <3>4. entries' = Append(entries, TimeEntry)
      BY ONLY <1>1, <3>1, <3>2, AppendIsConcat
    <3>5. events' = Append(told, e)
      BY ONLY <1>3, <3>1, <3>2, <3>3, AppendIsConcat
    <3>6. TimeEntry.key = T /\ e.op = "added" /\ e.key = T /\ e.type = TimeEntry.type
      BY DEF TimeEntry, Added, e
    <3>7. \A i \in 1..Len(entries) : entries[i].key # T
      BY <1>1, <2>2 DEF Named
    <3>8. entries' \in Seq(Entry) /\ Distinct(entries')
      BY <1>1, <3>2, <3>4, <3>6, <3>7, DistinctAppend
    <3>9. <<>> \in Seq(Column)
      OBVIOUS
    <3>10. ApplyAll(<<>>, Append(told, e)) = Apply(ApplyAll(<<>>, told), e)
      BY <1>3, <3>2, <3>9, ReadOneMore
    <3>11. Apply(Columns(entries), e) = Columns(Append(entries, TimeEntry))
      BY <1>1, <3>2, <3>6, LearnOne
    <3>12. events' \in Seq(KeyEvent)
      BY <1>3, <3>2, <3>5
    <3> QED BY <1>4, <3>4, <3>5, <3>8, <3>10, <3>11, <3>12
  <2> QED BY <2>1, <2>2
<1>6. RecordTold'
  BY <1>2 DEF RecordTold, Decodes
<1>7. KeysTold'
  BY <1>2, <1>5 DEF KeysTold
<1>8. keys' \in Seq(Column) /\ clean' \in BOOLEAN
  BY <1>1, <1>2
<1> QED BY <1>5, <1>6, <1>7, <1>8 DEF KeysInv, Distinct

(* start() or open() that cannot open its file.                            *)
LEMMA RestartFailsKeeps ==
  ASSUME KeysInv, RestartFails
  PROVE  KeysInv'
<1>1. /\ entries \in Seq(Entry) /\ events \in Seq(KeyEvent) /\ keys \in Seq(Column)
      /\ clean \in BOOLEAN /\ Distinct(entries) /\ KeysTold
  BY DEF KeysInv
<1>2. /\ keys' = <<>> /\ written' = <<>> /\ entries' = entries /\ events' = events
      /\ clean' = (clean /\ keys = <<>>)
  BY DEF RestartFails
<1>3. clean' => ApplyAll(<<>>, events) = Columns(entries)
  BY <1>1, <1>2 DEF KeysTold
<1>4. KeysTold'
  BY <1>2, <1>3 DEF KeysTold
<1>5. RecordTold'
  BY <1>2 DEF RecordTold, Decodes
<1>6. keys' \in Seq(Column) /\ clean' \in BOOLEAN
  BY <1>1, <1>2
<1> QED BY <1>1, <1>2, <1>4, <1>5, <1>6 DEF KeysInv, Distinct

(* log().                                                                  *)
LEMMA RecordKeeps ==
  ASSUME KeysInv, LogRecord
  PROVE  KeysInv'
<1>1. /\ entries \in Seq(Entry) /\ events \in Seq(KeyEvent) /\ keys \in Seq(Column)
      /\ clean \in BOOLEAN /\ Distinct(entries)
      /\ KeysTold /\ RecordTold
  BY DEF KeysInv
<1>2. PICK accepted \in BOOLEAN :
        /\ events' = <<>> /\ entries' = entries
        /\ keys' = IF accepted THEN ApplyAll(keys, events) ELSE keys
        /\ written' = IF accepted THEN Columns(entries) ELSE written
        /\ clean' = (clean /\ (accepted \/ events = <<>>))
  BY DEF LogRecord
<1>3. keys' \in Seq(Column) /\ clean' \in BOOLEAN /\ events' \in Seq(KeyEvent)
  BY <1>1, <1>2, ReadType
<1>4. ApplyAll(keys', events') = keys'
  BY <1>2, <1>3, ReadNothing
<1>5. clean' => clean /\ keys' = Columns(entries)
  <2>1. CASE accepted
    BY <1>1, <1>2, <2>1 DEF KeysTold
  <2>2. CASE ~accepted
    <3>1. ApplyAll(keys, <<>>) = keys
      BY <1>1, ReadNothing
    <3> QED BY <1>1, <1>2, <2>2, <3>1 DEF KeysTold
  <2> QED BY <2>1, <2>2
<1>6. KeysTold'
  BY <1>2, <1>4, <1>5 DEF KeysTold
<1>7. RecordTold'
  <2>1. CASE accepted
    <3>1. Len(Columns(entries)) \in Nat
      BY <1>1, ColumnsFacts
    <3>2. clean' => keys' = written'
      BY <1>2, <1>5, <2>1
    <3> QED BY <1>2, <2>1, <3>1, <3>2 DEF RecordTold, Decodes
  <2>2. CASE ~accepted
    BY <1>1, <1>2, <2>2 DEF RecordTold, Decodes
  <2> QED BY <2>1, <2>2
<1> QED BY <1>1, <1>2, <1>3, <1>6, <1>7 DEF KeysInv, Distinct

-----------------------------------------------------------------------------
(* The first start().                                                      *)
LEMMA KeysInitInv == KeysInit => KeysInv
<1> SUFFICES ASSUME KeysInit PROVE KeysInv
  OBVIOUS
<1> DEFINE e == Added(T, TimeType)
<1>1. /\ entries = <<TimeEntry>> /\ events = <<e>> /\ keys = <<>> /\ written = <<>>
      /\ clean = TRUE
  BY DEF KeysInit
<1>2. TimeEntry \in Entry /\ e \in KeyEvent
  BY TimeFacts
<1>3. e.op = "added" /\ e.key = TimeEntry.key /\ e.type = TimeEntry.type
  BY DEF TimeEntry, Added
<1> HIDE DEF e
<1>4. /\ entries \in Seq(Entry) /\ events \in Seq(KeyEvent) /\ keys \in Seq(Column)
      /\ Distinct(entries)
  BY <1>1, <1>2 DEF Distinct
<1>5. <<>> \in Seq(Column) /\ <<>> \in Seq(KeyEvent) /\ <<>> \in Seq(Entry)
  OBVIOUS
<1>6. entries = Append(<<>>, TimeEntry) /\ events = Append(<<>>, e)
  BY <1>1
<1>7. ApplyAll(<<>>, Append(<<>>, e)) = Apply(ApplyAll(<<>>, <<>>), e)
  BY <1>2, <1>5, ReadOneMore
<1>8. ApplyAll(<<>>, <<>>) = <<>>
  BY <1>5, ReadNothing
<1>9. Columns(<<>>) = <<>>
  <2>1. Columns(<<>>) \in Seq(Column) /\ Len(Columns(<<>>)) = Len(<<>>)
    BY <1>5, ColumnsFacts
  <2> QED BY <2>1
<1>10. Apply(Columns(<<>>), e) = Columns(Append(<<>>, TimeEntry))
  BY <1>2, <1>3, <1>5, LearnOne
<1>11. KeysTold
  BY <1>1, <1>6, <1>7, <1>8, <1>9, <1>10 DEF KeysTold
<1>12. RecordTold
  BY <1>1 DEF RecordTold, Decodes
<1> QED BY <1>1, <1>4, <1>11, <1>12 DEF KeysInv

(* Every operation of the logger, and every record, keeps the invariant.   *)
LEMMA KeysNextInv == KeysInv /\ [KeysNext]_keyVars => KeysInv'
<1> SUFFICES ASSUME KeysInv, [KeysNext]_keyVars PROVE KeysInv'
  OBVIOUS
<1>1. CASE \E k \in Key, t \in LogType, s \in Source, o \in Overwrites :
             AddLogEntry(k, t, s, o)
  BY <1>1, AddKeeps
<1>2. CASE \E k \in Key \cup {T} : RemoveLogEntry(k)
  BY <1>2, RemoveKeeps
<1>3. CASE \E s \in Source : RemoveLogEntries(s)
  BY <1>3, RemoveSomeKeeps
<1>4. CASE \E record \in Recorded : Clear(record)
  BY <1>4, ClearKeeps, LogAssumption
<1>5. CASE \E how \in Restarts \ {"failed"} : Restart(how)
  BY <1>5, RestartKeeps, LogAssumption
<1>8. CASE RestartFails
  BY <1>8, RestartFailsKeeps
<1>6. CASE LogRecord
  BY <1>6, RecordKeeps
<1>7. CASE UNCHANGED keyVars
  BY <1>7 DEF KeysInv, keyVars, Distinct, KeysTold, RecordTold, Decodes
<1> QED BY <1>1, <1>2, <1>3, <1>4, <1>5, <1>6, <1>7, <1>8 DEF KeysNext

(* Whatever is done to the entries of the logger, in any order and for any *)
(* number of keys, types and owners, the entries have different names, and *)
(* the file tells its reader which.                                        *)
THEOREM KeysInvariance == KeysSpec => []KeysInv
<1> QED BY KeysInitInv, KeysNextInv, PTL DEF KeysSpec

(* The reader can catch up, and the last record of the file is read back   *)
(* with the names and the types of its values (Logger::log and LogEntry),  *)
(* as long as nothing was done to the file that the events do not tell: no *)
(* entry was replaced, the entries were not cleared without events, no     *)
(* record with events was dropped or logged while no file was open, and no *)
(* file was left for another without telling the keys again.  A            *)
(* start(resume = true) makes it so again.                                 *)
THEOREM ReaderCatchesUpAlways == KeysSpec => []ReaderCatchesUp
<1>1. KeysInv => ReaderCatchesUp
  BY DEF KeysInv, ReaderCatchesUp
<1> QED BY <1>1, KeysInvariance, PTL
=============================================================================
