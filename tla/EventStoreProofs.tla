-------------------------- MODULE EventStoreProofs --------------------------
(***************************************************************************)
(* The store implements the event log, its memory is a sound log, and who  *)
(* follows it gets the log, for every choice of the constants.             *)
(*                                                                         *)
(* SQLite alone decides what the refinement says: whatever the memory      *)
(* holds, the transaction of persist_event accepts a commit only at the    *)
(* row's cursor, for the row's owner, and with a fresh id.                 *)
(*                                                                         *)
(* The second half is about EventStreams, whose steps are steps of the     *)
(* store (StreamsRefineStore).  Since the log in memory is dense, a read   *)
(* from number n on returns n, n + 1, ... (ReadInOrder), so that a stream  *)
(* has delivered an interval, up to its cursor; the wakes and the shown    *)
(* events are followed from the commit, through its call, to the reader.   *)
(***************************************************************************)
EXTENDS EventStreams, FiniteSetTheorems, TLAPS

(* A call that has written SQLite remembers what it was given.             *)
CallsAreNamed ==
  /\ \A c \in Claims : claim[c].pc = "persisted" =>
       claim[c].aggregate \in Aggregates /\ claim[c].owner \in Owners
  /\ \A r \in Removals : removal[r].pc = "persisted" => removal[r].aggregate \in Aggregates

(* The tables of a sound log: LogIsSound of a copy of the tables, with     *)
(* their types.                                                            *)
NumbersIn(rows, a) == {r.seq : r \in {q \in rows : q.aggregate = a}}

Dense(t) == \A a \in Aggregates : NumbersIn(t.rows, a) = 0 .. t.next[a] - 1

Distinct(t) ==
  \A r, q \in t.rows :
    (r.aggregate = q.aggregate /\ r.seq = q.seq) \/ IdOf[r.event] = IdOf[q.event] => r = q

Proper(t) ==
  /\ \A r \in t.rows : r.aggregate = AggregateOf[r.event]
  /\ \A a \in Aggregates : t.next[a] = 0 => t.owner[a] = None

Sound(t) == t \in Tables /\ Dense(t) /\ Distinct(t) /\ Proper(t)

StoreInv == StoreTypeOK /\ CallsAreNamed /\ Sound(disk) /\ Sound(memory)

LEMMA TablesType ==
  ASSUME StoreInv
  PROVE  /\ memory.next \in [Aggregates -> Nat] /\ disk.next \in [Aggregates -> Nat]
         /\ memory.owner \in [Aggregates -> Owners \union {None}]
         /\ disk.owner \in [Aggregates -> Owners \union {None}]
         /\ \A a \in Aggregates : disk.next[a] = 0 => disk.owner[a] = None
         /\ \A a \in Aggregates : memory.next[a] = 0 => memory.owner[a] = None
  BY DEF StoreInv, Sound, Proper, Tables

(* What a commit does to SQLite is a commit of the event log for the same  *)
(* owner.                                                                  *)
LEMMA CommitOnDisk ==
  ASSUME StoreInv, NEW e \in Events, NEW o \in Owners \union {None}, Commit(e, o)
  PROVE  Disk!AppendRow(e, o)
<1> DEFINE a == AggregateOf[e]
           kept == IF memory.owner[a] # None THEN memory.owner[a] ELSE o
<1>1. a \in Aggregates
  BY EventAssumption
<1>2. /\ disk.next[a] = memory.next[a]
      /\ memory.next[a] > 0 => disk.owner[a] = kept
      /\ \A r \in disk.rows : IdOf[r.event] # IdOf[e]
      /\ disk' = Inserted(disk, e, kept)
  BY DEF Commit, Persists, HasId
<1>3. /\ disk'.rows = disk.rows \union {Row(disk.next[a], e)}
      /\ disk'.next = [disk.next EXCEPT ![a] = @ + 1]
      /\ disk'.owner = [disk.owner EXCEPT ![a] = kept]
  BY <1>2 DEF Inserted
<1>4. kept = IF disk.owner[a] = None THEN o ELSE disk.owner[a]
  <2>1. CASE memory.next[a] = 0
    BY <2>1, <1>1, <1>2, TablesType
  <2>2. CASE memory.next[a] > 0
    BY <2>2, <1>2
  <2> QED BY <2>1, <2>2, <1>1, TablesType
<1> QED BY <1>2, <1>3, <1>4 DEF Disk!AppendRow, Disk!Row, Row

-----------------------------------------------------------------------------
(* The steps, one by one: on SQLite each is a step of the event log.       *)

LEMMA ClaimOnDisk ==
  ASSUME NEW c \in Claims, NEW a \in Aggregates, NEW o \in Owners, StoreInv, PersistClaim(c, a, o)
  PROVE  Disk!ClaimAggregate(a, o) \/ UNCHANGED disk
<1>1. CASE disk.next[a] > 0
  BY <1>1 DEF PersistClaim, Owned, Disk!ClaimAggregate
<1>2. CASE ~(disk.next[a] > 0)
  <2>1. disk'.owner = disk.owner
    <3>1. disk'.owner = [disk.owner EXCEPT ![a] = disk.owner[a]]
      BY <1>2 DEF PersistClaim, Owned
    <3>2. [disk.owner EXCEPT ![a] = disk.owner[a]] = disk.owner
      BY TablesType
    <3> QED BY <3>1, <3>2
  <2> QED BY <2>1 DEF PersistClaim, Owned, StoreInv, StoreTypeOK, Tables
<1> QED BY <1>1, <1>2

LEMMA RemovalOnDisk ==
  ASSUME NEW r \in Removals, NEW a \in Aggregates, PersistRemoval(r, a)
  PROVE  Disk!RemoveAggregate(a)
  BY DEF PersistRemoval, Emptied, Disk!RemoveAggregate

LEMMA StepOnDisk ==
  ASSUME StoreInv, [StoreNext]_storeVars
  PROVE  [Disk!LogNext]_(Disk!logVars)
<1>1. ASSUME UNCHANGED disk PROVE UNCHANGED Disk!logVars
  BY <1>1 DEF Disk!logVars
<1>2. ASSUME NEW e \in Events, Publish(e) PROVE Disk!LogNext
  BY <1>2, CommitOnDisk DEF Publish, Disk!PublishEvent, Disk!LogNext
<1>3. ASSUME NEW e \in Events, NEW o \in Owners \union {None},
             NEW n \in 0 .. memory.next[AggregateOf[e]], ReplayNext(e, n, o)
      PROVE  Disk!LogNext
  <2> DEFINE a == AggregateOf[e]
  <2>1. Commit(e, o) /\ memory.owner[a] \in {None, o} /\ a \in Aggregates
    BY <1>3, EventAssumption DEF ReplayNext
  <2>2. disk.owner[a] \in {None, o}
    <3>1. CASE memory.next[a] = 0
      BY <3>1, <2>1, TablesType DEF Commit, Persists
    <3>2. CASE memory.next[a] > 0
      BY <3>2, <2>1 DEF Commit, Persists
    <3> QED BY <3>1, <3>2, <2>1, TablesType
  <2>3. Disk!ReplayNew(e, o)
    BY <2>1, <2>2, CommitOnDisk DEF Disk!ReplayNew
  <2> QED BY <2>3 DEF Disk!LogNext
<1>4. ASSUME NEW e \in Events, NEW o, NEW n, ReplayAgain(e, n, o) PROVE UNCHANGED disk
  BY <1>4 DEF ReplayAgain
<1>5. ASSUME NEW c \in Claims, FinishClaim(c) PROVE UNCHANGED disk
  BY <1>5 DEF FinishClaim
<1>6. ASSUME NEW c \in Claims, NEW a \in Aggregates, NEW o \in Owners, PersistClaim(c, a, o)
      PROVE  Disk!LogNext \/ UNCHANGED disk
  BY <1>6, ClaimOnDisk DEF Disk!LogNext
<1>7. ASSUME NEW r \in Removals, FinishRemoval(r) PROVE UNCHANGED disk
  BY <1>7 DEF FinishRemoval
<1>8. ASSUME NEW r \in Removals, NEW a \in Aggregates, PersistRemoval(r, a) PROVE Disk!LogNext
  BY <1>8, RemovalOnDisk DEF Disk!LogNext
<1>9. ASSUME RestartStore PROVE UNCHANGED disk
  BY <1>9 DEF RestartStore
<1>10. ASSUME UNCHANGED storeVars PROVE UNCHANGED disk
  BY <1>10 DEF storeVars
<1> QED
  BY <1>1, <1>2, <1>3, <1>4, <1>5, <1>6, <1>7, <1>8, <1>9, <1>10 DEF StoreNext

-----------------------------------------------------------------------------
(* Inserted, Owned and Emptied, of which all steps consist, keep a table   *)
(* sound.                                                                  *)

LEMMA InsertedSound ==
  ASSUME NEW t, Sound(t), NEW e \in Events, NEW o \in Owners \union {None}, ~HasId(t, e)
  PROVE  Sound(Inserted(t, e, o))
<1> DEFINE a == AggregateOf[e]
           new == Row(t.next[a], e)
           s == Inserted(t, e, o)
<1>1. a \in Aggregates /\ t.next[a] \in Nat
  BY EventAssumption DEF Sound, Tables
<1>2. new \in Disk!Rows /\ new.aggregate = a /\ new.seq = t.next[a] /\ new.event = e
  BY <1>1 DEF Row, Disk!Rows
<1>3. /\ s.rows = t.rows \union {new}
      /\ s.next = [t.next EXCEPT ![a] = @ + 1]
      /\ s.owner = [t.owner EXCEPT ![a] = o]
      /\ s \in [rows : {s.rows}, next : {s.next}, owner : {s.owner}]
      /\ \A r \in t.rows : IdOf[r.event] # IdOf[e]
  BY DEF Inserted, HasId
<1> HIDE DEF new, s
<1>4. s \in Tables
  BY <1>1, <1>2, <1>3 DEF Sound, Tables
<1>5. ASSUME NEW b \in Aggregates PROVE NumbersIn(t.rows, b) = 0 .. t.next[b] - 1
  BY DEF Sound, Dense
<1>6. \A r \in t.rows : r.aggregate = a => r.seq # t.next[a]
  <2> SUFFICES ASSUME NEW r \in t.rows, r.aggregate = a PROVE r.seq # t.next[a]
    OBVIOUS
  <2>1. r.seq \in NumbersIn(t.rows, a)
    BY DEF NumbersIn
  <2> QED BY <2>1, <1>1, <1>5
<1>7. Dense(s)
  <2> SUFFICES ASSUME NEW b \in Aggregates PROVE NumbersIn(s.rows, b) = 0 .. s.next[b] - 1
    BY DEF Dense
  <2>1. CASE b = a
    <3>1. NumbersIn(s.rows, a) = NumbersIn(t.rows, a) \union {t.next[a]}
      BY <1>2, <1>3 DEF NumbersIn
    <3>2. s.next[a] = t.next[a] + 1
      BY <1>1, <1>3 DEF Sound, Tables
    <3> QED BY <2>1, <3>1, <3>2, <1>1, <1>5
  <2>2. CASE b # a
    <3>1. NumbersIn(s.rows, b) = NumbersIn(t.rows, b)
      BY <1>2, <1>3, <2>2 DEF NumbersIn
    <3>2. s.next[b] = t.next[b]
      BY <1>3, <2>2 DEF Sound, Tables
    <3> QED BY <3>1, <3>2, <1>5
  <2> QED BY <2>1, <2>2
<1>8. Distinct(s)
  <2> SUFFICES ASSUME NEW r \in s.rows, NEW q \in s.rows,
                      (r.aggregate = q.aggregate /\ r.seq = q.seq) \/ IdOf[r.event] = IdOf[q.event]
               PROVE  r = q
    BY DEF Distinct
  <2>1. CASE r \in t.rows /\ q \in t.rows
    BY <2>1 DEF Sound, Distinct
  <2>2. CASE r = new \/ q = new
    BY <2>2, <1>2, <1>3, <1>6
  <2> QED BY <2>1, <2>2, <1>3
<1>9. Proper(s)
  <2>1. \A r \in s.rows : r.aggregate = AggregateOf[r.event]
    BY <1>2, <1>3 DEF Sound, Proper
  <2>2. ASSUME NEW b \in Aggregates, s.next[b] = 0 PROVE s.owner[b] = None
    <3>1. b # a
      BY <2>2, <1>1, <1>3 DEF Sound, Tables
    <3> QED BY <2>2, <3>1, <1>3 DEF Sound, Tables, Proper
  <2> QED BY <2>1, <2>2 DEF Proper
<1> QED BY <1>4, <1>7, <1>8, <1>9 DEF Sound, s

LEMMA OwnedSound ==
  ASSUME NEW t, Sound(t), NEW a \in Aggregates, NEW o \in Owners
  PROVE  Sound(Owned(t, a, o))
<1> DEFINE s == Owned(t, a, o)
<1>1. s.rows = t.rows /\ s.next = t.next
  BY DEF Owned
<1>2. s \in Tables
  BY DEF Owned, Sound, Tables
<1>3. Dense(s) /\ Distinct(s)
  BY <1>1 DEF Sound, Dense, Distinct
<1>4. \A b \in Aggregates : t.next[b] = 0 => s.owner[b] = t.owner[b]
  BY DEF Owned, Sound, Tables
<1>5. Proper(s)
  BY <1>1, <1>4 DEF Sound, Proper
<1> QED BY <1>2, <1>3, <1>5 DEF Sound

LEMMA EmptiedSound ==
  ASSUME NEW t, Sound(t), NEW a \in Aggregates
  PROVE  Sound(Emptied(t, a))
<1> DEFINE s == Emptied(t, a)
<1>1. /\ s.rows = {r \in t.rows : r.aggregate # a}
      /\ s.next = [t.next EXCEPT ![a] = 0]
      /\ s.owner = [t.owner EXCEPT ![a] = None]
  BY DEF Emptied
<1>2. s \in Tables
  BY DEF Emptied, Sound, Tables
<1>3. Dense(s)
  <2> SUFFICES ASSUME NEW b \in Aggregates PROVE NumbersIn(s.rows, b) = 0 .. s.next[b] - 1
    BY DEF Dense
  <2>1. CASE b = a
    <3>1. NumbersIn(s.rows, b) = {}
      BY <1>1, <2>1 DEF NumbersIn
    <3>2. s.next[b] = 0
      BY <1>1, <2>1 DEF Sound, Tables
    <3> QED BY <3>1, <3>2
  <2>2. CASE b # a
    <3>1. NumbersIn(s.rows, b) = NumbersIn(t.rows, b)
      BY <1>1, <2>2 DEF NumbersIn
    <3>2. s.next[b] = t.next[b]
      BY <1>1, <2>2 DEF Sound, Tables
    <3> QED BY <3>1, <3>2 DEF Sound, Dense
  <2> QED BY <2>1, <2>2
<1>4. Distinct(s)
  BY <1>1 DEF Sound, Distinct
<1>5. Proper(s)
  BY <1>1 DEF Sound, Tables, Proper
<1> QED BY <1>2, <1>3, <1>4, <1>5 DEF Sound

LEMMA NoTablesSound == Sound(NoTables)
<1>1. NoTables.rows = {} /\ \A a \in Aggregates : NoTables.next[a] = 0 /\ NoTables.owner[a] = None
  BY DEF NoTables
<1>2. NoTables \in Tables
  BY DEF NoTables, Tables
<1>3. Dense(NoTables)
  <2> SUFFICES ASSUME NEW a \in Aggregates PROVE NumbersIn(NoTables.rows, a) = 0 .. NoTables.next[a] - 1
    BY DEF Dense
  <2>1. NumbersIn(NoTables.rows, a) = {}
    BY <1>1 DEF NumbersIn
  <2>2. NoTables.next[a] = 0
    BY <1>1
  <2> QED BY <2>1, <2>2
<1> QED BY <1>1, <1>2, <1>3 DEF Sound, Distinct, Proper

(* Claims and removals reach the memory later than SQLite; a restart gives *)
(* it what SQLite holds.                                                   *)
LEMMA StepSound ==
  ASSUME StoreInv, [StoreNext]_storeVars
  PROVE  Sound(disk') /\ Sound(memory')
<1>0. Sound(disk) /\ Sound(memory) /\ CallsAreNamed
  BY DEF StoreInv
<1>1. ASSUME NEW e \in Events, NEW o \in Owners \union {None}, Commit(e, o)
      PROVE  Sound(disk') /\ Sound(memory')
  <2> DEFINE kept == IF memory.owner[AggregateOf[e]] # None THEN memory.owner[AggregateOf[e]] ELSE o
  <2>1. kept \in Owners \union {None}
    BY TablesType, EventAssumption
  <2>2. /\ ~HasId(memory, e) /\ ~HasId(disk, e)
        /\ disk' = Inserted(disk, e, kept) /\ memory' = Inserted(memory, e, kept)
    BY <1>1 DEF Commit, Persists
  <2> QED BY <1>0, <2>1, <2>2, InsertedSound
<1>2. ASSUME NEW e \in Events, Publish(e) PROVE Sound(disk') /\ Sound(memory')
  BY <1>1, <1>2 DEF Publish
<1>3. ASSUME NEW e \in Events, NEW o \in Owners \union {None}, NEW n, ReplayNext(e, n, o)
      PROVE  Sound(disk') /\ Sound(memory')
  BY <1>1, <1>3 DEF ReplayNext
<1>4. ASSUME NEW e \in Events, NEW o \in Owners \union {None}, NEW n, ReplayAgain(e, n, o)
      PROVE  Sound(disk') /\ Sound(memory')
  BY <1>0, <1>4, OwnedSound, EventAssumption DEF ReplayAgain
<1>5. ASSUME NEW c \in Claims, FinishClaim(c) PROVE Sound(disk') /\ Sound(memory')
  BY <1>0, <1>5, OwnedSound DEF FinishClaim, CallsAreNamed
<1>6. ASSUME NEW c \in Claims, NEW a \in Aggregates, NEW o \in Owners, PersistClaim(c, a, o)
      PROVE  Sound(disk') /\ Sound(memory')
  BY <1>0, <1>6, OwnedSound DEF PersistClaim
<1>7. ASSUME NEW r \in Removals, FinishRemoval(r) PROVE Sound(disk') /\ Sound(memory')
  BY <1>0, <1>7, EmptiedSound DEF FinishRemoval, CallsAreNamed
<1>8. ASSUME NEW r \in Removals, NEW a \in Aggregates, PersistRemoval(r, a)
      PROVE  Sound(disk') /\ Sound(memory')
  BY <1>0, <1>8, EmptiedSound DEF PersistRemoval
<1>9. ASSUME RestartStore PROVE Sound(disk') /\ Sound(memory')
  BY <1>0, <1>9 DEF RestartStore
<1>10. ASSUME UNCHANGED storeVars PROVE Sound(disk') /\ Sound(memory')
  BY <1>0, <1>10 DEF storeVars
<1> QED
  BY <1>2, <1>3, <1>4, <1>5, <1>6, <1>7, <1>8, <1>9, <1>10 DEF StoreNext

(* The calls in progress.                                                  *)
LEMMA StepTyped ==
  ASSUME StoreInv, [StoreNext]_storeVars
  PROVE  StoreTypeOK' /\ CallsAreNamed'
<1> USE DEF StoreTypeOK, CallsAreNamed, CallPCs
<1>0. StoreTypeOK /\ CallsAreNamed /\ disk' \in Tables /\ memory' \in Tables
  BY StepSound DEF StoreInv, Sound
<1>1. ASSUME UNCHANGED <<claim, removal, restarts>> PROVE StoreTypeOK' /\ CallsAreNamed'
  BY <1>0, <1>1
<1>2. ASSUME NEW e \in Events, Publish(e) PROVE StoreTypeOK' /\ CallsAreNamed'
  BY <1>1, <1>2 DEF Publish, Commit
<1>3. ASSUME NEW e \in Events, NEW o, NEW n, ReplayNext(e, n, o)
      PROVE  StoreTypeOK' /\ CallsAreNamed'
  BY <1>1, <1>3 DEF ReplayNext, Commit
<1>4. ASSUME NEW e \in Events, NEW o, NEW n, ReplayAgain(e, n, o)
      PROVE  StoreTypeOK' /\ CallsAreNamed'
  BY <1>1, <1>4 DEF ReplayAgain
<1>5. ASSUME NEW c \in Claims, FinishClaim(c) PROVE StoreTypeOK' /\ CallsAreNamed'
  BY <1>0, <1>5 DEF FinishClaim
<1>6. ASSUME NEW c \in Claims, NEW a \in Aggregates, NEW o \in Owners, PersistClaim(c, a, o)
      PROVE  StoreTypeOK' /\ CallsAreNamed'
  BY <1>0, <1>6 DEF PersistClaim
<1>7. ASSUME NEW r \in Removals, FinishRemoval(r) PROVE StoreTypeOK' /\ CallsAreNamed'
  BY <1>0, <1>7 DEF FinishRemoval
<1>8. ASSUME NEW r \in Removals, NEW a \in Aggregates, PersistRemoval(r, a)
      PROVE  StoreTypeOK' /\ CallsAreNamed'
  BY <1>0, <1>8 DEF PersistRemoval
<1>9. ASSUME RestartStore PROVE StoreTypeOK' /\ CallsAreNamed'
  BY <1>0, <1>9, EventStoreAssumption DEF RestartStore, Over
<1>10. ASSUME UNCHANGED storeVars PROVE StoreTypeOK' /\ CallsAreNamed'
  BY <1>1, <1>10 DEF storeVars
<1> QED
  BY <1>2, <1>3, <1>4, <1>5, <1>6, <1>7, <1>8, <1>9, <1>10 DEF StoreNext

LEMMA StoreInitInv == StoreInit => StoreInv
<1> SUFFICES ASSUME StoreInit PROVE StoreInv
  OBVIOUS
<1>1. Sound(disk) /\ Sound(memory)
  BY NoTablesSound DEF StoreInit
<1>2. StoreTypeOK /\ CallsAreNamed
  BY <1>1, EventStoreAssumption DEF StoreInit, StoreTypeOK, CallsAreNamed, Sound, CallPCs
<1> QED BY <1>1, <1>2 DEF StoreInv

LEMMA StoreNextInv == StoreInv /\ [StoreNext]_storeVars => StoreInv'
<1> SUFFICES ASSUME StoreInv, [StoreNext]_storeVars PROVE StoreInv'
  OBVIOUS
<1>1. Sound(disk)' /\ Sound(memory)'
  BY StepSound DEF Sound, Dense, Distinct, Proper, Tables
<1> QED BY <1>1, StepTyped DEF StoreInv

(* The tables and the calls have the values they should.                   *)
THEOREM StoreIsTyped == StoreSpec => []StoreTypeOK
<1>1. StoreInv => StoreTypeOK
  BY DEF StoreInv
<1> QED BY <1>1, StoreInitInv, StoreNextInv, PTL DEF StoreSpec

(* The store in SQLite implements the event service of the original: every *)
(* step of the store is a step of the event log, or leaves SQLite alone.   *)
THEOREM StoreImplementsEventLog == StoreSpec => ImplementsEventLog
<1>1. StoreInit => Disk!LogInit
  BY DEF StoreInit, NoTables, Disk!LogInit
<1>2. StoreInv /\ [StoreNext]_storeVars => [Disk!LogNext]_(Disk!logVars)
  BY StepOnDisk
<1> QED BY <1>1, <1>2, StoreInitInv, StoreNextInv, PTL DEF StoreSpec, ImplementsEventLog, Disk!LogSpec

(* Readers rely on the log in memory: dense numbers, one event for each,   *)
(* no id twice, whatever claims, removals and restarts come in between.    *)
THEOREM MemoryStaysSound == StoreSpec => []MemoryIsSound
<1>1. StoreInv => MemoryIsSound
  BY DEF StoreInv, MemoryIsSound, Memory!LogIsSound, Memory!NumbersAreDense, Memory!OneEventPerNumber,
         Memory!OneRowPerId, Sound, Dense, Distinct, Proper, NumbersIn
<1> QED BY <1>1, StoreInitInv, StoreNextInv, PTL DEF StoreSpec

-----------------------------------------------------------------------------
(* Write-through.  It is inductive as it stands: a commit goes through     *)
(* only when SQLite's cursor is the memory's.                              *)

OfAggregate(tables, a) == {r \in tables.rows : r.aggregate = a}

Synced(a) == memory.next[a] = disk.next[a] /\ OfAggregate(memory, a) = OfAggregate(disk, a)

Removed(a) ==
  \E r \in Removals : removal[r].pc \in {"persisted", "done"} /\ removal[r].aggregate = a

LEMMA CommitSynced ==
  ASSUME StoreInv, NEW e \in Events, NEW o, Commit(e, o), NEW a \in Aggregates, Synced(a)
  PROVE  Synced(a)'
<1> DEFINE b == AggregateOf[e]
<1>1. /\ memory.next[b] = disk.next[b]
      /\ memory'.next = [memory.next EXCEPT ![b] = @ + 1]
      /\ disk'.next = [disk.next EXCEPT ![b] = @ + 1]
      /\ memory'.rows = memory.rows \union {Row(memory.next[b], e)}
      /\ disk'.rows = disk.rows \union {Row(disk.next[b], e)}
  BY DEF Commit, Persists, Inserted
<1>2. memory'.next[a] = disk'.next[a]
  BY <1>1, TablesType DEF Synced
<1>3. OfAggregate(memory', a) = OfAggregate(disk', a)
  BY <1>1 DEF Synced, OfAggregate
<1> QED BY <1>2, <1>3 DEF Synced, OfAggregate

LEMMA WrittenThroughStep ==
  ASSUME StoreInv, WrittenThrough, [StoreNext]_storeVars
  PROVE  WrittenThrough'
<1> SUFFICES ASSUME NEW a \in Aggregates PROVE (Synced(a) \/ Removed(a))'
  BY DEF WrittenThrough, Synced, Removed, OfAggregate
<1>0. Synced(a) \/ Removed(a)
  BY DEF WrittenThrough, Synced, Removed, OfAggregate
<1>1. ASSUME NEW e \in Events, NEW o, Commit(e, o) PROVE (Synced(a) \/ Removed(a))'
  BY <1>0, <1>1, CommitSynced DEF Commit, Removed
<1>2. ASSUME NEW e \in Events, Publish(e) PROVE (Synced(a) \/ Removed(a))'
  BY <1>1, <1>2 DEF Publish
<1>3. ASSUME NEW e \in Events, NEW o, NEW n, ReplayNext(e, n, o) PROVE (Synced(a) \/ Removed(a))'
  BY <1>1, <1>3 DEF ReplayNext
<1>4. ASSUME NEW e \in Events, NEW o, NEW n, ReplayAgain(e, n, o) PROVE (Synced(a) \/ Removed(a))'
  BY <1>0, <1>4 DEF ReplayAgain, Owned, Synced, OfAggregate, Removed
<1>5. ASSUME NEW c \in Claims, FinishClaim(c) PROVE (Synced(a) \/ Removed(a))'
  BY <1>0, <1>5 DEF FinishClaim, Owned, Synced, OfAggregate, Removed
<1>6. ASSUME NEW c \in Claims, NEW b, NEW o, PersistClaim(c, b, o) PROVE (Synced(a) \/ Removed(a))'
  BY <1>0, <1>6 DEF PersistClaim, Owned, Synced, OfAggregate, Removed
<1>7. ASSUME NEW r \in Removals, FinishRemoval(r) PROVE (Synced(a) \/ Removed(a))'
  <2>1. CASE Removed(a)
    BY <2>1, <1>7 DEF FinishRemoval, Removed, StoreInv, StoreTypeOK
  <2>2. CASE Synced(a) /\ removal[r].aggregate # a
    BY <2>2, <1>7 DEF FinishRemoval, Emptied, Synced, OfAggregate
  <2>3. CASE removal[r].aggregate = a
    BY <2>3, <1>7 DEF FinishRemoval, Removed, StoreInv, StoreTypeOK
  <2> QED BY <1>0, <2>1, <2>2, <2>3
<1>8. ASSUME NEW r \in Removals, NEW b \in Aggregates, PersistRemoval(r, b)
      PROVE  (Synced(a) \/ Removed(a))'
  <2>1. CASE Removed(a)
    BY <2>1, <1>8 DEF PersistRemoval, Removed, StoreInv, StoreTypeOK
  <2>2. CASE Synced(a) /\ b # a
    BY <2>2, <1>8 DEF PersistRemoval, Emptied, Synced, OfAggregate
  <2>3. CASE b = a
    BY <2>3, <1>8 DEF PersistRemoval, Removed, StoreInv, StoreTypeOK
  <2> QED BY <1>0, <2>1, <2>2, <2>3
<1>9. ASSUME RestartStore PROVE (Synced(a) \/ Removed(a))'
  BY <1>9 DEF RestartStore, Synced, OfAggregate
<1>10. ASSUME UNCHANGED storeVars PROVE (Synced(a) \/ Removed(a))'
  BY <1>0, <1>10 DEF storeVars, Synced, OfAggregate, Removed
<1> QED
  BY <1>2, <1>3, <1>4, <1>5, <1>6, <1>7, <1>8, <1>9, <1>10 DEF StoreNext

(* Memory and SQLite hold the same events of every aggregate that has not  *)
(* been removed since the start.                                           *)
THEOREM MemoryIsWrittenThrough == StoreSpec => []WrittenThrough
<1>1. StoreInit => WrittenThrough
  BY DEF StoreInit, NoTables, WrittenThrough
<1> QED BY <1>1, StoreInitInv, StoreNextInv, WrittenThroughStep, PTL DEF StoreSpec
-----------------------------------------------------------------------------
(* Those who follow the store.  A step of theirs is a step of the store or *)
(* leaves its tables alone.                                                *)

LEMMA StepOfStore ==
  ASSUME [Next]_vars
  PROVE  [StoreNext]_storeVars
<1>1. ASSUME NEW e \in Events, EmitEvent(e) PROVE StoreNext
  BY <1>1 DEF EmitEvent, StoreNext
<1>2. ASSUME NEW e \in Events, NEW o \in Owners \union {None},
             NEW n \in 0 .. memory.next[AggregateOf[e]], ReplayEvent(e, n, o)
      PROVE  StoreNext
  BY <1>2 DEF ReplayEvent, StoreNext
<1>3. ASSUME SilentStep PROVE StoreNext
  BY <1>3 DEF SilentStep, StoreNext
<1>4. ASSUME NEW k \in calls, Wake(k) \/ Emit(k) PROVE UNCHANGED storeVars
  BY <1>4 DEF Wake, Emit
<1>5. ASSUME NEW s \in Streams, NEW a, NEW n, OpenStream(s, a, n) PROVE UNCHANGED storeVars
  BY <1>5 DEF OpenStream
<1>6. ASSUME NEW s \in Streams, SubscribeStream(s) \/ ReadOn(s) \/ EndStream(s)
      PROVE  UNCHANGED storeVars
  BY <1>6 DEF SubscribeStream, ReadOn, EndStream
<1>7. ASSUME NEW c \in Clients, NEW a, OpenClientLive(c, a) \/ \E n \in 0 .. memory.next[a] : OpenClient(c, a, n)
      PROVE  UNCHANGED storeVars
  BY <1>7 DEF OpenClientLive, OpenClient
<1>8. ASSUME NEW c \in Clients, SubscribeClient(c) \/ CloseClient(c) PROVE UNCHANGED storeVars
  BY <1>8 DEF SubscribeClient, CloseClient
<1>9. ASSUME Restart PROVE StoreNext
  BY <1>9 DEF Restart, StoreNext
<1>10. ASSUME UNCHANGED vars PROVE UNCHANGED storeVars
  BY <1>10 DEF vars
<1> QED
  BY <1>1, <1>2, <1>3, <1>4, <1>5, <1>6, <1>7, <1>8, <1>9, <1>10 DEF Next

(* With its streams, its clients and the calls that wake and feed them,    *)
(* the store behaves as the store: what is proved of StoreSpec holds here. *)
THEOREM StreamsRefineStore == Spec => StoreSpec
<1>1. Init => StoreInit
  BY DEF Init
<1> QED BY <1>1, StepOfStore, PTL DEF Spec, StoreSpec

-----------------------------------------------------------------------------
(* What a reader gets of a sound log: the rows it asked for, under the     *)
(* numbers from n on, without a gap.                                       *)

Between(a, m, n) == {r \in memory.rows : r.aggregate = a /\ m <= r.seq /\ r.seq < n}

LEMMA CountBetween ==
  ASSUME Sound(memory), NEW a \in Aggregates, NEW m \in Nat, NEW n \in Nat,
         m <= n, n <= memory.next[a]
  PROVE  IsFiniteSet(Between(a, m, n)) /\ Cardinality(Between(a, m, n)) = n - m
<1> DEFINE S == Between(a, m, n)
           f == [i \in m .. n - 1 |-> CHOOSE r \in memory.rows : r.aggregate = a /\ r.seq = i]
<1>1. memory.next[a] \in Nat /\ \A r \in memory.rows : r.seq \in Nat
  BY DEF Sound, Tables, Disk!Rows
<1>2. ASSUME NEW i \in m .. n - 1
      PROVE  f[i] \in memory.rows /\ f[i].aggregate = a /\ f[i].seq = i
  <2>1. i \in NumbersIn(memory.rows, a)
    BY <1>1 DEF Sound, Dense
  <2>2. \E r \in memory.rows : r.aggregate = a /\ r.seq = i
    BY <2>1 DEF NumbersIn
  <2> QED BY <2>2
<1>3. f \in Bijection(m .. n - 1, S)
  <2> HIDE DEF f
  <2>1. \A i \in m .. n - 1 : f[i] \in S
    BY <1>2 DEF Between
  <2>2. f \in [m .. n - 1 -> S]
    BY <2>1 DEF f
  <2>3. \A i, j \in m .. n - 1 : f[i] = f[j] => i = j
    BY <1>2
  <2>4. ASSUME NEW r \in S PROVE \E i \in m .. n - 1 : f[i] = r
    <3>1. r \in memory.rows /\ r.aggregate = a /\ r.seq \in m .. n - 1
      BY <1>1 DEF Between
    <3>2. f[r.seq] = r
      BY <3>1, <1>2 DEF Sound, Distinct
    <3> QED BY <3>1, <3>2
  <2> QED BY <2>2, <2>3, <2>4 DEF Bijection, Injection, Surjection, IsInjective
<1>4. ExistsBijection(m .. n - 1, S)
  BY <1>3 DEF ExistsBijection
<1>5. IsFiniteSet(m .. n - 1) /\ Cardinality(m .. n - 1) = n - m
  BY FS_Interval
<1> QED BY <1>4, <1>5, FS_Bijection

LEMMA ReadInOrder ==
  ASSUME Sound(memory), NEW a \in Aggregates, NEW n \in Nat
  PROVE  LET events == ReadFrom(a, n) IN
         /\ events \in Seq(memory.rows)
         /\ Len(events) = IF n < memory.next[a] THEN memory.next[a] - n ELSE 0
         /\ \A i \in DOMAIN events : events[i].aggregate = a /\ events[i].seq = n + i - 1
<1> DEFINE page == {r \in memory.rows : r.aggregate = a /\ r.seq >= n}
           size == IF n < memory.next[a] THEN memory.next[a] - n ELSE 0
           before(r) == {q \in page : q.seq < r.seq}
           events == ReadFrom(a, n)
<1>1. memory.next[a] \in Nat /\ \A r \in memory.rows : r.seq \in Nat
  BY DEF Sound, Tables, Disk!Rows
<1>2. \A r \in memory.rows : r.aggregate = a => r.seq < memory.next[a]
  <2> SUFFICES ASSUME NEW r \in memory.rows, r.aggregate = a PROVE r.seq < memory.next[a]
    OBVIOUS
  <2>1. r.seq \in NumbersIn(memory.rows, a)
    BY DEF NumbersIn
  <2> QED BY <2>1, <1>1 DEF Sound, Dense
<1>3. IsFiniteSet(page) /\ Cardinality(page) = size
  <2>1. CASE n < memory.next[a]
    <3>1. page = Between(a, n, memory.next[a])
      BY <1>1, <1>2 DEF Between
    <3>2. /\ IsFiniteSet(Between(a, n, memory.next[a]))
          /\ Cardinality(Between(a, n, memory.next[a])) = memory.next[a] - n
      BY <2>1, <1>1, CountBetween
    <3> HIDE DEF page
    <3> QED BY <2>1, <3>1, <3>2
  <2>2. CASE ~(n < memory.next[a])
    <3>1. page = {}
      BY <2>2, <1>1, <1>2
    <3> QED BY <2>2, <3>1, FS_EmptySet
  <2> QED BY <2>1, <2>2
<1>4. ASSUME NEW r \in page PROVE r.seq - n \in Nat /\ Cardinality(before(r)) = r.seq - n
  <2>1. r.seq \in Nat /\ n <= r.seq /\ r.seq <= memory.next[a]
    BY <1>1, <1>2
  <2>2. before(r) = Between(a, n, r.seq)
    BY <1>1 DEF Between
  <2>3. Cardinality(Between(a, n, r.seq)) = r.seq - n
    BY <2>1, <1>1, CountBetween
  <2> HIDE DEF before
  <2> QED BY <2>1, <2>2, <2>3
<1>5. size \in Nat /\ events = [i \in 1 .. size |-> CHOOSE r \in page : Cardinality(before(r)) = i - 1]
  <2>1. events = [i \in 1 .. Cardinality(page) |-> CHOOSE r \in page : Cardinality(before(r)) = i - 1]
    BY DEF ReadFrom
  <2> HIDE DEF events, before, page
  <2> QED BY <2>1, <1>1, <1>3
<1> HIDE DEF events, before, page
<1>6. ASSUME NEW i \in 1 .. size
      PROVE  events[i] \in memory.rows /\ events[i].aggregate = a /\ events[i].seq = n + i - 1
  <2>1. n + i - 1 \in NumbersIn(memory.rows, a)
    BY <1>1 DEF Sound, Dense
  <2>2. \E r \in page : r.seq = n + i - 1
    BY <2>1 DEF NumbersIn, page
  <2>3. \E r \in page : Cardinality(before(r)) = i - 1
    BY <2>2, <1>4
  <2>4. events[i] \in page /\ Cardinality(before(events[i])) = i - 1
    BY <2>3, <1>5
  <2>5. events[i].seq - n = i - 1 /\ events[i].seq \in Nat
    BY <2>4, <1>4, <1>1 DEF page
  <2> QED BY <2>4, <2>5 DEF page
<1> HIDE DEF size
<1>7. events \in Seq(memory.rows) /\ Len(events) = size /\ DOMAIN events = 1 .. size
  <2>1. size \in Nat /\ events \in [1 .. size -> memory.rows]
    BY <1>5, <1>6
  <2>2. events \in Seq(memory.rows)
    BY <2>1
  <2>3. DOMAIN events = 1 .. size
    BY <2>1
  <2> QED BY <2>1, <2>2, <2>3
<1> QED BY <1>6, <1>7 DEF events, size

-----------------------------------------------------------------------------
(* Streams.  What a stream has delivered is the interval from the first    *)
(* number asked for to its cursor, also when the cursor is beyond the end  *)
(* of a log that has been removed and begun anew.                          *)

StreamPCs == {"idle", "read", "live", "ended"}

StreamState ==
  [pc : StreamPCs, aggregate : Aggregates \union {None}, from : Nat, cursor : Nat,
   got : Seq(Nat), since : Nat, wired : BOOLEAN, wakes : Nat]

Follows(str) ==
  /\ str.cursor = str.from + Len(str.got)
  /\ \A i \in DOMAIN str.got : str.got[i] = str.from + i - 1

StreamOK(str) ==
  /\ str \in StreamState
  /\ Follows(str)
  /\ str.pc = "idle" => str.got = <<>>
  /\ str.pc # "idle" => str.aggregate \in Aggregates

StreamInv == stream \in [Streams -> StreamState] /\ \A s \in Streams : StreamOK(stream[s])

SameStream(new, old) ==
  /\ new.pc = old.pc /\ new.aggregate = old.aggregate /\ new.from = old.from
  /\ new.since = old.since /\ new.wired = old.wired /\ new.wakes = old.wakes

(* Reading on keeps the interval, and reaches the end of the log.          *)
LEMMA Delivered ==
  ASSUME Sound(memory), NEW str \in StreamState, Follows(str), str.aggregate \in Aggregates
  PROVE  /\ Deliver(str) \in StreamState /\ Follows(Deliver(str))
         /\ SameStream(Deliver(str), str)
         /\ \A r \in memory.rows : r.aggregate = str.aggregate => r.seq < Deliver(str).cursor
<1> DEFINE a == str.aggregate
           events == ReadFrom(a, str.cursor)
           size == IF str.cursor < memory.next[a] THEN memory.next[a] - str.cursor ELSE 0
           numbers == Numbers(events)
           new == Deliver(str)
<1>1. /\ str.cursor \in Nat /\ str.from \in Nat /\ str.got \in Seq(Nat)
      /\ memory.next[a] \in Nat
      /\ \A r \in memory.rows : r.seq \in Nat
  BY DEF StreamState, Sound, Tables, Disk!Rows
<1>2. /\ events \in Seq(memory.rows) /\ Len(events) = size /\ size \in Nat
      /\ \A i \in DOMAIN events : events[i].seq = str.cursor + i - 1
  BY <1>1, ReadInOrder
<1>3. /\ new.got = str.got \o numbers
      /\ new.cursor = IF events = <<>> THEN str.cursor ELSE Last(events).seq + 1
      /\ SameStream(new, str)
      /\ new = [str EXCEPT !.got = new.got, !.cursor = new.cursor]
  BY DEF Deliver, StreamState, SameStream
<1> HIDE DEF size, events, new
<1>4. DOMAIN events = 1 .. size
  BY <1>2
<1>5. numbers \in Seq(Nat) /\ Len(numbers) = size /\ \A i \in 1 .. size : numbers[i] = str.cursor + i - 1
  <2>1. numbers \in [1 .. size -> Nat]
    BY <1>1, <1>2, <1>4 DEF Numbers
  <2>2. \A i \in 1 .. size : numbers[i] = str.cursor + i - 1
    BY <1>2, <1>4 DEF Numbers
  <2> HIDE DEF numbers
  <2>3. numbers \in Seq(Nat)
    BY <2>1, <1>2
  <2>4. DOMAIN numbers = 1 .. size
    BY <2>1
  <2> QED BY <2>2, <2>3, <2>4, <1>2
<1>6. new.cursor = str.cursor + size
  <2>1. CASE events = <<>>
    BY <2>1, <1>1, <1>2, <1>3
  <2>2. CASE events # <<>>
    <3>1. size \in 1 .. size /\ Last(events) = events[size]
      BY <2>2, <1>2 DEF Last
    <3> QED BY <2>2, <3>1, <1>1, <1>2, <1>3, <1>4
  <2> QED BY <2>1, <2>2
<1> HIDE DEF numbers
<1>7. new.got \in Seq(Nat) /\ Len(new.got) = Len(str.got) + size
  <2>1. new.got = str.got \o numbers
    BY <1>3
  <2>2. str.got \in Seq(Nat) /\ numbers \in Seq(Nat) /\ Len(numbers) = size
    BY <1>1, <1>5
  <2>3. str.got \o numbers \in Seq(Nat)
    BY <2>2
  <2>4. Len(str.got \o numbers) = Len(str.got) + size
    BY <2>2
  <2> QED BY <2>1, <2>3, <2>4
<1>8. Follows(new)
  <2>1. new.cursor = new.from + Len(new.got)
    BY <1>1, <1>2, <1>3, <1>6, <1>7 DEF Follows, SameStream
  <2>2. ASSUME NEW i \in DOMAIN new.got PROVE new.got[i] = new.from + i - 1
    <3>1. i \in 1 .. Len(str.got) + size
      BY <1>7
    <3>2. CASE i <= Len(str.got)
      BY <3>1, <3>2, <1>1, <1>3, <1>5 DEF Follows, SameStream
    <3>3. CASE i > Len(str.got)
      <4>1. i - Len(str.got) \in 1 .. size
        BY <3>1, <3>3, <1>1, <1>2
      <4>2. new.got[i] = numbers[i - Len(str.got)]
        BY <3>1, <3>3, <4>1, <1>1, <1>3, <1>5
      <4>3. numbers[i - Len(str.got)] = str.cursor + (i - Len(str.got)) - 1
        BY <4>1, <1>5
      <4>4. str.cursor = str.from + Len(str.got) /\ new.from = str.from
        BY <1>3 DEF Follows, SameStream
      <4>5. Len(str.got) \in Nat /\ i \in Nat /\ str.from \in Nat
        BY <3>1, <1>1, <1>2
      <4>6. str.cursor + (i - Len(str.got)) - 1 = str.from + i - 1
        BY <4>4, <4>5
      <4> QED BY <4>2, <4>3, <4>4, <4>6
    <3> QED BY <3>1, <3>2, <3>3, <1>1
  <2> QED BY <2>1, <2>2 DEF Follows
<1>9. new \in StreamState
  <2>1. new.cursor \in Nat
    BY <1>1, <1>2, <1>6
  <2> QED BY <2>1, <1>3, <1>7 DEF StreamState, SameStream
<1>10. ASSUME NEW r \in memory.rows, r.aggregate = a PROVE r.seq < new.cursor
  <2>1. r.seq \in NumbersIn(memory.rows, a)
    BY <1>10 DEF NumbersIn
  <2>2. r.seq < memory.next[a]
    BY <2>1, <1>1 DEF Sound, Dense
  <2> QED BY <2>2, <1>1, <1>6, <1>10 DEF size
<1> QED BY <1>3, <1>8, <1>9, <1>10 DEF new

(* What a step does to one stream: it opens, subscribes, is woken, reads   *)
(* on, ends, or stays as it was.                                           *)
Woken(new, old) == \E b \in BOOLEAN : new = [old EXCEPT !.wakes = @ + 1, !.wired = b]

Ended(str) == [str EXCEPT !.pc = "ended", !.wired = FALSE, !.wakes = 0]

Opened(str, a, n) == Deliver([str EXCEPT !.pc = "read", !.aggregate = a, !.from = n, !.cursor = n])

Subscribed(str) == [str EXCEPT !.pc = "live", !.wired = TRUE, !.since = memory.next[str.aggregate]]

Woke(str) == [Deliver(str) EXCEPT !.wakes = str.wakes - 1]

LEMMA OpenedOK ==
  ASSUME Sound(memory), NEW str, StreamOK(str), str.pc = "idle", NEW a \in Aggregates,
         NEW n \in 0 .. memory.next[a]
  PROVE  StreamOK(Opened(str, a, n)) /\ Opened(str, a, n).pc = "read"
<1> DEFINE asked == [str EXCEPT !.pc = "read", !.aggregate = a, !.from = n, !.cursor = n]
<1>1. n \in Nat
  BY DEF Sound, Tables
<1>2. asked \in StreamState /\ asked.aggregate = a /\ asked.pc = "read" /\ asked.got = <<>>
      /\ asked.from = n /\ asked.cursor = n
  BY <1>1 DEF StreamOK, StreamState, StreamPCs
<1> HIDE DEF asked
<1>3. Follows(asked)
  BY <1>1, <1>2 DEF Follows
<1>4. Deliver(asked) \in StreamState /\ Follows(Deliver(asked)) /\ SameStream(Deliver(asked), asked)
  BY <1>2, <1>3, Delivered
<1> QED BY <1>2, <1>4 DEF StreamOK, SameStream, Opened, asked

LEMMA WokeOK ==
  ASSUME Sound(memory), NEW str, StreamOK(str), str.pc = "live", str.wakes > 0
  PROVE  /\ StreamOK(Woke(str)) /\ Woke(str).pc = "live" /\ Woke(str).aggregate = str.aggregate
         /\ \A r \in memory.rows : r.aggregate = str.aggregate => r.seq < Woke(str).cursor
<1> DEFINE read == Deliver(str)
<1>1. str.wakes - 1 \in Nat
  BY DEF StreamOK, StreamState
<1>2. /\ read \in StreamState /\ Follows(read) /\ SameStream(read, str)
      /\ \A r \in memory.rows : r.aggregate = str.aggregate => r.seq < read.cursor
      /\ str.aggregate \in Aggregates
  BY Delivered DEF StreamOK
<1>3. Woke(str) = [read EXCEPT !.wakes = str.wakes - 1]
  BY DEF Woke
<1> HIDE DEF read
<1>4. /\ Woke(str) \in StreamState /\ Woke(str).pc = "live" /\ Woke(str).aggregate = str.aggregate
      /\ Woke(str).cursor = read.cursor /\ Woke(str).from = read.from /\ Woke(str).got = read.got
  BY <1>1, <1>2, <1>3 DEF StreamState, SameStream
<1> QED BY <1>2, <1>4 DEF StreamOK, Follows

LEMMA EndedOK ==
  ASSUME NEW str, StreamOK(str), str.pc # "idle"
  PROVE  StreamOK(Ended(str)) /\ Ended(str).pc = "ended"
BY DEF StreamOK, StreamState, StreamPCs, Ended, Follows

LEMMA SubscribedOK ==
  ASSUME Sound(memory), NEW str, StreamOK(str), str.pc = "read"
  PROVE  /\ StreamOK(Subscribed(str)) /\ Subscribed(str).aggregate = str.aggregate
         /\ Subscribed(str).since = memory.next[str.aggregate]
<1>1. memory.next[str.aggregate] \in Nat
  BY DEF StreamOK, Sound, Tables
<1> QED BY <1>1 DEF StreamOK, StreamState, StreamPCs, Subscribed, Follows

LEMMA WokenOK ==
  ASSUME NEW str, StreamOK(str), NEW new, Woken(new, str)
  PROVE  StreamOK(new) /\ new.wakes # 0
<1>1. PICK b \in BOOLEAN : new = [str EXCEPT !.wakes = @ + 1, !.wired = b]
  BY DEF Woken
<1>2. str \in StreamState /\ str.wakes + 1 \in Nat /\ str.wakes + 1 # 0
  BY DEF StreamOK, StreamState
<1>3. new \in StreamState
  BY <1>1, <1>2 DEF StreamState
<1>4. /\ new.wakes = str.wakes + 1 /\ new.pc = str.pc /\ new.aggregate = str.aggregate
      /\ new.from = str.from /\ new.cursor = str.cursor /\ new.got = str.got
  BY <1>1, <1>2 DEF StreamState
<1> QED BY <1>2, <1>3, <1>4 DEF StreamOK, Follows

-----------------------------------------------------------------------------
(* The streams, step by step.                                              *)

LEMMA OneStream ==
  ASSUME StreamInv, NEW s \in Streams, NEW new, StreamOK(new), stream' = [stream EXCEPT ![s] = new]
  PROVE  StreamInv'
<1>1. new \in StreamState
  BY DEF StreamOK
<1> QED BY <1>1 DEF StreamInv

LEMMA WakeStreams ==
  ASSUME StreamInv, NEW k \in calls, Wake(k), NEW s \in Streams
  PROVE  IF stream[s].wired /\ stream[s].aggregate = AggregateOf[k.event]
           THEN Woken(stream'[s], stream[s]) ELSE stream'[s] = stream[s]
<1> DEFINE wired == {q \in Streams : stream[q].wired /\ stream[q].aggregate = AggregateOf[k.event]}
           several == Cardinality(wired) > 1
<1>1. stream' = [q \in Streams |->
        IF q \in wired THEN [stream[q] EXCEPT !.wakes = @ + 1, !.wired = several] ELSE stream[q]]
  BY DEF Wake
<1>2. several \in BOOLEAN
  OBVIOUS
<1> HIDE DEF several
<1> QED BY <1>1, <1>2 DEF Woken

LEMMA RestartStreams ==
  ASSUME Restart, NEW s \in Streams
  PROVE  stream'[s] = IF stream[s].pc = "idle" THEN stream[s] ELSE Ended(stream[s])
BY DEF Restart, Ended

LEMMA StreamStep ==
  ASSUME StoreInv, StreamInv, [Next]_vars
  PROVE  StreamInv'
<1>0. Sound(memory) /\ (\A s \in Streams : StreamOK(stream[s]))
  BY DEF StoreInv, StreamInv
<1>1. ASSUME UNCHANGED stream PROVE StreamInv'
  BY <1>1 DEF StreamInv
<1>2. ASSUME NEW k \in calls, Wake(k) PROVE StreamInv'
  <2>1. ASSUME NEW s \in Streams PROVE StreamOK(stream'[s])
    BY <1>0, <1>2, WakeStreams, WokenOK
  <2>2. stream' = [s \in Streams |-> stream'[s]]
    BY <1>2 DEF Wake
  <2> QED BY <2>1, <2>2 DEF StreamInv, StreamOK
<1>3. ASSUME NEW s \in Streams, NEW a \in Aggregates, NEW n \in 0 .. memory.next[a], OpenStream(s, a, n)
      PROVE  StreamInv'
  <2>1. stream[s].pc = "idle" /\ stream' = [stream EXCEPT ![s] = Opened(stream[s], a, n)]
    BY <1>3 DEF OpenStream, Opened, StreamInv
  <2> QED BY <2>1, <1>0, OpenedOK, OneStream
<1>4. ASSUME NEW s \in Streams, SubscribeStream(s) PROVE StreamInv'
  <2>1. stream[s].pc = "read" /\ stream' = [stream EXCEPT ![s] = Subscribed(stream[s])]
    BY <1>4 DEF SubscribeStream, Subscribed, StreamInv
  <2> QED BY <2>1, <1>0, SubscribedOK, OneStream
<1>5. ASSUME NEW s \in Streams, ReadOn(s) PROVE StreamInv'
  <2>1. stream[s].pc = "live" /\ stream[s].wakes > 0
    BY <1>5 DEF ReadOn
  <2>2. stream' = [stream EXCEPT ![s] = Woke(stream[s])]
    BY <1>5 DEF ReadOn, Woke, StreamInv
  <2> QED BY <2>1, <2>2, <1>0, WokeOK, OneStream
<1>6. ASSUME NEW s \in Streams, EndStream(s) PROVE StreamInv'
  <2>1. stream[s].pc = "live" /\ stream' = [stream EXCEPT ![s] = Ended(stream[s])]
    BY <1>6 DEF EndStream, Ended, StreamInv
  <2> QED BY <2>1, <1>0, EndedOK, OneStream
<1>7. ASSUME Restart PROVE StreamInv'
  <2>1. ASSUME NEW s \in Streams PROVE StreamOK(stream'[s])
    BY <1>0, <1>7, RestartStreams, EndedOK
  <2>2. stream' = [s \in Streams |-> stream'[s]]
    BY <1>7 DEF Restart
  <2> QED BY <2>1, <2>2 DEF StreamInv, StreamOK
<1>8. ASSUME \/ \E e \in Events : EmitEvent(e)
             \/ \E e \in Events, o \in Owners \union {None} :
                  \E n \in 0 .. memory.next[AggregateOf[e]] : ReplayEvent(e, n, o)
             \/ SilentStep
             \/ \E k \in calls : Emit(k)
             \/ \E c \in Clients, a \in Aggregates :
                  OpenClientLive(c, a) \/ \E n \in 0 .. memory.next[a] : OpenClient(c, a, n)
             \/ \E c \in Clients : SubscribeClient(c) \/ CloseClient(c)
             \/ UNCHANGED vars
      PROVE  UNCHANGED stream
  BY <1>8 DEF EmitEvent, ReplayEvent, SilentStep, Emit, OpenClientLive, OpenClient, SubscribeClient,
              CloseClient, followVars, vars
<1> QED BY <1>1, <1>2, <1>3, <1>4, <1>5, <1>6, <1>7, <1>8 DEF Next

LEMMA StreamInit == Init => StreamInv
<1> SUFFICES ASSUME Init PROVE StreamInv
  OBVIOUS
<1> DEFINE str == [pc |-> "idle", aggregate |-> None, from |-> 0, cursor |-> 0,
                   got |-> <<>>, since |-> 0, wired |-> FALSE, wakes |-> 0]
<1>1. stream = [s \in Streams |-> str]
  BY DEF Init
<1>2. StreamOK(str)
  BY DEF StreamOK, StreamState, StreamPCs, Follows
<1> HIDE DEF str
<1> QED BY <1>1, <1>2 DEF StreamInv, StreamOK

(* A stream delivers the interval from the first number asked for on, in   *)
(* order, whatever commits, wakes and removals come between its reads.     *)
THEOREM StreamsInOrder == Spec => []StreamInOrder
<1>1. StreamInv => StreamInOrder
  BY DEF StreamInv, StreamOK, Follows, StreamInOrder
<1>2. StoreInv /\ StreamInv /\ [Next]_vars => StoreInv' /\ StreamInv'
  BY StepOfStore, StoreNextInv, StreamStep
<1>3. Init => StoreInv /\ StreamInv
  BY StoreInitInv, StreamInit DEF Init
<1> QED BY <1>1, <1>2, <1>3, PTL DEF Spec

-----------------------------------------------------------------------------
(* The wakes are enough.  The property is inductive: a commit adds its row *)
(* and its call together, the call leaves its wake with every stream that  *)
(* lacks the row, and a read leaves no row of the log behind.              *)

Awaited(r) == \E k \in calls : ~k.woken /\ k.event = r.event

CaughtUp(s) ==
  stream[s].pc = "live" /\ stream[s].wired /\ stream[s].wakes = 0 =>
    \A r \in memory.rows :
      r.aggregate = stream[s].aggregate /\ r.seq >= stream[s].since =>
        r.seq < stream[s].cursor \/ Awaited(r)

(* A step that adds no row, takes no call away and leaves the stream.      *)
LEMMA SameCaughtUp ==
  ASSUME NEW s \in Streams, CaughtUp(s), stream'[s] = stream[s],
         \A r \in memory'.rows : r \in memory.rows \/ Awaited(r)',
         \A k \in calls : ~k.woken => k \in calls'
  PROVE  CaughtUp(s)'
BY DEF CaughtUp, Awaited

LEMMA CommitCaughtUp ==
  ASSUME NEW s \in Streams, CaughtUp(s), stream'[s] = stream[s],
         NEW e \in Events, NEW o, Commit(e, o), NEW emits, Begin(e, emits)
  PROVE  CaughtUp(s)'
<1>1. memory'.rows = memory.rows \union {Row(memory.next[AggregateOf[e]], e)}
  BY DEF Commit, Inserted
<1>2. Row(memory.next[AggregateOf[e]], e).event = e
  BY DEF Row
<1>3. \E k \in calls' : ~k.woken /\ k.event = e
  <2> DEFINE new == [seq |-> memory.next[AggregateOf[e]], event |-> e, emits |-> emits, woken |-> FALSE]
  <2>1. new \in calls'
    BY DEF Begin
  <2>2. ~new.woken /\ new.event = e
    OBVIOUS
  <2> HIDE DEF new
  <2> QED BY <2>1, <2>2
<1> QED BY <1>1, <1>2, <1>3, SameCaughtUp DEF Awaited, Begin

LEMMA FewerRows ==
  ASSUME SilentStep
  PROVE  memory'.rows \subseteq memory.rows
BY DEF SilentStep, ReplayAgain, FinishClaim, PersistClaim, FinishRemoval, PersistRemoval, Owned, Emptied

LEMMA CaughtUpStep ==
  ASSUME StoreInv, StreamInv, NEW s \in Streams, CaughtUp(s), [Next]_vars
  PROVE  CaughtUp(s)'
<1>0. /\ Sound(memory) /\ StreamOK(stream[s]) /\ stream \in [Streams -> StreamState]
      /\ \A r \in memory.rows : r.aggregate = AggregateOf[r.event] /\ r.seq \in Nat
  BY DEF StoreInv, StreamInv, Sound, Proper, Tables, Disk!Rows
<1>1. ASSUME UNCHANGED <<memory, calls>>, stream'[s] = stream[s] PROVE CaughtUp(s)'
  BY <1>1 DEF CaughtUp, Awaited
<1>2. ASSUME NEW e \in Events, EmitEvent(e) PROVE CaughtUp(s)'
  BY <1>2, CommitCaughtUp DEF EmitEvent, Publish
<1>3. ASSUME NEW e \in Events, NEW o, NEW n, ReplayEvent(e, n, o) PROVE CaughtUp(s)'
  BY <1>3, CommitCaughtUp DEF ReplayEvent, ReplayNext
<1>4. ASSUME SilentStep PROVE CaughtUp(s)'
  BY <1>4, FewerRows, SameCaughtUp DEF SilentStep, followVars
<1>5. ASSUME NEW k \in calls, Wake(k) PROVE CaughtUp(s)'
  <2>1. memory' = memory /\ \A q \in calls : q # k => q \in calls'
    BY <1>5 DEF Wake, storeVars
  <2>2. CASE stream[s].wired /\ stream[s].aggregate = AggregateOf[k.event]
    <3>1. stream'[s].wakes # 0
      BY <2>2, <1>0, <1>5, WakeStreams, WokenOK
    <3> QED BY <3>1 DEF CaughtUp
  <2>3. CASE ~(stream[s].wired /\ stream[s].aggregate = AggregateOf[k.event])
    <3>1. stream'[s] = stream[s]
      BY <2>3, <1>5, WakeStreams
    <3>2. SUFFICES ASSUME stream[s].pc = "live", stream[s].wired, stream[s].wakes = 0,
                          NEW r \in memory.rows, r.aggregate = stream[s].aggregate,
                          r.seq >= stream[s].since, ~(r.seq < stream[s].cursor)
                   PROVE  Awaited(r)'
      BY <3>1, <2>1 DEF CaughtUp
    <3>3. PICK q \in calls : ~q.woken /\ q.event = r.event
      BY <3>2 DEF CaughtUp, Awaited
    <3>4. q # k
      BY <2>3, <3>2, <3>3, <1>0
    <3> QED BY <3>3, <3>4, <2>1 DEF Awaited
  <2> QED BY <2>2, <2>3
<1>6. ASSUME NEW k \in calls, Emit(k) PROVE CaughtUp(s)'
  <2>1. memory' = memory /\ stream' = stream /\ \A q \in calls : ~q.woken => q \in calls'
    BY <1>6 DEF Emit, storeVars
  <2> QED BY <2>1, SameCaughtUp
<1>7. ASSUME NEW q \in Streams, NEW a \in Aggregates, NEW n \in 0 .. memory.next[a], OpenStream(q, a, n)
      PROVE  CaughtUp(s)'
  <2>1. CASE q = s
    <3>1. stream[s].pc = "idle" /\ stream'[s] = Opened(stream[s], a, n)
      BY <2>1, <1>7, <1>0 DEF OpenStream, Opened
    <3>2. stream'[s].pc = "read"
      BY <3>1, <1>0, OpenedOK
    <3> QED BY <3>2 DEF CaughtUp
  <2>2. CASE q # s
    BY <2>2, <1>7, <1>0, <1>1 DEF OpenStream, storeVars
  <2> QED BY <2>1, <2>2
<1>8. ASSUME NEW q \in Streams, SubscribeStream(q) PROVE CaughtUp(s)'
  <2>1. CASE q = s
    <3>1. /\ stream[s].pc = "read" /\ stream'[s] = Subscribed(stream[s])
          /\ memory' = memory
      BY <2>1, <1>8, <1>0 DEF SubscribeStream, Subscribed, storeVars
    <3>2. /\ stream'[s].aggregate = stream[s].aggregate
          /\ stream'[s].since = memory.next[stream[s].aggregate]
          /\ stream[s].aggregate \in Aggregates /\ memory.next[stream[s].aggregate] \in Nat
      BY <3>1, <1>0, SubscribedOK DEF StreamOK, Sound, Tables
    <3>3. ASSUME NEW r \in memory.rows, r.aggregate = stream[s].aggregate
          PROVE  ~(r.seq >= stream'[s].since)
      <4>1. r.seq \in NumbersIn(memory.rows, stream[s].aggregate)
        BY <3>3 DEF NumbersIn
      <4> QED BY <4>1, <3>2, <1>0 DEF Sound, Dense
    <3> QED BY <3>1, <3>2, <3>3 DEF CaughtUp
  <2>2. CASE q # s
    BY <2>2, <1>8, <1>0, <1>1 DEF SubscribeStream, storeVars
  <2> QED BY <2>1, <2>2
<1>9. ASSUME NEW q \in Streams, ReadOn(q) PROVE CaughtUp(s)'
  <2>1. CASE q = s
    <3>1. /\ stream[s].pc = "live" /\ stream[s].wakes > 0
          /\ stream'[s] = Woke(stream[s]) /\ memory' = memory
      BY <2>1, <1>9, <1>0 DEF ReadOn, Woke, storeVars
    <3>2. /\ stream'[s].aggregate = stream[s].aggregate
          /\ \A r \in memory.rows : r.aggregate = stream[s].aggregate => r.seq < stream'[s].cursor
      BY <3>1, <1>0, WokeOK
    <3> QED BY <3>1, <3>2 DEF CaughtUp
  <2>2. CASE q # s
    BY <2>2, <1>9, <1>0, <1>1 DEF ReadOn, storeVars
  <2> QED BY <2>1, <2>2
<1>10. ASSUME NEW q \in Streams, EndStream(q) PROVE CaughtUp(s)'
  <2>1. CASE q = s
    BY <2>1, <1>10, <1>0 DEF EndStream, CaughtUp, StreamState
  <2>2. CASE q # s
    BY <2>2, <1>10, <1>0, <1>1 DEF EndStream, storeVars
  <2> QED BY <2>1, <2>2
<1>11. ASSUME NEW c \in Clients, NEW a, OpenClientLive(c, a) \/ \E n \in 0 .. memory.next[a] : OpenClient(c, a, n)
       PROVE  CaughtUp(s)'
  BY <1>11, <1>1 DEF OpenClientLive, OpenClient, storeVars
<1>12. ASSUME NEW c \in Clients, SubscribeClient(c) \/ CloseClient(c) PROVE CaughtUp(s)'
  BY <1>12, <1>1 DEF SubscribeClient, CloseClient, storeVars
<1>13. ASSUME Restart PROVE CaughtUp(s)'
  <2>1. stream'[s].pc # "live"
    <3>1. CASE stream[s].pc = "idle"
      BY <3>1, <1>13, RestartStreams
    <3>2. CASE stream[s].pc # "idle"
      BY <3>2, <1>13, <1>0, RestartStreams, EndedOK
    <3> QED BY <3>1, <3>2
  <2> QED BY <2>1 DEF CaughtUp
<1>14. ASSUME UNCHANGED vars PROVE CaughtUp(s)'
  BY <1>14, <1>1 DEF vars, storeVars, followVars
<1> QED
  BY <1>2, <1>3, <1>4, <1>5, <1>6, <1>7, <1>8, <1>9, <1>10, <1>11, <1>12, <1>13, <1>14 DEF Next

(* A live stream that has handled its wakes lacks, of the events committed *)
(* since it subscribed, only those whose commit has not sent its wake.     *)
THEOREM StreamsCatchUp == Spec => []StreamIsCaughtUp
<1> DEFINE AllCaughtUp == \A s \in Streams : CaughtUp(s)
<1>1. AllCaughtUp => StreamIsCaughtUp
  BY DEF CaughtUp, Awaited, StreamIsCaughtUp
<1>2. StoreInv /\ StreamInv /\ AllCaughtUp /\ [Next]_vars => StoreInv' /\ StreamInv' /\ AllCaughtUp'
  BY StepOfStore, StoreNextInv, StreamStep, CaughtUpStep
<1>3. Init => StoreInv /\ StreamInv /\ AllCaughtUp
  BY StoreInitInv, StreamInit DEF Init, CaughtUp
<1> QED BY <1>1, <1>2, <1>3, PTL DEF Spec

-----------------------------------------------------------------------------
(* What is shown is stored.  An event that a client has been shown, or is  *)
(* going to be shown by a call in progress, has its row in SQLite, or its  *)
(* aggregate has been removed; a commit writes SQLite before it makes the  *)
(* call, and only a removal takes a row away.                              *)

RemovalBegan(a) == \E r \in Removals : removal[r].pc # "idle" /\ removal[r].aggregate = a

Stored(n, e) == Row(n, e) \in disk.rows \/ RemovalBegan(AggregateOf[e])

Shown == [seq : Nat, event : Events]

CallsInv ==
  /\ calls \subseteq [seq : Nat, event : Events, emits : BOOLEAN, woken : BOOLEAN]
  /\ \A k \in calls : Stored(k.seq, k.event)

ShownOK(got, a) ==
  /\ got \in Seq(Shown)
  /\ \A i \in DOMAIN got : AggregateOf[got[i].event] = a /\ Stored(got[i].seq, got[i].event)

ClientOK(c) ==
  /\ ShownOK(client[c].got, client[c].aggregate)
  /\ client[c].pc = "idle" => client[c].got = <<>>

ClientPCs == {"idle", "read", "live", "closed"}

ClientState == [pc : ClientPCs, aggregate : Aggregates \union {None}, from : Nat, got : Seq(Shown)]

ShownInv ==
  /\ WrittenThrough
  /\ CallsInv
  /\ client \in [Clients -> ClientState]
  /\ \A c \in Clients : ClientOK(c)

(* No step of the store takes back what is stored.                         *)
LEMMA StoredStays ==
  ASSUME StoreInv, [StoreNext]_storeVars, NEW n, NEW e \in Events, Stored(n, e)
  PROVE  Stored(n, e)'
<1> DEFINE a == AggregateOf[e]
<1>1. ASSUME disk.rows \subseteq disk'.rows, UNCHANGED removal PROVE Stored(n, e)'
  BY <1>1 DEF Stored, RemovalBegan, Row
<1>2. ASSUME NEW d \in Events, NEW o, Commit(d, o) PROVE Stored(n, e)'
  BY <1>1, <1>2 DEF Commit, Inserted
<1>3. ASSUME NEW d \in Events, Publish(d) PROVE Stored(n, e)'
  BY <1>2, <1>3 DEF Publish
<1>4. ASSUME NEW d \in Events, NEW o, NEW m, ReplayNext(d, m, o) \/ ReplayAgain(d, m, o)
      PROVE  Stored(n, e)'
  BY <1>1, <1>2, <1>4 DEF ReplayNext, ReplayAgain
<1>5. ASSUME NEW c \in Claims, FinishClaim(c) PROVE Stored(n, e)'
  BY <1>1, <1>5 DEF FinishClaim
<1>6. ASSUME NEW c \in Claims, NEW b, NEW o, PersistClaim(c, b, o) PROVE Stored(n, e)'
  BY <1>1, <1>6 DEF PersistClaim, Owned
<1>7. ASSUME NEW r \in Removals, FinishRemoval(r) PROVE Stored(n, e)'
  BY <1>7 DEF FinishRemoval, Stored, RemovalBegan, Row, StoreInv, StoreTypeOK
<1>8. ASSUME NEW r \in Removals, NEW b \in Aggregates, PersistRemoval(r, b) PROVE Stored(n, e)'
  <2>0. /\ removal[r].pc = "idle" /\ removal \in [Removals -> [pc : CallPCs, aggregate : Aggregates \union {None}]]
        /\ removal' = [removal EXCEPT ![r] = [pc |-> "persisted", aggregate |-> b]]
        /\ disk'.rows = {q \in disk.rows : q.aggregate # b}
    BY <1>8 DEF PersistRemoval, Emptied, StoreInv, StoreTypeOK
  <2>1. CASE RemovalBegan(a)
    BY <2>0, <2>1 DEF Stored, RemovalBegan
  <2>2. CASE a = b
    <3>1. RemovalBegan(a)'
      BY <2>0, <2>2 DEF RemovalBegan
    <3> QED BY <3>1 DEF Stored, RemovalBegan
  <2>3. CASE Row(n, e) \in disk.rows /\ a # b
    BY <2>0, <2>3 DEF Stored, Row
  <2> QED BY <2>1, <2>2, <2>3 DEF Stored
<1>9. ASSUME RestartStore PROVE Stored(n, e)'
  <2>1. /\ disk' = disk /\ removal' = Over(removal)
        /\ removal \in [Removals -> [pc : CallPCs, aggregate : Aggregates \union {None}]]
    BY <1>9 DEF RestartStore, StoreInv, StoreTypeOK
  <2>2. ASSUME NEW r \in Removals, removal[r].pc # "idle"
        PROVE  removal'[r].pc # "idle" /\ removal'[r].aggregate = removal[r].aggregate
    BY <2>1, <2>2 DEF Over
  <2> QED BY <2>1, <2>2 DEF Stored, RemovalBegan, Row
<1>10. ASSUME UNCHANGED storeVars PROVE Stored(n, e)'
  BY <1>1, <1>10 DEF storeVars
<1> QED
  BY <1>3, <1>4, <1>5, <1>6, <1>7, <1>8, <1>9, <1>10 DEF StoreNext

(* The event of a commit is stored under the number of its call.           *)
LEMMA CommitStored ==
  ASSUME StoreInv, NEW e \in Events, NEW o, Commit(e, o), NEW n, n = memory.next[AggregateOf[e]]
  PROVE  Stored(n, e)' /\ n \in Nat
<1>1. n = disk.next[AggregateOf[e]] /\ n \in Nat
  BY EventAssumption, TablesType DEF Commit, Persists
<1>2. disk'.rows = disk.rows \union {Row(disk.next[AggregateOf[e]], e)}
  BY DEF Commit, Inserted
<1> QED BY <1>1, <1>2 DEF Stored, Row

(* The calls: a commit makes one for an event that is stored, and nothing  *)
(* else adds one.                                                          *)
LEMMA CallsStep ==
  ASSUME StoreInv, CallsInv, [Next]_vars
  PROVE  CallsInv'
<1> DEFINE Calls == [seq : Nat, event : Events, emits : BOOLEAN, woken : BOOLEAN]
<1>0. \A n \in Nat, e \in Events : Stored(n, e) => Stored(n, e)'
  BY StepOfStore, StoredStays
<1>1. ASSUME calls' \subseteq Calls,
             \A k \in calls' : \E q \in calls : q.seq = k.seq /\ q.event = k.event
      PROVE  CallsInv'
  <2> SUFFICES ASSUME NEW k \in calls' PROVE Stored(k.seq, k.event)'
    BY <1>1 DEF CallsInv
  <2>1. PICK q \in calls : q.seq = k.seq /\ q.event = k.event
    BY <1>1
  <2>2. k.seq \in Nat /\ k.event \in Events /\ Stored(k.seq, k.event)
    BY <2>1 DEF CallsInv
  <2> QED BY <2>2, <1>0
<1>2. ASSUME calls' \subseteq calls PROVE CallsInv'
  BY <1>1, <1>2 DEF CallsInv
<1>3. ASSUME NEW e \in Events, NEW o, Commit(e, o), NEW emits \in BOOLEAN, Begin(e, emits) PROVE CallsInv'
  <2> DEFINE n == memory.next[AggregateOf[e]]
             new == [seq |-> n, event |-> e, emits |-> emits, woken |-> FALSE]
  <2>1. PICK m : m = n
    OBVIOUS
  <2>2. m \in Nat /\ Stored(m, e)'
    BY <1>3, <2>1, CommitStored
  <2>3. calls' = calls \union {new}
    BY <1>3 DEF Begin
  <2>4. new \in Calls /\ new.seq = m /\ new.event = e
    BY <2>1, <2>2
  <2> HIDE DEF new
  <2>5. ASSUME NEW k \in calls' PROVE Stored(k.seq, k.event)'
    <3>1. CASE k = new
      BY <3>1, <2>2, <2>4
    <3>2. CASE k \in calls
      BY <3>2, <1>0 DEF CallsInv
    <3> QED BY <3>1, <3>2, <2>3
  <2> QED BY <2>3, <2>4, <2>5 DEF CallsInv
<1>4. ASSUME NEW e \in Events, EmitEvent(e) PROVE CallsInv'
  BY <1>3, <1>4 DEF EmitEvent, Publish
<1>5. ASSUME NEW e \in Events, NEW o, NEW n, ReplayEvent(e, n, o) PROVE CallsInv'
  BY <1>3, <1>5 DEF ReplayEvent, ReplayNext
<1>6. ASSUME NEW k \in calls, Wake(k) PROVE CallsInv'
  <2> DEFINE woken == [k EXCEPT !.woken = TRUE]
  <2>1. \A q \in calls' : q \in calls \/ q = woken
    BY <1>6 DEF Wake
  <2>2. woken \in Calls /\ woken.seq = k.seq /\ woken.event = k.event
    BY DEF CallsInv
  <2> HIDE DEF woken
  <2> QED BY <1>1, <2>1, <2>2 DEF CallsInv
<1>7. ASSUME NEW k \in calls, Emit(k) PROVE CallsInv'
  BY <1>2, <1>7 DEF Emit
<1>8. ASSUME Restart PROVE CallsInv'
  BY <1>2, <1>8 DEF Restart
<1>9. ASSUME \/ SilentStep
             \/ \E s \in Streams, a \in Aggregates : \E n \in 0 .. memory.next[a] : OpenStream(s, a, n)
             \/ \E s \in Streams : SubscribeStream(s) \/ ReadOn(s) \/ EndStream(s)
             \/ \E c \in Clients, a \in Aggregates :
                  OpenClientLive(c, a) \/ \E n \in 0 .. memory.next[a] : OpenClient(c, a, n)
             \/ \E c \in Clients : SubscribeClient(c) \/ CloseClient(c)
             \/ UNCHANGED vars
      PROVE  UNCHANGED calls
  BY <1>9 DEF SilentStep, OpenStream, SubscribeStream, ReadOn, EndStream, OpenClientLive, OpenClient,
              SubscribeClient, CloseClient, followVars, vars
<1> QED BY <1>2, <1>4, <1>5, <1>6, <1>7, <1>8, <1>9 DEF Next

(* What a reader gets of the memory is stored.                             *)
LEMMA ReadIsStored ==
  ASSUME StoreInv, WrittenThrough, NEW r \in memory.rows
  PROVE  r.seq \in Nat /\ r.event \in Events /\ r.aggregate = AggregateOf[r.event] /\ Stored(r.seq, r.event)
<1>1. /\ r \in Disk!Rows /\ r.seq \in Nat /\ r.event \in Events
      /\ r.aggregate = AggregateOf[r.event] /\ r.aggregate \in Aggregates
  BY DEF StoreInv, Sound, Tables, Proper, Disk!Rows
<1>2. r = Row(r.seq, r.event)
  BY <1>1 DEF Row, Disk!Rows
<1>3. Synced(r.aggregate) \/ Removed(r.aggregate)
  BY <1>1 DEF WrittenThrough, Synced, Removed, OfAggregate
<1>4. CASE Synced(r.aggregate)
  <2>1. r \in disk.rows
    BY <1>4 DEF Synced, OfAggregate
  <2> QED BY <2>1, <1>1, <1>2 DEF Stored
<1>5. CASE Removed(r.aggregate)
  BY <1>5, <1>1 DEF Removed, RemovalBegan, Stored
<1> QED BY <1>1, <1>3, <1>4, <1>5

(* The clients.  A page of the history is stored, and so is an event that  *)
(* the bus passes on.                                                      *)
LEMMA PageIsStored ==
  ASSUME StoreInv, WrittenThrough, NEW c \in Clients, NEW a \in Aggregates,
         NEW n \in 0 .. memory.next[a], OpenClient(c, a, n), client \in [Clients -> ClientState]
  PROVE  /\ ShownOK(client'[c].got, a)
         /\ client'[c].pc = "read" /\ client'[c].aggregate = a /\ client'[c].from = n
<1> DEFINE events == ReadFrom(a, n)
           size == IF Len(events) < PageSize THEN Len(events) ELSE PageSize
           page == SubSeq(events, 1, size)
           got == [i \in DOMAIN page |-> [seq |-> page[i].seq, event |-> page[i].event]]
<1>1. client'[c] = [pc |-> "read", aggregate |-> a, from |-> n, got |-> got]
  BY DEF OpenClient
<1>2. events \in Seq(memory.rows) /\ \A i \in DOMAIN events : events[i].aggregate = a
  <2>1. n \in Nat /\ Sound(memory)
    BY DEF StoreInv, Sound, Tables
  <2> QED BY <2>1, ReadInOrder
<1> HIDE DEF events
<1>3. size \in Nat /\ size <= Len(events)
  BY <1>2, EventStreamsAssumption
<1> HIDE DEF size
<1>4. DOMAIN page = 1 .. size /\ \A i \in 1 .. size : page[i] = events[i] /\ i \in DOMAIN events
  BY <1>2, <1>3
<1> HIDE DEF page
<1>5. ASSUME NEW i \in 1 .. size
      PROVE  got[i] \in Shown /\ AggregateOf[got[i].event] = a /\ Stored(got[i].seq, got[i].event)
  <2>1. page[i] \in memory.rows /\ page[i].aggregate = a
    BY <1>2, <1>4
  <2>2. got[i] = [seq |-> page[i].seq, event |-> page[i].event]
    BY <1>4
  <2> QED BY <2>1, <2>2, ReadIsStored DEF Shown
<1>6. got \in [1 .. size -> Shown]
  BY <1>4, <1>5
<1>7. got \in Seq(Shown) /\ DOMAIN got = 1 .. size
  <2> HIDE DEF got
  <2> QED BY <1>3, <1>6
<1> HIDE DEF got
<1>8. ShownOK(got, a)
  BY <1>5, <1>7 DEF ShownOK
<1> QED BY <1>1, <1>8

LEMMA AppendShown ==
  ASSUME NEW got, NEW a, ShownOK(got, a), NEW x \in Shown, AggregateOf[x.event] = a, Stored(x.seq, x.event)
  PROVE  ShownOK(Append(got, x), a)
<1>1. got \in Seq(Shown) /\ Append(got, x) \in Seq(Shown) /\ Len(Append(got, x)) = Len(got) + 1
  BY DEF ShownOK
<1>2. ASSUME NEW i \in DOMAIN Append(got, x)
      PROVE  \/ Append(got, x)[i] = x
             \/ i \in DOMAIN got /\ Append(got, x)[i] = got[i]
  BY <1>1
<1> QED BY <1>1, <1>2 DEF ShownOK

LEMMA ShownStays ==
  ASSUME StoreInv, [Next]_vars, NEW got, NEW a, ShownOK(got, a)
  PROVE  ShownOK(got, a)'
<1>1. \A n \in Nat, e \in Events : Stored(n, e) => Stored(n, e)'
  BY StepOfStore, StoredStays
<1>2. ASSUME NEW i \in DOMAIN got PROVE got[i].seq \in Nat /\ got[i].event \in Events
  <2>1. got[i] \in Shown
    BY DEF ShownOK
  <2> QED BY <2>1 DEF Shown
<1> QED BY <1>1, <1>2 DEF ShownOK

LEMMA ClientStep ==
  ASSUME StoreInv, ShownInv, [Next]_vars, NEW c \in Clients
  PROVE  ClientOK(c)'
<1>0. client \in [Clients -> ClientState] /\ ClientOK(c) /\ WrittenThrough /\ CallsInv
  BY DEF ShownInv
<1>1. PICK g, b : g = client[c].got /\ b = client[c].aggregate
  OBVIOUS
<1>2. ShownOK(g, b) /\ ShownOK(g, b)'
  BY <1>0, <1>1, ShownStays DEF ClientOK
<1>3. ASSUME client'[c] = client[c] PROVE ClientOK(c)'
  BY <1>0, <1>1, <1>2, <1>3 DEF ClientOK
<1>4. ASSUME client'[c].got = <<>> PROVE ClientOK(c)'
  BY <1>4 DEF ClientOK, ShownOK
<1>5. ASSUME NEW k \in calls, Emit(k) PROVE ClientOK(c)'
  <2> DEFINE x == [seq |-> k.seq, event |-> k.event]
  <2>1. CASE client[c].pc = "live" /\ client[c].aggregate = AggregateOf[k.event]
    <3>1. /\ client'[c] = [client[c] EXCEPT !.got = Append(@, x)]
          /\ disk' = disk /\ removal' = removal
      BY <2>1, <1>5 DEF Emit, storeVars
    <3>2. x \in Shown /\ AggregateOf[x.event] = b /\ Stored(x.seq, x.event)
      BY <2>1, <1>0, <1>1 DEF CallsInv, Shown
    <3> HIDE DEF x
    <3>3. /\ client'[c].got = Append(g, x) /\ client'[c].aggregate = b
          /\ client'[c].pc = "live"
      BY <3>1, <2>1, <1>0, <1>1 DEF ClientState
    <3>4. ShownOK(Append(g, x), b)
      BY <3>2, <1>2, AppendShown
    <3>5. ShownOK(client'[c].got, client'[c].aggregate)
      BY <3>3, <3>4
    <3> QED BY <3>1, <3>3, <3>5 DEF ClientOK, ShownOK, Stored, RemovalBegan, Row
  <2>2. CASE ~(client[c].pc = "live" /\ client[c].aggregate = AggregateOf[k.event])
    BY <2>2, <1>3, <1>5 DEF Emit
  <2> QED BY <2>1, <2>2
<1>6. ASSUME NEW d \in Clients, NEW a \in Aggregates, OpenClientLive(d, a) PROVE ClientOK(c)'
  <2>1. CASE d = c
    <3>1. client'[c].got = client[c].got /\ client[c].pc = "idle"
      BY <2>1, <1>6, <1>0 DEF OpenClientLive, ClientState
    <3> QED BY <3>1, <1>0, <1>4 DEF ClientOK
  <2>2. CASE d # c
    BY <2>2, <1>6, <1>0, <1>3 DEF OpenClientLive
  <2> QED BY <2>1, <2>2
<1>7. ASSUME NEW d \in Clients, NEW a \in Aggregates, NEW n \in 0 .. memory.next[a], OpenClient(d, a, n)
      PROVE  ClientOK(c)'
  <2>1. CASE d = c
    <3>1. ShownOK(client'[c].got, a) /\ client'[c].pc = "read" /\ client'[c].aggregate = a
      BY <2>1, <1>7, <1>0, PageIsStored
    <3>2. disk' = disk /\ removal' = removal
      BY <1>7 DEF OpenClient, storeVars
    <3> QED BY <3>1, <3>2 DEF ClientOK, ShownOK, Stored, RemovalBegan, Row
  <2>2. CASE d # c
    BY <2>2, <1>7, <1>0, <1>3 DEF OpenClient
  <2> QED BY <2>1, <2>2
<1>8. ASSUME NEW d \in Clients, SubscribeClient(d) \/ CloseClient(d) PROVE ClientOK(c)'
  <2>1. CASE d = c
    <3>1. /\ client'[c].got = g /\ client'[c].aggregate = b /\ client'[c].pc # "idle"
      BY <2>1, <1>8, <1>0, <1>1 DEF SubscribeClient, CloseClient, ClientState
    <3> QED BY <3>1, <1>2 DEF ClientOK
  <2>2. CASE d # c
    BY <2>2, <1>8, <1>0, <1>3 DEF SubscribeClient, CloseClient
  <2> QED BY <2>1, <2>2
<1>9. ASSUME Restart PROVE ClientOK(c)'
  <2>1. client'[c] = IF client[c].pc = "idle" THEN client[c] ELSE [client[c] EXCEPT !.pc = "closed"]
    BY <1>9 DEF Restart
  <2>2. CASE client[c].pc # "idle"
    <3>1. client'[c].got = g /\ client'[c].aggregate = b /\ client'[c].pc # "idle"
      BY <2>1, <2>2, <1>0, <1>1 DEF ClientState
    <3> QED BY <3>1, <1>2 DEF ClientOK
  <2> QED BY <2>1, <2>2, <1>3
<1>10. ASSUME \/ \E e \in Events : EmitEvent(e)
              \/ \E e \in Events, o \in Owners \union {None} :
                   \E n \in 0 .. memory.next[AggregateOf[e]] : ReplayEvent(e, n, o)
              \/ SilentStep
              \/ \E k \in calls : Wake(k)
              \/ \E s \in Streams, a \in Aggregates : \E n \in 0 .. memory.next[a] : OpenStream(s, a, n)
              \/ \E s \in Streams : SubscribeStream(s) \/ ReadOn(s) \/ EndStream(s)
              \/ UNCHANGED vars
       PROVE  ClientOK(c)'
  <2>1. UNCHANGED client
    BY <1>10 DEF EmitEvent, ReplayEvent, SilentStep, Wake, OpenStream, SubscribeStream, ReadOn,
                 EndStream, followVars, vars
  <2> QED BY <2>1, <1>3
<1> QED BY <1>5, <1>6, <1>7, <1>8, <1>9, <1>10 DEF Next

LEMMA ClientTypeStep ==
  ASSUME StoreInv, ShownInv, [Next]_vars
  PROVE  client' \in [Clients -> ClientState]
<1>0. client \in [Clients -> ClientState] /\ WrittenThrough /\ CallsInv
  BY DEF ShownInv
<1>1. ASSUME UNCHANGED client PROVE client' \in [Clients -> ClientState]
  BY <1>0, <1>1
<1>2. ASSUME NEW k \in calls, Emit(k) PROVE client' \in [Clients -> ClientState]
  <2> DEFINE x == [seq |-> k.seq, event |-> k.event]
  <2>1. x \in Shown
    BY <1>0 DEF CallsInv, Shown
  <2> HIDE DEF x
  <2>2. \A c \in Clients : Append(client[c].got, x) \in Seq(Shown)
    BY <2>1, <1>0 DEF ClientState
  <2>3. client' = [c \in Clients |->
          IF client[c].pc = "live" /\ client[c].aggregate = AggregateOf[k.event]
            THEN [client[c] EXCEPT !.got = Append(@, x)] ELSE client[c]]
    BY <1>2 DEF Emit, x
  <2>4. ASSUME NEW c \in Clients PROVE client'[c] \in ClientState
    BY <2>2, <2>3, <1>0 DEF ClientState
  <2>5. client' = [c \in Clients |-> client'[c]]
    BY <2>3
  <2> QED BY <2>4, <2>5
<1>3. ASSUME NEW d \in Clients, NEW a \in Aggregates, OpenClientLive(d, a)
      PROVE  client' \in [Clients -> ClientState]
  BY <1>0, <1>3 DEF OpenClientLive, ClientState, ClientPCs
<1>4. ASSUME NEW d \in Clients, NEW a \in Aggregates, NEW n \in 0 .. memory.next[a], OpenClient(d, a, n)
      PROVE  client' \in [Clients -> ClientState]
  <2>1. /\ ShownOK(client'[d].got, a)
        /\ client'[d].pc = "read" /\ client'[d].aggregate = a /\ client'[d].from = n
    BY <1>0, <1>4, PageIsStored
  <2>2. PICK got : client' = [client EXCEPT ![d] = [pc |-> "read", aggregate |-> a, from |-> n, got |-> got]]
    BY <1>4 DEF OpenClient
  <2>3. n \in Nat /\ client'[d].got = got
    BY <2>2, <1>0 DEF StoreInv, Sound, Tables
  <2>4. got \in Seq(Shown)
    BY <2>1, <2>3 DEF ShownOK
  <2> QED BY <2>2, <2>3, <2>4, <1>0 DEF ClientState, ClientPCs
<1>5. ASSUME NEW d \in Clients, SubscribeClient(d) \/ CloseClient(d)
      PROVE  client' \in [Clients -> ClientState]
  BY <1>0, <1>5 DEF SubscribeClient, CloseClient, ClientState, ClientPCs
<1>6. ASSUME Restart PROVE client' \in [Clients -> ClientState]
  BY <1>0, <1>6 DEF Restart, ClientState, ClientPCs
<1>7. ASSUME \/ \E e \in Events : EmitEvent(e)
             \/ \E e \in Events, o \in Owners \union {None} :
                  \E n \in 0 .. memory.next[AggregateOf[e]] : ReplayEvent(e, n, o)
             \/ SilentStep
             \/ \E k \in calls : Wake(k)
             \/ \E s \in Streams, a \in Aggregates : \E n \in 0 .. memory.next[a] : OpenStream(s, a, n)
             \/ \E s \in Streams : SubscribeStream(s) \/ ReadOn(s) \/ EndStream(s)
             \/ UNCHANGED vars
      PROVE  UNCHANGED client
  BY <1>7 DEF EmitEvent, ReplayEvent, SilentStep, Wake, OpenStream, SubscribeStream, ReadOn,
              EndStream, followVars, vars
<1> QED BY <1>1, <1>2, <1>3, <1>4, <1>5, <1>6, <1>7 DEF Next

LEMMA ShownStep ==
  ASSUME StoreInv, ShownInv, [Next]_vars
  PROVE  ShownInv'
<1>1. WrittenThrough'
  BY StepOfStore, WrittenThroughStep DEF ShownInv
<1>2. CallsInv'
  BY CallsStep DEF ShownInv
<1> QED BY <1>1, <1>2, ClientTypeStep, ClientStep DEF ShownInv

LEMMA ShownInit ==
  ASSUME Init
  PROVE  ShownInv
<1>1. WrittenThrough /\ CallsInv
  BY DEF Init, StoreInit, NoTables, WrittenThrough, CallsInv
<1>2. ASSUME NEW c \in Clients PROVE ClientOK(c)
  <2>1. client[c].got = <<>> /\ <<>> \in Seq(Shown) /\ DOMAIN <<>> = {}
    BY DEF Init
  <2> QED BY <2>1 DEF ClientOK, ShownOK
<1>3. client \in [Clients -> ClientState]
  BY DEF Init, ClientState, ClientPCs
<1> QED BY <1>1, <1>2, <1>3 DEF ShownInv

(* An event that a client has been shown with its number is in SQLite      *)
(* under this number, whatever restarts and claims come after, unless its  *)
(* session has been removed.                                               *)
THEOREM ShownStaysStored == Spec => []ShownIsStored
<1>1. ShownInv => ShownIsStored
  <2> SUFFICES ASSUME ShownInv, NEW c \in Clients, NEW i \in DOMAIN client[c].got
               PROVE  \/ Row(client[c].got[i].seq, client[c].got[i].event) \in disk.rows
                      \/ \E r \in Removals : removal[r].aggregate = client[c].aggregate
    BY DEF ShownIsStored
  <2>1. ShownOK(client[c].got, client[c].aggregate)
    BY DEF ShownInv, ClientOK
  <2> QED BY <2>1 DEF ShownOK, Stored, RemovalBegan
<1>2. StoreInv /\ ShownInv /\ [Next]_vars => StoreInv' /\ ShownInv'
  BY StepOfStore, StoreNextInv, ShownStep
<1>3. Init => StoreInv /\ ShownInv
  BY StoreInitInv, ShownInit DEF Init
<1> QED BY <1>1, <1>2, <1>3, PTL DEF Spec
=============================================================================
