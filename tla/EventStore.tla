----------------------------- MODULE EventStore -----------------------------
(***************************************************************************)
(* The durable event store of oc-sync: the event and sequence tables, held *)
(* in memory behind one mutex and written to SQLite.  A commit is one step *)
(* (the mutex is held over the write to SQLite, which comes first); claim  *)
(* and remove write SQLite and then, in a second step, the memory; a       *)
(* restart loads the memory from SQLite.                                   *)
(*                                                                         *)
(* Calls of claim and remove are CONSTANTS, since each has two steps.  A   *)
(* commit that is refused changes nothing and is not a step, with one      *)
(* exception (ReplayAgain).  An input/output error of SQLite is such a     *)
(* refusal; of claim and remove, which only log it, it is not modelled.    *)
(***************************************************************************)
EXTENDS EventData

CONSTANTS
  Claims,      \* calls of claim
  Removals,    \* calls of remove
  MaxRestarts

ASSUME EventStoreAssumption == MaxRestarts \in Nat

VARIABLES
  memory,    \* Db: the tables in memory
  disk,      \* the tables in SQLite
  claim,     \* calls of claim
  removal,   \* calls of remove
  restarts

storeVars == <<memory, disk, claim, removal, restarts>>

Disk == INSTANCE EventLog WITH rows <- disk.rows, next <- disk.next, owner <- disk.owner
Memory == INSTANCE EventLog WITH rows <- memory.rows, next <- memory.next, owner <- memory.owner

CallPCs == {"idle", "persisted", "done", "over"}

Tables == [rows  : SUBSET Disk!Rows,
           next  : [Aggregates -> Nat],
           owner : [Aggregates -> Owners \union {None}]]

StoreTypeOK ==
  /\ memory \in Tables
  /\ disk \in Tables
  /\ claim \in [Claims -> [pc : CallPCs,
                           aggregate : Aggregates \union {None}, owner : Owners \union {None}]]
  /\ removal \in [Removals -> [pc : CallPCs,
                               aggregate : Aggregates \union {None}]]
  /\ restarts \in 0 .. MaxRestarts

NoTables == [rows |-> {}, next |-> [a \in Aggregates |-> 0],
             owner |-> [a \in Aggregates |-> None]]

StoreInit ==
  /\ memory = NoTables
  /\ disk = NoTables
  /\ claim = [c \in Claims |-> [pc |-> "idle", aggregate |-> None, owner |-> None]]
  /\ removal = [r \in Removals |-> [pc |-> "idle", aggregate |-> None]]
  /\ restarts = 0

-----------------------------------------------------------------------------
Row(n, e) == [aggregate |-> AggregateOf[e], seq |-> n, event |-> e]

HasId(tables, e) == \E r \in tables.rows : IdOf[r.event] = IdOf[e]

\* The rows a commit inserts or updates.
Inserted(tables, e, o) ==
  LET a == AggregateOf[e] IN
  [rows  |-> tables.rows \union {Row(tables.next[a], e)},
   next  |-> [tables.next EXCEPT ![a] = @ + 1],
   owner |-> [tables.owner EXCEPT ![a] = o]]

Owned(tables, a, o) ==
  [rows  |-> tables.rows,
   next  |-> tables.next,
   owner |-> [tables.owner EXCEPT ![a] = IF tables.next[a] > 0 THEN o ELSE @]]

\* Mutant: the events stay, only the cursor goes.
EmptiedCursor(tables, a) ==
  [tables EXCEPT !.next = [@ EXCEPT ![a] = 0], !.owner = [@ EXCEPT ![a] = None]]

Emptied(tables, a) ==
  [rows  |-> {r \in tables.rows : r.aggregate # a},
   next  |-> [tables.next EXCEPT ![a] = 0],
   owner |-> [tables.owner EXCEPT ![a] = None]]

\* Mutant: the transaction looks at the cursor alone.
PersistsAtCursor(e, n, o) ==
  disk.next[AggregateOf[e]] = n /\ ~HasId(disk, e)

\* persist_event: the transaction succeeds if the row has this cursor and
\* this owner, or there is none and the event is the first; ids are unique.
Persists(e, n, o) ==
  LET a == AggregateOf[e] IN
  /\ disk.next[a] = n
  /\ n > 0 => disk.owner[a] = o
  /\ ~HasId(disk, e)

\* Mutant: an error of SQLite is only logged.
CommitAnyway(e, o) ==
  LET a    == AggregateOf[e]
      kept == IF memory.owner[a] # None THEN memory.owner[a] ELSE o
  IN
  /\ ~HasId(memory, e)
  /\ disk' = IF Persists(e, memory.next[a], kept) THEN Inserted(disk, e, kept) ELSE disk
  /\ memory' = Inserted(memory, e, kept)
  /\ UNCHANGED <<claim, removal, restarts>>

\* The common end of publish and replay.
Commit(e, o) ==
  LET a    == AggregateOf[e]
      kept == IF memory.owner[a] # None THEN memory.owner[a] ELSE o
  IN
  /\ ~HasId(memory, e)
  /\ Persists(e, memory.next[a], kept)
  /\ disk' = Inserted(disk, e, kept)
  /\ memory' = Inserted(memory, e, kept)
  /\ UNCHANGED <<claim, removal, restarts>>

Publish(e) == Commit(e, None)

\* replay of an event beyond the cursor.  It must be the next one; for an
\* aggregate of another owner it is ignored.
ReplayNext(e, n, o) ==
  LET a == AggregateOf[e] IN
  /\ n = memory.next[a]
  /\ memory.owner[a] \in {None, o}
  /\ Commit(e, o)

\* replay of an event up to the cursor: it must be the stored one, and an
\* owner is noted for an aggregate without one, in memory alone.
ReplayAgain(e, n, o) ==
  LET a == AggregateOf[e] IN
  /\ n < memory.next[a]
  /\ Row(n, e) \in memory.rows
  /\ o # None
  /\ memory.owner[a] = None
  /\ memory' = Owned(memory, a, o)
  /\ UNCHANGED <<disk, claim, removal, restarts>>

\* claim: SQLite first, then the memory.
PersistClaim(c, a, o) ==
  /\ claim[c].pc = "idle"
  /\ claim' = [claim EXCEPT ![c] = [pc |-> "persisted", aggregate |-> a, owner |-> o]]
  /\ disk' = Owned(disk, a, o)
  /\ UNCHANGED <<memory, removal, restarts>>

FinishClaim(c) ==
  /\ claim[c].pc = "persisted"
  /\ claim' = [claim EXCEPT ![c].pc = "done"]
  /\ memory' = Owned(memory, claim[c].aggregate, claim[c].owner)
  /\ UNCHANGED <<disk, removal, restarts>>

\* remove: the same way.
PersistRemoval(r, a) ==
  /\ removal[r].pc = "idle"
  /\ removal' = [removal EXCEPT ![r] = [pc |-> "persisted", aggregate |-> a]]
  /\ disk' = Emptied(disk, a)
  /\ UNCHANGED <<memory, claim, restarts>>

FinishRemoval(r) ==
  /\ removal[r].pc = "persisted"
  /\ removal' = [removal EXCEPT ![r].pc = "done"]
  /\ memory' = Emptied(memory, removal[r].aggregate)
  /\ UNCHANGED <<disk, claim, restarts>>

Over(call) ==
  [c \in DOMAIN call |-> IF call[c].pc = "idle" THEN call[c] ELSE [call[c] EXCEPT !.pc = "over"]]

\* The process ends, at any point, and with_database loads the tables.
RestartStore ==
  /\ restarts < MaxRestarts
  /\ restarts' = restarts + 1
  /\ memory' = disk
  /\ claim' = Over(claim)
  /\ removal' = Over(removal)
  /\ UNCHANGED disk

StoreNext ==
  \/ \E e \in Events : Publish(e)
  \/ \E e \in Events, o \in Owners \union {None} :
       \E n \in 0 .. memory.next[AggregateOf[e]] : ReplayNext(e, n, o) \/ ReplayAgain(e, n, o)
  \/ \E c \in Claims : FinishClaim(c) \/ \E a \in Aggregates, o \in Owners : PersistClaim(c, a, o)
  \/ \E r \in Removals : FinishRemoval(r) \/ \E a \in Aggregates : PersistRemoval(r, a)
  \/ RestartStore

StoreSpec == StoreInit /\ [][StoreNext]_storeVars

-----------------------------------------------------------------------------
(* Properties.                                                             *)

(* The store in SQLite is an event log: whatever the memory says about an  *)
(* owner by then, a step of the store is a publish, a replay, a claim or a *)
(* removal of the original's event service, or changes no table.           *)
ImplementsEventLog == Disk!LogSpec

(* Readers are served from memory, and rely on its log: dense numbers, one *)
(* event for each, no event twice, through commits, replays, claims that   *)
(* overtake one another, removals and restarts.                            *)
MemoryIsSound == Memory!LogIsSound

(* Write-through: memory and SQLite hold the same events, unless the       *)
(* aggregate has been removed since the start (remove is not atomic).      *)
WrittenThrough ==
  \A a \in Aggregates :
    \/ /\ memory.next[a] = disk.next[a]
       /\ {r \in memory.rows : r.aggregate = a} = {r \in disk.rows : r.aggregate = a}
    \/ \E r \in Removals : removal[r].pc \in {"persisted", "done"} /\ removal[r].aggregate = a

(* emit_event: "when it is a registered durable session event, assign a    *)
(* monotonic sync cursor and retain it for replay".  So the store takes an *)
(* event with a new id that arises here, unless a claim or a removal is    *)
(* between its two steps.                                                  *)
LocalEventsAreRetained ==
  \/ \E c \in Claims : claim[c].pc = "persisted"
  \/ \E r \in Removals : removal[r].pc = "persisted"
  \/ \A e \in Events :
       HasId(memory, e) \/ Persists(e, memory.next[AggregateOf[e]], memory.owner[AggregateOf[e]])
=============================================================================
