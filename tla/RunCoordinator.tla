--------------------------- MODULE RunCoordinator ---------------------------
(***************************************************************************)
(* The coordinator of oc-session-runner: it is to serialize the drains of  *)
(* a key.  `run` starts a drain or joins the one in progress, `wake` asks  *)
(* for one more drain after it, `interrupt` stops it and waits.  The calls *)
(* come from many threads; one step is the code under one lock, or one     *)
(* access to an atomic, or the end of an await.                            *)
(*                                                                         *)
(* A drain is its task, its join handle and its token.  An entry is the    *)
(* shared state of a chain of drains and is named by the first of them.    *)
(* The drain function is a parameter of the code: it returns when it       *)
(* likes, with any result, whether its token is cancelled or not.  A local *)
(* variable is reset once the code reads it no more.                       *)
(***************************************************************************)
EXTENDS Naturals, FiniteSets

CONSTANTS
  Keys,
  Runs,        \* calls of run
  Wakes,       \* calls of wake
  Interrupts,  \* calls of interrupt
  KeyOf,       \* the key of a call
  DrainLimit,  \* how many drains can be started: a bound
  None

\* Drains are numbered in the order they start.
Drains == 1 .. DrainLimit

ASSUME RunCoordinatorAssumption ==
  /\ KeyOf \in [Runs \union Wakes \union Interrupts -> Keys]
  /\ DrainLimit \in Nat
  /\ None \notin Drains

VARIABLES
  active,     \* the map: key -> entry
  entry,      \* EntryState
  drain,      \* the spawned tasks
  run,        \* calls of run
  wake,       \* calls of wake
  interrupt   \* calls of interrupt

vars == <<active, entry, drain, run, wake, interrupt>>

MaybeDrain == Drains \union {None}

\* Where a spawned task is: in the drain function, then in settle.
Unswapped == {"draining", "loaded"}
DrainPCs == Unswapped \union {"unused", "restart", "handoff", "remove",
                              "restarting", "result", "notify", "finished"}

EntryStates == [key         : Keys \union {None},
                result      : {"none", "ok", "failed"},
                owner       : MaybeDrain,
                cancel      : MaybeDrain,
                pendingWake : BOOLEAN,
                stopping    : BOOLEAN]

DrainStates == [at         : DrainPCs,
                entry      : MaybeDrain,
                force      : BOOLEAN,
                ok         : BOOLEAN,
                stopping   : BOOLEAN,                    \* what settle loaded
                starts     : MaybeDrain,                 \* what settle started
                registered : {"no", "owner", "both"},    \* end of start_entry
                cancelled  : BOOLEAN]

RunStates == [pc       : {"idle", "look", "starting", "joined", "loaded", "missed", "asleep", "returned"},
              entry    : MaybeDrain,
              stopping : BOOLEAN]

InterruptStates == [pc    : {"idle", "found", "taken", "stopped", "cleared", "waiting", "returned"},
                    entry : MaybeDrain,
                    owner : MaybeDrain]

\* The types of the program's state.
TypeOK ==
  /\ active \in [Keys -> MaybeDrain]
  /\ entry \in [Drains -> EntryStates]
  /\ drain \in [Drains -> DrainStates]
  /\ run \in [Runs -> RunStates]
  /\ wake \in [Wakes -> {"idle", "made"}]
  /\ interrupt \in [Interrupts -> InterruptStates]

NewEntry == [key |-> None, result |-> "none", owner |-> None, cancel |-> None,
             pendingWake |-> FALSE, stopping |-> FALSE]

NewDrain == [at |-> "unused", entry |-> None, force |-> FALSE, ok |-> FALSE, stopping |-> FALSE,
             starts |-> None, registered |-> "no", cancelled |-> FALSE]

Init ==
  /\ active = [k \in Keys |-> None]
  /\ entry = [e \in Drains |-> NewEntry]
  /\ drain = [d \in Drains |-> NewDrain]
  /\ run = [r \in Runs |-> [pc |-> "idle", entry |-> None, stopping |-> FALSE]]
  /\ wake = [w \in Wakes |-> "idle"]
  /\ interrupt = [i \in Interrupts |-> [pc |-> "idle", entry |-> None, owner |-> None]]

-----------------------------------------------------------------------------
(* start_entry: spawn, then store the handle, then store the token.        *)

Fresh(d) == drain[d].at = "unused" /\ \A c \in Drains : c < d => drain[c].at # "unused"

\* The task that start_entry spawns for entry e.
Spawned(e, force) == [NewDrain EXCEPT !.at = "draining", !.entry = e, !.force = force]

StoreOwner(d) ==
  /\ drain[d].at # "unused" /\ drain[d].registered = "no"
  /\ entry' = [entry EXCEPT ![drain[d].entry].owner = d]
  /\ drain' = [drain EXCEPT ![d].registered = "owner"]
  /\ UNCHANGED <<active, run, wake, interrupt>>

StoreCancel(d) ==
  /\ drain[d].at # "unused" /\ drain[d].registered = "owner"
  /\ entry' = [entry EXCEPT ![drain[d].entry].cancel = d]
  /\ drain' = [drain EXCEPT ![d].registered = "both"]
  /\ UNCHANGED <<active, run, wake, interrupt>>

\* start_entry has returned to the caller that started d.
StartedBy(d) == d # None => drain[d].registered = "both"

\* A new entry in the map, and its first drain: run and wake on an idle key.  The
\* spawn follows the insertion at once; the task may well be scheduled later.
InsertAndStart(k, d, force) ==
  /\ active[k] = None
  /\ Fresh(d)
  /\ active' = [active EXCEPT ![k] = d]
  /\ entry' = [entry EXCEPT ![d] = [NewEntry EXCEPT !.key = k]]
  /\ drain' = [drain EXCEPT ![d] = Spawned(d, force)]

-----------------------------------------------------------------------------
(* run.  Dropping the future of a call changes nothing and is left out.    *)

LookUp(r) == run[r].pc \in {"idle", "look"}

RunJoins(r) ==
  LET e == active[KeyOf[r]] IN
  /\ LookUp(r) /\ e # None
  /\ run' = [run EXCEPT ![r] = [@ EXCEPT !.pc = "joined", !.entry = e]]
  /\ UNCHANGED <<active, entry, drain, wake, interrupt>>

RunStarts(r) ==
  /\ LookUp(r)
  /\ \E d \in Drains :
       /\ InsertAndStart(KeyOf[r], d, TRUE)
       /\ run' = [run EXCEPT ![r] = [@ EXCEPT !.pc = "starting", !.entry = d]]
  /\ UNCHANGED <<wake, interrupt>>

RunLoadsStopping(r) ==
  /\ \/ run[r].pc = "joined"
     \/ run[r].pc = "starting" /\ StartedBy(run[r].entry)
  /\ run' = [run EXCEPT ![r] = [@ EXCEPT !.pc = "loaded", !.stopping = entry[run[r].entry].stopping]]
  /\ UNCHANGED <<active, entry, drain, wake, interrupt>>

\* No result: go to sleep.  A result: return it, or begin again when the entry was stopping.
RunReadsResult(r) ==
  /\ run[r].pc = "loaded"
  /\ run' = [run EXCEPT ![r] =
       IF entry[run[r].entry].result = "none" THEN [@ EXCEPT !.pc = "missed", !.stopping = FALSE]
       ELSE [pc |-> IF run[r].stopping THEN "look" ELSE "returned", entry |-> None, stopping |-> FALSE]]
  /\ UNCHANGED <<active, entry, drain, wake, interrupt>>

\* notify.notified(): only notifications from here on wake the call.
RunSleeps(r) ==
  /\ run[r].pc = "missed"
  /\ run' = [run EXCEPT ![r].pc = "asleep"]
  /\ UNCHANGED <<active, entry, drain, wake, interrupt>>

-----------------------------------------------------------------------------
(* wake.                                                                   *)

WakeMarks(w) ==
  LET e == active[KeyOf[w]] IN
  /\ wake[w] = "idle" /\ e # None
  /\ entry' = [entry EXCEPT ![e].pendingWake = TRUE]
  /\ wake' = [wake EXCEPT ![w] = "made"]
  /\ UNCHANGED <<active, drain, run, interrupt>>

WakeStarts(w) ==
  /\ wake[w] = "idle"
  /\ \E d \in Drains : InsertAndStart(KeyOf[w], d, FALSE)
  /\ wake' = [wake EXCEPT ![w] = "made"]
  /\ UNCHANGED <<run, interrupt>>

-----------------------------------------------------------------------------
(* interrupt.                                                              *)

Returned == [pc |-> "returned", entry |-> None, owner |-> None]

InterruptLooksUp(i) ==
  LET e == active[KeyOf[i]] IN
  /\ interrupt[i].pc = "idle"
  /\ interrupt' = [interrupt EXCEPT ![i] =
       IF e = None THEN Returned ELSE [@ EXCEPT !.pc = "found", !.entry = e]]
  /\ UNCHANGED <<active, entry, drain, run, wake>>

InterruptTakesOwner(i) ==
  LET e == interrupt[i].entry IN
  /\ interrupt[i].pc = "found"
  /\ interrupt' = [interrupt EXCEPT ![i] =
       IF entry[e].owner = None THEN Returned
       ELSE [@ EXCEPT !.pc = "taken", !.owner = entry[e].owner]]
  /\ entry' = [entry EXCEPT ![e].owner = None]
  /\ UNCHANGED <<active, drain, run, wake>>

InterruptStops(i) ==
  /\ interrupt[i].pc = "taken"
  /\ entry' = [entry EXCEPT ![interrupt[i].entry].stopping = TRUE]
  /\ interrupt' = [interrupt EXCEPT ![i].pc = "stopped"]
  /\ UNCHANGED <<active, drain, run, wake>>

InterruptClearsWake(i) ==
  /\ interrupt[i].pc = "stopped"
  /\ entry' = [entry EXCEPT ![interrupt[i].entry].pendingWake = FALSE]
  /\ interrupt' = [interrupt EXCEPT ![i].pc = "cleared"]
  /\ UNCHANGED <<active, drain, run, wake>>

\* The token stored in the entry now, if there is one, is cancelled.
InterruptCancels(i) ==
  LET token == entry[interrupt[i].entry].cancel IN
  /\ interrupt[i].pc = "cleared"
  /\ interrupt' = [interrupt EXCEPT ![i].pc = "waiting"]
  /\ drain' = IF token = None THEN drain ELSE [drain EXCEPT ![token].cancelled = TRUE]
  /\ UNCHANGED <<active, entry, run, wake>>

\* Mutant: wait until the key is no longer listed, instead of for the task.
AwaitUnlisted(i) ==
  /\ interrupt[i].pc = "waiting"
  /\ active[KeyOf[i]] # interrupt[i].entry
  /\ interrupt' = [interrupt EXCEPT ![i] = Returned]
  /\ UNCHANGED <<active, entry, drain, run, wake>>

\* owner.await: the task has come to its end.
InterruptReturns(i) ==
  /\ interrupt[i].pc = "waiting"
  /\ drain[interrupt[i].owner].at = "finished"
  /\ interrupt' = [interrupt EXCEPT ![i] = Returned]
  /\ UNCHANGED <<active, entry, drain, run, wake>>

-----------------------------------------------------------------------------
(* The spawned task: the drain, then settle.                               *)

Go(d, at) == drain' = [drain EXCEPT ![d].at = at]

\* The drain returns, and settle loads `stopping`.
DrainReturns(d) ==
  /\ drain[d].at = "draining"
  /\ \E ok \in BOOLEAN :
       drain' = [drain EXCEPT ![d] = [@ EXCEPT !.at = "loaded", !.ok = ok,
                                               !.stopping = entry[drain[d].entry].stopping]]
  /\ UNCHANGED <<active, entry, run, wake, interrupt>>

\* Where settle goes with the pending wake it has read.
AfterSwap(d, pending) ==
  IF ~pending THEN "remove"
  ELSE IF drain[d].ok /\ ~drain[d].stopping THEN "restart" ELSE "handoff"

\* Mutant: the pending wake is read but left in place.
SwapLeaves(d) ==
  /\ drain[d].at = "loaded"
  /\ Go(d, AfterSwap(d, entry[drain[d].entry].pendingWake))
  /\ UNCHANGED <<active, entry, run, wake, interrupt>>

SettleSwaps(d) ==
  LET e == drain[d].entry IN
  /\ drain[d].at = "loaded"
  /\ drain' = [drain EXCEPT ![d] = [@ EXCEPT !.at = AfterSwap(d, entry[e].pendingWake), !.stopping = FALSE]]
  /\ entry' = [entry EXCEPT ![e].pendingWake = FALSE]
  /\ UNCHANGED <<active, run, wake, interrupt>>

\* Mutant: after the restart settle goes on to report the result.
RestartAndReport(d) ==
  /\ drain[d].at = "restart"
  /\ \E n \in Drains :
       /\ Fresh(n)
       /\ drain' = [drain EXCEPT ![n] = Spawned(drain[d].entry, FALSE),
                                 ![d] = [@ EXCEPT !.at = "result", !.starts = n]]
  /\ UNCHANGED <<active, entry, run, wake, interrupt>>

\* Success and a wake: one more drain of the same entry.
SettleRestarts(d) ==
  /\ drain[d].at = "restart"
  /\ \E n \in Drains :
       /\ Fresh(n)
       /\ drain' = [drain EXCEPT ![n] = Spawned(drain[d].entry, FALSE),
                                 ![d] = [@ EXCEPT !.at = "restarting", !.starts = n]]
  /\ UNCHANGED <<active, entry, run, wake, interrupt>>

SettleRestarted(d) ==
  /\ drain[d].at = "restarting" /\ StartedBy(drain[d].starts)
  /\ drain' = [drain EXCEPT ![d] = [@ EXCEPT !.at = "finished", !.ok = FALSE, !.starts = None]]
  /\ UNCHANGED <<active, entry, run, wake, interrupt>>

\* Mutant: the old entry leaves the map when its successor is started.
HandOffAndRemove(d) ==
  LET k == entry[drain[d].entry].key IN
  /\ drain[d].at = "handoff"
  /\ \E n \in Drains :
       /\ Fresh(n)
       /\ entry' = [entry EXCEPT ![n] = [NewEntry EXCEPT !.key = k]]
       /\ drain' = [drain EXCEPT ![n] = Spawned(n, FALSE), ![d] = [@ EXCEPT !.at = "result", !.starts = n]]
  /\ active' = [active EXCEPT ![k] = IF @ = drain[d].entry THEN None ELSE @]
  /\ UNCHANGED <<run, wake, interrupt>>

\* Failure, or stopped, and a wake: a successor, which the map does not know.
SettleHandsOff(d) ==
  /\ drain[d].at = "handoff"
  /\ \E n \in Drains :
       /\ Fresh(n)
       /\ entry' = [entry EXCEPT ![n] = [NewEntry EXCEPT !.key = entry[drain[d].entry].key]]
       /\ drain' = [drain EXCEPT ![n] = Spawned(n, FALSE), ![d] = [@ EXCEPT !.at = "result", !.starts = n]]
  /\ UNCHANGED <<active, run, wake, interrupt>>

\* No wake: the entry leaves the map, if the map still has it.
SettleRemoves(d) ==
  LET e == drain[d].entry IN
  /\ drain[d].at = "remove"
  /\ active' = [active EXCEPT ![entry[e].key] = IF @ = e THEN None ELSE @]
  /\ Go(d, "result")
  /\ UNCHANGED <<entry, run, wake, interrupt>>

SettleReports(d) ==
  /\ drain[d].at = "result" /\ StartedBy(drain[d].starts)
  /\ entry' = [entry EXCEPT ![drain[d].entry].result = IF drain[d].ok THEN "ok" ELSE "failed"]
  /\ drain' = [drain EXCEPT ![d] = [@ EXCEPT !.at = "notify", !.ok = FALSE, !.starts = None]]
  /\ UNCHANGED <<active, run, wake, interrupt>>

SettleNotifies(d) ==
  /\ drain[d].at = "notify"
  /\ run' = [r \in Runs |-> IF run[r].pc = "asleep" /\ run[r].entry = drain[d].entry
                              THEN [run[r] EXCEPT !.pc = "joined"] ELSE run[r]]
  /\ Go(d, "finished")
  /\ UNCHANGED <<active, entry, wake, interrupt>>

-----------------------------------------------------------------------------
RunStep(r) == RunJoins(r) \/ RunStarts(r) \/ RunLoadsStopping(r) \/ RunReadsResult(r) \/ RunSleeps(r)

WakeStep(w) == WakeMarks(w) \/ WakeStarts(w)

InterruptStep(i) ==
  \/ InterruptLooksUp(i) \/ InterruptTakesOwner(i) \/ InterruptStops(i)
  \/ InterruptClearsWake(i) \/ InterruptCancels(i) \/ InterruptReturns(i)

SettleStep(d) ==
  \/ SettleSwaps(d) \/ SettleRestarts(d) \/ SettleRestarted(d)
  \/ SettleHandsOff(d) \/ SettleRemoves(d) \/ SettleReports(d) \/ SettleNotifies(d)

DrainStep(d) == StoreOwner(d) \/ StoreCancel(d) \/ DrainReturns(d) \/ SettleStep(d)

Next ==
  \/ \E r \in Runs : RunStep(r)
  \/ \E w \in Wakes : WakeStep(w)
  \/ \E i \in Interrupts : InterruptStep(i)
  \/ \E d \in Drains : DrainStep(d)

Spec == Init /\ [][Next]_vars

\* Threads and tasks that can run do run, and every drain returns.  A call of run
\* or wake need not be made; one that was made goes on.
FairSpec ==
  /\ Spec
  /\ \A d \in Drains : WF_vars(DrainStep(d))
  /\ \A i \in Interrupts : WF_vars(InterruptStep(i) /\ interrupt[i].pc # "idle")
  /\ \A r \in Runs : WF_vars(RunStep(r) /\ run[r].pc # "idle")

-----------------------------------------------------------------------------
DrainsOf(k) == {d \in Drains : drain[d].at = "draining" /\ entry[drain[d].entry].key = k}

\* A key never has two drains in progress ("serializes execution per key"), whatever
\* the interleaving of starts, restarts, successors and interrupts.
OneDrainPerKey ==
  \A k \in Keys : \A c, d \in DrainsOf(k) : c = d

\* An entry that has reported its result has no drain left: no waiter is let go
\* while the execution it joined still runs.
ReportedIsOver ==
  \A e \in Drains : entry[e].result # "none" =>
    \A d \in Drains : drain[d].entry = e => drain[d].at \notin Unswapped

\* Wakes during one drain give one more, not more: every drain that no call of run
\* forced is owed to a wake of its own.
WakesAreCoalesced ==
  Cardinality({d \in Drains : drain[d].at # "unused" /\ ~drain[d].force})
    <= Cardinality({w \in Wakes : wake[w] = "made"})

\* A call of interrupt comes back.
InterruptsReturn ==
  \A i \in Interrupts : interrupt[i].pc # "idle" ~> interrupt[i].pc = "returned"
=============================================================================
