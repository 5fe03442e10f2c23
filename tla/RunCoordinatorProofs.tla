------------------------ MODULE RunCoordinatorProofs ------------------------
(***************************************************************************)
(* The drains of a key never overlap, for any number of keys, calls and    *)
(* drains.                                                                 *)
(*                                                                         *)
(* The argument: a drain holds its key until settle has removed the entry  *)
(* or has started the next drain.  A key has one holder, and while it has  *)
(* one the map lists an entry for it, if only a dead one; a new entry      *)
(* needs a key that is not listed.  Within an entry the drains form a      *)
(* chain of which only the last one can still report.                      *)
(*                                                                         *)
(* And no wake gives two drains: a wake becomes a drain, or a mark on an   *)
(* entry, which settle takes off before it owes the drain it starts.       *)
(***************************************************************************)
EXTENDS RunCoordinator, FiniteSetTheorems, TLAPS

\* From the drain to the point where settle lets the key go, and to the report.
Holding == {"draining", "loaded", "restart", "handoff", "remove"}
Unreported == Holding \union {"result"}

RunInv ==
  /\ run \in [Runs -> RunStates]
  /\ \A r \in Runs : run[r].pc \notin {"idle", "look", "returned"} => run[r].entry \in Drains

InterruptInv ==
  /\ interrupt \in [Interrupts -> InterruptStates]
  /\ \A i \in Interrupts :
       /\ interrupt[i].pc \notin {"idle", "returned"} => interrupt[i].entry \in Drains
       /\ interrupt[i].pc \notin {"idle", "found", "returned"} => interrupt[i].owner \in Drains

EntryInv == active \in [Keys -> MaybeDrain] /\ entry \in [Drains -> EntryStates]

DrainInv == drain \in [Drains -> DrainStates]

WakeInv == wake \in [Wakes -> {"idle", "made"}]

\* A started drain belongs to an entry whose first drain has started, of some key.
Linked(d) ==
  /\ drain[d].entry \in Drains
  /\ drain[drain[d].entry].at # "unused"
  /\ entry[drain[d].entry].key \in Keys

Links == \A d \in Drains : drain[d].at # "unused" => Linked(d)

TypeInv == RunInv /\ InterruptInv /\ EntryInv /\ DrainInv /\ WakeInv /\ Links

OneHolder ==
  \A c, d \in Drains :
    /\ drain[c].at \in Holding /\ drain[d].at \in Holding
    /\ entry[drain[c].entry].key = entry[drain[d].entry].key
    => c = d

HolderIsListed ==
  \A d \in Drains : drain[d].at \in Holding => active[entry[drain[d].entry].key] # None

OneUnreported ==
  \A c, d \in Drains :
    /\ drain[c].at \in Unreported /\ drain[d].at \in Unreported
    /\ drain[c].entry = drain[d].entry
    => c = d

NoneAfterReport ==
  \A d \in Drains : drain[d].at \in Unreported => entry[drain[d].entry].result = "none"

IInv == TypeInv /\ OneHolder /\ HolderIsListed /\ OneUnreported /\ NoneAfterReport

-----------------------------------------------------------------------------
(* Types.                                                                  *)

LEMMA InitType == Init => TypeInv
<1> SUFFICES ASSUME Init PROVE TypeInv
  OBVIOUS
<1>1. NewEntry \in EntryStates /\ NewDrain \in DrainStates
  BY DEF NewEntry, NewDrain, EntryStates, DrainStates, DrainPCs, MaybeDrain
<1>2. EntryInv /\ DrainInv /\ WakeInv
  BY <1>1 DEF Init, EntryInv, DrainInv, WakeInv, MaybeDrain
<1>3. RunInv /\ InterruptInv
  BY DEF Init, RunInv, InterruptInv, RunStates, InterruptStates, MaybeDrain
<1>4. Links
  BY DEF Init, Links, NewDrain
<1> QED BY <1>2, <1>3, <1>4 DEF TypeInv

\* One call of run gets a new state.
LEMMA RunSet ==
  ASSUME RunInv, NEW r \in Runs, NEW x \in RunStates,
         x.pc \notin {"idle", "look", "returned"} => x.entry \in Drains,
         run' = [run EXCEPT ![r] = x]
  PROVE  RunInv'
BY DEF RunInv

LEMMA InterruptSet ==
  ASSUME InterruptInv, NEW i \in Interrupts, NEW x \in InterruptStates,
         x.pc \notin {"idle", "returned"} => x.entry \in Drains,
         x.pc \notin {"idle", "found", "returned"} => x.owner \in Drains,
         interrupt' = [interrupt EXCEPT ![i] = x]
  PROVE  InterruptInv'
BY DEF InterruptInv

LEMMA EntrySet ==
  ASSUME EntryInv, NEW e \in Drains, NEW x \in EntryStates,
         entry' = [entry EXCEPT ![e] = x], UNCHANGED active
  PROVE  EntryInv' /\ \A d \in Drains : entry'[d] = IF d = e THEN x ELSE entry[d]
BY DEF EntryInv

LEMMA DrainSet ==
  ASSUME DrainInv, NEW d \in Drains, NEW x \in DrainStates,
         drain' = [drain EXCEPT ![d] = x]
  PROVE  DrainInv' /\ \A c \in Drains : drain'[c] = IF c = d THEN x ELSE drain[c]
BY DEF DrainInv

\* Nothing starts and no entry changes its key.
LEMMA LinksKept ==
  ASSUME Links,
         \A d \in Drains :
           /\ drain'[d].at = "unused" <=> drain[d].at = "unused"
           /\ drain'[d].entry = drain[d].entry
           /\ entry'[d].key = entry[d].key
  PROVE  Links'
BY DEF Links, Linked

LEMMA EntryMember ==
  ASSUME EntryInv, NEW e \in Drains
  PROVE  /\ entry[e] \in EntryStates
         /\ \A d \in Drains : [entry[e] EXCEPT !.owner = d] \in EntryStates
         /\ [entry[e] EXCEPT !.owner = None] \in EntryStates
         /\ \A d \in Drains : [entry[e] EXCEPT !.cancel = d] \in EntryStates
         /\ \A b \in BOOLEAN : [entry[e] EXCEPT !.pendingWake = b] \in EntryStates
         /\ [entry[e] EXCEPT !.stopping = TRUE] \in EntryStates
         /\ \A v \in {"ok", "failed"} : [entry[e] EXCEPT !.result = v] \in EntryStates
BY DEF EntryInv, EntryStates, MaybeDrain

LEMMA RunMember ==
  ASSUME RunInv, NEW r \in Runs
  PROVE  /\ run[r] \in RunStates
         /\ \A e \in Drains :
              /\ [run[r] EXCEPT !.pc = "joined", !.entry = e] \in RunStates
              /\ [run[r] EXCEPT !.pc = "starting", !.entry = e] \in RunStates
         /\ \A b \in BOOLEAN : [run[r] EXCEPT !.pc = "loaded", !.stopping = b] \in RunStates
         /\ [run[r] EXCEPT !.pc = "missed", !.stopping = FALSE] \in RunStates
         /\ [run[r] EXCEPT !.pc = "asleep"] \in RunStates
         /\ [run[r] EXCEPT !.pc = "joined"] \in RunStates
         /\ \A pc \in {"look", "returned"} : [pc |-> pc, entry |-> None, stopping |-> FALSE] \in RunStates
BY DEF RunInv, RunStates, MaybeDrain

LEMMA InterruptMember ==
  ASSUME InterruptInv, NEW i \in Interrupts
  PROVE  /\ interrupt[i] \in InterruptStates
         /\ Returned \in InterruptStates
         /\ \A e \in Drains : [interrupt[i] EXCEPT !.pc = "found", !.entry = e] \in InterruptStates
         /\ \A d \in Drains : [interrupt[i] EXCEPT !.pc = "taken", !.owner = d] \in InterruptStates
         /\ \A pc \in {"stopped", "cleared", "waiting"} :
              [interrupt[i] EXCEPT !.pc = pc] \in InterruptStates
BY DEF InterruptInv, InterruptStates, Returned, MaybeDrain

LEMMA DrainMember ==
  ASSUME DrainInv, NEW d \in Drains
  PROVE  /\ drain[d] \in DrainStates
         /\ \A v \in {"owner", "both"} : [drain[d] EXCEPT !.registered = v] \in DrainStates
         /\ [drain[d] EXCEPT !.cancelled = TRUE] \in DrainStates
         /\ \A ok, st \in BOOLEAN :
              [drain[d] EXCEPT !.at = "loaded", !.ok = ok, !.stopping = st] \in DrainStates
         /\ \A at \in {"restart", "handoff", "remove"} :
              [drain[d] EXCEPT !.at = at, !.stopping = FALSE] \in DrainStates
         /\ \A at \in {"restarting", "result"} : \A n \in Drains :
              [drain[d] EXCEPT !.at = at, !.starts = n] \in DrainStates
         /\ \A at \in {"finished", "notify"} :
              [drain[d] EXCEPT !.at = at, !.ok = FALSE, !.starts = None] \in DrainStates
         /\ \A at \in {"result", "finished"} : [drain[d] EXCEPT !.at = at] \in DrainStates
         /\ \A e \in Drains, force \in BOOLEAN : Spawned(e, force) \in DrainStates
BY DEF DrainInv, DrainStates, DrainPCs, Unswapped, MaybeDrain, Spawned, NewDrain

LEMMA NewEntryMember ==
  ASSUME NEW k \in Keys
  PROVE  [NewEntry EXCEPT !.key = k] \in EntryStates
BY DEF NewEntry, EntryStates, MaybeDrain

-----------------------------------------------------------------------------
(* Steps that leave the chain of drains as it is.                          *)

\* The map, where each drain is, and the key and the result of each entry.
ChainKept ==
  /\ UNCHANGED active
  /\ \A d \in Drains :
       /\ drain'[d].at = drain[d].at /\ drain'[d].entry = drain[d].entry
       /\ entry'[d].key = entry[d].key /\ entry'[d].result = entry[d].result

LEMMA ChainInv ==
  ASSUME IInv, ChainKept, RunInv', InterruptInv', EntryInv', DrainInv', WakeInv'
  PROVE  IInv'
<1>1. Links'
  BY LinksKept DEF IInv, TypeInv, ChainKept
<1>2. \A d \in Drains : drain[d].at \in Unreported => drain[d].entry \in Drains
  BY DEF IInv, TypeInv, Links, Linked, Unreported, Holding
<1>3. OneHolder' /\ HolderIsListed'
  BY <1>2 DEF IInv, ChainKept, OneHolder, HolderIsListed, Unreported
<1>4. OneUnreported' /\ NoneAfterReport'
  BY <1>2 DEF IInv, ChainKept, OneUnreported, NoneAfterReport
<1> QED BY <1>1, <1>3, <1>4 DEF IInv, TypeInv

LEMMA QuietRun ==
  ASSUME IInv, NEW r \in Runs,
         RunJoins(r) \/ RunLoadsStopping(r) \/ RunReadsResult(r) \/ RunSleeps(r)
  PROVE  IInv'
<1>0. /\ RunInv /\ KeyOf[r] \in Keys
      /\ UNCHANGED <<active, entry, drain, wake, interrupt>>
  BY RunCoordinatorAssumption DEF IInv, TypeInv, RunJoins, RunLoadsStopping, RunReadsResult, RunSleeps
<1>1. RunInv'
  <2>1. CASE RunJoins(r)
    <3>1. active[KeyOf[r]] \in Drains
      BY <1>0, <2>1 DEF RunJoins, IInv, TypeInv, EntryInv, MaybeDrain
    <3>2. [run[r] EXCEPT !.pc = "joined", !.entry = active[KeyOf[r]]] \in RunStates
      BY <1>0, <3>1, RunMember
    <3> QED BY <1>0, <2>1, <3>1, <3>2, RunSet, RunMember DEF RunJoins, RunStates
  <2>2. CASE RunLoadsStopping(r)
    <3>1. run[r].entry \in Drains /\ run[r] \in RunStates
      BY <1>0, <2>2, RunMember DEF RunLoadsStopping, RunInv
    <3>2. entry[run[r].entry].stopping \in BOOLEAN
      BY <3>1 DEF IInv, TypeInv, EntryInv, EntryStates
    <3>3. [run[r] EXCEPT !.pc = "loaded", !.stopping = entry[run[r].entry].stopping] \in RunStates
      BY <1>0, <3>2, RunMember
    <3> QED BY <1>0, <2>2, <3>1, <3>3, RunSet DEF RunLoadsStopping, RunStates
  <2>3. CASE RunReadsResult(r)
    <3>1. run[r].entry \in Drains /\ run[r] \in RunStates
      BY <1>0, <2>3, RunMember DEF RunReadsResult, RunInv
    <3>2. CASE entry[run[r].entry].result = "none"
      <4> DEFINE x == [run[r] EXCEPT !.pc = "missed", !.stopping = FALSE]
      <4>1. x \in RunStates
        BY <1>0, RunMember
      <4>2. run' = [run EXCEPT ![r] = x]
        BY <2>3, <3>2 DEF RunReadsResult
      <4>3. x.entry \in Drains
        BY <3>1 DEF RunStates
      <4> HIDE DEF x
      <4> QED BY <1>0, <4>1, <4>2, <4>3, RunSet
    <3>3. CASE entry[run[r].entry].result # "none"
      <4> DEFINE pc == IF run[r].stopping THEN "look" ELSE "returned"
                 x == [pc |-> pc, entry |-> None, stopping |-> FALSE]
      <4>1. pc \in {"look", "returned"}
        OBVIOUS
      <4>2. x \in RunStates
        BY <1>0, <4>1, RunMember
      <4>3. run' = [run EXCEPT ![r] = x]
        BY <2>3, <3>3 DEF RunReadsResult
      <4>4. x.pc \in {"look", "returned"}
        BY <4>1
      <4> HIDE DEF x
      <4> QED BY <1>0, <4>2, <4>3, <4>4, RunSet
    <3> QED BY <3>2, <3>3
  <2>4. CASE RunSleeps(r)
    <3> DEFINE x == [run[r] EXCEPT !.pc = "asleep"]
    <3>1. x \in RunStates /\ run[r] \in RunStates /\ run[r].entry \in Drains
      BY <1>0, <2>4, RunMember DEF RunSleeps, RunInv
    <3>2. run' = [run EXCEPT ![r] = x]
      BY <2>4 DEF RunSleeps
    <3>3. x.entry \in Drains
      BY <3>1 DEF RunStates
    <3> HIDE DEF x
    <3> QED BY <1>0, <3>1, <3>2, <3>3, RunSet
  <2> QED BY <2>1, <2>2, <2>3, <2>4
<1>2. ChainKept
  BY <1>0 DEF ChainKept
<1>3. InterruptInv' /\ EntryInv' /\ DrainInv' /\ WakeInv'
  BY <1>0 DEF IInv, TypeInv, InterruptInv, EntryInv, DrainInv, WakeInv
<1> QED BY <1>1, <1>2, <1>3, ChainInv

LEMMA QuietWake ==
  ASSUME IInv, NEW w \in Wakes, WakeMarks(w)
  PROVE  IInv'
<1> DEFINE e == active[KeyOf[w]]
           x == [entry[e] EXCEPT !.pendingWake = TRUE]
<1>1. e \in Drains
  BY RunCoordinatorAssumption DEF WakeMarks, IInv, TypeInv, EntryInv, MaybeDrain
<1>2. x \in EntryStates /\ entry[e] \in EntryStates
  BY <1>1, EntryMember DEF IInv, TypeInv
<1>3. entry' = [entry EXCEPT ![e] = x] /\ UNCHANGED <<active, drain, run, interrupt>>
  BY DEF WakeMarks
<1>4. x.key = entry[e].key /\ x.result = entry[e].result
  BY <1>2 DEF EntryStates
<1>5. WakeInv'
  BY DEF WakeMarks, IInv, TypeInv, WakeInv
<1> HIDE DEF x, e
<1>6. EntryInv' /\ \A d \in Drains : entry'[d] = IF d = e THEN x ELSE entry[d]
  BY <1>1, <1>2, <1>3, EntrySet DEF IInv, TypeInv
<1>7. ChainKept
  BY <1>3, <1>4, <1>6 DEF ChainKept
<1>8. RunInv' /\ InterruptInv' /\ DrainInv'
  BY <1>3 DEF IInv, TypeInv, RunInv, InterruptInv, DrainInv
<1> QED BY <1>5, <1>6, <1>7, <1>8, ChainInv

LEMMA QuietInterrupt ==
  ASSUME IInv, NEW i \in Interrupts, InterruptStep(i)
  PROVE  IInv'
<1> DEFINE e == interrupt[i].entry
<1>0. /\ InterruptInv /\ EntryInv /\ DrainInv /\ KeyOf[i] \in Keys
      /\ interrupt[i] \in InterruptStates
      /\ interrupt[i].pc \notin {"idle", "returned"} => e \in Drains
      /\ interrupt[i].pc \notin {"idle", "found", "returned"} => interrupt[i].owner \in Drains
  BY RunCoordinatorAssumption DEF IInv, TypeInv, InterruptInv
<1>1. RunInv' /\ WakeInv' /\ UNCHANGED active
  BY DEF InterruptStep, InterruptLooksUp, InterruptTakesOwner, InterruptStops, InterruptClearsWake,
         InterruptCancels, InterruptReturns, IInv, TypeInv, RunInv, WakeInv
<1>2. CASE InterruptLooksUp(i)
  <2>1. InterruptInv'
    <3>1. CASE active[KeyOf[i]] = None
      BY <1>0, <1>2, <3>1, InterruptSet, InterruptMember DEF InterruptLooksUp, Returned
    <3>2. CASE active[KeyOf[i]] # None
      <4> DEFINE x == [interrupt[i] EXCEPT !.pc = "found", !.entry = active[KeyOf[i]]]
      <4>1. active[KeyOf[i]] \in Drains
        BY <1>0, <3>2 DEF EntryInv, MaybeDrain
      <4>2. x \in InterruptStates /\ x.pc = "found" /\ x.entry \in Drains
        BY <1>0, <4>1, InterruptMember DEF InterruptStates
      <4>3. interrupt' = [interrupt EXCEPT ![i] = x]
        BY <1>2, <3>2 DEF InterruptLooksUp
      <4> HIDE DEF x
      <4> QED BY <1>0, <4>2, <4>3, InterruptSet
    <3> QED BY <3>1, <3>2
  <2>2. ChainKept /\ EntryInv' /\ DrainInv'
    BY <1>0, <1>2 DEF InterruptLooksUp, ChainKept, EntryInv, DrainInv
  <2> QED BY <1>1, <2>1, <2>2, ChainInv
<1>3. CASE InterruptTakesOwner(i)
  <2>1. e \in Drains
    BY <1>0, <1>3 DEF InterruptTakesOwner
  <2>2. entry[e] \in EntryStates
    BY <1>0, <2>1, EntryMember
  <2>3. InterruptInv'
    <3>1. CASE entry[e].owner = None
      BY <1>0, <1>3, <3>1, InterruptSet, InterruptMember DEF InterruptTakesOwner, Returned
    <3>2. CASE entry[e].owner # None
      <4> DEFINE x == [interrupt[i] EXCEPT !.pc = "taken", !.owner = entry[e].owner]
      <4>1. entry[e].owner \in Drains
        BY <2>2, <3>2 DEF EntryStates, MaybeDrain
      <4>2. x \in InterruptStates /\ x.pc = "taken" /\ x.owner \in Drains /\ x.entry \in Drains
        BY <1>0, <2>1, <4>1, InterruptMember DEF InterruptStates
      <4>3. interrupt' = [interrupt EXCEPT ![i] = x]
        BY <1>3, <3>2 DEF InterruptTakesOwner
      <4> HIDE DEF x
      <4> QED BY <1>0, <4>2, <4>3, InterruptSet
    <3> QED BY <3>1, <3>2
  <2> DEFINE y == [entry[e] EXCEPT !.owner = None]
  <2>4. y \in EntryStates /\ y.key = entry[e].key /\ y.result = entry[e].result
    BY <1>0, <2>1, <2>2, EntryMember DEF EntryStates
  <2>5. entry' = [entry EXCEPT ![e] = y] /\ UNCHANGED drain
    BY <1>3 DEF InterruptTakesOwner
  <2> HIDE DEF e, y
  <2>6. EntryInv' /\ \A d \in Drains : entry'[d] = IF d = e THEN y ELSE entry[d]
    BY <1>0, <1>1, <2>1, <2>4, <2>5, EntrySet
  <2>7. ChainKept /\ DrainInv'
    BY <1>0, <1>1, <2>4, <2>5, <2>6 DEF ChainKept, DrainInv
  <2> QED BY <1>1, <2>3, <2>6, <2>7, ChainInv
<1>4. CASE InterruptStops(i) \/ InterruptClearsWake(i)
  <2> DEFINE pc == IF InterruptStops(i) THEN "stopped" ELSE "cleared"
             x == [interrupt[i] EXCEPT !.pc = pc]
             y == IF InterruptStops(i) THEN [entry[e] EXCEPT !.stopping = TRUE]
                                       ELSE [entry[e] EXCEPT !.pendingWake = FALSE]
  <2>1. e \in Drains /\ interrupt[i].owner \in Drains
    BY <1>0, <1>4 DEF InterruptStops, InterruptClearsWake
  <2>2. x \in InterruptStates /\ x.entry \in Drains /\ x.owner \in Drains
    BY <1>0, <2>1, InterruptMember DEF InterruptStates
  <2>3. y \in EntryStates /\ y.key = entry[e].key /\ y.result = entry[e].result
    <3>1. entry[e] \in EntryStates /\ FALSE \in BOOLEAN
      BY <1>0, <2>1, EntryMember
    <3> QED BY <1>0, <2>1, <3>1, EntryMember DEF EntryStates
  <2>4. /\ interrupt' = [interrupt EXCEPT ![i] = x]
        /\ entry' = [entry EXCEPT ![e] = y]
        /\ UNCHANGED drain
    BY <1>4 DEF InterruptStops, InterruptClearsWake
  <2> HIDE DEF x, y, pc
  <2>5. InterruptInv'
    BY <1>0, <2>2, <2>4, InterruptSet
  <2> HIDE DEF e
  <2>6. EntryInv' /\ \A d \in Drains : entry'[d] = IF d = e THEN y ELSE entry[d]
    BY <1>0, <1>1, <2>1, <2>3, <2>4, EntrySet
  <2>7. ChainKept /\ DrainInv'
    BY <1>0, <1>1, <2>3, <2>4, <2>6 DEF ChainKept, DrainInv
  <2> QED BY <1>1, <2>5, <2>6, <2>7, ChainInv
<1>5. CASE InterruptCancels(i)
  <2> DEFINE x == [interrupt[i] EXCEPT !.pc = "waiting"]
             token == entry[e].cancel
             y == [drain[token] EXCEPT !.cancelled = TRUE]
  <2>1. e \in Drains /\ interrupt[i].owner \in Drains
    BY <1>0, <1>5 DEF InterruptCancels
  <2>2. x \in InterruptStates /\ x.entry \in Drains /\ x.owner \in Drains
    BY <1>0, <2>1, InterruptMember DEF InterruptStates
  <2>3. interrupt' = [interrupt EXCEPT ![i] = x] /\ UNCHANGED entry
    BY <1>5 DEF InterruptCancels
  <2> HIDE DEF x
  <2>4. InterruptInv'
    BY <1>0, <2>2, <2>3, InterruptSet
  <2>5. EntryInv'
    BY <1>0, <1>1, <2>3 DEF EntryInv
  <2>6. DrainInv' /\ ChainKept
    <3>1. CASE token = None
      BY <1>0, <1>1, <1>5, <3>1 DEF InterruptCancels, DrainInv, ChainKept
    <3>2. CASE token # None
      <4>1. token \in Drains
        BY <1>0, <2>1, <3>2, EntryMember DEF EntryStates, MaybeDrain
      <4>2. /\ y \in DrainStates
            /\ y.at = drain[token].at /\ y.entry = drain[token].entry
        <5>1. y \in DrainStates /\ drain[token] \in DrainStates
          BY <1>0, <4>1, DrainMember
        <5> QED BY <5>1 DEF DrainStates
      <4>3. drain' = [drain EXCEPT ![token] = y]
        BY <1>5, <3>2 DEF InterruptCancels
      <4> HIDE DEF y, token
      <4>4. DrainInv' /\ \A c \in Drains : drain'[c] = IF c = token THEN y ELSE drain[c]
        BY <1>0, <4>1, <4>2, <4>3, DrainSet
      <4> QED BY <1>1, <2>3, <4>2, <4>4 DEF ChainKept
    <3> QED BY <3>1, <3>2
  <2> QED BY <1>1, <2>4, <2>5, <2>6, ChainInv
<1>6. CASE InterruptReturns(i)
  <2>1. InterruptInv'
    BY <1>0, <1>6, InterruptSet, InterruptMember DEF InterruptReturns, Returned
  <2>2. ChainKept /\ EntryInv' /\ DrainInv'
    BY <1>0, <1>6 DEF InterruptReturns, ChainKept, EntryInv, DrainInv
  <2> QED BY <1>1, <2>1, <2>2, ChainInv
<1> QED BY <1>2, <1>3, <1>4, <1>5, <1>6 DEF InterruptStep

\* The end of start_entry.
LEMMA QuietStore ==
  ASSUME IInv, NEW d \in Drains, StoreOwner(d) \/ StoreCancel(d)
  PROVE  IInv'
<1> DEFINE e == drain[d].entry
           x == IF StoreOwner(d) THEN [entry[e] EXCEPT !.owner = d] ELSE [entry[e] EXCEPT !.cancel = d]
           v == IF StoreOwner(d) THEN "owner" ELSE "both"
           y == [drain[d] EXCEPT !.registered = v]
<1>0. EntryInv /\ DrainInv
  BY DEF IInv, TypeInv
<1>1. drain[d].at # "unused"
  BY <1>0 DEF StoreOwner, StoreCancel
<1>2. e \in Drains
  BY <1>1 DEF IInv, TypeInv, Links, Linked
<1>3. x \in EntryStates /\ x.key = entry[e].key /\ x.result = entry[e].result
  <2>1. entry[e] \in EntryStates
    BY <1>0, <1>2, EntryMember
  <2>2. x \in EntryStates
    BY <1>0, <1>2, EntryMember
  <2> QED BY <2>1, <2>2 DEF EntryStates
<1>4. y \in DrainStates /\ y.at = drain[d].at /\ y.entry = drain[d].entry
  <2>1. drain[d] \in DrainStates /\ v \in {"owner", "both"}
    BY <1>0, DrainMember
  <2>2. y \in DrainStates
    BY <1>0, <2>1, DrainMember
  <2> QED BY <2>1, <2>2 DEF DrainStates
<1>5. /\ entry' = [entry EXCEPT ![e] = x]
      /\ drain' = [drain EXCEPT ![d] = y]
      /\ UNCHANGED <<active, run, wake, interrupt>>
  BY DEF StoreOwner, StoreCancel
<1> HIDE DEF x, y, v, e
<1>6. EntryInv' /\ \A c \in Drains : entry'[c] = IF c = e THEN x ELSE entry[c]
  BY <1>0, <1>2, <1>3, <1>5, EntrySet
<1>7. DrainInv' /\ \A c \in Drains : drain'[c] = IF c = d THEN y ELSE drain[c]
  BY <1>0, <1>4, <1>5, DrainSet
<1>8. ChainKept
  BY <1>3, <1>4, <1>5, <1>6, <1>7 DEF ChainKept
<1>9. RunInv' /\ InterruptInv' /\ WakeInv'
  BY <1>5 DEF IInv, TypeInv, RunInv, InterruptInv, WakeInv
<1> QED BY <1>6, <1>7, <1>8, <1>9, ChainInv

-----------------------------------------------------------------------------
(* Steps of the chain.                                                     *)

\* Started drains have entries, and those of Unreported are started.
LEMMA ChainFacts ==
  ASSUME IInv
  PROVE  /\ RunInv /\ InterruptInv /\ EntryInv /\ DrainInv /\ WakeInv
         /\ \A d \in Drains : drain[d].at \in Unreported => drain[d].at # "unused"
         /\ \A d \in Drains : drain[d].at \in Holding => drain[d].at \in Unreported
         /\ \A d \in Drains : drain[d].at # "unused" =>
              /\ drain[d].entry \in Drains
              /\ drain[drain[d].entry].at # "unused"
              /\ entry[drain[d].entry].key \in Keys
BY DEF IInv, TypeInv, Links, Linked, Unreported, Holding

\* Drain d goes on in its chain: it may let go of the key, or report, but never the reverse.
GoesOn(d) ==
  /\ drain[d].at # "unused" /\ drain'[d].at # "unused"
  /\ \A c \in Drains :
       /\ drain'[c].entry = drain[c].entry
       /\ c # d => drain'[c].at = drain[c].at
       /\ entry'[c].key = entry[c].key
  /\ drain'[d].at \in Holding => drain[d].at \in Holding
  /\ drain'[d].at \in Unreported => drain[d].at \in Unreported

LEMMA ChainGoesOn ==
  ASSUME IInv, NEW d \in Drains, GoesOn(d),
         RunInv', InterruptInv', EntryInv', DrainInv', WakeInv'
  PROVE  /\ TypeInv' /\ OneHolder' /\ OneUnreported'
         /\ UNCHANGED active => HolderIsListed'
         /\ (\A e \in Drains : entry'[e].result = entry[e].result) => NoneAfterReport'
<1>1. Links'
  BY LinksKept DEF IInv, TypeInv, GoesOn
<1>2. \A c \in Drains :
        /\ drain'[c].at \in Holding => drain[c].at \in Holding
        /\ drain'[c].at \in Unreported => drain[c].at \in Unreported
        /\ drain[c].at \in Unreported => drain[c].entry \in Drains
        /\ drain[c].at \in Holding => drain[c].entry \in Drains
        /\ drain'[c].entry = drain[c].entry
  BY ChainFacts DEF GoesOn
<1>3. \A e \in Drains : entry'[e].key = entry[e].key
  BY DEF GoesOn
<1>4. OneHolder'
  BY <1>2, <1>3 DEF IInv, OneHolder
<1>5. OneUnreported'
  BY <1>2 DEF IInv, OneUnreported
<1>6. UNCHANGED active => HolderIsListed'
  BY <1>2, <1>3 DEF IInv, HolderIsListed
<1>7. (\A e \in Drains : entry'[e].result = entry[e].result) => NoneAfterReport'
  BY <1>2 DEF IInv, NoneAfterReport
<1> QED BY <1>1, <1>4, <1>5, <1>6, <1>7 DEF TypeInv

\* A step of d that writes its own state only.
LEMMA ChainLocal ==
  ASSUME IInv, NEW d \in Drains, NEW x \in DrainStates,
         drain[d].at # "unused", x.at # "unused", x.entry = drain[d].entry,
         x.at \in Holding => drain[d].at \in Holding,
         x.at \in Unreported => drain[d].at \in Unreported,
         drain' = [drain EXCEPT ![d] = x],
         UNCHANGED <<active, wake, interrupt>>, RunInv', EntryInv',
         \A e \in Drains : entry'[e].key = entry[e].key /\ entry'[e].result = entry[e].result
  PROVE  IInv'
<1>1. DrainInv' /\ \A c \in Drains : drain'[c] = IF c = d THEN x ELSE drain[c]
  BY ChainFacts, DrainSet
<1>2. GoesOn(d)
  BY <1>1 DEF GoesOn
<1>3. InterruptInv' /\ WakeInv'
  BY ChainFacts DEF InterruptInv, WakeInv
<1> QED BY <1>1, <1>2, <1>3, ChainGoesOn DEF IInv

LEMMA StepReturns ==
  ASSUME IInv, NEW d \in Drains, DrainReturns(d)
  PROVE  IInv'
<1>1. PICK ok \in BOOLEAN :
        drain' = [drain EXCEPT ![d] = [@ EXCEPT !.at = "loaded", !.ok = ok,
                                               !.stopping = entry[drain[d].entry].stopping]]
  BY DEF DrainReturns
<1> DEFINE x == [drain[d] EXCEPT !.at = "loaded", !.ok = ok,
                                 !.stopping = entry[drain[d].entry].stopping]
<1>2. drain[d] \in DrainStates /\ drain[d].at = "draining"
  BY ChainFacts, DrainMember DEF DrainReturns
<1>3. entry[drain[d].entry].stopping \in BOOLEAN
  BY <1>2, ChainFacts, EntryMember DEF EntryStates
<1>4. x \in DrainStates
  BY <1>3, ChainFacts, DrainMember
<1>5. x.at = "loaded" /\ x.entry = drain[d].entry
  BY <1>2 DEF DrainStates
<1>6. RunInv' /\ EntryInv' /\ UNCHANGED <<active, entry, wake, interrupt>>
  BY ChainFacts DEF DrainReturns, RunInv, EntryInv
<1>7. drain' = [drain EXCEPT ![d] = x]
  BY <1>1
<1> HIDE DEF x
<1> QED BY <1>2, <1>4, <1>5, <1>6, <1>7, ChainLocal DEF Holding, Unreported

LEMMA StepSwaps ==
  ASSUME IInv, NEW d \in Drains, SettleSwaps(d)
  PROVE  IInv'
<1> DEFINE e == drain[d].entry
           at == AfterSwap(d, entry[e].pendingWake)
           x == [drain[d] EXCEPT !.at = at, !.stopping = FALSE]
           y == [entry[e] EXCEPT !.pendingWake = FALSE]
<1>1. drain[d] \in DrainStates /\ drain[d].at = "loaded" /\ e \in Drains
  BY ChainFacts, DrainMember DEF SettleSwaps
<1>2. at \in {"restart", "handoff", "remove"}
  BY DEF AfterSwap
<1>3. x \in DrainStates
  BY <1>2, ChainFacts, DrainMember
<1>4. x.at = at /\ x.entry = drain[d].entry
  BY <1>1 DEF DrainStates
<1>5. entry[e] \in EntryStates /\ y \in EntryStates
  BY <1>1, ChainFacts, EntryMember
<1>6. y.key = entry[e].key /\ y.result = entry[e].result
  BY <1>5 DEF EntryStates
<1>7. /\ drain' = [drain EXCEPT ![d] = x] /\ entry' = [entry EXCEPT ![e] = y]
      /\ UNCHANGED <<active, run, wake, interrupt>>
  BY DEF SettleSwaps
<1> HIDE DEF x, y, at, e
<1>8. EntryInv' /\ \A c \in Drains : entry'[c] = IF c = e THEN y ELSE entry[c]
  BY <1>1, <1>5, <1>7, ChainFacts, EntrySet
<1>9. RunInv'
  BY <1>7, ChainFacts DEF RunInv
<1> QED BY <1>1, <1>2, <1>3, <1>4, <1>6, <1>7, <1>8, <1>9, ChainLocal DEF Holding, Unreported

LEMMA StepRestarted ==
  ASSUME IInv, NEW d \in Drains, SettleRestarted(d)
  PROVE  IInv'
<1> DEFINE x == [drain[d] EXCEPT !.at = "finished", !.ok = FALSE, !.starts = None]
<1>1. drain[d] \in DrainStates /\ drain[d].at = "restarting" /\ x \in DrainStates
  BY ChainFacts, DrainMember DEF SettleRestarted
<1>2. x.at = "finished" /\ x.entry = drain[d].entry
  BY <1>1 DEF DrainStates
<1>3. drain' = [drain EXCEPT ![d] = x] /\ UNCHANGED <<active, entry, run, wake, interrupt>>
  BY DEF SettleRestarted
<1>4. RunInv' /\ EntryInv'
  BY <1>3, ChainFacts DEF RunInv, EntryInv
<1> HIDE DEF x
<1> QED BY <1>1, <1>2, <1>3, <1>4, ChainLocal DEF Holding, Unreported

LEMMA StepNotifies ==
  ASSUME IInv, NEW d \in Drains, SettleNotifies(d)
  PROVE  IInv'
<1> DEFINE x == [drain[d] EXCEPT !.at = "finished"]
<1>1. drain[d] \in DrainStates /\ drain[d].at = "notify" /\ x \in DrainStates
  BY ChainFacts, DrainMember DEF SettleNotifies
<1>2. x.at = "finished" /\ x.entry = drain[d].entry
  BY <1>1 DEF DrainStates
<1>3. drain' = [drain EXCEPT ![d] = x] /\ UNCHANGED <<active, entry, wake, interrupt>>
  BY DEF SettleNotifies, Go
<1>4. RunInv'
  <2>1. ASSUME NEW r \in Runs
        PROVE  run'[r] \in RunStates
               /\ (run'[r].pc \notin {"idle", "look", "returned"} => run'[r].entry \in Drains)
    <3>1. CASE run[r].pc = "asleep" /\ run[r].entry = drain[d].entry
      <4>1. run'[r] = [run[r] EXCEPT !.pc = "joined"] /\ run[r] \in RunStates
        BY <3>1, ChainFacts, RunMember DEF SettleNotifies
      <4>2. run'[r] \in RunStates
        BY <4>1, ChainFacts, RunMember
      <4>3. run'[r].entry = run[r].entry
        BY <4>1 DEF RunStates
      <4> QED BY <3>1, <4>2, <4>3, ChainFacts DEF RunInv
    <3>2. CASE ~(run[r].pc = "asleep" /\ run[r].entry = drain[d].entry)
      <4>1. run'[r] = run[r]
        BY <3>2 DEF SettleNotifies
      <4> QED BY <4>1, ChainFacts DEF RunInv
    <3> QED BY <3>1, <3>2
  <2>2. run' = [r \in Runs |-> run'[r]]
    BY DEF SettleNotifies
  <2> QED BY <2>1, <2>2 DEF RunInv
<1>5. EntryInv'
  BY <1>3, ChainFacts DEF EntryInv
<1> HIDE DEF x
<1> QED BY <1>1, <1>2, <1>3, <1>4, <1>5, ChainLocal DEF Holding, Unreported

\* The entry leaves the map: no other drain holds its key.
LEMMA StepRemoves ==
  ASSUME IInv, NEW d \in Drains, SettleRemoves(d)
  PROVE  IInv'
<1> DEFINE e == drain[d].entry
           x == [drain[d] EXCEPT !.at = "result"]
<1>1. drain[d] \in DrainStates /\ drain[d].at = "remove" /\ x \in DrainStates
  BY ChainFacts, DrainMember DEF SettleRemoves
<1>2. x.at = "result" /\ x.entry = drain[d].entry
  BY <1>1 DEF DrainStates
<1>3. /\ drain' = [drain EXCEPT ![d] = x] /\ UNCHANGED <<entry, run, wake, interrupt>>
      /\ active' = [active EXCEPT ![entry[e].key] = IF @ = e THEN None ELSE @]
  BY DEF SettleRemoves, Go
<1> HIDE DEF x
<1>4. DrainInv' /\ \A c \in Drains : drain'[c] = IF c = d THEN x ELSE drain[c]
  BY <1>1, <1>3, ChainFacts, DrainSet
<1>5. GoesOn(d)
  BY <1>1, <1>2, <1>3, <1>4 DEF GoesOn, Holding, Unreported
<1>6. RunInv' /\ InterruptInv' /\ WakeInv'
  BY <1>3, ChainFacts DEF RunInv, InterruptInv, WakeInv
<1>7. e \in Drains /\ entry[e].key \in Keys
  BY <1>1, ChainFacts
<1>8. EntryInv'
  BY <1>3, <1>7, ChainFacts DEF EntryInv, MaybeDrain
<1>9. ASSUME NEW c \in Drains, drain'[c].at \in Holding
      PROVE  active'[entry'[drain'[c].entry].key] # None
  <2>1. c # d /\ drain'[c] = drain[c]
    BY <1>2, <1>4, <1>9 DEF Holding
  <2>2. entry[drain[c].entry].key # entry[e].key
    BY <1>1, <1>9, <2>1 DEF IInv, OneHolder, Holding
  <2>3. active[entry[drain[c].entry].key] # None
    BY <1>9, <2>1 DEF IInv, HolderIsListed
  <2>4. entry[drain[c].entry].key \in Keys
    BY <1>9, <2>1, ChainFacts
  <2> QED BY <1>3, <1>7, <2>1, <2>2, <2>3, <2>4, ChainFacts DEF EntryInv
<1> QED BY <1>3, <1>4, <1>5, <1>6, <1>8, <1>9, ChainGoesOn DEF IInv, HolderIsListed

\* The report: no other drain of the entry is left.
LEMMA StepReports ==
  ASSUME IInv, NEW d \in Drains, SettleReports(d)
  PROVE  IInv'
<1> DEFINE e == drain[d].entry
           x == [drain[d] EXCEPT !.at = "notify", !.ok = FALSE, !.starts = None]
           v == IF drain[d].ok THEN "ok" ELSE "failed"
           y == [entry[e] EXCEPT !.result = v]
<1>1. drain[d] \in DrainStates /\ drain[d].at = "result" /\ x \in DrainStates
  BY ChainFacts, DrainMember DEF SettleReports
<1>2. x.at = "notify" /\ x.entry = drain[d].entry
  BY <1>1 DEF DrainStates
<1>3. e \in Drains
  BY <1>1, ChainFacts
<1>4. entry[e] \in EntryStates /\ y \in EntryStates
  <2>1. v \in {"ok", "failed"}
    OBVIOUS
  <2> QED BY <1>3, <2>1, ChainFacts, EntryMember
<1>5. y.key = entry[e].key
  BY <1>4 DEF EntryStates
<1>6. /\ drain' = [drain EXCEPT ![d] = x] /\ entry' = [entry EXCEPT ![e] = y]
      /\ UNCHANGED <<active, run, wake, interrupt>>
  BY DEF SettleReports
<1> HIDE DEF x, y, v
<1>7. DrainInv' /\ \A c \in Drains : drain'[c] = IF c = d THEN x ELSE drain[c]
  BY <1>1, <1>6, ChainFacts, DrainSet
<1>8. EntryInv' /\ \A c \in Drains : entry'[c] = IF c = e THEN y ELSE entry[c]
  BY <1>3, <1>4, <1>6, ChainFacts, EntrySet
<1>9. GoesOn(d)
  BY <1>1, <1>2, <1>5, <1>7, <1>8 DEF GoesOn, Holding, Unreported
<1>10. RunInv' /\ InterruptInv' /\ WakeInv'
  BY <1>6, ChainFacts DEF RunInv, InterruptInv, WakeInv
<1>11. ASSUME NEW c \in Drains, drain'[c].at \in Unreported
       PROVE  entry'[drain'[c].entry].result = "none"
  <2>1. c # d /\ drain'[c] = drain[c]
    BY <1>2, <1>7, <1>11 DEF Unreported, Holding
  <2>2. drain[c].entry # e
    BY <1>1, <1>11, <2>1 DEF IInv, OneUnreported, Unreported, Holding
  <2>3. drain[c].entry \in Drains
    BY <1>11, <2>1, ChainFacts
  <2> QED BY <1>8, <1>11, <2>1, <2>2, <2>3 DEF IInv, NoneAfterReport
<1> QED BY <1>6, <1>7, <1>8, <1>9, <1>10, <1>11, ChainGoesOn DEF IInv, NoneAfterReport

-----------------------------------------------------------------------------
(* Steps that start a drain.                                               *)

LEMMA SpawnedState ==
  ASSUME NEW e, NEW force
  PROVE  /\ Spawned(e, force).at = "draining" /\ Spawned(e, force).entry = e
BY DEF Spawned, NewDrain

LEMMA NewEntryState ==
  ASSUME NEW k
  PROVE  [NewEntry EXCEPT !.key = k].key = k /\ [NewEntry EXCEPT !.key = k].result = "none"
BY DEF NewEntry

\* Drain n starts a chain of its own for key k, which nobody holds any more.
LEMMA NewChain ==
  ASSUME IInv, NEW n \in Drains, NEW k \in Keys, NEW force \in BOOLEAN,
         drain[n].at = "unused",
         drain'[n] = Spawned(n, force), entry'[n] = [NewEntry EXCEPT !.key = k],
         \A c \in Drains : c # n =>
           /\ entry'[c] = entry[c] /\ drain'[c].entry = drain[c].entry
           /\ drain'[c].at = "unused" <=> drain[c].at = "unused"
           /\ drain'[c].at \in Holding => drain[c].at \in Holding /\ entry[drain[c].entry].key # k
           /\ drain'[c].at \in Unreported => drain[c].at \in Unreported,
         active'[k] # None, \A j \in Keys : active[j] # None => active'[j] # None,
         RunInv', InterruptInv', EntryInv', DrainInv', WakeInv'
  PROVE  IInv'
<1>1. /\ drain'[n].at = "draining" /\ drain'[n].entry = n
      /\ entry'[n].key = k /\ entry'[n].result = "none"
  BY SpawnedState, NewEntryState
<1>2. \A c \in Drains : c # n /\ drain[c].at # "unused" =>
        /\ drain[c].entry \in Drains /\ drain[c].entry # n
        /\ drain'[c].entry = drain[c].entry /\ entry'[drain'[c].entry] = entry[drain[c].entry]
  BY ChainFacts
<1>3. \A c \in Drains : c # n =>
        /\ drain'[c].at \in Holding => drain[c].at # "unused" /\ drain[c].at \in Holding
        /\ drain'[c].at \in Unreported => drain[c].at # "unused" /\ drain[c].at \in Unreported
  BY ChainFacts
<1>4. Links'
  <2>1. ASSUME NEW c \in Drains, drain'[c].at # "unused"
        PROVE  Linked(c)'
    <3>1. CASE c = n
      BY <1>1, <3>1 DEF Linked
    <3>2. CASE c # n
      <4>1. drain[c].at # "unused"
        BY <2>1, <3>2
      <4> QED BY <1>1, <1>2, <3>2, <4>1, ChainFacts DEF Linked
    <3> QED BY <3>1, <3>2
  <2> QED BY <2>1 DEF Links
<1>5. OneHolder'
  <2>1. ASSUME NEW c \in Drains, NEW d \in Drains,
               drain'[c].at \in Holding, drain'[d].at \in Holding, c # n, d # n,
               entry'[drain'[c].entry].key = entry'[drain'[d].entry].key
        PROVE  c = d
    BY <1>2, <1>3, <2>1 DEF IInv, OneHolder
  <2>2. ASSUME NEW c \in Drains, drain'[c].at \in Holding, c # n
        PROVE  entry'[drain'[c].entry].key # k
    BY <1>2, <1>3, <2>2
  <2>3. ASSUME NEW c \in Drains, NEW d \in Drains,
               drain'[c].at \in Holding, drain'[d].at \in Holding,
               entry'[drain'[c].entry].key = entry'[drain'[d].entry].key
        PROVE  c = d
    <3>1. CASE c # n /\ d # n
      BY <2>1, <2>3, <3>1
    <3>2. CASE c = n
      BY <1>1, <2>2, <2>3, <3>2
    <3>3. CASE d = n
      BY <1>1, <2>2, <2>3, <3>3
    <3> QED BY <3>1, <3>2, <3>3
  <2> QED BY <2>3 DEF OneHolder
<1>6. HolderIsListed'
  <2>1. ASSUME NEW c \in Drains, drain'[c].at \in Holding, c # n
        PROVE  active'[entry'[drain'[c].entry].key] # None
    <3>1. drain[c].at \in Holding /\ entry'[drain'[c].entry].key = entry[drain[c].entry].key
      BY <1>2, <1>3, <2>1
    <3>2. entry[drain[c].entry].key \in Keys
      BY <1>3, <2>1, ChainFacts
    <3> QED BY <3>1, <3>2 DEF IInv, HolderIsListed
  <2> QED BY <1>1, <2>1 DEF HolderIsListed
<1>7. OneUnreported'
  <2>1. ASSUME NEW c \in Drains, NEW d \in Drains,
               drain'[c].at \in Unreported, drain'[d].at \in Unreported, c # n, d # n,
               drain'[c].entry = drain'[d].entry
        PROVE  c = d
    BY <1>2, <1>3, <2>1 DEF IInv, OneUnreported
  <2>2. ASSUME NEW c \in Drains, drain'[c].at \in Unreported, c # n
        PROVE  drain'[c].entry # n
    BY <1>2, <1>3, <2>2
  <2> QED BY <1>1, <2>1, <2>2 DEF OneUnreported
<1>8. NoneAfterReport'
  <2>1. ASSUME NEW c \in Drains, drain'[c].at \in Unreported, c # n
        PROVE  entry'[drain'[c].entry].result = "none"
    BY <1>2, <1>3, <2>1 DEF IInv, NoneAfterReport
  <2> QED BY <1>1, <2>1 DEF NoneAfterReport
<1> QED BY <1>4, <1>5, <1>6, <1>7, <1>8 DEF IInv, TypeInv

\* run and wake on an idle key: a key that is not listed has no holder.
LEMMA StepInserts ==
  ASSUME IInv, NEW k \in Keys, NEW d \in Drains, NEW force \in BOOLEAN,
         InsertAndStart(k, d, force), RunInv', InterruptInv', WakeInv'
  PROVE  IInv'
<1> DEFINE x == Spawned(d, force)
           y == [NewEntry EXCEPT !.key = k]
<1>1. /\ active[k] = None /\ drain[d].at = "unused"
      /\ active' = [active EXCEPT ![k] = d]
      /\ entry' = [entry EXCEPT ![d] = y]
      /\ drain' = [drain EXCEPT ![d] = x]
  BY DEF InsertAndStart, Fresh
<1>2. x \in DrainStates /\ y \in EntryStates
  BY ChainFacts, DrainMember, NewEntryMember
<1> HIDE DEF x, y
<1>3. DrainInv' /\ \A c \in Drains : drain'[c] = IF c = d THEN x ELSE drain[c]
  BY <1>1, <1>2, ChainFacts, DrainSet
<1>4. /\ EntryInv'
      /\ \A c \in Drains : entry'[c] = IF c = d THEN y ELSE entry[c]
      /\ \A j \in Keys : active'[j] = IF j = k THEN d ELSE active[j]
  BY <1>1, <1>2, ChainFacts DEF EntryInv, MaybeDrain
<1>5. d # None
  BY RunCoordinatorAssumption
<1>6. \A c \in Drains : drain[c].at \in Holding => entry[drain[c].entry].key # k
  BY <1>1 DEF IInv, HolderIsListed
<1>7. drain'[d] = Spawned(d, force) /\ entry'[d] = [NewEntry EXCEPT !.key = k]
  BY <1>3, <1>4 DEF x, y
<1> QED BY <1>1, <1>3, <1>4, <1>5, <1>6, <1>7, NewChain

LEMMA StepRunStarts ==
  ASSUME IInv, NEW r \in Runs, RunStarts(r)
  PROVE  IInv'
<1>1. PICK d \in Drains :
        /\ InsertAndStart(KeyOf[r], d, TRUE)
        /\ run' = [run EXCEPT ![r] = [@ EXCEPT !.pc = "starting", !.entry = d]]
  BY DEF RunStarts
<1> DEFINE z == [run[r] EXCEPT !.pc = "starting", !.entry = d]
<1>2. z \in RunStates /\ run[r] \in RunStates
  BY ChainFacts, RunMember
<1>3. z.entry = d
  BY <1>2 DEF RunStates
<1>4. run' = [run EXCEPT ![r] = z]
  BY <1>1
<1> HIDE DEF z
<1>5. RunInv'
  BY <1>2, <1>3, <1>4, ChainFacts, RunSet
<1>6. InterruptInv' /\ WakeInv' /\ KeyOf[r] \in Keys
  BY RunCoordinatorAssumption, ChainFacts DEF RunStarts, InterruptInv, WakeInv
<1> QED BY <1>1, <1>5, <1>6, StepInserts

LEMMA StepWakeStarts ==
  ASSUME IInv, NEW w \in Wakes, WakeStarts(w)
  PROVE  IInv'
<1>1. PICK d \in Drains : InsertAndStart(KeyOf[w], d, FALSE)
  BY DEF WakeStarts
<1>2. RunInv' /\ InterruptInv' /\ WakeInv' /\ KeyOf[w] \in Keys
  BY RunCoordinatorAssumption, ChainFacts DEF WakeStarts, RunInv, InterruptInv, WakeInv
<1> QED BY <1>1, <1>2, StepInserts

\* The successor takes the key over from the drain that lets it go.
LEMMA StepHandsOff ==
  ASSUME IInv, NEW d \in Drains, SettleHandsOff(d)
  PROVE  IInv'
<1> DEFINE e == drain[d].entry
           k == entry[e].key
<1>1. PICK n \in Drains :
        /\ Fresh(n)
        /\ entry' = [entry EXCEPT ![n] = [NewEntry EXCEPT !.key = k]]
        /\ drain' = [drain EXCEPT ![n] = Spawned(n, FALSE),
                                  ![d] = [@ EXCEPT !.at = "result", !.starts = n]]
  BY DEF SettleHandsOff
<1>2. /\ drain[d].at = "handoff" /\ drain[n].at = "unused" /\ n # d
      /\ UNCHANGED <<active, run, wake, interrupt>>
  BY <1>1 DEF SettleHandsOff, Fresh
<1> DEFINE x == [drain[d] EXCEPT !.at = "result", !.starts = n]
           s == Spawned(n, FALSE)
           y == [NewEntry EXCEPT !.key = k]
<1>3. drain[d] \in DrainStates /\ x \in DrainStates /\ s \in DrainStates
  BY ChainFacts, DrainMember
<1>4. x.at = "result" /\ x.entry = e
  BY <1>3 DEF DrainStates
<1>5. k \in Keys
  BY <1>2, ChainFacts
<1>6. y \in EntryStates
  BY <1>5, NewEntryMember
<1>7. drain' = [drain EXCEPT ![n] = s, ![d] = x]
  BY <1>1, <1>2
<1>8. entry' = [entry EXCEPT ![n] = y]
  BY <1>1
<1> HIDE DEF x, s, y, k, e
<1>9. DrainInv' /\ \A c \in Drains : drain'[c] = IF c = d THEN x ELSE IF c = n THEN s ELSE drain[c]
  BY <1>2, <1>3, <1>7, ChainFacts DEF DrainInv
<1>10. EntryInv' /\ \A c \in Drains : entry'[c] = IF c = n THEN y ELSE entry[c]
  BY <1>2, <1>6, <1>8, ChainFacts, EntrySet
<1>11. active[k] # None
  BY <1>2 DEF IInv, HolderIsListed, Holding, k, e
<1>12. \A c \in Drains : drain[c].at \in Holding /\ c # d => entry[drain[c].entry].key # k
  BY <1>2 DEF IInv, OneHolder, Holding, k, e
<1>13. RunInv' /\ InterruptInv' /\ WakeInv'
  BY <1>2, ChainFacts DEF RunInv, InterruptInv, WakeInv
<1>14. \A c \in Drains : c # n =>
         /\ entry'[c] = entry[c] /\ drain'[c].entry = drain[c].entry
         /\ drain'[c].at = "unused" <=> drain[c].at = "unused"
         /\ drain'[c].at \in Holding => drain[c].at \in Holding /\ entry[drain[c].entry].key # k
         /\ drain'[c].at \in Unreported => drain[c].at \in Unreported
  BY <1>2, <1>4, <1>9, <1>10, <1>12 DEF Holding, Unreported, e
<1>15. drain'[n] = Spawned(n, FALSE) /\ entry'[n] = [NewEntry EXCEPT !.key = k]
  BY <1>2, <1>9, <1>10 DEF s, y
<1> QED BY <1>2, <1>5, <1>9, <1>10, <1>11, <1>13, <1>14, <1>15, NewChain

\* The next drain of the same entry takes over from d.
LEMMA StepRestarts ==
  ASSUME IInv, NEW d \in Drains, SettleRestarts(d)
  PROVE  IInv'
<1> DEFINE e == drain[d].entry
<1>1. PICK n \in Drains :
        /\ Fresh(n)
        /\ drain' = [drain EXCEPT ![n] = Spawned(e, FALSE),
                                  ![d] = [@ EXCEPT !.at = "restarting", !.starts = n]]
  BY DEF SettleRestarts
<1>2. /\ drain[d].at = "restart" /\ drain[n].at = "unused" /\ n # d
      /\ UNCHANGED <<active, entry, run, wake, interrupt>>
  BY <1>1 DEF SettleRestarts, Fresh
<1> DEFINE x == [drain[d] EXCEPT !.at = "restarting", !.starts = n]
           s == Spawned(e, FALSE)
<1>3. e \in Drains /\ drain[e].at # "unused" /\ entry[e].key \in Keys
  BY <1>2, ChainFacts
<1>4. drain[d] \in DrainStates /\ x \in DrainStates /\ s \in DrainStates
  BY <1>3, ChainFacts, DrainMember
<1>5. x.at = "restarting" /\ x.entry = e /\ s.at = "draining" /\ s.entry = e
  <2>1. x.at = "restarting" /\ x.entry = e
    BY <1>4 DEF DrainStates
  <2> HIDE DEF x
  <2>2. s.at = "draining" /\ s.entry = e
    BY SpawnedState
  <2> QED BY <2>1, <2>2
<1>6. drain' = [drain EXCEPT ![n] = s, ![d] = x]
  BY <1>1, <1>2
<1> HIDE DEF x, s
<1>7. DrainInv' /\ \A c \in Drains : drain'[c] = IF c = d THEN x ELSE IF c = n THEN s ELSE drain[c]
  BY <1>2, <1>4, <1>6, ChainFacts DEF DrainInv
<1>8. RunInv' /\ InterruptInv' /\ WakeInv' /\ EntryInv'
  BY <1>2, ChainFacts DEF RunInv, InterruptInv, WakeInv, EntryInv
\* n stands for d in the chain
<1> DEFINE was(c) == IF c = n THEN d ELSE c
<1>9. \A c \in Drains :
        /\ was(c) \in Drains /\ drain'[c].at # "unused" => drain'[c].entry = drain[was(c)].entry
        /\ drain'[c].at # "unused" => drain[was(c)].at # "unused"
        /\ drain'[c].at \in Holding => c # d /\ drain[was(c)].at \in Holding
        /\ drain'[c].at \in Unreported => c # d /\ drain[was(c)].at \in Unreported
  BY <1>2, <1>5, <1>7 DEF Holding, Unreported
<1>10. \A c \in Drains : was(c) \in Drains
  OBVIOUS
<1>11. \A c \in Drains : drain[c].at # "unused" => drain'[c].at # "unused"
  BY <1>2, <1>5, <1>7
<1>12. \A c \in Drains : (drain'[c].at \in Holding \/ drain'[c].at \in Unreported) =>
          drain'[c].entry = drain[was(c)].entry
  BY <1>9 DEF Holding, Unreported
<1>13. \A b, c \in Drains : b # d /\ c # d /\ was(b) = was(c) => b = c
  OBVIOUS
<1> HIDE DEF was
<1>14. Links'
  <2>1. ASSUME NEW c \in Drains, drain'[c].at # "unused"
        PROVE  Linked(c)'
    BY <1>2, <1>9, <1>10, <1>11, <2>1, ChainFacts DEF Linked
  <2> QED BY <2>1 DEF Links
<1>15. OneHolder'
  BY <1>2, <1>9, <1>10, <1>12, <1>13 DEF IInv, OneHolder
<1>16. HolderIsListed'
  BY <1>2, <1>9, <1>10, <1>12 DEF IInv, HolderIsListed
<1>17. OneUnreported'
  BY <1>9, <1>10, <1>12, <1>13 DEF IInv, OneUnreported
<1>18. NoneAfterReport'
  BY <1>2, <1>9, <1>10, <1>12 DEF IInv, NoneAfterReport
<1> QED BY <1>7, <1>8, <1>14, <1>15, <1>16, <1>17, <1>18 DEF IInv, TypeInv

-----------------------------------------------------------------------------
LEMMA InvInit == Init => IInv
<1>1. Init => TypeInv
  BY InitType
<1>2. Init => \A d \in Drains : drain[d].at = "unused"
  BY DEF Init, NewDrain
<1> QED
  BY <1>1, <1>2 DEF IInv, OneHolder, HolderIsListed, OneUnreported, NoneAfterReport, Unreported, Holding

LEMMA InvStep == IInv /\ [Next]_vars => IInv'
<1> SUFFICES ASSUME IInv, [Next]_vars PROVE IInv'
  OBVIOUS
<1>1. CASE UNCHANGED vars
  <2>1. RunInv' /\ InterruptInv' /\ EntryInv' /\ DrainInv' /\ WakeInv' /\ ChainKept
    BY <1>1, ChainFacts DEF vars, RunInv, InterruptInv, EntryInv, DrainInv, WakeInv, ChainKept
  <2> QED BY <2>1, ChainInv
<1>2. ASSUME NEW r \in Runs, RunStep(r) PROVE IInv'
  BY <1>2, QuietRun, StepRunStarts DEF RunStep
<1>3. ASSUME NEW w \in Wakes, WakeStep(w) PROVE IInv'
  BY <1>3, QuietWake, StepWakeStarts DEF WakeStep
<1>4. ASSUME NEW i \in Interrupts, InterruptStep(i) PROVE IInv'
  BY <1>4, QuietInterrupt
<1>5. ASSUME NEW d \in Drains, DrainStep(d) PROVE IInv'
  BY <1>5, QuietStore, StepReturns, StepSwaps, StepRestarts, StepRestarted, StepHandsOff,
     StepRemoves, StepReports, StepNotifies DEF DrainStep, SettleStep
<1> QED BY <1>1, <1>2, <1>3, <1>4, <1>5 DEF Next

LEMMA Inductive == Spec => []IInv
BY InvInit, InvStep, PTL DEF Spec

\* The coordinator's state keeps its types, for any keys, calls and number of drains.
THEOREM TypeCorrect == Spec => []TypeOK
<1>1. IInv => TypeOK
  BY DEF IInv, TypeInv, TypeOK, RunInv, InterruptInv, EntryInv, DrainInv, WakeInv
<1> QED BY <1>1, Inductive, PTL

\* The coordinator serializes the drains of a key: two never run at once, whatever calls
\* of run, wake and interrupt race and however drains end.
THEOREM SerializesKey == Spec => []OneDrainPerKey
<1>1. IInv => OneDrainPerKey
  BY DEF IInv, OneHolder, OneDrainPerKey, DrainsOf, Holding
<1> QED BY <1>1, Inductive, PTL

\* When an entry reports its result no drain of it is left, so no waiter is let go early.
THEOREM ReportsAtTheEnd == Spec => []ReportedIsOver
<1>1. IInv => ReportedIsOver
  BY DEF IInv, NoneAfterReport, ReportedIsOver, Unreported, Holding, Unswapped
<1> QED BY <1>1, Inductive, PTL
-----------------------------------------------------------------------------
(* Wakes are coalesced.                                                    *)

\* What has come of the wakes that were made: drains that no call of run forced, marks
\* that wait for settle, and drains that settle has read a mark for and not yet started.
Unforced == {d \in Drains : drain[d].at # "unused" /\ ~drain[d].force}
Marked == {e \in Drains : entry[e].pendingWake}
Owed == {d \in Drains : drain[d].at \in {"restart", "handoff"}}

Made == {w \in Wakes : wake[w] = "made"}

\* Each of them is owed to a wake of its own; only finitely many have been made.
WakeBound ==
  /\ IsFiniteSet(Made)
  /\ Cardinality(Unforced) + Cardinality(Marked) + Cardinality(Owed) <= Cardinality(Made)

\* How the size of a set follows the elements it may gain or loses.
LEMMA SetSizes ==
  ASSUME NEW A, IsFiniteSet(A), NEW B, NEW x
  PROVE  /\ Cardinality(A) \in Nat
         /\ B \subseteq A =>
              IsFiniteSet(B) /\ Cardinality(B) \in Nat /\ Cardinality(B) <= Cardinality(A)
         /\ B \subseteq A \union {x} =>
              IsFiniteSet(B) /\ Cardinality(B) \in Nat /\ Cardinality(B) <= Cardinality(A) + 1
         /\ x \in A /\ B \subseteq A \ {x} =>
              IsFiniteSet(B) /\ Cardinality(B) \in Nat /\ Cardinality(B) <= Cardinality(A) - 1
<1>1. Cardinality(A) \in Nat
  BY FS_CardinalityType
<1>2. ASSUME NEW C, IsFiniteSet(C), B \subseteq C
      PROVE  IsFiniteSet(B) /\ Cardinality(B) \in Nat /\ Cardinality(B) <= Cardinality(C)
  <2>1. IsFiniteSet(B) /\ Cardinality(B) <= Cardinality(C)
    BY <1>2, FS_Subset
  <2> QED BY <2>1, FS_CardinalityType
<1>3. IsFiniteSet(A \union {x}) /\ Cardinality(A \union {x}) <= Cardinality(A) + 1
  BY <1>1, FS_AddElement
<1>4. IsFiniteSet(A \ {x}) /\ (x \in A => Cardinality(A \ {x}) = Cardinality(A) - 1)
  BY FS_RemoveElement
<1>5. Cardinality(A \union {x}) \in Nat /\ Cardinality(A \ {x}) \in Nat
  BY <1>3, <1>4, FS_CardinalityType
<1>6. B \subseteq A => IsFiniteSet(B) /\ Cardinality(B) \in Nat /\ Cardinality(B) <= Cardinality(A)
  BY <1>2
<1>7. B \subseteq A \union {x} =>
        IsFiniteSet(B) /\ Cardinality(B) \in Nat /\ Cardinality(B) <= Cardinality(A) + 1
  <2> SUFFICES ASSUME B \subseteq A \union {x}
               PROVE  IsFiniteSet(B) /\ Cardinality(B) \in Nat /\ Cardinality(B) <= Cardinality(A) + 1
    OBVIOUS
  <2>1. IsFiniteSet(B) /\ Cardinality(B) \in Nat /\ Cardinality(B) <= Cardinality(A \union {x})
    BY <1>2, <1>3
  <2> QED BY <1>1, <1>3, <1>5, <2>1
<1>8. x \in A /\ B \subseteq A \ {x} =>
        IsFiniteSet(B) /\ Cardinality(B) \in Nat /\ Cardinality(B) <= Cardinality(A) - 1
  <2> SUFFICES ASSUME x \in A, B \subseteq A \ {x}
               PROVE  IsFiniteSet(B) /\ Cardinality(B) \in Nat /\ Cardinality(B) <= Cardinality(A) - 1
    OBVIOUS
  <2>1. IsFiniteSet(B) /\ Cardinality(B) \in Nat /\ Cardinality(B) <= Cardinality(A \ {x})
    BY <1>2, <1>4
  <2> QED BY <1>1, <1>4, <1>5, <2>1
<1> QED BY <1>1, <1>6, <1>7, <1>8

\* There are finitely many drains, so each of the three sets is finite.
LEMMA FiniteSets3 == IsFiniteSet(Unforced) /\ IsFiniteSet(Marked) /\ IsFiniteSet(Owed)
<1>1. IsFiniteSet(Drains)
  BY RunCoordinatorAssumption, FS_Interval DEF Drains
<1>2. Unforced \in SUBSET Drains /\ Marked \in SUBSET Drains /\ Owed \in SUBSET Drains
  BY DEF Unforced, Marked, Owed
<1> QED BY <1>1, <1>2, FS_Subset

\* A step that gives nothing new.
LEMMA BoundKept ==
  ASSUME WakeBound, UNCHANGED wake,
         Unforced' \subseteq Unforced, Marked' \subseteq Marked, Owed' \subseteq Owed
  PROVE  WakeBound'
<1>1. Made' = Made
  BY DEF Made
<1>2. /\ Cardinality(Unforced') \in Nat /\ Cardinality(Unforced') <= Cardinality(Unforced)
      /\ Cardinality(Marked') \in Nat /\ Cardinality(Marked') <= Cardinality(Marked)
      /\ Cardinality(Owed') \in Nat /\ Cardinality(Owed') <= Cardinality(Owed)
  BY FiniteSets3, SetSizes
<1>3. /\ Cardinality(Unforced) \in Nat /\ Cardinality(Marked) \in Nat /\ Cardinality(Owed) \in Nat
  BY FiniteSets3, FS_CardinalityType
<1>4. Cardinality(Made) \in Nat
  BY FS_CardinalityType DEF WakeBound
<1> QED BY <1>1, <1>2, <1>3, <1>4 DEF WakeBound

\* A call of wake gives one mark, or one drain.
LEMMA BoundMade ==
  ASSUME WakeBound, NEW w \in Wakes, NEW x, wake \in [Wakes -> {"idle", "made"}], wake[w] = "idle",
         wake' = [wake EXCEPT ![w] = "made"], Owed' \subseteq Owed,
         \/ Unforced' \subseteq Unforced \union {x} /\ Marked' \subseteq Marked
         \/ Unforced' \subseteq Unforced /\ Marked' \subseteq Marked \union {x}
  PROVE  WakeBound'
<1>1. Made' = Made \union {w} /\ w \notin Made
  BY DEF Made
<1>2. /\ IsFiniteSet(Made') /\ Cardinality(Made') = Cardinality(Made) + 1
      /\ Cardinality(Made) \in Nat
  BY <1>1, FS_AddElement, FS_CardinalityType DEF WakeBound
<1>3. Cardinality(Owed') \in Nat /\ Cardinality(Owed') <= Cardinality(Owed)
  BY FiniteSets3, SetSizes
<1>4. /\ Cardinality(Unforced) \in Nat /\ Cardinality(Marked) \in Nat /\ Cardinality(Owed) \in Nat
  BY FiniteSets3, FS_CardinalityType
<1>5. CASE Unforced' \subseteq Unforced \union {x} /\ Marked' \subseteq Marked
  <2>1. /\ Cardinality(Unforced') \in Nat /\ Cardinality(Unforced') <= Cardinality(Unforced) + 1
        /\ Cardinality(Marked') \in Nat /\ Cardinality(Marked') <= Cardinality(Marked)
    BY <1>5, FiniteSets3, SetSizes
  <2> QED BY <1>2, <1>3, <1>4, <2>1 DEF WakeBound
<1>6. CASE Unforced' \subseteq Unforced /\ Marked' \subseteq Marked \union {x}
  <2>1. /\ Cardinality(Unforced') \in Nat /\ Cardinality(Unforced') <= Cardinality(Unforced)
        /\ Cardinality(Marked') \in Nat /\ Cardinality(Marked') <= Cardinality(Marked) + 1
    BY <1>6, FiniteSets3, SetSizes
  <2> QED BY <1>2, <1>3, <1>4, <2>1 DEF WakeBound
<1> QED BY <1>5, <1>6

\* Settle reads a mark and owes a drain for it.
LEMMA BoundSwapped ==
  ASSUME WakeBound, UNCHANGED wake, NEW e \in Marked, NEW x,
         Unforced' \subseteq Unforced, Marked' \subseteq Marked \ {e}, Owed' \subseteq Owed \union {x}
  PROVE  WakeBound'
<1>1. Made' = Made
  BY DEF Made
<1>2. /\ Cardinality(Unforced') \in Nat /\ Cardinality(Unforced') <= Cardinality(Unforced)
      /\ Cardinality(Marked') \in Nat /\ Cardinality(Marked') <= Cardinality(Marked) - 1
      /\ Cardinality(Owed') \in Nat /\ Cardinality(Owed') <= Cardinality(Owed) + 1
  BY FiniteSets3, SetSizes
<1>3. /\ Cardinality(Unforced) \in Nat /\ Cardinality(Marked) \in Nat /\ Cardinality(Owed) \in Nat
  BY FiniteSets3, FS_CardinalityType
<1>4. Cardinality(Made) \in Nat
  BY FS_CardinalityType DEF WakeBound
<1> QED BY <1>1, <1>2, <1>3, <1>4 DEF WakeBound

\* Settle starts the drain it owes.
LEMMA BoundStarted ==
  ASSUME WakeBound, UNCHANGED wake, NEW d \in Owed, NEW n,
         Unforced' \subseteq Unforced \union {n}, Marked' \subseteq Marked, Owed' \subseteq Owed \ {d}
  PROVE  WakeBound'
<1>1. Made' = Made
  BY DEF Made
<1>2. /\ Cardinality(Unforced') \in Nat /\ Cardinality(Unforced') <= Cardinality(Unforced) + 1
      /\ Cardinality(Marked') \in Nat /\ Cardinality(Marked') <= Cardinality(Marked)
      /\ Cardinality(Owed') \in Nat /\ Cardinality(Owed') <= Cardinality(Owed) - 1
  BY FiniteSets3, SetSizes
<1>3. /\ Cardinality(Unforced) \in Nat /\ Cardinality(Marked) \in Nat /\ Cardinality(Owed) \in Nat
  BY FiniteSets3, FS_CardinalityType
<1>4. Cardinality(Made) \in Nat
  BY FS_CardinalityType DEF WakeBound
<1> QED BY <1>1, <1>2, <1>3, <1>4 DEF WakeBound

\* The same, drain by drain and entry by entry.
LEMMA BoundPointwise ==
  ASSUME WakeBound, UNCHANGED wake,
         \A c \in Drains :
           /\ drain'[c].at # "unused" /\ ~drain'[c].force => drain[c].at # "unused" /\ ~drain[c].force
           /\ drain'[c].at \in {"restart", "handoff"} => drain[c].at \in {"restart", "handoff"}
           /\ entry'[c].pendingWake => entry[c].pendingWake
  PROVE  WakeBound'
<1>1. Unforced' \subseteq Unforced
  BY DEF Unforced
<1>2. Marked' \subseteq Marked
  BY DEF Marked
<1>3. Owed' \subseteq Owed
  BY DEF Owed
<1> QED BY <1>1, <1>2, <1>3, BoundKept

LEMMA SpawnedForce ==
  ASSUME NEW e, NEW force
  PROVE  Spawned(e, force).force = force
BY DEF Spawned, NewDrain

LEMMA NewEntryUnmarked ==
  ASSUME NEW k
  PROVE  ~[NewEntry EXCEPT !.key = k].pendingWake
BY DEF NewEntry

\* Calls of run, and of interrupt, leave the drains' and the wakes' account alone.
LEMMA BoundRun ==
  ASSUME IInv, WakeBound, NEW r \in Runs, RunStep(r)
  PROVE  WakeBound'
<1>1. CASE RunJoins(r) \/ RunLoadsStopping(r) \/ RunReadsResult(r) \/ RunSleeps(r)
  BY <1>1, BoundPointwise DEF RunJoins, RunLoadsStopping, RunReadsResult, RunSleeps
<1>2. CASE RunStarts(r)
  <2>1. PICK d \in Drains : InsertAndStart(KeyOf[r], d, TRUE)
    BY <1>2 DEF RunStarts
  <2> DEFINE x == Spawned(d, TRUE)
             y == [NewEntry EXCEPT !.key = KeyOf[r]]
  <2>2. entry' = [entry EXCEPT ![d] = y] /\ drain' = [drain EXCEPT ![d] = x] /\ UNCHANGED wake
    BY <1>2, <2>1 DEF InsertAndStart, RunStarts
  <2>3. x.force /\ x.at = "draining" /\ ~y.pendingWake
    BY SpawnedForce, SpawnedState, NewEntryUnmarked
  <2> HIDE DEF x, y
  <2>4. \A c \in Drains : /\ drain'[c] = IF c = d THEN x ELSE drain[c]
                          /\ entry'[c] = IF c = d THEN y ELSE entry[c]
    BY <2>2, ChainFacts DEF EntryInv, DrainInv
  <2> QED BY <2>2, <2>3, <2>4, BoundPointwise
<1> QED BY <1>1, <1>2 DEF RunStep

LEMMA BoundInterrupt ==
  ASSUME IInv, WakeBound, NEW i \in Interrupts, InterruptStep(i)
  PROVE  WakeBound'
<1>1. UNCHANGED wake
  BY DEF InterruptStep, InterruptLooksUp, InterruptTakesOwner, InterruptStops, InterruptClearsWake,
         InterruptCancels, InterruptReturns
<1>2. \A c \in Drains : entry'[c].pendingWake => entry[c].pendingWake
  BY ChainFacts
  DEF InterruptStep, InterruptLooksUp, InterruptTakesOwner, InterruptStops, InterruptClearsWake,
      InterruptCancels, InterruptReturns, EntryInv, EntryStates
<1>3. \A c \in Drains : drain'[c].at = drain[c].at /\ drain'[c].force = drain[c].force
  BY ChainFacts
  DEF InterruptStep, InterruptLooksUp, InterruptTakesOwner, InterruptStops, InterruptClearsWake,
      InterruptCancels, InterruptReturns, DrainInv, DrainStates
<1> QED BY <1>1, <1>2, <1>3, BoundPointwise

LEMMA BoundWake ==
  ASSUME IInv, WakeBound, NEW w \in Wakes, WakeStep(w)
  PROVE  WakeBound'
<1>0. wake \in [Wakes -> {"idle", "made"}]
  BY DEF IInv, TypeInv, WakeInv
<1>1. CASE WakeMarks(w)
  <2> DEFINE e == active[KeyOf[w]]
  <2>1. e \in Drains
    BY <1>1, RunCoordinatorAssumption DEF WakeMarks, IInv, TypeInv, EntryInv, MaybeDrain
  <2>2. /\ wake[w] = "idle" /\ wake' = [wake EXCEPT ![w] = "made"] /\ UNCHANGED drain
        /\ entry' = [entry EXCEPT ![e].pendingWake = TRUE]
    BY <1>1 DEF WakeMarks
  <2> HIDE DEF e
  <2>3. Marked' \subseteq Marked \union {e}
    BY <2>1, <2>2, ChainFacts DEF Marked, EntryInv
  <2>4. Unforced' \subseteq Unforced /\ Owed' \subseteq Owed
    BY <2>2 DEF Unforced, Owed
  <2> QED BY <1>0, <2>2, <2>3, <2>4, BoundMade
<1>2. CASE WakeStarts(w)
  <2>1. PICK d \in Drains : InsertAndStart(KeyOf[w], d, FALSE)
    BY <1>2 DEF WakeStarts
  <2> DEFINE x == Spawned(d, FALSE)
             y == [NewEntry EXCEPT !.key = KeyOf[w]]
  <2>2. /\ entry' = [entry EXCEPT ![d] = y] /\ drain' = [drain EXCEPT ![d] = x]
        /\ wake[w] = "idle" /\ wake' = [wake EXCEPT ![w] = "made"]
    BY <1>2, <2>1 DEF InsertAndStart, WakeStarts
  <2>3. x.at = "draining" /\ ~y.pendingWake
    BY SpawnedState, NewEntryUnmarked
  <2> HIDE DEF x, y
  <2>4. \A c \in Drains : /\ drain'[c] = IF c = d THEN x ELSE drain[c]
                          /\ entry'[c] = IF c = d THEN y ELSE entry[c]
    BY <2>2, ChainFacts DEF EntryInv, DrainInv
  <2>5. Unforced' \subseteq Unforced \union {d}
    BY <2>4 DEF Unforced
  <2>6. Marked' \subseteq Marked
    BY <2>3, <2>4 DEF Marked
  <2>7. Owed' \subseteq Owed
    BY <2>3, <2>4 DEF Owed
  <2> QED BY <1>0, <2>2, <2>5, <2>6, <2>7, BoundMade
<1> QED BY <1>1, <1>2 DEF WakeStep

\* A mark settle reads becomes a drain it owes.
LEMMA BoundSwaps ==
  ASSUME IInv, WakeBound, NEW d \in Drains, SettleSwaps(d)
  PROVE  WakeBound'
<1> DEFINE e == drain[d].entry
           x == [drain[d] EXCEPT !.at = AfterSwap(d, entry[e].pendingWake), !.stopping = FALSE]
           y == [entry[e] EXCEPT !.pendingWake = FALSE]
<1>1. /\ drain[d].at = "loaded" /\ drain' = [drain EXCEPT ![d] = x]
      /\ entry' = [entry EXCEPT ![e] = y] /\ UNCHANGED wake
  BY DEF SettleSwaps
<1>2. e \in Drains /\ drain[d] \in DrainStates /\ entry[e] \in EntryStates
  BY <1>1, ChainFacts, EntryMember, DrainMember
<1>3. x.force = drain[d].force /\ ~y.pendingWake
  BY <1>2 DEF DrainStates, EntryStates
<1>4. /\ entry[e].pendingWake => x.at \in {"restart", "handoff"}
      /\ ~entry[e].pendingWake => x.at = "remove"
  BY <1>2 DEF AfterSwap, DrainStates
<1> HIDE DEF x, y
<1>5. \A c \in Drains : /\ drain'[c] = IF c = d THEN x ELSE drain[c]
                        /\ entry'[c] = IF c = e THEN y ELSE entry[c]
  BY <1>1, <1>2, ChainFacts DEF EntryInv, DrainInv
<1> HIDE DEF e
<1>6. CASE ~entry[e].pendingWake
  BY <1>1, <1>3, <1>4, <1>5, <1>6, BoundPointwise
<1>7. CASE entry[e].pendingWake
  <2>1. e \in Marked
    BY <1>2, <1>7 DEF Marked
  <2>2. Marked' \subseteq Marked \ {e}
    BY <1>3, <1>5 DEF Marked
  <2>3. Unforced' \subseteq Unforced
    BY <1>1, <1>3, <1>5 DEF Unforced
  <2>4. Owed' \subseteq Owed \union {d}
    BY <1>5 DEF Owed
  <2> QED BY <1>1, <2>1, <2>2, <2>3, <2>4, BoundSwapped
<1> QED BY <1>6, <1>7

\* Settle starts a drain it owes, of the same entry or of a successor.
LEMMA BoundStarts ==
  ASSUME IInv, WakeBound, NEW d \in Drains, SettleRestarts(d) \/ SettleHandsOff(d)
  PROVE  WakeBound'
<1>1. drain[d].at \in {"restart", "handoff"} /\ UNCHANGED wake
  BY DEF SettleRestarts, SettleHandsOff
<1>2. d \in Owed /\ drain[d] \in DrainStates
  BY <1>1, ChainFacts, DrainMember DEF Owed
<1>3. PICK n \in Drains :
        /\ n # d
        /\ \A c \in Drains : c \notin {d, n} => drain'[c] = drain[c]
        /\ drain'[n].at = "draining"
        /\ drain'[d].at \in {"restarting", "result"} /\ drain'[d].force = drain[d].force
        /\ \A c \in Drains : entry'[c].pendingWake => entry[c].pendingWake
  <2>1. CASE SettleRestarts(d)
    <3>1. PICK n \in Drains :
            /\ Fresh(n)
            /\ drain' = [drain EXCEPT ![n] = Spawned(drain[d].entry, FALSE),
                                      ![d] = [@ EXCEPT !.at = "restarting", !.starts = n]]
      BY <2>1 DEF SettleRestarts
    <3> DEFINE s == Spawned(drain[d].entry, FALSE)
               x == [drain[d] EXCEPT !.at = "restarting", !.starts = n]
    <3>2. n # d /\ UNCHANGED entry
      BY <1>1, <2>1, <3>1 DEF Fresh, SettleRestarts
    <3>3. s.at = "draining"
      BY SpawnedState
    <3>4. x.at = "restarting" /\ x.force = drain[d].force
      BY <1>2 DEF DrainStates
    <3>5. drain' = [drain EXCEPT ![n] = s, ![d] = x]
      BY <3>1, <3>2
    <3> HIDE DEF s, x
    <3>6. \A c \in Drains : drain'[c] = IF c = d THEN x ELSE IF c = n THEN s ELSE drain[c]
      BY <3>2, <3>5, ChainFacts DEF DrainInv
    <3> QED BY <3>2, <3>3, <3>4, <3>6
  <2>2. CASE SettleHandsOff(d)
    <3>1. PICK n \in Drains :
            /\ Fresh(n)
            /\ entry' = [entry EXCEPT ![n] = [NewEntry EXCEPT !.key = entry[drain[d].entry].key]]
            /\ drain' = [drain EXCEPT ![n] = Spawned(n, FALSE),
                                      ![d] = [@ EXCEPT !.at = "result", !.starts = n]]
      BY <2>2 DEF SettleHandsOff
    <3> DEFINE s == Spawned(n, FALSE)
               x == [drain[d] EXCEPT !.at = "result", !.starts = n]
               y == [NewEntry EXCEPT !.key = entry[drain[d].entry].key]
    <3>2. n # d
      BY <1>1, <3>1 DEF Fresh
    <3>3. s.at = "draining" /\ ~y.pendingWake
      BY SpawnedState, NewEntryUnmarked
    <3>4. x.at = "result" /\ x.force = drain[d].force
      BY <1>2 DEF DrainStates
    <3>5. drain' = [drain EXCEPT ![n] = s, ![d] = x] /\ entry' = [entry EXCEPT ![n] = y]
      BY <3>1, <3>2
    <3> HIDE DEF s, x, y
    <3>6. \A c \in Drains : /\ drain'[c] = IF c = d THEN x ELSE IF c = n THEN s ELSE drain[c]
                            /\ entry'[c] = IF c = n THEN y ELSE entry[c]
      BY <3>2, <3>5, ChainFacts DEF DrainInv, EntryInv
    <3> QED BY <3>2, <3>3, <3>4, <3>6
  <2> QED BY <2>1, <2>2
<1>4. Unforced' \subseteq Unforced \union {n}
  BY <1>1, <1>3 DEF Unforced
<1>5. Marked' \subseteq Marked
  BY <1>3 DEF Marked
<1>6. Owed' \subseteq Owed \ {d}
  BY <1>3 DEF Owed
<1> QED BY <1>1, <1>2, <1>4, <1>5, <1>6, BoundStarted

\* A step of d that leaves the mark of every entry as it is, and starts and owes nothing.
LEMMA BoundTask ==
  ASSUME IInv, WakeBound, UNCHANGED wake, NEW d \in Drains, NEW x, NEW e \in Drains, NEW y,
         drain' = [drain EXCEPT ![d] = x], x.force = drain[d].force,
         x.at = drain[d].at \/ (drain[d].at # "unused" /\ x.at \notin {"restart", "handoff"}),
         entry' = entry \/ entry' = [entry EXCEPT ![e] = y],
         y.pendingWake = entry[e].pendingWake
  PROVE  WakeBound'
<1>1. \A c \in Drains : drain'[c] = IF c = d THEN x ELSE drain[c]
  BY ChainFacts DEF DrainInv
<1>2. \A c \in Drains : entry'[c].pendingWake = entry[c].pendingWake
  <2>1. CASE entry' = entry
    BY <2>1
  <2>2. CASE entry' = [entry EXCEPT ![e] = y]
    <3>1. \A c \in Drains : entry'[c] = IF c = e THEN y ELSE entry[c]
      BY <2>2, ChainFacts DEF EntryInv
    <3> QED BY <3>1
  <2> QED BY <2>1, <2>2
<1> QED BY <1>1, <1>2, BoundPointwise

\* The other steps of a task.
LEMMA BoundDrain ==
  ASSUME IInv, WakeBound, NEW d \in Drains,
         \/ StoreOwner(d) \/ StoreCancel(d) \/ DrainReturns(d)
         \/ SettleRestarted(d) \/ SettleRemoves(d) \/ SettleReports(d) \/ SettleNotifies(d)
  PROVE  WakeBound'
<1> DEFINE e == drain[d].entry
<1>1. drain[d].at # "unused" /\ UNCHANGED wake
  BY DEF StoreOwner, StoreCancel, DrainReturns, SettleRestarted, SettleRemoves, SettleReports, SettleNotifies
<1>2. e \in Drains /\ drain[d] \in DrainStates /\ entry[e] \in EntryStates
  BY <1>1, ChainFacts, EntryMember, DrainMember
<1>3. CASE StoreOwner(d) \/ StoreCancel(d)
  <2> DEFINE v == IF StoreOwner(d) THEN "owner" ELSE "both"
             x == [drain[d] EXCEPT !.registered = v]
             y == IF StoreOwner(d) THEN [entry[e] EXCEPT !.owner = d] ELSE [entry[e] EXCEPT !.cancel = d]
  <2>1. x.force = drain[d].force /\ x.at = drain[d].at
    BY <1>2 DEF DrainStates
  <2>2. y.pendingWake = entry[e].pendingWake
    BY <1>2 DEF EntryStates
  <2>3. drain' = [drain EXCEPT ![d] = x] /\ entry' = [entry EXCEPT ![e] = y]
    BY <1>3 DEF StoreOwner, StoreCancel
  <2> HIDE DEF x, y, e
  <2> QED BY <1>1, <1>2, <2>1, <2>2, <2>3, BoundTask
<1>4. CASE DrainReturns(d)
  <2>1. PICK ok \in BOOLEAN :
          drain' = [drain EXCEPT ![d] = [@ EXCEPT !.at = "loaded", !.ok = ok, !.stopping = entry[e].stopping]]
    BY <1>4 DEF DrainReturns
  <2> DEFINE x == [drain[d] EXCEPT !.at = "loaded", !.ok = ok, !.stopping = entry[e].stopping]
  <2>2. x.force = drain[d].force /\ x.at = "loaded"
    BY <1>2 DEF DrainStates
  <2>3. drain' = [drain EXCEPT ![d] = x] /\ entry' = entry
    BY <1>4, <2>1 DEF DrainReturns
  <2> HIDE DEF x, e
  <2> QED BY <1>1, <1>2, <2>2, <2>3, BoundTask
<1>5. CASE SettleRestarted(d) \/ SettleReports(d)
  <2> DEFINE at == IF SettleRestarted(d) THEN "finished" ELSE "notify"
             x == [drain[d] EXCEPT !.at = at, !.ok = FALSE, !.starts = None]
             y == [entry[e] EXCEPT !.result = IF drain[d].ok THEN "ok" ELSE "failed"]
  <2>1. x.force = drain[d].force /\ x.at \in {"finished", "notify"}
    BY <1>2 DEF DrainStates
  <2>2. y.pendingWake = entry[e].pendingWake
    BY <1>2 DEF EntryStates
  <2>3. drain' = [drain EXCEPT ![d] = x] /\ (entry' = entry \/ entry' = [entry EXCEPT ![e] = y])
    BY <1>5 DEF SettleRestarted, SettleReports
  <2> HIDE DEF x, y, e
  <2> QED BY <1>1, <1>2, <2>1, <2>2, <2>3, BoundTask
<1>6. CASE SettleRemoves(d) \/ SettleNotifies(d)
  <2> DEFINE at == IF SettleRemoves(d) THEN "result" ELSE "finished"
             x == [drain[d] EXCEPT !.at = at]
  <2>1. x.force = drain[d].force /\ x.at \in {"result", "finished"}
    BY <1>2 DEF DrainStates
  <2>2. drain' = [drain EXCEPT ![d] = x] /\ entry' = entry
    BY <1>6 DEF SettleRemoves, SettleNotifies, Go
  <2> HIDE DEF x, e
  <2> QED BY <1>1, <1>2, <2>1, <2>2, BoundTask
<1> QED BY <1>3, <1>4, <1>5, <1>6

LEMMA BoundInit == Init => WakeBound
<1> SUFFICES ASSUME Init PROVE WakeBound
  OBVIOUS
<1>1. Unforced = {} /\ Owed = {}
  BY DEF Init, Unforced, Owed, NewDrain
<1>2. Marked = {} /\ Made = {}
  BY DEF Init, Marked, Made, NewEntry
<1> QED BY <1>1, <1>2, FS_EmptySet DEF WakeBound

\* A drain that no call of run forced is owed to a wake of its own: wakes during one drain
\* give one more, for any number of calls, however they race with settle and with interrupt.
THEOREM CoalescesWakes == Spec => []WakesAreCoalesced
<1>1. IInv /\ WakeBound /\ [Next]_vars => WakeBound'
  <2> SUFFICES ASSUME IInv, WakeBound, [Next]_vars PROVE WakeBound'
    OBVIOUS
  <2>1. CASE UNCHANGED vars
    BY <2>1, BoundPointwise DEF vars
  <2>2. ASSUME NEW d \in Drains, DrainStep(d) PROVE WakeBound'
    BY <2>2, BoundDrain, BoundSwaps, BoundStarts DEF DrainStep, SettleStep
  <2> QED BY <2>1, <2>2, BoundRun, BoundWake, BoundInterrupt DEF Next
<1>2. WakeBound => WakesAreCoalesced
  <2> SUFFICES ASSUME WakeBound PROVE Cardinality(Unforced) <= Cardinality(Made)
    BY DEF WakesAreCoalesced, Unforced, Made
  <2>1. /\ Cardinality(Unforced) \in Nat /\ Cardinality(Marked) \in Nat /\ Cardinality(Owed) \in Nat
        /\ Cardinality(Made) \in Nat
    BY FiniteSets3, FS_CardinalityType DEF WakeBound
  <2> QED BY <2>1 DEF WakeBound
<1> QED BY <1>1, <1>2, BoundInit, Inductive, PTL DEF Spec
=============================================================================
