-------------------------- MODULE SessionRunsProofs --------------------------
(* Theorems about SessionRuns, for every set of sessions and prompts.      *)
EXTENDS SessionRuns, FiniteSetTheorems, TLAPS

LEMMA TasksType ==
  ASSUME TypeOK, NEW p \in Prompts
  PROVE  /\ run[p] \in Tasks
         /\ SessionOf[p] \in Sessions
         /\ IdleTask("none") \in Tasks /\ IdleTask("spawned") \in Tasks
         /\ IdleTask("done") \in Tasks /\ IdleTask("hasSteer") \in Tasks
BY SessionRunsAssumption DEF TypeOK, Tasks, IdleTask, TaskPCs, PassPCs, TurnPCs, Deliveries

(* The number of recorded prompts is a natural number.                     *)
LEMMA CountType ==
  ASSUME NEW S \in SUBSET Prompts
  PROVE  Cardinality(S) \in Nat
<1>1. IsFiniteSet(S)
  BY SessionRunsAssumption, FS_Subset
<1> QED BY <1>1, FS_CardinalityType

LEMMA TypeInit == Init => TypeOK
<1> SUFFICES ASSUME Init PROVE TypeOK
  OBVIOUS
<1>1. \A p \in Prompts : IdleTask("none") \in Tasks
  BY SessionRunsAssumption DEF Tasks, IdleTask, TaskPCs, PassPCs, TurnPCs, Deliveries
<1>2. run \in [Prompts -> Tasks]
  BY <1>1 DEF Init
<1> QED BY <1>2 DEF Init, TypeOK, NoSlot, Deliveries, HandlerPCs

LEMMA TypeHandler ==
  ASSUME TypeOK, NEW p \in Prompts, RecordPrompt(p) \/ HandlerStep(p) \/ DropHandler(p)
  PROVE  TypeOK'
<1> DEFINE s == SessionOf[p]
<1>0. run[p] \in Tasks /\ s \in Sessions /\ IdleTask("spawned") \in Tasks
  BY TasksType
<1>1. CASE RecordPrompt(p)
  <2>1. recorded' \in [Sessions -> SUBSET Prompts]
    BY <1>0, <1>1 DEF RecordPrompt, TypeOK
  <2>2. Cardinality(recorded'[s]) \in Nat
    BY <1>0, <2>1, CountType
  <2>3. seq' \in [Prompts -> Nat]
    BY <1>1, <2>2 DEF RecordPrompt, TypeOK
  <2>4. delivery' \in [Prompts -> Deliveries]
    BY <1>1 DEF RecordPrompt, TypeOK
  <2>5. before' \in [Prompts -> SUBSET Prompts]
    BY <1>1 DEF RecordPrompt, TypeOK
  <2> QED BY <1>1, <2>1, <2>3, <2>4, <2>5
    DEF RecordPrompt, TypeOK, HandlerPCs, Deliveries, sessionVars
<1>2. CASE PersistInput(p)
  BY <1>0, <1>2 DEF PersistInput, TypeOK, HandlerPCs, sessionVars, historyVars
<1>3. CASE EnqueueInput(p)
  BY <1>0, <1>3 DEF EnqueueInput, TypeOK, HandlerPCs, sessionVars, historyVars
<1>4. CASE InterruptForSteer(p)
  <2>1. slot[s] \in [token : Nat, rerun : BOOLEAN] /\ cancelled[s] \in SUBSET Nat
    BY <1>0 DEF TypeOK
  <2>2. /\ [slot EXCEPT ![s].rerun = TRUE] \in [Sessions -> [token : Nat, rerun : BOOLEAN]]
        /\ [cancelled EXCEPT ![s] = @ \union {slot[s].token}] \in [Sessions -> SUBSET Nat]
    BY <1>0, <2>1 DEF TypeOK
  <2>3. /\ slot' \in [Sessions -> [token : Nat, rerun : BOOLEAN]]
        /\ cancelled' \in [Sessions -> SUBSET Nat]
    BY <1>4, <2>2 DEF InterruptForSteer, TypeOK
  <2> QED BY <1>4, <2>3 DEF InterruptForSteer, TypeOK, HandlerPCs, inputVars, historyVars
<1>5. CASE ScheduleRun(p)
  BY <1>0, <1>5 DEF ScheduleRun, Become, TypeOK, HandlerPCs, sessionVars, inputVars, historyVars
<1>6. CASE DropHandler(p)
  BY <1>0, <1>6 DEF DropHandler, Cut, TypeOK, HandlerPCs, sessionVars, inputVars
<1> QED BY <1>1, <1>2, <1>3, <1>4, <1>5, <1>6 DEF HandlerStep

(* What a task step may do to the task's record.                           *)
LEMMA TypeOneTask ==
  ASSUME TypeOK, NEW p \in Prompts, NEW t \in Tasks,
         run' = [run EXCEPT ![p] = t]
  PROVE  run' \in [Prompts -> Tasks]
BY DEF TypeOK

LEMMA TypeSlots ==
  ASSUME TypeOK, NEW p \in Prompts, AcquireRun(p) \/ FinishRun(p)
  PROVE  TypeOK'
<1> DEFINE s == SessionOf[p]
           fresh == [token |-> issued[s] + 1, rerun |-> FALSE]
<1>1. /\ run[p] \in Tasks /\ s \in Sessions /\ issued[s] \in Nat
      /\ IdleTask("done") \in Tasks /\ IdleTask("hasSteer") \in Tasks
      /\ slot[s] \in [token : Nat, rerun : BOOLEAN]
  BY TasksType DEF TypeOK
<1>2. [IdleTask("hasSteer") EXCEPT !.token = issued[s] + 1] \in Tasks
  BY <1>1 DEF Tasks
<1>3. [run[p] EXCEPT !.pc = "done"] \in Tasks
  BY <1>1 DEF Tasks, TaskPCs
<1>4. \E t \in Tasks : Become(p, t)
  BY <1>1, <1>2, <1>3 DEF AcquireRun, FinishRun, Goto, StartPass
<1>5. run' \in [Prompts -> Tasks]
  BY <1>4 DEF Become, TypeOK
<1>6. issued' \in [Sessions -> Nat]
  BY <1>1 DEF AcquireRun, FinishRun, TypeOK
<1> DEFINE Slots == [Sessions -> [token : Nat, rerun : BOOLEAN]]
<1>7. /\ [slot EXCEPT ![s].rerun = TRUE] \in Slots
      /\ [slot EXCEPT ![s] = fresh] \in Slots
      /\ [slot EXCEPT ![s] = NoSlot] \in Slots
  <2>1. fresh \in [token : Nat, rerun : BOOLEAN] /\ NoSlot \in [token : Nat, rerun : BOOLEAN]
    BY <1>1 DEF NoSlot
  <2>2. [slot[s] EXCEPT !.rerun = TRUE] \in [token : Nat, rerun : BOOLEAN]
    BY <1>1
  <2>3. slot \in Slots
    BY DEF TypeOK
  <2> HIDE DEF fresh
  <2> QED BY <1>1, <2>1, <2>2, <2>3
<1>8. slot' \in Slots
  BY <1>7 DEF AcquireRun, FinishRun
<1>9. cancelled' \in [Sessions -> SUBSET Nat]
  <2>1. [cancelled EXCEPT ![s] = @ \ {slot[s].token}] \in [Sessions -> SUBSET Nat]
    BY <1>1 DEF TypeOK
  <2> QED BY <2>1 DEF AcquireRun, FinishRun, TypeOK
<1> QED BY <1>5, <1>6, <1>8, <1>9 DEF AcquireRun, FinishRun, TypeOK, inputVars, historyVars

(* The steps of a pass that only move the task.                            *)
MoveStep(p) ==
  \/ CheckSteer(p) \/ CheckQueue(p) \/ StartAttempt(p) \/ ReadCutoff(p)
  \/ ReadPendingIds(p) \/ ReadHistory(p) \/ CompactAndRestart(p) \/ BeginStream(p)
  \/ TurnInterrupted(p) \/ RetryLater(p) \/ BackoffEnds(p)
  \/ CheckSteerAgain(p) \/ CheckQueueAgain(p)

(* t2 is a legal successor of t1 inside one pass.                          *)
SamePass(t1, t2) == t2 \in Tasks /\ t2.token = t1.token /\ t2.pc \in PassPCs

LEMMA AfterTurnTask ==
  ASSUME TypeOK, NEW p \in Prompts, NEW continue \in BOOLEAN, AfterTurn(p, continue)
  PROVE  \E t : Become(p, t) /\ SamePass(run[p], t)
<1> DEFINE u == run[p]
<1>1. u \in Tasks
  BY TasksType
<1>2. NextStep(u.step) \in 1 .. MaxSteps
  BY <1>1, SessionRunsAssumption DEF NextStep, Tasks
<1>a. 0 \in 0 .. MaxRetries
  BY SessionRunsAssumption
<1> HIDE DEF u
<1>3. \A c \in {"attempt", "drainSteer"}, n \in 1 .. MaxSteps :
        SamePass(u, [u EXCEPT !.pc = c, !.promotion = "steer", !.step = n,
                              !.retry = 0, !.context = {}])
  BY <1>1, <1>a DEF SamePass, Tasks, TaskPCs, PassPCs, TurnPCs, Deliveries
<1> QED BY <1>2, <1>3 DEF AfterTurn, u

LEMMA MoveStepTask ==
  ASSUME TypeOK, NEW p \in Prompts, MoveStep(p)
  PROVE  /\ \E t : Become(p, t) /\ SamePass(run[p], t)
         /\ run[p].pc \in PassPCs
         /\ UNCHANGED <<sessionVars, inputVars, handler, historyVars>>
<1> DEFINE s == SessionOf[p]
           u == run[p]
<1>0. u \in Tasks /\ s \in Sessions /\ inbox[s] \in SUBSET Prompts
      /\ recorded[s] \in SUBSET Prompts /\ LatestSeq(s) \in Nat
  BY TasksType, CountType DEF TypeOK, LatestSeq
<1> HIDE DEF u
<1>a. \A c \in PassPCs : SamePass(u, [u EXCEPT !.pc = c])
  BY <1>0 DEF SamePass, Tasks, TaskPCs
<1>b. \A c \in PassPCs : Goto(p, c) => \E t : Become(p, t) /\ SamePass(u, t)
  BY <1>a DEF Goto, u
<1>c. \A c \in PassPCs : SamePass(u, [u EXCEPT !.pc = c, !.context = {}])
  BY <1>0 DEF SamePass, Tasks, TaskPCs
<1> USE DEF TurnPCs, PassPCs
<1>1. CASE CheckSteer(p)
  <2>1. SamePass(u, [u EXCEPT !.promotion = "steer", !.pc = "attempt"])
    BY <1>0 DEF SamePass, Tasks, TaskPCs, Deliveries
  <2> QED BY <1>1, <1>b, <2>1 DEF CheckSteer, u
<1>2. CASE CheckQueue(p)
  <2>1. \A d \in {"queue", "none"} :
          SamePass(u, [u EXCEPT !.pc = "attempt", !.promotion = d])
    BY <1>0 DEF SamePass, Tasks, TaskPCs, Deliveries
  <2> QED BY <1>2, <2>1 DEF CheckQueue, u
<1>3. CASE StartAttempt(p)
  BY <1>3, <1>b DEF StartAttempt, u
<1>4. CASE ReadCutoff(p)
  <2>1. \A c \in {"promoteSteers", "promoteQueued"} :
          SamePass(u, [u EXCEPT !.cutoff = LatestSeq(s), !.pc = c])
    BY <1>0 DEF SamePass, Tasks, TaskPCs
  <2> QED BY <1>4, <2>1 DEF ReadCutoff, u
<1>5. CASE ReadPendingIds(p)
  <2>1. SamePass(u, [u EXCEPT !.hidden = inbox[s], !.pc = "read"])
    BY <1>0 DEF SamePass, Tasks, TaskPCs
  <2> QED BY <1>5, <2>1 DEF ReadPendingIds, u
<1>6. CASE ReadHistory(p)
  <2>1. SamePass(u, [u EXCEPT !.context = recorded[s] \ u.hidden, !.hidden = {},
                              !.cutoff = 0, !.pc = "prepared"])
    BY <1>0 DEF SamePass, Tasks, TaskPCs
  <2> QED BY <1>6, <2>1 DEF ReadHistory, u
<1>7. CASE CompactAndRestart(p)
  <2>1. SamePass(u, [u EXCEPT !.promotion = "none", !.context = {}, !.pc = "attempt"])
    BY <1>0 DEF SamePass, Tasks, TaskPCs
  <2> QED BY <1>7, <2>1 DEF CompactAndRestart, u
<1>8. CASE BeginStream(p)
  BY <1>8, <1>b DEF BeginStream, u
<1>9. CASE TurnInterrupted(p)
  <2>1. ASSUME NEW continue \in BOOLEAN, AfterTurn(p, continue)
        PROVE  \E t : Become(p, t) /\ SamePass(u, t)
    BY <2>1, AfterTurnTask DEF u
  <2> QED BY <1>9, <1>c, <2>1 DEF TurnInterrupted, u
<1>10. CASE RetryLater(p)
  <2>1. u.retry + 1 \in 0 .. MaxRetries
    BY <1>0, <1>10, SessionRunsAssumption DEF RetryLater, Tasks, u
  <2>2. SamePass(u, [u EXCEPT !.pc = "backoff", !.retry = u.retry + 1,
                              !.promotion = "none", !.context = {}])
    BY <1>0, <2>1 DEF SamePass, Tasks, TaskPCs
  <2> QED BY <1>10, <2>2 DEF RetryLater, u
<1>11. CASE BackoffEnds(p)
  BY <1>11, <1>b DEF BackoffEnds, u
<1>12. CASE CheckSteerAgain(p)
  BY <1>12, <1>b DEF CheckSteerAgain, u
<1>13. CASE CheckQueueAgain(p)
  <2>0. 1 \in 1 .. MaxSteps
    BY SessionRunsAssumption
  <2>1. \A c \in {"attempt", "finish"}, d \in {"queue", "none"} :
          SamePass(u, [u EXCEPT !.pc = c, !.step = 1, !.promotion = d])
    BY <1>0, <2>0 DEF SamePass, Tasks, TaskPCs, Deliveries
  <2> QED BY <1>13, <2>1 DEF CheckQueueAgain, u
<1> QED BY <1>1, <1>2, <1>3, <1>4, <1>5, <1>6, <1>7, <1>8, <1>9, <1>10, <1>11,
           <1>12, <1>13 DEF MoveStep

(* The steps of a pass that also touch the inbox, the rows or `answered`.  *)
PromotionStep(p) == PromoteQueued(p) \/ PromoteSteers(p) \/ MarkPromoted(p)
EndingStep(p) == TurnCompletes(p) \/ TurnDeclined(p) \/ TurnFails(p)

LEMMA PromoteTask ==
  ASSUME TypeOK, NEW p \in Prompts, NEW taken \in SUBSET Prompts,
         NEW c \in PassPCs, Promote(p, taken, c)
  PROVE  /\ \E t : Become(p, t) /\ SamePass(run[p], t)
         /\ inbox' \in [Sessions -> SUBSET Prompts]
<1> DEFINE u == run[p]
<1>1. u \in Tasks /\ SessionOf[p] \in Sessions
  BY TasksType
<1>2. 1 \in 1 .. MaxSteps
  BY SessionRunsAssumption
<1> HIDE DEF u
<1>3. \A n \in 1 .. MaxSteps :
        SamePass(u, [u EXCEPT !.pc = c, !.marking = taken, !.step = n])
  BY <1>1 DEF SamePass, Tasks, TaskPCs
<1>4. u.step \in 1 .. MaxSteps
  BY <1>1 DEF Tasks
<1>5. \E t : Become(p, t) /\ SamePass(run[p], t)
  BY <1>2, <1>3, <1>4 DEF Promote, u
<1>6. inbox' \in [Sessions -> SUBSET Prompts]
  BY <1>1 DEF Promote, TypeOK
<1> QED BY <1>5, <1>6

LEMMA PromotionStepTask ==
  ASSUME TypeOK, NEW p \in Prompts, PromotionStep(p)
  PROVE  /\ \E t : Become(p, t) /\ SamePass(run[p], t)
         /\ run[p].pc \in PassPCs
         /\ inbox' \in [Sessions -> SUBSET Prompts]
         /\ row' \in [Prompts -> {"none", "pending", "promoted"}]
         /\ UNCHANGED <<sessionVars, exists, recorded, delivery, seq, handler, historyVars>>
<1> DEFINE u == run[p]
           s == SessionOf[p]
<1>1. u \in Tasks /\ s \in Sessions /\ inbox[s] \in SUBSET Prompts
  BY TasksType DEF TypeOK
<1>2. CASE PromoteQueued(p)
  <2>1. CASE Pending(s, "queue") = {}
    <3>1. Promote(p, {}, "promoteSteers")
      BY <1>2, <2>1 DEF PromoteQueued
    <3> QED BY <1>2, <3>1, PromoteTask DEF PromoteQueued, Promote, TypeOK, PassPCs, TurnPCs
  <2>2. CASE Pending(s, "queue") # {}
    <3>1. PICK q \in NextQueued(s) : Promote(p, {q}, "markQueued")
      BY <1>2, <2>2 DEF PromoteQueued
    <3>2. {q} \in SUBSET Prompts
      BY <1>1 DEF NextQueued, Pending
    <3> QED BY <1>2, <3>1, <3>2, PromoteTask
              DEF PromoteQueued, Promote, TypeOK, PassPCs, TurnPCs
  <2> QED BY <2>1, <2>2
<1>3. CASE PromoteSteers(p)
  <2>1. SteersUpTo(s, run[p].cutoff) \in SUBSET Prompts
    BY <1>1 DEF SteersUpTo, Pending
  <2> QED BY <1>3, <2>1, PromoteTask DEF PromoteSteers, Promote, TypeOK, PassPCs, TurnPCs
<1>4. CASE MarkPromoted(p)
  <2> HIDE DEF u
  <2>1. \A c \in {"promoteSteers", "hide"} :
          SamePass(u, [u EXCEPT !.marking = {}, !.pc = c])
    BY <1>1 DEF SamePass, Tasks, TaskPCs, PassPCs, TurnPCs
  <2>2. \E t : Become(p, t) /\ SamePass(run[p], t)
    BY <1>4, <2>1 DEF MarkPromoted, u
  <2>3. row' \in [Prompts -> {"none", "pending", "promoted"}]
    BY <1>4 DEF MarkPromoted, TypeOK
  <2> QED BY <1>4, <2>2, <2>3 DEF MarkPromoted, TypeOK, PassPCs, TurnPCs
<1> QED BY <1>2, <1>3, <1>4 DEF PromotionStep

LEMMA EndingStepTask ==
  ASSUME TypeOK, NEW p \in Prompts, EndingStep(p)
  PROVE  /\ \E t : Become(p, t) /\ SamePass(run[p], t)
         /\ run[p].pc \in PassPCs
         /\ answered' \in SUBSET Prompts
         /\ faulted' \in [Sessions -> BOOLEAN]
         /\ UNCHANGED <<sessionVars, inputVars, handler, before, restarts>>
<1> DEFINE u == run[p]
<1>1. u \in Tasks /\ SessionOf[p] \in Sessions /\ u.context \in SUBSET Prompts
  BY TasksType DEF Tasks
<1>2. CASE TurnCompletes(p)
  <2>1. \E t : Become(p, t) /\ SamePass(run[p], t)
    BY <1>2, AfterTurnTask DEF TurnCompletes
  <2> QED BY <1>1, <1>2, <2>1 DEF TurnCompletes, TypeOK, PassPCs, TurnPCs
<1>3. CASE TurnDeclined(p) \/ TurnFails(p)
  <2> HIDE DEF u
  <2>1. SamePass(u, [u EXCEPT !.pc = "finish", !.context = {}])
    BY <1>1 DEF SamePass, Tasks, TaskPCs, PassPCs, TurnPCs
  <2>2. \E t : Become(p, t) /\ SamePass(run[p], t)
    BY <1>3, <2>1 DEF TurnDeclined, TurnFails, u
  <2> QED BY <1>1, <1>3, <2>2 DEF TurnDeclined, TurnFails, Cut, TypeOK, PassPCs, TurnPCs
<1> QED BY <1>2, <1>3 DEF EndingStep

(* Every step of a task but taking and releasing the slot stays in a pass. *)
PassStep(p) == MoveStep(p) \/ PromotionStep(p) \/ EndingStep(p)

LEMMA TypePass ==
  ASSUME TypeOK, NEW p \in Prompts, PassStep(p)
  PROVE  TypeOK'
<1>1. \E t \in Tasks : Become(p, t)
  BY MoveStepTask, PromotionStepTask, EndingStepTask DEF PassStep, SamePass
<1>2. run' \in [Prompts -> Tasks]
  BY <1>1 DEF Become, TypeOK
<1>3. CASE MoveStep(p)
  BY <1>2, <1>3, MoveStepTask DEF TypeOK, sessionVars, inputVars, historyVars
<1>4. CASE PromotionStep(p)
  BY <1>2, <1>4, PromotionStepTask DEF TypeOK, sessionVars, historyVars
<1>5. CASE EndingStep(p)
  BY <1>2, <1>5, EndingStepTask DEF TypeOK, sessionVars, inputVars
<1> QED BY <1>3, <1>4, <1>5 DEF PassStep

Environment == Restart \/ \E s \in Sessions : AbortSession(s) \/ DeleteSession(s)

LEMMA TypeEnvironment == TypeOK /\ Environment => TypeOK'
<1> SUFFICES ASSUME TypeOK, Environment PROVE TypeOK'
  OBVIOUS
<1>1. CASE Restart
  <2>1. run' \in [Prompts -> Tasks]
    BY <1>1, TasksType DEF Restart, TypeOK
  <2> QED BY <1>1, <2>1 DEF Restart, TypeOK, NoSlot, Unpromoted, HandlerPCs
<1>2. ASSUME NEW s \in Sessions, AbortSession(s) PROVE TypeOK'
  <2>1. slot[s] \in [token : Nat, rerun : BOOLEAN] /\ cancelled[s] \in SUBSET Nat
    BY DEF TypeOK
  <2>2. slot' \in [Sessions -> [token : Nat, rerun : BOOLEAN]]
    <3>1. [slot[s] EXCEPT !.rerun = FALSE] \in [token : Nat, rerun : BOOLEAN]
      BY <2>1
    <3> QED BY <1>2, <3>1 DEF AbortSession, TypeOK
  <2>3. cancelled' \in [Sessions -> SUBSET Nat]
    BY <1>2, <2>1 DEF AbortSession, TypeOK
  <2> QED BY <1>2, <2>2, <2>3 DEF AbortSession, Cut, TypeOK, inputVars
<1>3. ASSUME NEW s \in Sessions, DeleteSession(s) PROVE TypeOK'
  <2>1. row' \in [Prompts -> {"none", "pending", "promoted"}]
    BY <1>3 DEF DeleteSession, TypeOK
  <2> QED BY <1>3, <2>1 DEF DeleteSession, Cut, TypeOK, sessionVars
<1> QED BY <1>1, <1>2, <1>3 DEF Environment

(* Next, by the kind of step.                                              *)
LEMMA NextCases ==
  Next => \/ Environment
          \/ \E p \in Prompts : \/ RecordPrompt(p) \/ HandlerStep(p) \/ DropHandler(p)
                                \/ AcquireRun(p) \/ FinishRun(p) \/ PassStep(p)
BY DEF Next, TaskStep, Environment, PassStep, MoveStep, PromotionStep, EndingStep

LEMMA TypeNext == TypeOK /\ [Next]_vars => TypeOK'
<1>1. TypeOK /\ UNCHANGED vars => TypeOK'
  BY DEF TypeOK, vars
<1> QED BY <1>1, NextCases, TypeEnvironment, TypeHandler, TypeSlots, TypePass

(* Every state variable keeps its type.                                    *)
THEOREM TypeCorrect == Spec => []TypeOK
BY TypeInit, TypeNext, PTL DEF Spec

-----------------------------------------------------------------------------
(* Mutual exclusion.  A task exists only once its handler has spawned it,  *)
(* so spawning cannot overwrite a running task.                            *)
TaskAfterHandler == \A p \in Prompts : run[p].pc # "none" => handler[p] = "done"

ExclusionInv == TypeOK /\ TaskAfterHandler /\ OneRunnerPerSession

LEMMA ExclusionInit == Init => ExclusionInv
BY TypeInit, SessionRunsAssumption
   DEF Init, ExclusionInv, TaskAfterHandler, OneRunnerPerSession, Held, NoSlot, InPass,
       IdleTask, PassPCs, TurnPCs

LEMMA ExclusionHandler ==
  ASSUME ExclusionInv, NEW p \in Prompts, RecordPrompt(p) \/ HandlerStep(p) \/ DropHandler(p)
  PROVE  TaskAfterHandler' /\ OneRunnerPerSession'
<1>1. \A s \in Sessions : slot'[s].token = slot[s].token
  BY DEF RecordPrompt, HandlerStep, DropHandler, PersistInput, EnqueueInput, ScheduleRun,
         InterruptForSteer, sessionVars, ExclusionInv, TypeOK
<1>2. CASE ScheduleRun(p)
  <2>1. run[p].pc = "none"
    BY <1>2 DEF ScheduleRun, ExclusionInv, TaskAfterHandler
  <2>2. \A q \in Prompts : InPass(q)' <=> InPass(q)
    BY <1>2, <2>1 DEF ScheduleRun, Become, InPass, IdleTask, PassPCs, TurnPCs, ExclusionInv, TypeOK
  <2>3. \A q \in Prompts : InPass(q) => run'[q] = run[q]
    BY <1>2, <2>1 DEF ScheduleRun, Become, InPass, PassPCs, TurnPCs, ExclusionInv, TypeOK
  <2>4. TaskAfterHandler'
    BY <1>2 DEF ScheduleRun, Become, ExclusionInv, TaskAfterHandler, TypeOK
  <2> QED BY <1>1, <2>2, <2>3, <2>4 DEF ExclusionInv, OneRunnerPerSession, Held
<1>3. CASE ~ScheduleRun(p)
  <2>1. run' = run
    BY <1>3 DEF RecordPrompt, HandlerStep, DropHandler, PersistInput, EnqueueInput,
                InterruptForSteer
  <2>2. TaskAfterHandler'
    BY <1>3, <2>1 DEF RecordPrompt, HandlerStep, DropHandler, PersistInput, EnqueueInput,
                InterruptForSteer, ExclusionInv, TaskAfterHandler, TypeOK
  <2> QED BY <1>1, <2>1, <2>2 DEF ExclusionInv, OneRunnerPerSession, Held, InPass
<1> QED BY <1>2, <1>3

LEMMA ExclusionPass ==
  ASSUME ExclusionInv, NEW p \in Prompts, PassStep(p)
  PROVE  TaskAfterHandler' /\ OneRunnerPerSession'
<1>1. PICK t : Become(p, t) /\ SamePass(run[p], t)
  BY MoveStepTask, PromotionStepTask, EndingStepTask DEF PassStep, ExclusionInv
<1>2. run[p].pc \in PassPCs /\ UNCHANGED <<slot, handler>>
  BY MoveStepTask, PromotionStepTask, EndingStepTask DEF PassStep, ExclusionInv, sessionVars
<1>3. \A q \in Prompts : InPass(q)' <=> InPass(q)
  BY <1>1, <1>2 DEF Become, SamePass, InPass, ExclusionInv, TypeOK
<1>4. \A q \in Prompts : run'[q].token = run[q].token
  BY <1>1 DEF Become, SamePass, ExclusionInv, TypeOK
<1>5. TaskAfterHandler'
  BY <1>1, <1>2 DEF Become, ExclusionInv, TaskAfterHandler, TypeOK, PassPCs, TurnPCs
<1> QED BY <1>2, <1>3, <1>4, <1>5 DEF ExclusionInv, OneRunnerPerSession, Held

LEMMA ExclusionSlots ==
  ASSUME ExclusionInv, NEW p \in Prompts, AcquireRun(p) \/ FinishRun(p)
  PROVE  TaskAfterHandler' /\ OneRunnerPerSession'
<1> DEFINE s == SessionOf[p]
           running(t) == {q \in Prompts : SessionOf[q] = t /\ InPass(q)}
<1>1. /\ s \in Sessions /\ issued[s] \in Nat /\ run[p].pc \in TaskPCs
      /\ TypeOK /\ OneRunnerPerSession /\ TaskAfterHandler
  BY TasksType DEF ExclusionInv, TypeOK, Tasks
<1>2. TaskAfterHandler'
  BY <1>1 DEF AcquireRun, FinishRun, StartPass, Goto, Become, TaskAfterHandler, TypeOK
<1>3. \A q \in Prompts : q # p => (InPass(q)' <=> InPass(q)) /\ run'[q] = run[q]
  BY <1>1 DEF AcquireRun, FinishRun, StartPass, Goto, Become, TypeOK, InPass
<1>4. \A t \in Sessions : t # s => slot'[t] = slot[t]
  BY <1>1 DEF AcquireRun, FinishRun, TypeOK
<1>5. \A t \in Sessions : t # s => running(t)' = running(t)
  BY <1>3
<1>6. CASE AcquireRun(p)
  <2>1. ~InPass(p)
    BY <1>6 DEF AcquireRun, InPass, PassPCs, TurnPCs
  <2>2. CASE Held(s)
    <3>0. slot[s] \in [token : Nat, rerun : BOOLEAN]
      BY <1>1 DEF TypeOK
    <3>a. slot'[s].token = slot[s].token
      BY <1>1, <1>6, <2>2, <3>0 DEF AcquireRun, TypeOK
    <3>b. ~InPass(p)'
      <4>1. run'[p] = [run[p] EXCEPT !.pc = "done"]
        BY <1>1, <1>6, <2>2 DEF AcquireRun, Goto, Become, TypeOK
      <4>2. run'[p].pc = "done"
        BY <1>1, <4>1, TasksType DEF Tasks
      <4> QED BY <4>2 DEF InPass, PassPCs, TurnPCs
    <3>1. ~InPass(p)' /\ slot'[s].token = slot[s].token
      BY <3>a, <3>b
    <3> QED BY <1>1, <1>2, <1>3, <1>4, <2>1, <3>1 DEF OneRunnerPerSession, Held
  <2>3. CASE ~Held(s)
    <3>1. /\ InPass(p)' /\ run'[p].token = issued[s] + 1
          /\ slot'[s].token = issued[s] + 1
      BY <1>1, <1>6, <2>3 DEF AcquireRun, StartPass, Become, IdleTask, InPass, PassPCs, TypeOK
    <3>2. running(s) = {}
      BY <1>1, <2>3 DEF OneRunnerPerSession
    <3>3. running(s)' = {p}
      BY <1>3, <3>1, <3>2
    <3>4. Held(s)'
      BY <1>1, <3>1 DEF Held
    <3> QED BY <1>1, <1>2, <1>3, <1>4, <1>5, <3>1, <3>3, <3>4 DEF OneRunnerPerSession, Held
  <2> QED BY <2>2, <2>3
<1>7. CASE FinishRun(p)
  <2>1. InPass(p)
    BY <1>7 DEF FinishRun, InPass, PassPCs
  <2>2. running(s) = {p}
    BY <1>1, <2>1 DEF OneRunnerPerSession
  <2>3. CASE slot[s].rerun
    <3>1. /\ InPass(p)' /\ run'[p].token = issued[s] + 1
          /\ slot'[s].token = issued[s] + 1
      BY <1>1, <1>7, <2>3 DEF FinishRun, StartPass, Become, IdleTask, InPass, PassPCs, TypeOK
    <3>2. running(s)' = {p}
      BY <1>3, <2>2, <3>1
    <3>3. Held(s)'
      BY <1>1, <3>1 DEF Held
    <3> QED BY <1>1, <1>2, <1>3, <1>4, <1>5, <3>1, <3>2, <3>3 DEF OneRunnerPerSession, Held
  <2>4. CASE ~slot[s].rerun
    <3>1. ~InPass(p)' /\ slot'[s] = NoSlot
      BY <1>1, <1>7, <2>4 DEF FinishRun, Become, IdleTask, InPass, PassPCs, TurnPCs, TypeOK
    <3>2. running(s)' = {}
      BY <1>3, <2>2, <3>1
    <3>3. ~Held(s)'
      BY <3>1 DEF Held, NoSlot
    <3> QED BY <1>1, <1>2, <1>3, <1>4, <1>5, <3>1, <3>2, <3>3 DEF OneRunnerPerSession, Held
  <2> QED BY <2>3, <2>4
<1> QED BY <1>6, <1>7

LEMMA ExclusionEnvironment ==
  ASSUME ExclusionInv, Environment
  PROVE  TaskAfterHandler' /\ OneRunnerPerSession'
<1>1. CASE Restart
  <2>1. \A q \in Prompts : ~InPass(q)'
    BY <1>1 DEF Restart, InPass, IdleTask, PassPCs, TurnPCs
  <2>2. \A s \in Sessions : ~Held(s)'
    BY <1>1 DEF Restart, Held, NoSlot
  <2>3. TaskAfterHandler'
    BY <1>1 DEF Restart, ExclusionInv, TaskAfterHandler
  <2> QED BY <2>1, <2>2, <2>3 DEF OneRunnerPerSession
<1>2. ASSUME NEW s \in Sessions, AbortSession(s) \/ DeleteSession(s)
      PROVE  TaskAfterHandler' /\ OneRunnerPerSession'
  <2>a. slot[s] \in [token : Nat, rerun : BOOLEAN]
    BY DEF ExclusionInv, TypeOK
  <2>1. \A t \in Sessions : slot'[t].token = slot[t].token
    <3>1. CASE AbortSession(s)
      BY <2>a, <3>1 DEF AbortSession, ExclusionInv, TypeOK
    <3>2. CASE DeleteSession(s)
      BY <3>2 DEF DeleteSession, sessionVars
    <3> QED BY <1>2, <3>1, <3>2
  <2>2. run' = run /\ handler' = handler
    BY <1>2 DEF AbortSession, DeleteSession
  <2> QED BY <2>1, <2>2 DEF ExclusionInv, TaskAfterHandler, OneRunnerPerSession, Held, InPass
<1> QED BY <1>1, <1>2 DEF Environment

LEMMA ExclusionNext == ExclusionInv /\ [Next]_vars => ExclusionInv'
<1>1. ExclusionInv /\ UNCHANGED vars => ExclusionInv'
  BY DEF ExclusionInv, TypeOK, TaskAfterHandler, OneRunnerPerSession, Held, InPass, vars
<1>2. ExclusionInv /\ Next => ExclusionInv'
  <2> SUFFICES ASSUME ExclusionInv, Next PROVE TaskAfterHandler' /\ OneRunnerPerSession'
    BY TypeNext DEF ExclusionInv
  <2> QED BY NextCases, ExclusionHandler, ExclusionSlots, ExclusionPass, ExclusionEnvironment
<1> QED BY <1>1, <1>2

(* acquire_session_run and finish_session_run give every session at most   *)
(* one running drain, whatever prompts, aborts, crashes and deletions do,  *)
(* and the slot is occupied exactly while that drain runs.                 *)
THEOREM OneRunner == Spec => []OneRunnerPerSession
<1>1. ExclusionInv => OneRunnerPerSession
  BY DEF ExclusionInv
<1> QED BY <1>1, ExclusionInit, ExclusionNext, PTL DEF Spec

-----------------------------------------------------------------------------
(* No stranded input.  A prompt in the inbox of a session whose drains     *)
(* were never cut short is owed a pass: its handler or its task is still   *)
(* on the way to the slot, the rerun marker is set, or the running pass    *)
(* has not yet looked at the inbox for the last time.                      *)
WillLook(r, p) ==
  /\ InPass(r)
  /\ run[r].pc # "finish"
  /\ run[r].pc = "drainQueue" => delivery[p] = "queue"

Owed(p) ==
  \/ Scheduling(p)
  \/ slot[SessionOf[p]].rerun
  \/ \E r \in Prompts : SessionOf[r] = SessionOf[p] /\ WillLook(r, p)

InboxInv ==
  \A s \in Sessions : ~faulted[s] =>
    /\ exists[s]
    /\ \A p \in inbox[s] : SessionOf[p] = s /\ handler[p] \in {"steering", "scheduling", "done"} /\ Owed(p)

(* Only the token of the running pass is remembered as cancelled, and a    *)
(* free slot carries no rerun marker.                                      *)
CancelInv ==
  \A s \in Sessions :
    /\ cancelled[s] \subseteq {slot[s].token}
    /\ ~Held(s) => cancelled[s] = {} /\ ~slot[s].rerun

DrainInv == ExclusionInv /\ CancelInv /\ SteerKeepsRerun /\ InboxInv

LEMMA DrainInit == Init => DrainInv
BY ExclusionInit
   DEF Init, DrainInv, CancelInv, SteerKeepsRerun, InboxInv, Held, NoSlot

(* A step inside p's pass keeps every input owed, provided it does not     *)
(* turn away from one that it alone was going to look at.                  *)
LEMMA PassKeepsOwed ==
  ASSUME DrainInv, NEW p \in Prompts, NEW t, Become(p, t),
         run[p].pc \in PassPCs, t.pc \in PassPCs,
         UNCHANGED <<slot, cancelled, handler, delivery, exists>>,
         \A s \in Sessions : faulted[s] => faulted'[s],
         \A s \in Sessions : inbox'[s] \subseteq inbox[s],
         \A q \in inbox'[SessionOf[p]] :
           ~faulted'[SessionOf[p]] /\ ~slot[SessionOf[p]].rerun /\ WillLook(p, q)
             => WillLook(p, q)'
  PROVE  CancelInv' /\ SteerKeepsRerun' /\ InboxInv'
<1>1. CancelInv' /\ SteerKeepsRerun'
  BY DEF DrainInv, CancelInv, SteerKeepsRerun, Held
<1>2. ASSUME NEW s \in Sessions, ~faulted'[s], NEW q \in inbox'[s]
      PROVE  Owed(q)'
  <2>1. q \in inbox[s] /\ q \in Prompts /\ SessionOf[q] = s /\ Owed(q) /\ ~faulted[s]
    BY <1>2 DEF DrainInv, InboxInv, ExclusionInv, TypeOK
  <2>2. CASE Scheduling(q)
    <3>1. q # p \/ handler[q] \in {"steering", "scheduling"}
      BY <2>2 DEF Scheduling, PassPCs, TurnPCs
    <3> QED BY <2>1, <2>2, <3>1 DEF Owed, Scheduling, Become, DrainInv, ExclusionInv, TypeOK
  <2>3. CASE slot[s].rerun
    BY <2>1, <2>3 DEF Owed
  <2>4. ASSUME NEW r \in Prompts, SessionOf[r] = s, WillLook(r, q), ~slot[s].rerun
        PROVE  Owed(q)'
    <3>1. CASE r # p
      <4>1. run'[r] = run[r]
        BY <3>1 DEF Become, DrainInv, ExclusionInv, TypeOK
      <4> QED BY <2>1, <2>4, <4>1 DEF Owed, WillLook, InPass
    <3>2. CASE r = p
      BY <1>2, <2>1, <2>4, <3>2 DEF Owed
    <3> QED BY <3>1, <3>2
  <2> QED BY <2>1, <2>2, <2>3, <2>4 DEF Owed
<1>3. InboxInv'
  BY <1>2 DEF InboxInv, DrainInv
<1> QED BY <1>1, <1>3

\* While a pass is at one of these it has yet to look for p.
LEMMA LookingAgain ==
  ASSUME TypeOK, NEW p \in Prompts, NEW q, NEW t, Become(p, t),
         t.pc \in PassPCs \ {"finish", "drainQueue"}
  PROVE  WillLook(p, q)'
BY DEF Become, TypeOK, WillLook, InPass

LEMMA DrainPass ==
  ASSUME DrainInv, NEW p \in Prompts, PassStep(p)
  PROVE  CancelInv' /\ SteerKeepsRerun' /\ InboxInv'
<1> DEFINE s == SessionOf[p]
           u == run[p]
<1>1. /\ u \in Tasks /\ s \in Sessions /\ u.pc \in PassPCs /\ TypeOK
      /\ u.token = slot[s].token /\ Held(s)
  BY TasksType, MoveStepTask, PromotionStepTask, EndingStepTask
     DEF DrainInv, ExclusionInv, PassStep, OneRunnerPerSession, InPass
<1>2. PICK t : Become(p, t) /\ SamePass(u, t)
  BY MoveStepTask, PromotionStepTask, EndingStepTask DEF PassStep, DrainInv, ExclusionInv
<1>3. /\ UNCHANGED <<slot, cancelled, handler, delivery, exists>>
      /\ \A x \in Sessions : faulted[x] => faulted'[x]
      /\ \A x \in Sessions : inbox'[x] \subseteq inbox[x]
  <2>1. CASE MoveStep(p)
    BY <1>1, <2>1, MoveStepTask DEF sessionVars, inputVars, historyVars
  <2>2. CASE PromotionStep(p)
    <3>1. /\ UNCHANGED <<slot, cancelled, handler, delivery, exists, faulted>>
      BY <1>1, <2>2, PromotionStepTask DEF sessionVars, historyVars
    <3>2. ASSUME NEW taken, NEW c, Promote(p, taken, c)
          PROVE  \A x \in Sessions : inbox'[x] \subseteq inbox[x]
      BY <1>1, <3>2 DEF Promote, TypeOK
    <3>3. \A x \in Sessions : inbox'[x] \subseteq inbox[x]
      BY <2>2, <3>2 DEF PromotionStep, PromoteQueued, PromoteSteers, MarkPromoted
    <3> QED BY <3>1, <3>3
  <2>3. CASE EndingStep(p)
    BY <1>1, <2>3, EndingStepTask
       DEF sessionVars, inputVars, EndingStep, TurnCompletes, TurnDeclined, TurnFails, Cut, TypeOK
  <2> QED BY <2>1, <2>2, <2>3 DEF PassStep
<1>4. run'[p] = t
  BY <1>1, <1>2 DEF Become, TypeOK
<1>5. ASSUME NEW q \in inbox'[s], ~faulted'[s], ~slot[s].rerun, WillLook(p, q)
      PROVE  WillLook(p, q)'
  <2>1. /\ q \in inbox[s] /\ q \in Prompts /\ ~faulted[s] /\ exists[s]
        /\ delivery[q] \in {"steer", "queue"}
    BY <1>1, <1>3, <1>5 DEF DrainInv, InboxInv, TypeOK, Deliveries
  <2>2. ~Cancelled(p)
    BY <1>1, <1>5, <2>1 DEF Cancelled, DrainInv, SteerKeepsRerun
  <2>3. t.pc \in PassPCs
    BY <1>2 DEF SamePass
  <2>4. t.pc # "finish" /\ t.pc # "drainQueue" => WillLook(p, q)'
    BY <1>1, <1>2, <2>3, LookingAgain
  <2>5. CASE CheckSteerAgain(p)
    <3>1. CASE Pending(s, "steer") = {}
      <4>1. delivery[q] = "queue"
        BY <2>1, <3>1 DEF Pending
      <4>2. run'[p].pc = "drainQueue"
        BY <1>1, <2>5, <3>1 DEF CheckSteerAgain, Goto, Become, Tasks, TypeOK
      <4> QED BY <1>3, <4>1, <4>2 DEF WillLook, InPass, PassPCs
    <3>2. CASE Pending(s, "steer") # {}
      <4>1. run'[p].pc = "attempt"
        BY <1>1, <2>5, <3>2 DEF CheckSteerAgain, Goto, Become, Tasks, TypeOK
      <4> QED BY <1>4, <2>4, <4>1
    <3> QED BY <3>1, <3>2
  <2>6. CASE CheckQueueAgain(p)
    <3>1. q \in Pending(s, "queue")
      BY <1>5, <2>1, <2>6 DEF Pending, WillLook, CheckQueueAgain
    <3>2. run'[p].pc = "attempt"
      BY <1>1, <2>6, <3>1 DEF CheckQueueAgain, Become, Tasks, TypeOK
    <3> QED BY <1>4, <2>4, <3>2
  <2>7. CASE StartAttempt(p)
    <3>1. run'[p].pc \in {"hide", "cutoff"}
      BY <1>1, <2>1, <2>7 DEF StartAttempt, Goto, Become, Tasks, TypeOK
    <3> QED BY <1>4, <2>4, <3>1
  <2>8. CASE BackoffEnds(p)
    <3>1. run'[p].pc = "attempt"
      BY <1>1, <2>2, <2>8 DEF BackoffEnds, Goto, Become, Tasks, TypeOK
    <3> QED BY <1>4, <2>4, <3>1
  <2>9. CASE TurnInterrupted(p)
    BY <2>2, <2>9 DEF TurnInterrupted
  <2>10. CASE TurnDeclined(p) \/ TurnFails(p)
    BY <1>1, <1>5, <2>10 DEF TurnDeclined, TurnFails, Cut, TypeOK
  <2>11. CASE TurnCompletes(p)
    <3>1. run'[p].pc \in {"attempt", "drainSteer"}
      BY <1>1, <2>11 DEF TurnCompletes, AfterTurn, Become, Tasks, TypeOK
    <3> QED BY <1>4, <2>4, <3>1
  <2>12. CASE CheckSteer(p)
    <3>1. run'[p].pc \in {"attempt", "hasQueue"}
      <4>1. [u EXCEPT !.promotion = "steer", !.pc = "attempt"].pc = "attempt"
        BY <1>1 DEF Tasks
      <4>2. CASE Pending(s, "steer") # {}
        BY <1>1, <2>12, <4>1, <4>2 DEF CheckSteer, Become, TypeOK
      <4>3. CASE Pending(s, "steer") = {}
        BY <1>1, <2>12, <4>3 DEF CheckSteer, Goto, Become, Tasks, TypeOK
      <4> QED BY <4>2, <4>3
    <3> QED BY <1>4, <2>4, <3>1
  <2>13. CASE CheckQueue(p)
    <3>1. run'[p].pc \in {"attempt"}
      BY <1>1, <2>13 DEF CheckQueue, Become, Tasks, TypeOK
    <3> QED BY <1>4, <2>4, <3>1
  <2>14. CASE BeginStream(p)
    <3>1. run'[p].pc \in {"stream"}
      BY <1>1, <2>14 DEF BeginStream, Goto, Become, Tasks, TypeOK
    <3> QED BY <1>4, <2>4, <3>1
  <2>15. CASE CompactAndRestart(p)
    <3>1. run'[p].pc \in {"attempt"}
      BY <1>1, <2>15 DEF CompactAndRestart, Become, Tasks, TypeOK
    <3> QED BY <1>4, <2>4, <3>1
  <2>16. CASE ReadCutoff(p)
    <3>1. run'[p].pc \in {"promoteSteers", "promoteQueued"}
      BY <1>1, <2>16 DEF ReadCutoff, Become, Tasks, TypeOK
    <3> QED BY <1>4, <2>4, <3>1
  <2>17. CASE ReadPendingIds(p)
    <3>1. run'[p].pc \in {"read"}
      BY <1>1, <2>17 DEF ReadPendingIds, Become, Tasks, TypeOK
    <3> QED BY <1>4, <2>4, <3>1
  <2>18. CASE ReadHistory(p)
    <3>1. run'[p].pc \in {"prepared"}
      BY <1>1, <2>18 DEF ReadHistory, Become, Tasks, TypeOK
    <3> QED BY <1>4, <2>4, <3>1
  <2>19. CASE RetryLater(p)
    <3>1. run'[p].pc \in {"backoff"}
      BY <1>1, <2>19 DEF RetryLater, Become, Tasks, TypeOK
    <3> QED BY <1>4, <2>4, <3>1
  <2>20. CASE PromoteQueued(p)
    <3>1. run'[p].pc \in {"promoteSteers", "markQueued"}
      <4>1. ASSUME NEW taken, NEW c, Promote(p, taken, c) PROVE run'[p].pc = c
        BY <1>1, <4>1 DEF Promote, Become, Tasks, TypeOK
      <4> QED BY <2>20, <4>1 DEF PromoteQueued
    <3> QED BY <1>4, <2>4, <3>1
  <2>21. CASE PromoteSteers(p)
    <3>1. run'[p].pc \in {"markSteers"}
      BY <1>1, <2>21 DEF PromoteSteers, Promote, Become, Tasks, TypeOK
    <3> QED BY <1>4, <2>4, <3>1
  <2>22. CASE MarkPromoted(p)
    <3>1. run'[p].pc \in {"promoteSteers", "hide"}
      BY <1>1, <2>22 DEF MarkPromoted, Become, Tasks, TypeOK
    <3> QED BY <1>4, <2>4, <3>1
  <2> QED BY <2>5, <2>6, <2>7, <2>8, <2>9, <2>10, <2>11, <2>12, <2>13, <2>14, <2>15,
             <2>16, <2>17, <2>18, <2>19, <2>20, <2>21, <2>22
          DEF PassStep, MoveStep, PromotionStep, EndingStep
<1>6. t.pc \in PassPCs
  BY <1>2 DEF SamePass
<1> QED BY <1>1, <1>2, <1>3, <1>5, <1>6, PassKeepsOwed

LEMMA DrainHandler ==
  ASSUME DrainInv, NEW p \in Prompts, RecordPrompt(p) \/ HandlerStep(p) \/ DropHandler(p)
  PROVE  CancelInv' /\ SteerKeepsRerun' /\ InboxInv'
<1> DEFINE s == SessionOf[p]
<1>1. /\ s \in Sessions /\ TypeOK /\ TaskAfterHandler /\ InboxInv /\ CancelInv
      /\ SteerKeepsRerun /\ slot[s] \in [token : Nat, rerun : BOOLEAN]
  BY TasksType DEF DrainInv, ExclusionInv, TypeOK
<1>2. CASE RecordPrompt(p) \/ PersistInput(p)
  <2>1. UNCHANGED <<slot, cancelled, exists, inbox, faulted, run>>
    BY <1>2 DEF RecordPrompt, PersistInput, sessionVars, historyVars
  <2>2. /\ handler[p] \notin {"steering", "scheduling", "done"}
        /\ \A q \in Prompts : q # p => handler'[q] = handler[q] /\ delivery'[q] = delivery[q]
    BY <1>1, <1>2 DEF RecordPrompt, PersistInput, TypeOK
  <2>3. ASSUME NEW x \in Sessions, ~faulted[x], NEW q \in inbox[x]
        PROVE  /\ SessionOf[q] = x /\ handler'[q] \in {"steering", "scheduling", "done"}
               /\ Owed(q)'
    BY <1>1, <2>1, <2>2, <2>3 DEF InboxInv, Owed, Scheduling, WillLook, InPass, TypeOK
  <2> QED BY <1>1, <2>1, <2>3 DEF InboxInv, CancelInv, SteerKeepsRerun, Held
<1>3. CASE EnqueueInput(p)
  <2>1. UNCHANGED <<slot, cancelled, exists, delivery, faulted, run>>
    BY <1>3 DEF EnqueueInput, sessionVars, historyVars
  <2>2. /\ handler'[p] \in {"steering", "scheduling"}
        /\ \A q \in Prompts : q # p => handler'[q] = handler[q]
        /\ \A x \in Sessions : inbox'[x] = inbox[x] \/ (x = s /\ inbox'[x] = inbox[x] \union {p})
    BY <1>1, <1>3 DEF EnqueueInput, TypeOK
  <2>3. ASSUME NEW x \in Sessions, ~faulted[x], NEW q \in inbox'[x]
        PROVE  /\ SessionOf[q] = x /\ handler'[q] \in {"steering", "scheduling", "done"}
               /\ Owed(q)'
    <3>1. CASE q = p
      <4>1. p \notin inbox[x]
        BY <1>1, <1>3, <2>3 DEF InboxInv, EnqueueInput
      <4> QED BY <2>2, <3>1, <2>3, <4>1 DEF Owed, Scheduling
    <3>2. CASE q # p
      BY <1>1, <2>1, <2>2, <2>3, <3>2 DEF InboxInv, Owed, Scheduling, WillLook, InPass, TypeOK
    <3> QED BY <3>1, <3>2
  <2> QED BY <1>1, <2>1, <2>3 DEF InboxInv, CancelInv, SteerKeepsRerun, Held
<1>4. CASE InterruptForSteer(p)
  <2>1. UNCHANGED <<exists, inbox, delivery, faulted, run>>
    BY <1>4 DEF InterruptForSteer, inputVars, historyVars
  <2>2. /\ handler'[p] = "scheduling"
        /\ \A q \in Prompts : q # p => handler'[q] = handler[q]
    BY <1>1, <1>4 DEF InterruptForSteer, TypeOK
  <2>3. \A x \in Sessions :
          /\ slot'[x].token = slot[x].token
          /\ slot[x].rerun => slot'[x].rerun
          /\ \/ slot'[x] = slot[x] /\ cancelled'[x] = cancelled[x]
             \/ Held(x) /\ slot'[x].rerun /\ cancelled'[x] \subseteq {slot[x].token}
    BY <1>1, <1>4 DEF InterruptForSteer, TypeOK, CancelInv
  <2>4. ASSUME NEW x \in Sessions, ~faulted[x], NEW q \in inbox[x]
        PROVE  /\ SessionOf[q] = x /\ handler'[q] \in {"steering", "scheduling", "done"}
               /\ Owed(q)'
    BY <1>1, <2>1, <2>2, <2>3, <2>4
       DEF InboxInv, Owed, Scheduling, WillLook, InPass, TypeOK
  <2> QED BY <1>1, <2>1, <2>3, <2>4 DEF InboxInv, CancelInv, SteerKeepsRerun, Held
<1>5. CASE ScheduleRun(p)
  <2>1. UNCHANGED <<slot, cancelled, exists, inbox, delivery, faulted>>
    BY <1>5 DEF ScheduleRun, sessionVars, inputVars, historyVars
  <2>2. /\ run[p].pc = "none" /\ run'[p].pc = "spawned" /\ handler'[p] = "done"
        /\ \A q \in Prompts : q # p => handler'[q] = handler[q] /\ run'[q] = run[q]
    BY <1>1, <1>5 DEF ScheduleRun, Become, IdleTask, TaskAfterHandler, TypeOK
  <2>3. \A r \in Prompts : \A q : WillLook(r, q) => WillLook(r, q)'
    BY <2>1, <2>2 DEF WillLook, InPass, PassPCs, TurnPCs
  <2>4. ASSUME NEW x \in Sessions, ~faulted[x], NEW q \in inbox[x]
        PROVE  /\ SessionOf[q] = x /\ handler'[q] \in {"steering", "scheduling", "done"}
               /\ Owed(q)'
    BY <1>1, <2>1, <2>2, <2>3, <2>4 DEF InboxInv, Owed, Scheduling, TypeOK
  <2> QED BY <1>1, <2>1, <2>4 DEF InboxInv, CancelInv, SteerKeepsRerun, Held
<1>6. CASE DropHandler(p)
  <2>1. UNCHANGED <<slot, cancelled, exists, inbox, delivery, run>>
    BY <1>6 DEF DropHandler, sessionVars, inputVars
  <2>2. /\ faulted'[s]
        /\ \A x \in Sessions : faulted[x] => faulted'[x]
        /\ \A q \in Prompts : q # p => handler'[q] = handler[q]
    BY <1>1, <1>6 DEF DropHandler, Cut, TypeOK
  <2>3. ASSUME NEW x \in Sessions, ~faulted'[x], NEW q \in inbox[x]
        PROVE  /\ SessionOf[q] = x /\ handler'[q] \in {"steering", "scheduling", "done"}
               /\ Owed(q)'
    BY <1>1, <2>1, <2>2, <2>3 DEF InboxInv, Owed, Scheduling, WillLook, InPass, TypeOK
  <2> QED BY <1>1, <2>1, <2>2, <2>3 DEF InboxInv, CancelInv, SteerKeepsRerun, Held
<1> QED BY <1>2, <1>3, <1>4, <1>5, <1>6 DEF HandlerStep

LEMMA DrainSlots ==
  ASSUME DrainInv, NEW p \in Prompts, AcquireRun(p) \/ FinishRun(p)
  PROVE  CancelInv' /\ SteerKeepsRerun' /\ InboxInv'
<1> DEFINE s == SessionOf[p]
<1>1. /\ s \in Sessions /\ issued[s] \in Nat /\ run[p] \in Tasks
      /\ TypeOK /\ OneRunnerPerSession /\ InboxInv /\ CancelInv /\ SteerKeepsRerun
      /\ slot[s] \in [token : Nat, rerun : BOOLEAN]
  BY TasksType DEF DrainInv, ExclusionInv, TypeOK
<1>2. /\ UNCHANGED <<exists, inbox, delivery, faulted, handler>>
      /\ \A q \in Prompts : q # p => run'[q] = run[q]
      /\ \A x \in Sessions : x # s => slot'[x] = slot[x] /\ cancelled'[x] = cancelled[x]
  BY <1>1 DEF AcquireRun, FinishRun, StartPass, Goto, Become, TypeOK, inputVars, historyVars
\* The other sessions are not disturbed.
<1>e. ASSUME NEW x \in Sessions, x # s, ~faulted[x], NEW q \in inbox[x]
      PROVE  Owed(q)'
  <2>1. q \in Prompts /\ SessionOf[q] = x /\ Owed(q) /\ q # p
    BY <1>1, <1>e DEF InboxInv, TypeOK
  <2>2. CASE Scheduling(q)
    BY <1>2, <2>1, <2>2 DEF Owed, Scheduling
  <2>3. CASE slot[x].rerun
    BY <1>e, <1>2, <2>1, <2>3 DEF Owed
  <2>4. ASSUME NEW r \in Prompts, SessionOf[r] = x, WillLook(r, q)
        PROVE  Owed(q)'
    <3>1. run'[r] = run[r]
      BY <1>e, <1>2, <2>4
    <3>2. WillLook(r, q)'
      BY <1>2, <2>4, <3>1 DEF WillLook, InPass
    <3> QED BY <2>1, <2>4, <3>2 DEF Owed
  <2> QED BY <2>1, <2>2, <2>3, <2>4 DEF Owed
\* What holds of a pass about to begin.
<1>3. ASSUME run'[p].pc = "hasSteer", slot'[s] = [token |-> issued[s] + 1, rerun |-> FALSE],
             cancelled'[s] = {}
      PROVE  CancelInv' /\ SteerKeepsRerun' /\ InboxInv'
  <2>1. \A q : WillLook(p, q)'
    BY <1>3 DEF WillLook, InPass, PassPCs
  <2>2. ASSUME NEW x \in Sessions, ~faulted[x], NEW q \in inbox[x]
        PROVE  Owed(q)'
    <3>1. CASE x = s
      BY <1>1, <2>1, <2>2, <3>1 DEF Owed, InboxInv
    <3>2. CASE x # s
      BY <1>e, <2>2, <3>2
    <3> QED BY <3>1, <3>2
  <2> QED BY <1>1, <1>2, <1>3, <2>2 DEF InboxInv, CancelInv, SteerKeepsRerun, Held
<1>4. CASE AcquireRun(p) /\ Held(s)
  <2>1. /\ slot'[s].rerun /\ slot'[s].token = slot[s].token /\ cancelled' = cancelled
    BY <1>1, <1>4 DEF AcquireRun, TypeOK
  <2>3. ASSUME NEW x \in Sessions, ~faulted[x], NEW q \in inbox[x]
        PROVE  Owed(q)'
    <3>1. CASE x = s
      BY <1>1, <2>1, <2>3, <3>1 DEF Owed, InboxInv
    <3>2. CASE x # s
      BY <1>e, <2>3, <3>2
    <3> QED BY <3>1, <3>2
  <2>4. InboxInv'
    BY <1>1, <1>2, <2>3 DEF InboxInv
  <2>5. CancelInv' /\ SteerKeepsRerun'
    <3>1. ASSUME NEW x \in Sessions
          PROVE  /\ slot'[x].token = slot[x].token /\ cancelled'[x] = cancelled[x]
                 /\ Held(x)' <=> Held(x)
                 /\ slot'[x].rerun <=> (x = s \/ slot[x].rerun)
      BY <1>1, <1>2, <2>1 DEF Held
    <3> QED BY <1>1, <1>2, <1>4, <3>1 DEF CancelInv, SteerKeepsRerun
  <2> QED BY <2>4, <2>5
<1>5. CASE AcquireRun(p) /\ ~Held(s)
  BY <1>1, <1>3, <1>5 DEF AcquireRun, StartPass, Become, IdleTask, TypeOK, CancelInv
<1>6. CASE FinishRun(p) /\ slot[s].rerun
  BY <1>1, <1>3, <1>6 DEF FinishRun, StartPass, Become, IdleTask, TypeOK, CancelInv
<1>7. CASE FinishRun(p) /\ ~slot[s].rerun
  <2>1. slot'[s] = NoSlot /\ cancelled'[s] = {} /\ run[p].pc = "finish"
    BY <1>1, <1>7 DEF FinishRun, TypeOK, CancelInv
  <2>2. InPass(p)
    BY <2>1 DEF InPass, PassPCs
  <2>3. ASSUME NEW x \in Sessions, ~faulted[x], NEW q \in inbox[x]
        PROVE  Owed(q)'
    <3>1. CASE x = s
      <4>1. q # p \/ handler[q] \in {"steering", "scheduling"} \/ ~Scheduling(q)
        BY <2>1 DEF Scheduling
      <4>2. ~WillLook(p, q)
        BY <2>1 DEF WillLook
      <4>3. \A r \in Prompts : SessionOf[r] = s => ~WillLook(r, q)
        BY <1>1, <2>2, <4>2 DEF OneRunnerPerSession, WillLook
      <4>4. Scheduling(q) /\ q \in Prompts
        BY <1>1, <1>7, <2>3, <3>1, <4>3 DEF InboxInv, Owed, TypeOK
      <4> QED BY <1>2, <4>1, <4>4 DEF Owed, Scheduling
    <3>2. CASE x # s
      BY <1>e, <2>3, <3>2
    <3> QED BY <3>1, <3>2
  <2> QED BY <1>1, <1>2, <2>1, <2>3 DEF InboxInv, CancelInv, SteerKeepsRerun, Held, NoSlot
<1> QED BY <1>4, <1>5, <1>6, <1>7

LEMMA DrainEnvironment ==
  ASSUME DrainInv, Environment
  PROVE  CancelInv' /\ SteerKeepsRerun' /\ InboxInv'
<1>1. CASE Restart
  BY <1>1 DEF Restart, CancelInv, SteerKeepsRerun, InboxInv, Held, NoSlot
<1>2. ASSUME NEW s \in Sessions, AbortSession(s) \/ DeleteSession(s)
      PROVE  CancelInv' /\ SteerKeepsRerun' /\ InboxInv'
  <2>1. TypeOK /\ slot[s] \in [token : Nat, rerun : BOOLEAN]
    BY DEF DrainInv, ExclusionInv, TypeOK
  <2>2. /\ faulted'[s] /\ \A x \in Sessions : x # s => faulted'[x] = faulted[x]
        /\ UNCHANGED <<inbox, delivery, handler, run>>
        /\ \A x \in Sessions : x # s => /\ slot'[x] = slot[x] /\ exists'[x] = exists[x]
                                        /\ cancelled'[x] = cancelled[x]
    BY <1>2, <2>1 DEF AbortSession, DeleteSession, Cut, TypeOK, inputVars, sessionVars
  <2>3. InboxInv'
    BY <2>1, <2>2 DEF DrainInv, InboxInv, Owed, Scheduling, WillLook, InPass, TypeOK
  <2>4. /\ slot'[s].token = slot[s].token
        /\ cancelled'[s] \subseteq {slot[s].token}
        /\ ~Held(s) => cancelled'[s] = {} /\ ~slot'[s].rerun
    BY <1>2, <2>1 DEF AbortSession, DeleteSession, sessionVars, TypeOK, DrainInv, CancelInv
  <2>5. CancelInv' /\ SteerKeepsRerun'
    BY <2>2, <2>4 DEF DrainInv, CancelInv, SteerKeepsRerun, Held
  <2> QED BY <2>3, <2>5
<1> QED BY <1>1, <1>2 DEF Environment

LEMMA DrainNext == DrainInv /\ [Next]_vars => DrainInv'
<1>1. DrainInv /\ UNCHANGED vars => DrainInv'
  <2> SUFFICES ASSUME DrainInv, UNCHANGED vars PROVE DrainInv'
    OBVIOUS
  <2>1. ExclusionInv'
    BY ExclusionNext DEF DrainInv
  <2> QED BY <2>1 DEF DrainInv, CancelInv, SteerKeepsRerun, InboxInv, Held, Owed,
              Scheduling, WillLook, InPass, vars
<1>2. DrainInv /\ Next => DrainInv'
  <2> SUFFICES ASSUME DrainInv, Next PROVE DrainInv'
    OBVIOUS
  <2>1. ExclusionInv'
    BY ExclusionNext DEF DrainInv
  <2>2. CancelInv' /\ SteerKeepsRerun' /\ InboxInv'
    BY NextCases, DrainHandler, DrainSlots, DrainPass, DrainEnvironment
  <2> QED BY <2>1, <2>2 DEF DrainInv
<1> QED BY <1>1, <1>2

LEMMA OwedNotStranded == DrainInv => NoStrandedInput
<1> SUFFICES ASSUME DrainInv, NEW s \in Sessions, inbox[s] # {}, ~Held(s), ~faulted[s]
             PROVE  \E p \in Prompts : SessionOf[p] = s /\ Scheduling(p)
  BY DEF NoStrandedInput
<1>1. PICK p \in inbox[s] : TRUE
  OBVIOUS
<1>2. p \in Prompts /\ SessionOf[p] = s /\ Owed(p) /\ ~slot[s].rerun
  BY DEF DrainInv, InboxInv, CancelInv, ExclusionInv, TypeOK
<1>3. \A r \in Prompts : SessionOf[r] = s => ~InPass(r)
  BY DEF DrainInv, ExclusionInv, OneRunnerPerSession
<1> QED BY <1>2, <1>3 DEF Owed, WillLook

(* The rerun marker of acquire_session_run loses no admitted prompt: in a  *)
(* session whose drains were not cut short an idle slot with an input in   *)
(* the inbox means that a scheduler is on its way to the slot.             *)
THEOREM NothingStranded == Spec => []NoStrandedInput
BY DrainInit, DrainNext, OwedNotStranded, PTL DEF Spec

(* A steer's interruption is always followed by another pass.              *)
THEOREM SteerReruns == Spec => []SteerKeepsRerun
<1>1. DrainInv => SteerKeepsRerun
  BY DEF DrainInv
<1> QED BY <1>1, DrainInit, DrainNext, PTL DEF Spec

-----------------------------------------------------------------------------
(* The durable rows and the inbox.  An input is in one place at a time: on *)
(* the way in with its handler, in the inbox, or in the hands of the pass  *)
(* that took it and has not marked its row yet.                            *)
MarkingPCs == {"markQueued", "markSteers"}

Marked(p) == \E r \in Prompts : p \in run[r].marking

RowOK(p) ==
  LET s == SessionOf[p] IN
  /\ handler[p] \in {"idle", "recorded"} => row[p] = "none"
  /\ handler[p] \in {"idle", "recorded", "persisted"} => p \notin inbox[s] /\ ~Marked(p)
  /\ exists[s] /\ handler[p] = "persisted" => row[p] = "pending"
  /\ Marked(p) => p \notin inbox[s]
  /\ exists[s] /\ p \in inbox[s] => row[p] = "pending"
  /\ row[p] = "pending" => p \in inbox[s] \/ handler[p] \in {"persisted", "lost"} \/ Marked(p)

MarkingOK(r) ==
  /\ run[r].marking # {} => run[r].pc \in MarkingPCs
  /\ \A p \in run[r].marking : SessionOf[p] = SessionOf[r]

OwnInputs == \A s \in Sessions : \A p \in inbox[s] : SessionOf[p] = s

RowInv ==
  /\ \A p \in Prompts : RowOK(p)
  /\ \A r \in Prompts : MarkingOK(r)
  /\ OwnInputs

LEMMA RowInit == Init => RowInv
<1> SUFFICES ASSUME Init PROVE RowInv
  OBVIOUS
<1>1. \A r \in Prompts : run[r].marking = {} /\ handler[r] = "idle" /\ row[r] = "none"
  BY DEF Init, IdleTask
<1>2. \A s \in Sessions : inbox[s] = {}
  BY DEF Init
<1> QED BY <1>1, <1>2, SessionRunsAssumption DEF RowInv, RowOK, MarkingOK, OwnInputs, Marked

(* Steps that leave the rows, the inbox and the inputs in hand; handlers   *)
(* may move on, except into and out of the two halves of the admission.    *)
SameMarking ==
  \A r \in Prompts : /\ run'[r].marking = run[r].marking
                     /\ run[r].marking # {} => run'[r].pc = run[r].pc

HandlersMove ==
  \A q \in Prompts :
    \/ handler'[q] = handler[q]
    \/ handler[q] = "idle" /\ handler'[q] = "recorded"
    \/ handler[q] = "persisted" /\ handler'[q] = "lost"
    \/ handler[q] \notin {"persisted", "lost"} /\ handler'[q] \notin {"idle", "recorded", "persisted"}

LEMMA RowsKept ==
  ASSUME RowInv, UNCHANGED <<inbox, row, exists>>, SameMarking, HandlersMove
  PROVE  RowInv'
<1>1. \A p \in Prompts : Marked(p)' <=> Marked(p)
  BY DEF Marked, SameMarking
<1>2. ASSUME NEW p \in Prompts PROVE RowOK(p)'
  <2>1. RowOK(p)
    BY DEF RowInv
  <2>2. \/ handler'[p] = handler[p]
        \/ handler[p] = "idle" /\ handler'[p] = "recorded"
        \/ handler[p] = "persisted" /\ handler'[p] = "lost"
        \/ handler[p] \notin {"persisted", "lost"} /\ handler'[p] \notin {"idle", "recorded", "persisted"}
    BY DEF HandlersMove
  <2> QED BY <1>1, <2>1, <2>2 DEF RowOK
<1>3. ASSUME NEW r \in Prompts PROVE MarkingOK(r)'
  BY DEF RowInv, MarkingOK, SameMarking
<1> QED BY <1>2, <1>3 DEF RowInv, OwnInputs

(* A task that is not marking has nothing in hand.                         *)
LEMMA NothingInHand ==
  ASSUME RowInv, NEW p \in Prompts, run[p].pc \notin MarkingPCs
  PROVE  run[p].marking = {}
BY DEF RowInv, MarkingOK

LEMMA OneMarking ==
  ASSUME TypeOK, RowInv, NEW p \in Prompts, run[p].pc \notin MarkingPCs, NEW t, Become(p, t), t.marking = {}
  PROVE  SameMarking
<1>1. run[p].marking = {}
  BY NothingInHand
<1> QED BY <1>1 DEF SameMarking, Become, TypeOK

LEMMA MoveMarking ==
  ASSUME TypeOK, RowInv, NEW p \in Prompts, MoveStep(p) \/ EndingStep(p)
  PROVE  SameMarking
<1> DEFINE u == run[p]
<1>1. u.pc \notin MarkingPCs
  BY DEF MoveStep, EndingStep, CheckSteer, CheckQueue, StartAttempt, ReadCutoff, ReadPendingIds, ReadHistory,
         CompactAndRestart, BeginStream, TurnInterrupted, RetryLater, BackoffEnds, CheckSteerAgain,
         CheckQueueAgain, TurnCompletes, TurnDeclined, TurnFails, MarkingPCs
<1>2. u \in Tasks /\ u.marking = {}
  BY <1>1, TasksType, NothingInHand
<1>3. \A c : Goto(p, c) => SameMarking
  BY <1>1, <1>2, OneMarking DEF Goto, Tasks
<1>4. \A t : Become(p, t) /\ t.marking = {} => SameMarking
  BY <1>1, OneMarking
<1>5. ASSUME NEW c, AfterTurn(p, c) PROVE SameMarking
  BY <1>2, <1>4, <1>5 DEF AfterTurn, Tasks
<1>6. CASE CheckSteer(p) \/ CheckQueue(p) \/ StartAttempt(p) \/ ReadCutoff(p)
  BY <1>2, <1>3, <1>4, <1>6 DEF CheckSteer, CheckQueue, StartAttempt, ReadCutoff, Tasks
<1>7. CASE ReadPendingIds(p) \/ ReadHistory(p) \/ CompactAndRestart(p) \/ BeginStream(p)
  BY <1>2, <1>3, <1>4, <1>7 DEF ReadPendingIds, ReadHistory, CompactAndRestart, BeginStream, Tasks
<1>8. CASE TurnInterrupted(p) \/ RetryLater(p) \/ BackoffEnds(p)
  BY <1>2, <1>3, <1>4, <1>5, <1>8 DEF TurnInterrupted, RetryLater, BackoffEnds, Tasks
<1>9. CASE CheckSteerAgain(p) \/ CheckQueueAgain(p)
  BY <1>2, <1>3, <1>4, <1>9 DEF CheckSteerAgain, CheckQueueAgain, Tasks
<1>10. CASE EndingStep(p)
  BY <1>2, <1>4, <1>5, <1>10 DEF EndingStep, TurnCompletes, TurnDeclined, TurnFails, Tasks
<1> QED BY <1>6, <1>7, <1>8, <1>9, <1>10 DEF MoveStep

LEMMA SlotMarking ==
  ASSUME TypeOK, RowInv, NEW p \in Prompts, AcquireRun(p) \/ FinishRun(p)
  PROVE  SameMarking
<1>1. run[p].pc \notin MarkingPCs
  BY DEF AcquireRun, FinishRun, MarkingPCs
<1>2. run[p] \in Tasks /\ run[p].marking = {}
  BY <1>1, TasksType, NothingInHand
<1>3. \A t : Become(p, t) /\ t.marking = {} => SameMarking
  BY <1>1, OneMarking
<1> QED BY <1>2, <1>3 DEF AcquireRun, FinishRun, StartPass, Goto, IdleTask, Tasks

(* Inputs taken out of the inbox are in the hands of the pass.             *)
LEMMA PromoteRows ==
  ASSUME TypeOK, RowInv, NEW p \in Prompts, NEW taken \in SUBSET inbox[SessionOf[p]], NEW c,
         run[p].pc \notin MarkingPCs, taken = {} \/ c \in MarkingPCs, Promote(p, taken, c)
  PROVE  RowInv'
<1> DEFINE s == SessionOf[p]
<1>1. /\ s \in Sessions /\ run[p].marking = {} /\ run[p] \in Tasks
      /\ UNCHANGED <<row, exists, handler>>
  BY TasksType, NothingInHand DEF Promote
<1>2. /\ run'[p].marking = taken /\ run'[p].pc = c
      /\ \A r \in Prompts : r # p => run'[r] = run[r]
  BY <1>1 DEF Promote, Become, Tasks, TypeOK
<1>3. \A x \in Sessions : inbox'[x] = IF x = s THEN inbox[x] \ taken ELSE inbox[x]
  BY <1>1 DEF Promote, TypeOK
<1>4. \A q \in taken : q \in inbox[s] /\ SessionOf[q] = s /\ q \in Prompts
  BY <1>1 DEF RowInv, OwnInputs, TypeOK
<1>5. \A q \in Prompts : Marked(q)' <=> Marked(q) \/ q \in taken
  BY <1>1, <1>2 DEF Marked
<1>6. ASSUME NEW q \in Prompts PROVE RowOK(q)'
  <2>1. RowOK(q) /\ SessionOf[q] \in Sessions
    BY TasksType DEF RowInv
  <2>2. q \in inbox'[SessionOf[q]] <=> q \in inbox[SessionOf[q]] /\ q \notin taken
    BY <1>3, <1>4, <2>1
  <2>3. q \in taken => q \in inbox[SessionOf[q]]
    BY <1>4
  <2> QED BY <1>1, <1>5, <2>1, <2>2, <2>3 DEF RowOK
<1>7. ASSUME NEW r \in Prompts PROVE MarkingOK(r)'
  BY <1>2, <1>4 DEF RowInv, MarkingOK
<1>8. OwnInputs'
  BY <1>3 DEF RowInv, OwnInputs
<1> QED BY <1>6, <1>7, <1>8 DEF RowInv

LEMMA MarkRows ==
  ASSUME TypeOK, RowInv, NEW p \in Prompts, MarkPromoted(p)
  PROVE  RowInv'
<1>1. run[p] \in Tasks /\ UNCHANGED <<inbox, exists, handler>>
  BY TasksType DEF MarkPromoted
<1>2. run'[p].marking = {} /\ \A r \in Prompts : r # p => run'[r] = run[r]
  BY <1>1 DEF MarkPromoted, Become, Tasks, TypeOK
<1>3. \A q \in Prompts :
        row'[q] = IF q \in run[p].marking /\ row[q] # "none" THEN "promoted" ELSE row[q]
  BY DEF MarkPromoted
<1>4. \A q \in Prompts : Marked(q) <=> Marked(q)' \/ q \in run[p].marking
  BY <1>2 DEF Marked
<1>5. ASSUME NEW q \in Prompts PROVE RowOK(q)'
  <2>1. RowOK(q)
    BY DEF RowInv
  <2> QED BY <1>1, <1>3, <1>4, <2>1 DEF RowOK
<1>6. ASSUME NEW r \in Prompts PROVE MarkingOK(r)'
  BY <1>2 DEF RowInv, MarkingOK
<1>7. OwnInputs'
  BY <1>1 DEF RowInv, OwnInputs
<1> QED BY <1>5, <1>6, <1>7 DEF RowInv

LEMMA RowPass ==
  ASSUME TypeOK, RowInv, NEW p \in Prompts, PassStep(p)
  PROVE  RowInv'
<1>1. CASE MoveStep(p)
  <2>1. UNCHANGED <<inbox, row, exists, handler>>
    BY <1>1, MoveStepTask DEF inputVars
  <2> QED BY <1>1, <2>1, MoveMarking, RowsKept DEF HandlersMove
<1>2. CASE EndingStep(p)
  <2>1. UNCHANGED <<inbox, row, exists, handler>>
    BY <1>2, EndingStepTask DEF inputVars
  <2> QED BY <1>2, <2>1, MoveMarking, RowsKept DEF HandlersMove
<1>3. CASE PromoteQueued(p)
  <2>1. run[p].pc \notin MarkingPCs
    BY <1>3 DEF PromoteQueued, MarkingPCs
  <2>2. PICK taken \in SUBSET inbox[SessionOf[p]], c \in TurnPCs :
               (taken = {} \/ c \in MarkingPCs) /\ Promote(p, taken, c)
    BY <1>3 DEF PromoteQueued, NextQueued, Pending, MarkingPCs, TurnPCs
  <2> QED BY <2>1, <2>2, PromoteRows
<1>4. CASE PromoteSteers(p)
  <2>1. run[p].pc \notin MarkingPCs
    BY <1>4 DEF PromoteSteers, MarkingPCs
  <2>2. PICK taken \in SUBSET inbox[SessionOf[p]] : Promote(p, taken, "markSteers")
    BY <1>4 DEF PromoteSteers, SteersUpTo, Pending
  <2> QED BY <2>1, <2>2, PromoteRows DEF MarkingPCs
<1> QED BY <1>1, <1>2, <1>3, <1>4, MarkRows DEF PassStep, PromotionStep

LEMMA RowHandler ==
  ASSUME ExclusionInv, RowInv, NEW p \in Prompts, RecordPrompt(p) \/ HandlerStep(p) \/ DropHandler(p)
  PROVE  RowInv'
<1> DEFINE s == SessionOf[p]
<1>0. TypeOK /\ s \in Sessions
  BY TasksType DEF ExclusionInv
<1>1. CASE RecordPrompt(p) \/ InterruptForSteer(p) \/ DropHandler(p)
  <2>1. UNCHANGED <<inbox, row, exists, run>>
    BY <1>1 DEF RecordPrompt, InterruptForSteer, DropHandler, inputVars
  <2>2. HandlersMove
    BY <1>0, <1>1 DEF RecordPrompt, InterruptForSteer, DropHandler, HandlersMove, TypeOK
  <2> QED BY <2>1, <2>2, RowsKept DEF SameMarking
<1>2. CASE ScheduleRun(p)
  <2>1. UNCHANGED <<inbox, row, exists>> /\ run[p].pc = "none"
    BY <1>2 DEF ScheduleRun, inputVars, ExclusionInv, TaskAfterHandler
  <2>2. HandlersMove
    BY <1>0, <1>2 DEF ScheduleRun, HandlersMove, TypeOK
  <2>3. SameMarking
    BY <1>0, <1>2, <2>1, OneMarking DEF ScheduleRun, IdleTask, MarkingPCs
  <2> QED BY <2>1, <2>2, <2>3, RowsKept
<1>3. CASE PersistInput(p)
  <2>1. /\ UNCHANGED <<inbox, exists, run>> /\ handler[p] = "recorded"
        /\ \A q \in Prompts : /\ handler'[q] = IF q = p THEN "persisted" ELSE handler[q]
                              /\ row'[q] = IF q = p THEN "pending" ELSE row[q]
    BY <1>0, <1>3 DEF PersistInput, TypeOK
  <2>2. ASSUME NEW q \in Prompts PROVE RowOK(q)'
    <3>1. RowOK(q) /\ (Marked(q)' <=> Marked(q))
      BY <2>1 DEF RowInv, Marked
    <3> QED BY <2>1, <3>1 DEF RowOK
  <2> QED BY <2>1, <2>2 DEF RowInv, MarkingOK, OwnInputs
<1>4. CASE EnqueueInput(p)
  <2>1. /\ UNCHANGED <<row, exists, run>> /\ handler[p] = "persisted"
        /\ handler'[p] \in {"steering", "scheduling"}
        /\ \A q \in Prompts : q # p => handler'[q] = handler[q]
        /\ \A x \in Sessions : inbox'[x] = IF x = s THEN inbox[x] \union {p} ELSE inbox[x]
    BY <1>0, <1>4 DEF EnqueueInput, TypeOK
  <2>2. ASSUME NEW q \in Prompts PROVE RowOK(q)'
    <3>1. RowOK(q) /\ (Marked(q)' <=> Marked(q)) /\ SessionOf[q] \in Sessions
      BY <1>0, <2>1, TasksType DEF RowInv, Marked
    <3>2. CASE q = p
      BY <2>1, <3>1, <3>2 DEF RowOK
    <3>3. CASE q # p
      <4>1. q \in inbox'[SessionOf[q]] <=> q \in inbox[SessionOf[q]]
        <5>0. inbox'[s] = inbox[s] \union {p}
          BY <1>0, <2>1
        <5>1. CASE SessionOf[q] = s
          BY <3>3, <5>0, <5>1
        <5>2. CASE SessionOf[q] # s
          BY <2>1, <3>1, <5>2
        <5> QED BY <5>1, <5>2
      <4> QED BY <2>1, <3>1, <3>3, <4>1 DEF RowOK
    <3> QED BY <3>2, <3>3
  <2>3. ASSUME NEW x \in Sessions, NEW q \in inbox'[x] PROVE SessionOf[q] = x
    <3>1. CASE x = s
      <4>1. inbox'[s] = inbox[s] \union {p}
        BY <1>0, <2>1
      <4> QED BY <1>0, <2>3, <3>1, <4>1 DEF RowInv, OwnInputs
    <3>2. CASE x # s
      <4>1. inbox'[x] = inbox[x]
        BY <2>1, <3>2
      <4> QED BY <2>3, <4>1 DEF RowInv, OwnInputs
    <3> QED BY <3>1, <3>2
  <2> QED BY <2>1, <2>2, <2>3 DEF RowInv, MarkingOK, OwnInputs
<1> QED BY <1>1, <1>2, <1>3, <1>4 DEF HandlerStep

LEMMA RowEnvironment ==
  ASSUME ExclusionInv, RowInv, Environment
  PROVE  RowInv'
<1>1. CASE Restart
  <2>1. /\ UNCHANGED <<row, exists>>
        /\ \A q \in Prompts :
             handler'[q] = IF handler[q] \in {"idle", "done"} THEN handler[q] ELSE "lost"
        /\ \A x \in Sessions : inbox'[x] = {q \in Prompts : SessionOf[q] = x /\ row[q] = "pending"}
    BY <1>1 DEF Restart, Unpromoted
  <2>2. \A r \in Prompts : run'[r].marking = {}
    <3> SUFFICES ASSUME NEW r \in Prompts PROVE run'[r].marking = {}
      OBVIOUS
    <3>1. CASE run[r].pc = "none"
      BY <1>1, <3>1, NothingInHand DEF Restart, MarkingPCs
    <3>2. CASE run[r].pc # "none"
      BY <1>1, <3>2 DEF Restart, IdleTask
    <3> QED BY <3>1, <3>2
  <2>3. ASSUME NEW q \in Prompts PROVE RowOK(q)'
    <3>1. RowOK(q) /\ ~Marked(q)' /\ SessionOf[q] \in Sessions
      BY <2>2, SessionRunsAssumption DEF RowInv, Marked
    <3>2. q \in inbox'[SessionOf[q]] <=> row[q] = "pending"
      BY <2>1, <3>1
    <3> QED BY <2>1, <3>1, <3>2 DEF RowOK
  <2> QED BY <2>1, <2>2, <2>3 DEF RowInv, MarkingOK, OwnInputs
<1>2. ASSUME NEW s \in Sessions, AbortSession(s) PROVE RowInv'
  <2>1. UNCHANGED <<inbox, row, exists, run, handler>>
    BY <1>2 DEF AbortSession, inputVars
  <2> QED BY <2>1, RowsKept DEF SameMarking, HandlersMove
<1>3. ASSUME NEW s \in Sessions, DeleteSession(s) PROVE RowInv'
  <2>1. /\ UNCHANGED <<inbox, run, handler>>
        /\ \A q \in Prompts : row'[q] = IF SessionOf[q] = s THEN "none" ELSE row[q]
        /\ \A x \in Sessions : exists'[x] = (x # s /\ exists[x])
    BY <1>3 DEF DeleteSession, ExclusionInv, TypeOK
  <2>2. ASSUME NEW q \in Prompts PROVE RowOK(q)'
    <3>1. RowOK(q) /\ (Marked(q)' <=> Marked(q)) /\ SessionOf[q] \in Sessions
      BY <2>1, SessionRunsAssumption DEF RowInv, Marked
    <3> QED BY <2>1, <3>1 DEF RowOK
  <2> QED BY <2>1, <2>2 DEF RowInv, MarkingOK, OwnInputs
<1> QED BY <1>1, <1>2, <1>3 DEF Environment

LEMMA RowNext ==
  ASSUME ExclusionInv, RowInv, [Next]_vars
  PROVE  RowInv'
<1>1. CASE UNCHANGED vars
  BY <1>1, RowsKept DEF vars, SameMarking, HandlersMove
<1>2. ASSUME NEW p \in Prompts, AcquireRun(p) \/ FinishRun(p) PROVE RowInv'
  <2>1. UNCHANGED <<inbox, row, exists, handler>>
    BY <1>2 DEF AcquireRun, FinishRun, inputVars
  <2>2. SameMarking
    BY <1>2, SlotMarking DEF ExclusionInv
  <2> QED BY <2>1, <2>2, RowsKept DEF HandlersMove
<1>3. CASE Next
  BY <1>2, <1>3, NextCases, RowEnvironment, RowHandler, RowPass DEF ExclusionInv
<1> QED BY <1>1, <1>3

(* The rows and the inbox agree, through every admission, promotion,       *)
(* restart and deletion.                                                   *)
THEOREM RowsMatch == Spec => []RowsMatchInbox
<1>1. RowInv => RowsMatchInbox
  <2> SUFFICES ASSUME RowInv, NEW p \in Prompts, exists[SessionOf[p]]
               PROVE  /\ p \in inbox[SessionOf[p]] => row[p] = "pending"
                      /\ row[p] = "pending" =>
                           \/ p \in inbox[SessionOf[p]]
                           \/ handler[p] \in {"persisted", "lost"}
                           \/ \E r \in Prompts : SessionOf[r] = SessionOf[p] /\ p \in run[r].marking
    BY DEF RowsMatchInbox
  <2>1. RowOK(p) /\ \A r \in Prompts : p \in run[r].marking => SessionOf[r] = SessionOf[p]
    BY DEF RowInv, MarkingOK
  <2> QED BY <2>1 DEF RowOK, Marked
<1>2. ExclusionInv /\ RowInv /\ [Next]_vars => ExclusionInv' /\ RowInv'
  BY ExclusionNext, RowNext
<1> QED BY <1>1, <1>2, ExclusionInit, RowInit, PTL DEF Spec

-----------------------------------------------------------------------------
(* What a step does to one input: it enters the inbox from its handler or  *)
(* from its row, and leaves it in the hands of a pass.                     *)
Left(q) == row[q] = "promoted" \/ Marked(q)

Takes(r, q) ==
  LET s == SessionOf[r] IN
  /\ s = SessionOf[q]
  /\ \/ q \in Pending(s, "steer")
     \/ run[r].pc = "promoteQueued" /\ q \in NextQueued(s)

InputStep(q) ==
  LET s == SessionOf[q] IN
  /\ q \in inbox'[s] => q \in inbox[s] \/ handler[q] = "persisted" \/ row[q] = "pending"
  /\ row'[q] = "pending" => row[q] = "pending" \/ handler[q] = "recorded"
  /\ Left(q)' => Left(q) \/ \E r \in Prompts : Takes(r, q)

LEMMA InputKept ==
  ASSUME RowInv, NEW q \in Prompts, UNCHANGED <<inbox, row>>, SameMarking
  PROVE  InputStep(q)
BY DEF InputStep, Left, Marked, SameMarking

LEMMA InputHandler ==
  ASSUME ExclusionInv, RowInv, NEW q \in Prompts, NEW p \in Prompts,
         RecordPrompt(p) \/ HandlerStep(p) \/ DropHandler(p)
  PROVE  InputStep(q)
<1>0. TypeOK /\ SessionOf[p] \in Sessions /\ SessionOf[q] \in Sessions
  BY TasksType DEF ExclusionInv
<1>1. CASE RecordPrompt(p) \/ InterruptForSteer(p) \/ DropHandler(p)
  <2>1. UNCHANGED <<inbox, row, run>>
    BY <1>1 DEF RecordPrompt, InterruptForSteer, DropHandler, inputVars
  <2> QED BY <2>1, InputKept DEF SameMarking
<1>2. CASE ScheduleRun(p)
  <2>1. UNCHANGED <<inbox, row>> /\ run[p].pc = "none"
    BY <1>2 DEF ScheduleRun, inputVars, ExclusionInv, TaskAfterHandler
  <2>2. SameMarking
    BY <1>0, <1>2, <2>1, OneMarking DEF ScheduleRun, IdleTask, MarkingPCs
  <2> QED BY <2>1, <2>2, InputKept
<1>3. CASE PersistInput(p)
  <2>1. /\ UNCHANGED <<inbox, run>> /\ handler[p] = "recorded"
        /\ row'[q] = IF q = p THEN "pending" ELSE row[q]
    BY <1>0, <1>3 DEF PersistInput, TypeOK
  <2> QED BY <2>1 DEF InputStep, Left, Marked
<1>4. CASE EnqueueInput(p)
  <2>1. UNCHANGED <<row, run>> /\ handler[p] = "persisted"
    BY <1>4 DEF EnqueueInput
  <2>2. q \in inbox'[SessionOf[q]] => q \in inbox[SessionOf[q]] \/ q = p
    BY <1>0, <1>4 DEF EnqueueInput, TypeOK
  <2> QED BY <2>1, <2>2 DEF InputStep, Left, Marked
<1> QED BY <1>1, <1>2, <1>3, <1>4 DEF HandlerStep

LEMMA InputPromote ==
  ASSUME TypeOK, RowInv, NEW q \in Prompts, NEW p \in Prompts, NEW c,
         NEW taken \in SUBSET inbox[SessionOf[p]], Promote(p, taken, c),
         q \in taken => Takes(p, q)
  PROVE  InputStep(q)
<1>1. run[p] \in Tasks /\ UNCHANGED row
  BY TasksType DEF Promote
<1>2. run'[p].marking = taken /\ \A r \in Prompts : r # p => run'[r] = run[r]
  BY <1>1 DEF Promote, Become, Tasks, TypeOK
<1>3. q \in inbox'[SessionOf[q]] => q \in inbox[SessionOf[q]]
  BY TasksType DEF Promote, TypeOK
<1> QED BY <1>1, <1>2, <1>3 DEF InputStep, Left, Marked

LEMMA InputPass ==
  ASSUME TypeOK, RowInv, NEW q \in Prompts, NEW p \in Prompts, PassStep(p)
  PROVE  InputStep(q)
<1> DEFINE s == SessionOf[p]
<1>0. \A x \in inbox[s] : SessionOf[x] = s
  BY TasksType DEF RowInv, OwnInputs
<1>1. CASE MoveStep(p) \/ EndingStep(p)
  <2>1. UNCHANGED <<inbox, row>>
    BY <1>1, MoveStepTask, EndingStepTask DEF inputVars
  <2> QED BY <1>1, <2>1, MoveMarking, InputKept
<1>2. CASE PromoteQueued(p)
  <2>1. CASE Pending(s, "queue") = {}
    BY <1>2, <2>1, InputPromote DEF PromoteQueued
  <2>2. CASE Pending(s, "queue") # {}
    <3>1. PICK x \in NextQueued(s) : Promote(p, {x}, "markQueued")
      BY <1>2, <2>2 DEF PromoteQueued
    <3>2. {x} \in SUBSET inbox[s] /\ (q \in {x} => Takes(p, q))
      BY <1>0, <1>2 DEF PromoteQueued, Takes, NextQueued, Pending
    <3> QED BY <3>1, <3>2, InputPromote
  <2> QED BY <2>1, <2>2
<1>3. CASE PromoteSteers(p)
  <2> DEFINE taken == SteersUpTo(s, run[p].cutoff)
  <2>1. taken \in SUBSET inbox[s] /\ (q \in taken => Takes(p, q))
    BY <1>0 DEF Takes, SteersUpTo, Pending
  <2>2. Promote(p, taken, "markSteers")
    BY <1>3 DEF PromoteSteers
  <2> QED BY <2>1, <2>2, InputPromote
<1>4. CASE MarkPromoted(p)
  <2>1. run[p] \in Tasks /\ UNCHANGED inbox
    BY <1>4, TasksType DEF MarkPromoted
  <2>2. run'[p].marking = {} /\ \A r \in Prompts : r # p => run'[r] = run[r]
    BY <1>4, <2>1 DEF MarkPromoted, Become, Tasks, TypeOK
  <2>3. row'[q] = IF q \in run[p].marking /\ row[q] # "none" THEN "promoted" ELSE row[q]
    BY <1>4 DEF MarkPromoted
  <2> QED BY <2>1, <2>2, <2>3 DEF InputStep, Left, Marked
<1> QED BY <1>1, <1>2, <1>3, <1>4 DEF PassStep, PromotionStep

LEMMA InputEnvironment ==
  ASSUME ExclusionInv, RowInv, NEW q \in Prompts, Environment
  PROVE  InputStep(q)
<1>0. SessionOf[q] \in Sessions
  BY TasksType DEF ExclusionInv
<1>1. CASE Restart
  <2>1. UNCHANGED row /\ (q \in inbox'[SessionOf[q]] => row[q] = "pending")
    BY <1>0, <1>1 DEF Restart, Unpromoted
  <2>2. \A r \in Prompts : run'[r].marking = {}
    <3> SUFFICES ASSUME NEW r \in Prompts PROVE run'[r].marking = {}
      OBVIOUS
    <3>1. CASE run[r].pc = "none"
      BY <1>1, <3>1, NothingInHand DEF Restart, MarkingPCs
    <3>2. CASE run[r].pc # "none"
      BY <1>1, <3>2 DEF Restart, IdleTask
    <3> QED BY <3>1, <3>2
  <2> QED BY <2>1, <2>2 DEF InputStep, Left, Marked
<1>2. ASSUME NEW s \in Sessions, AbortSession(s) PROVE InputStep(q)
  BY <1>2, InputKept DEF AbortSession, inputVars, SameMarking
<1>3. ASSUME NEW s \in Sessions, DeleteSession(s) PROVE InputStep(q)
  <2>1. UNCHANGED <<inbox, run>> /\ row'[q] \in {"none", row[q]}
    BY <1>3 DEF DeleteSession
  <2> QED BY <2>1 DEF InputStep, Left, Marked
<1> QED BY <1>1, <1>2, <1>3 DEF Environment

LEMMA InputSteps ==
  ASSUME ExclusionInv, RowInv, [Next]_vars, NEW q \in Prompts
  PROVE  InputStep(q)
<1>1. CASE UNCHANGED vars
  BY <1>1, InputKept DEF vars, SameMarking
<1>2. ASSUME NEW p \in Prompts, AcquireRun(p) \/ FinishRun(p) PROVE InputStep(q)
  <2>1. UNCHANGED <<inbox, row>>
    BY <1>2 DEF AcquireRun, FinishRun, inputVars
  <2> QED BY <1>2, <2>1, SlotMarking, InputKept DEF ExclusionInv
<1>3. CASE Next
  BY <1>2, <1>3, NextCases, InputHandler, InputPass, InputEnvironment DEF ExclusionInv
<1> QED BY <1>1, <1>3

(* Nothing brings an answered prompt back into the inbox: its row is not   *)
(* pending any more, so a restart does not find it either.                 *)
THEOREM AnsweredStays == Spec => AnsweredNotReplayed
<1>1. ASSUME ExclusionInv, RowInv, [Next]_vars, NEW p \in Prompts,
             p \notin inbox[SessionOf[p]], handler[p] = "done",
             \A r \in Prompts : p \notin run[r].marking
      PROVE  p \notin inbox'[SessionOf[p]]
  BY <1>1, InputSteps DEF InputStep, RowInv, RowOK, Marked
<1>2. ExclusionInv => answered \subseteq Prompts
  BY DEF ExclusionInv, TypeOK
<1>3. ExclusionInv /\ RowInv /\ [Next]_vars
        => [\A p \in answered :
              LET s == SessionOf[p] IN
              /\ p \notin inbox[s]
              /\ handler[p] = "done"
              /\ \A r \in Prompts : p \notin run[r].marking
              => p \notin inbox'[s]]_vars
  BY <1>1, <1>2
<1>4. ExclusionInv /\ RowInv /\ [Next]_vars => ExclusionInv' /\ RowInv'
  BY ExclusionNext, RowNext
<1> QED BY <1>3, <1>4, ExclusionInit, RowInit, PTL DEF Spec, AnsweredNotReplayed

-----------------------------------------------------------------------------
(* The order of the queue.  A prompt admitted in full before another one   *)
(* was recorded has the smaller sequence number, and the pass that takes   *)
(* the later one takes the smallest: the earlier one is then neither in    *)
(* the inbox nor pending, since the pass that took it is not marking any   *)
(* more; so no restart can put it back behind the later one.               *)
Behind(p, q) ==
  /\ handler[p] = "done" /\ handler[q] # "idle"
  /\ seq[p] < seq[q]
  /\ delivery[p] = "queue" /\ delivery[q] = "queue" /\ Left(q)
       => p \notin inbox[SessionOf[p]] /\ row[p] # "pending"

OrderOK(q) ==
  LET s == SessionOf[q] IN
  /\ handler[q] = "idle" => q \notin recorded[s]
  /\ exists[s] /\ handler[q] # "idle" => seq[q] <= Cardinality(recorded[s])
  /\ \A p \in before[q] : SessionOf[p] = s => Behind(p, q)

OrderInv == \A q \in Prompts : OrderOK(q)

LEMMA OrderInit == Init => OrderInv
BY SessionRunsAssumption DEF Init, OrderInv, OrderOK

(* What the steps other than the recording of a prompt leave alone.        *)
Numbering ==
  /\ UNCHANGED <<seq, delivery, before>>
  /\ \A q \in Prompts : /\ handler'[q] = "idle" <=> handler[q] = "idle"
                        /\ handler[q] = "done" => handler'[q] = "done"
  /\ \A s \in Sessions : \/ recorded'[s] = recorded[s] /\ (exists'[s] => exists[s])
                         \/ recorded'[s] = {} /\ ~exists'[s]

LEMMA NumberingKept ==
  ASSUME TypeOK, [Next]_vars
  PROVE  Numbering \/ \E p \in Prompts : RecordPrompt(p)
<1>1. CASE UNCHANGED vars
  BY <1>1 DEF Numbering, vars
<1>2. ASSUME NEW p \in Prompts, HandlerStep(p) \/ DropHandler(p) PROVE Numbering
  BY <1>2 DEF HandlerStep, PersistInput, EnqueueInput, InterruptForSteer, ScheduleRun, DropHandler,
              Numbering, TypeOK, inputVars, historyVars
<1>3. ASSUME NEW p \in Prompts, AcquireRun(p) \/ FinishRun(p) \/ PassStep(p) PROVE Numbering
  <2>1. UNCHANGED <<exists, recorded, delivery, seq, handler, before>>
    BY <1>3, MoveStepTask, PromotionStepTask, EndingStepTask
       DEF AcquireRun, FinishRun, PassStep, inputVars, historyVars
  <2> QED BY <2>1 DEF Numbering
<1>4. CASE Environment
  <2>1. CASE Restart
    BY <2>1 DEF Restart, Numbering
  <2>2. ASSUME NEW s \in Sessions, AbortSession(s) PROVE Numbering
    BY <2>2 DEF AbortSession, Numbering, inputVars
  <2>3. ASSUME NEW s \in Sessions, DeleteSession(s) PROVE Numbering
    BY <2>3 DEF DeleteSession, Numbering, TypeOK
  <2> QED BY <1>4, <2>1, <2>2, <2>3 DEF Environment
<1>5. CASE Next
  BY <1>2, <1>3, <1>4, <1>5, NextCases
<1> QED BY <1>1, <1>5

(* What is in hand of a session is in the hands of the pass that runs.     *)
LEMMA OnlyMarker ==
  ASSUME ExclusionInv, RowInv, NEW p \in Prompts, InPass(p),
         NEW q \in Prompts, SessionOf[q] = SessionOf[p], NEW r \in Prompts, q \in run[r].marking
  PROVE  r = p
<1>1. run[r].pc \in MarkingPCs /\ SessionOf[r] = SessionOf[p]
  BY DEF RowInv, MarkingOK
<1>2. InPass(r) /\ SessionOf[p] \in Sessions
  BY <1>1, TasksType DEF InPass, PassPCs, TurnPCs, MarkingPCs, ExclusionInv
<1> QED BY <1>1, <1>2 DEF ExclusionInv, OneRunnerPerSession

(* What is ahead of an input that a pass takes has been settled.           *)
LEMMA TakenInOrder ==
  ASSUME ExclusionInv, RowInv, NEW p \in Prompts, NEW q \in Prompts, NEW r \in Prompts,
         Takes(r, q), SessionOf[p] = SessionOf[q], handler[p] = "done", seq[p] < seq[q],
         delivery[p] = "queue", delivery[q] = "queue"
  PROVE  p \notin inbox[SessionOf[p]] /\ row[p] # "pending"
<1> DEFINE s == SessionOf[r]
<1>1. /\ SessionOf[p] = s /\ s \in Sessions /\ run[r].pc = "promoteQueued" /\ q \in NextQueued(s)
      /\ seq[p] \in Nat /\ seq[q] \in Nat
  BY TasksType DEF Takes, Pending, ExclusionInv, TypeOK
<1>2. p \notin inbox[s]
  BY <1>1 DEF NextQueued, Pending
<1>3. ~Marked(p)
  <2> SUFFICES ASSUME NEW t \in Prompts, p \in run[t].marking PROVE FALSE
    BY DEF Marked
  <2>1. InPass(r)
    BY <1>1 DEF InPass, PassPCs, TurnPCs
  <2>2. t = r
    BY <1>1, <2>1, OnlyMarker
  <2> QED BY <1>1, <2>2, NothingInHand DEF MarkingPCs
<1>4. RowOK(p)
  BY DEF RowInv
<1> QED BY <1>1, <1>2, <1>3, <1>4 DEF RowOK

LEMMA OrderRecord ==
  ASSUME ExclusionInv, RowInv, OrderInv, NEW p \in Prompts, RecordPrompt(p)
  PROVE  OrderInv'
<1> DEFINE s == SessionOf[p]
<1>0. TypeOK /\ s \in Sessions /\ recorded[s] \in SUBSET Prompts
  BY TasksType DEF ExclusionInv, TypeOK
<1>1. /\ handler[p] = "idle" /\ exists[s] /\ p \notin recorded[s]
      /\ UNCHANGED <<inbox, row, exists, run>>
      /\ handler' = [handler EXCEPT ![p] = "recorded"]
      /\ before' = [before EXCEPT ![p] = {q \in Prompts : handler[q] = "done"}]
      /\ seq' = [seq EXCEPT ![p] = Cardinality(recorded'[s])]
      /\ recorded' = [recorded EXCEPT ![s] = @ \union {p}]
      /\ \A q \in Prompts : q # p => delivery'[q] = delivery[q]
  BY <1>0 DEF RecordPrompt, OrderInv, OrderOK, TypeOK
<1>2. /\ Cardinality(recorded[s]) \in Nat
      /\ Cardinality(recorded'[s]) = Cardinality(recorded[s]) + 1
  <2>1. IsFiniteSet(recorded[s])
    BY <1>0, SessionRunsAssumption, FS_Subset
  <2>2. recorded'[s] = recorded[s] \union {p}
    BY <1>0, <1>1 DEF TypeOK
  <2> QED BY <1>0, <1>1, <2>1, <2>2, CountType, FS_AddElement
<1>3. \A q \in Prompts : /\ handler'[q] = IF q = p THEN "recorded" ELSE handler[q]
                         /\ seq'[q] = IF q = p THEN Cardinality(recorded[s]) + 1 ELSE seq[q]
                         /\ seq[q] \in Nat
                         /\ Left(q)' <=> Left(q)
  BY <1>0, <1>1, <1>2 DEF TypeOK, Left, Marked
<1>b. /\ before'[p] = {x \in Prompts : handler[x] = "done"}
      /\ \A q \in Prompts : q # p => before'[q] = before[q] /\ before[q] \subseteq Prompts
  BY <1>0, <1>1 DEF TypeOK
<1>4. \A x \in Sessions : x # s => recorded'[x] = recorded[x]
  BY <1>0, <1>1 DEF TypeOK
<1>5. recorded'[s] = recorded[s] \union {p}
  BY <1>0, <1>1 DEF TypeOK
<1>6. \A q \in Prompts : SessionOf[q] \in Sessions /\ OrderOK(q)
  BY <1>0, TasksType DEF OrderInv
<1>7. ASSUME NEW q \in Prompts, q # p PROVE OrderOK(q)'
  <2>1. handler'[q] = "idle" => q \notin recorded'[SessionOf[q]]
    BY <1>3, <1>4, <1>5, <1>6, <1>7 DEF OrderOK
  <2>2. exists'[SessionOf[q]] /\ handler'[q] # "idle" => seq'[q] <= Cardinality(recorded'[SessionOf[q]])
    <3>1. CASE SessionOf[q] = s
      <4>1. handler[q] # "idle" => seq[q] <= Cardinality(recorded[s])
        BY <1>1, <1>6, <3>1 DEF OrderOK
      <4>2. seq'[q] = seq[q] /\ handler'[q] = handler[q] /\ seq[q] \in Nat
        BY <1>3, <1>7
      <4> QED BY <1>2, <3>1, <4>1, <4>2
    <3>2. CASE SessionOf[q] # s
      BY <1>1, <1>3, <1>4, <1>6, <1>7, <3>2 DEF OrderOK
    <3> QED BY <3>1, <3>2
  <2>3. ASSUME NEW x \in before'[q], SessionOf[x] = SessionOf[q] PROVE Behind(x, q)'
    <3>a. x \in before[q] /\ x \in Prompts
      BY <1>b, <1>7, <2>3
    <3>b. Behind(x, q)
      BY <1>6, <2>3, <3>a DEF OrderOK
    <3>1. x \in Prompts /\ x # p /\ Behind(x, q)
      BY <1>1, <3>a, <3>b DEF Behind
    <3> QED BY <1>1, <1>3, <1>7, <3>1 DEF Behind
  <2> QED BY <2>1, <2>2, <2>3 DEF OrderOK
<1>8. OrderOK(p)'
  <2>1. handler'[p] = "recorded" /\ seq'[p] = Cardinality(recorded'[s])
    BY <1>2, <1>3
  <2>2. ASSUME NEW x \in before'[p], SessionOf[x] = s PROVE Behind(x, p)'
    <3>1. x \in Prompts /\ handler[x] = "done" /\ x # p /\ OrderOK(x)
      BY <1>1, <1>b, <1>6, <2>2
    <3>2. seq[x] <= Cardinality(recorded[s])
      BY <1>1, <2>2, <3>1 DEF OrderOK
    <3>3. seq'[x] < seq'[p]
      <4>1. seq'[x] = seq[x] /\ seq[x] \in Nat /\ seq'[p] = Cardinality(recorded[s]) + 1
        BY <1>3, <3>1
      <4> QED BY <1>2, <3>2, <4>1
    <3>4. ~Left(p)'
      BY <1>1, <1>3 DEF Left, RowInv, RowOK
    <3> QED BY <1>3, <2>1, <3>1, <3>3, <3>4 DEF Behind
  <2>3. seq'[p] <= Cardinality(recorded'[s])
    BY <1>2, <2>1
  <2> QED BY <2>1, <2>2, <2>3 DEF OrderOK
<1> QED BY <1>7, <1>8 DEF OrderInv

LEMMA OrderNext ==
  ASSUME ExclusionInv, RowInv, OrderInv, [Next]_vars
  PROVE  OrderInv'
<1>1. CASE \E p \in Prompts : RecordPrompt(p)
  BY <1>1, OrderRecord
<1>2. CASE Numbering
  <2> SUFFICES ASSUME NEW q \in Prompts PROVE OrderOK(q)'
    BY DEF OrderInv
  <2>1. OrderOK(q) /\ SessionOf[q] \in Sessions /\ before[q] \subseteq Prompts
    BY TasksType DEF OrderInv, ExclusionInv, TypeOK
  <2>2. handler'[q] = "idle" => q \notin recorded'[SessionOf[q]]
    BY <1>2, <2>1 DEF Numbering, OrderOK
  <2>3. exists'[SessionOf[q]] /\ handler'[q] # "idle" => seq'[q] <= Cardinality(recorded'[SessionOf[q]])
    BY <1>2, <2>1 DEF Numbering, OrderOK
  <2>4. ASSUME NEW p \in before'[q], SessionOf[p] = SessionOf[q] PROVE Behind(p, q)'
    <3>1. p \in Prompts /\ p \in before[q] /\ Behind(p, q)
      BY <1>2, <2>1, <2>4 DEF Numbering, OrderOK
    <3>2. /\ handler'[p] = "done" /\ handler'[q] # "idle" /\ seq'[p] < seq'[q]
          /\ UNCHANGED delivery /\ handler[p] = "done"
      BY <1>2, <3>1 DEF Numbering, Behind
    <3>3. ASSUME delivery[p] = "queue", delivery[q] = "queue", Left(q)'
          PROVE  p \notin inbox[SessionOf[p]] /\ row[p] # "pending"
      <4>1. CASE Left(q)
        BY <3>1, <3>3, <4>1 DEF Behind
      <4>2. CASE ~Left(q)
        <5>1. PICK r \in Prompts : Takes(r, q)
          BY <3>3, <4>2, InputSteps DEF InputStep
        <5>2. handler[p] = "done" /\ seq[p] < seq[q]
          BY <3>1 DEF Behind
        <5> QED BY <2>4, <3>1, <3>3, <5>1, <5>2, TakenInOrder
      <4> QED BY <4>1, <4>2
    <3>4. InputStep(p)
      BY <3>1, InputSteps
    <3>5. /\ p \notin inbox[SessionOf[p]] /\ row[p] # "pending"
             => p \notin inbox'[SessionOf[p]] /\ row'[p] # "pending"
      BY <3>2, <3>4 DEF InputStep
    <3> QED BY <3>2, <3>3, <3>5 DEF Behind
  <2> QED BY <2>2, <2>3, <2>4 DEF OrderOK
<1> QED BY <1>1, <1>2, NumberingKept DEF ExclusionInv

(* A queued prompt is promoted only after those admitted in full before    *)
(* it, whatever is deleted, dropped or restarted in between.               *)
THEOREM QueueKeepsOrder == Spec => []QueueOrder
<1>1. ExclusionInv /\ OrderInv => QueueOrder
  <2> SUFFICES ASSUME ExclusionInv, OrderInv, NEW q \in Prompts, NEW p \in before[q],
                      SessionOf[p] = SessionOf[q], delivery[p] = "queue", delivery[q] = "queue",
                      row[q] = "promoted"
               PROVE  p \notin inbox[SessionOf[p]]
    BY DEF QueueOrder
  <2> QED BY DEF OrderInv, OrderOK, Behind, Left
<1>2. ExclusionInv /\ RowInv /\ OrderInv /\ [Next]_vars => ExclusionInv' /\ RowInv' /\ OrderInv'
  BY ExclusionNext, RowNext, OrderNext
<1> QED BY <1>1, <1>2, ExclusionInit, RowInit, OrderInit, PTL DEF Spec

-----------------------------------------------------------------------------
(* The inbox of a session is the queue of one consumer (SessionInbox).     *)
Counts == [s \in Sessions |-> Cardinality(recorded[s])]
StagesOf == [p \in Prompts |-> StageOf(p)]
Hands == [s \in Sessions |-> InHand(s)]

(* A step that moves no prompt and no input is none of the inbox's.        *)
LEMMA InboxRests ==
  ASSUME UNCHANGED <<exists, recorded, delivery, seq, row, inbox>>, SameMarking,
         \A p \in Prompts : StageOf(p)' = StageOf(p)
  PROVE  UNCHANGED Inbox!inboxVars
<1>1. \A s \in Sessions : InHand(s)' = InHand(s)
  BY DEF InHand, SameMarking
<1>2. UNCHANGED <<Counts, StagesOf, Hands>>
  BY <1>1 DEF Counts, StagesOf, Hands
<1> QED BY <1>2 DEF Inbox!inboxVars, Counts, StagesOf, Hands

LEMMA HandlerStages ==
  ASSUME TypeOK, NEW p \in Prompts, NEW h, handler' = [handler EXCEPT ![p] = h]
  PROVE  /\ StagesOf' = [StagesOf EXCEPT ![p] = StageOf(p)']
         /\ \A q \in Prompts : q # p => StageOf(q)' = StageOf(q)
         /\ handler'[p] = h
<1>1. handler'[p] = h /\ \A q \in Prompts : q # p => handler'[q] = handler[q]
  BY DEF TypeOK
<1>2. \A q \in Prompts : q # p => StageOf(q)' = StageOf(q)
  BY <1>1 DEF StageOf
<1> QED BY <1>1, <1>2 DEF StagesOf

(* What a pass holds is all that is held of its session.                   *)
LEMMA OneHand ==
  ASSUME ExclusionInv, RowInv, NEW p \in Prompts, InPass(p)
  PROVE  InHand(SessionOf[p]) = run[p].marking
<1> DEFINE s == SessionOf[p]
<1>1. run[p].marking \subseteq Prompts /\ s \in Sessions
  BY TasksType DEF ExclusionInv, Tasks
<1>2. \A q \in run[p].marking : SessionOf[q] = s
  BY DEF RowInv, MarkingOK
<1> QED BY <1>1, <1>2, OnlyMarker DEF InHand

LEMMA HandsMove ==
  ASSUME ExclusionInv, RowInv, NEW p \in Prompts, InPass(p), NEW batch \in SUBSET Prompts,
         \A q \in batch : SessionOf[q] = SessionOf[p],
         run'[p].marking = batch, \A r \in Prompts : r # p => run'[r] = run[r]
  PROVE  Hands' = [Hands EXCEPT ![SessionOf[p]] = batch]
<1> DEFINE s == SessionOf[p]
<1>1. s \in Sessions
  BY TasksType DEF ExclusionInv
<1>2. \A q \in Prompts, r \in Prompts : SessionOf[q] = s /\ q \in run[r].marking => r = p
  BY OnlyMarker
<1>3. InHand(s)' = batch
  BY <1>2 DEF InHand
<1>4. ASSUME NEW x \in Sessions, x # s PROVE InHand(x)' = InHand(x)
  <2>1. \A q \in run[p].marking : SessionOf[q] = s
    BY DEF RowInv, MarkingOK
  <2> QED BY <1>4, <2>1 DEF InHand
<1> QED BY <1>1, <1>3, <1>4 DEF Hands

LEMMA InboxHandler ==
  ASSUME ExclusionInv, RowInv, OrderInv, NEW p \in Prompts,
         RecordPrompt(p) \/ HandlerStep(p) \/ DropHandler(p)
  PROVE  Inbox!InboxNext \/ UNCHANGED Inbox!inboxVars
<1> DEFINE s == SessionOf[p]
<1>0. TypeOK /\ s \in Sessions /\ recorded[s] \in SUBSET Prompts
  BY TasksType DEF ExclusionInv, TypeOK
<1>1. CASE RecordPrompt(p)
  <2>1. UNCHANGED <<exists, row, inbox, run>> /\ handler[p] = "idle" /\ exists[s] /\ p \notin recorded[s]
    BY <1>1 DEF RecordPrompt, OrderInv, OrderOK
  <2>2. StagesOf[p] = "new" /\ StagesOf' = [StagesOf EXCEPT ![p] = "recorded"]
    <3>1. handler[p] = "idle" /\ handler' = [handler EXCEPT ![p] = "recorded"]
      BY <1>1 DEF RecordPrompt
    <3>2. StagesOf' = [StagesOf EXCEPT ![p] = StageOf(p)'] /\ handler'[p] = "recorded"
      BY <1>0, <3>1, HandlerStages
    <3>3. StageOf(p) = "new" /\ StageOf(p)' = "recorded"
      BY <3>1, <3>2 DEF StageOf
    <3> QED BY <3>2, <3>3 DEF StagesOf
  <2>3. recorded' = [recorded EXCEPT ![s] = @ \union {p}]
    BY <1>1 DEF RecordPrompt
  <2>4. Cardinality(recorded'[s]) = Counts[s] + 1
    <3>1. IsFiniteSet(recorded[s])
      BY <1>0, SessionRunsAssumption, FS_Subset
    <3>2. recorded'[s] = recorded[s] \union {p}
      BY <1>0, <2>3 DEF TypeOK
    <3> QED BY <1>0, <2>1, <3>1, <3>2, FS_AddElement DEF Counts
  <2>5. Counts' = [Counts EXCEPT ![s] = @ + 1]
    <3>1. \A x \in Sessions : x # s => recorded'[x] = recorded[x]
      BY <1>0, <2>3 DEF TypeOK
    <3>2. Counts'[s] = Counts[s] + 1
      BY <1>0, <2>4 DEF Counts
    <3>3. \A x \in Sessions : x # s => Counts'[x] = Counts[x]
      BY <3>1 DEF Counts
    <3> QED BY <1>0, <3>2, <3>3 DEF Counts
  <2>6. seq' = [seq EXCEPT ![p] = Counts[s] + 1]
    BY <1>1, <2>4 DEF RecordPrompt
  <2>7. \E d \in {"steer", "queue"} : delivery' = [delivery EXCEPT ![p] = d]
    BY <1>1 DEF RecordPrompt, Deliveries
  <2>8. UNCHANGED Hands
    BY <2>1 DEF Hands, InHand
  <2>9. Inbox!Record(p)
    BY <2>1, <2>2, <2>5, <2>6, <2>7, <2>8 DEF Inbox!Record, Inbox!Advance, Counts, StagesOf, Hands
  <2> QED BY <2>9 DEF Inbox!InboxNext
<1>2. CASE PersistInput(p)
  <2>1. UNCHANGED <<exists, recorded, delivery, seq, inbox, run>> /\ row' = [row EXCEPT ![p] = "pending"]
    BY <1>2 DEF PersistInput
  <2>2. StagesOf[p] = "recorded" /\ StagesOf' = [StagesOf EXCEPT ![p] = "entering"]
    <3>1. handler[p] = "recorded" /\ handler' = [handler EXCEPT ![p] = "persisted"]
      BY <1>2 DEF PersistInput
    <3>2. StagesOf' = [StagesOf EXCEPT ![p] = StageOf(p)'] /\ handler'[p] = "persisted"
      BY <1>0, <3>1, HandlerStages
    <3>3. StageOf(p) = "recorded" /\ StageOf(p)' = "entering"
      BY <3>1, <3>2 DEF StageOf
    <3> QED BY <3>2, <3>3 DEF StagesOf
  <2>3. UNCHANGED <<Counts, Hands>>
    BY <2>1 DEF Counts, Hands, InHand
  <2>4. Inbox!Persist(p)
    BY <2>1, <2>2, <2>3 DEF Inbox!Persist, Inbox!Advance, Counts, StagesOf, Hands
  <2> QED BY <2>4 DEF Inbox!InboxNext
<1>3. CASE EnqueueInput(p)
  <2>1. /\ UNCHANGED <<exists, recorded, delivery, seq, row, run>>
        /\ inbox' = [inbox EXCEPT ![s] = @ \union {p}]
    BY <1>3 DEF EnqueueInput
  <2>2. StagesOf[p] = "entering" /\ StagesOf' = [StagesOf EXCEPT ![p] = "over"]
    <3>1. PICK h \in {"steering", "scheduling"} :
            handler[p] = "persisted" /\ handler' = [handler EXCEPT ![p] = h]
      BY <1>3 DEF EnqueueInput
    <3>2. StagesOf' = [StagesOf EXCEPT ![p] = StageOf(p)'] /\ handler'[p] = h
      BY <1>0, <3>1, HandlerStages
    <3>3. StageOf(p) = "entering" /\ StageOf(p)' = "over"
      BY <3>1, <3>2 DEF StageOf
    <3> QED BY <3>2, <3>3 DEF StagesOf
  <2>3. UNCHANGED <<Counts, Hands>>
    BY <2>1 DEF Counts, Hands, InHand
  <2>4. Inbox!Enter(p)
    BY <2>1, <2>2, <2>3 DEF Inbox!Enter, Inbox!Advance, Counts, StagesOf, Hands
  <2> QED BY <2>4 DEF Inbox!InboxNext
<1>4. CASE DropHandler(p) /\ handler[p] = "persisted"
  <2>1. UNCHANGED <<exists, recorded, delivery, seq, row, inbox, run>>
    BY <1>4 DEF DropHandler, inputVars
  <2>2. StagesOf[p] = "entering" /\ StagesOf' = [StagesOf EXCEPT ![p] = "over"]
    <3>1. handler[p] = "persisted" /\ handler' = [handler EXCEPT ![p] = "lost"]
      BY <1>4 DEF DropHandler
    <3>2. StagesOf' = [StagesOf EXCEPT ![p] = StageOf(p)'] /\ handler'[p] = "lost"
      BY <1>0, <3>1, HandlerStages
    <3>3. StageOf(p) = "entering" /\ StageOf(p)' = "over"
      BY <3>1, <3>2 DEF StageOf
    <3> QED BY <3>2, <3>3 DEF StagesOf
  <2>3. UNCHANGED <<Counts, Hands>>
    BY <2>1 DEF Counts, Hands, InHand
  <2>4. Inbox!Withdraw(p)
    BY <2>1, <2>2, <2>3 DEF Inbox!Withdraw, Inbox!Advance, Counts, StagesOf, Hands
  <2> QED BY <2>4 DEF Inbox!InboxNext
<1>5. CASE InterruptForSteer(p) \/ ScheduleRun(p) \/ (DropHandler(p) /\ handler[p] # "persisted")
  <2>1. UNCHANGED <<exists, recorded, delivery, seq, row, inbox>>
    BY <1>5 DEF InterruptForSteer, ScheduleRun, DropHandler, inputVars
  <2>2. /\ handler[p] \in {"steering", "scheduling"}
        /\ \E h \in {"scheduling", "done", "lost"} : handler' = [handler EXCEPT ![p] = h]
    BY <1>5 DEF InterruptForSteer, ScheduleRun, DropHandler
  <2>3. \A q \in Prompts : StageOf(q)' = StageOf(q)
    BY <1>0, <2>2, HandlerStages DEF StageOf
  <2>4. SameMarking
    <3>1. CASE ScheduleRun(p)
      <4>1. run[p].pc = "none"
        BY <3>1 DEF ScheduleRun, ExclusionInv, TaskAfterHandler
      <4> QED BY <1>0, <3>1, <4>1, OneMarking DEF ScheduleRun, IdleTask, MarkingPCs
    <3>2. CASE InterruptForSteer(p) \/ DropHandler(p)
      BY <3>2 DEF InterruptForSteer, DropHandler, SameMarking
    <3> QED BY <1>5, <3>1, <3>2
  <2> QED BY <2>1, <2>3, <2>4, InboxRests
<1> QED BY <1>1, <1>2, <1>3, <1>4, <1>5 DEF HandlerStep

LEMMA InboxTake ==
  ASSUME ExclusionInv, RowInv, NEW p \in Prompts, InPass(p), run[p].marking = {}, NEW c,
         NEW batch \in SUBSET inbox[SessionOf[p]], Promote(p, batch, c)
  PROVE  Inbox!Take(SessionOf[p], batch)
<1> DEFINE s == SessionOf[p]
<1>1. run[p] \in Tasks /\ s \in Sessions /\ TypeOK /\ batch \in SUBSET Prompts
  BY TasksType DEF ExclusionInv, TypeOK
<1>2. run'[p].marking = batch /\ \A r \in Prompts : r # p => run'[r] = run[r]
  BY <1>1 DEF Promote, Become, Tasks, TypeOK
<1>3. \A q \in batch : SessionOf[q] = s
  BY <1>1 DEF RowInv, OwnInputs
<1>4. Hands' = [Hands EXCEPT ![s] = batch] /\ Hands[s] = {}
  BY <1>1, <1>2, <1>3, HandsMove, OneHand DEF Hands
<1>5. /\ UNCHANGED <<exists, recorded, delivery, seq, row, handler>>
      /\ inbox' = [inbox EXCEPT ![s] = @ \ batch]
  BY DEF Promote
<1>6. UNCHANGED <<Counts, StagesOf>>
  BY <1>5 DEF Counts, StagesOf, StageOf
<1> QED BY <1>4, <1>5, <1>6 DEF Inbox!Take, Inbox!admission, Counts, StagesOf, Hands

LEMMA InboxPass ==
  ASSUME ExclusionInv, RowInv, NEW p \in Prompts, PassStep(p)
  PROVE  Inbox!InboxNext \/ UNCHANGED Inbox!inboxVars
<1> DEFINE s == SessionOf[p]
<1>0. TypeOK /\ s \in Sessions /\ InPass(p) /\ run[p] \in Tasks
  BY TasksType, MoveStepTask, PromotionStepTask, EndingStepTask DEF ExclusionInv, PassStep, InPass
<1>1. CASE MoveStep(p) \/ EndingStep(p)
  <2>1. UNCHANGED <<exists, recorded, delivery, seq, row, inbox, handler>>
    BY <1>0, <1>1, MoveStepTask, EndingStepTask DEF inputVars
  <2> QED BY <1>0, <1>1, <2>1, MoveMarking, InboxRests DEF StageOf
<1>2. CASE PromoteQueued(p)
  <2>1. run[p].pc = "promoteQueued" /\ run[p].marking = {}
    BY <1>2, NothingInHand DEF PromoteQueued, MarkingPCs
  <2>2. CASE Pending(s, "queue") = {}
    <3>1. Promote(p, {}, "promoteSteers")
      BY <1>2, <2>2 DEF PromoteQueued
    <3>2. UNCHANGED <<exists, recorded, delivery, seq, row, handler>> /\ inbox' = inbox
      BY <1>0, <3>1 DEF Promote, TypeOK
    <3>3. SameMarking
      BY <1>0, <2>1, <3>1 DEF Promote, Become, SameMarking, Tasks, TypeOK
    <3> QED BY <3>2, <3>3, InboxRests DEF StageOf
  <2>3. CASE Pending(s, "queue") # {}
    <3>1. PICK q \in NextQueued(s) : Promote(p, {q}, "markQueued")
      BY <1>2, <2>3 DEF PromoteQueued
    <3>2. Inbox!Take(s, {q})
      BY <1>0, <2>1, <3>1, InboxTake DEF NextQueued, Pending
    <3>3. q \in Inbox!Waiting(s, "queue") /\ \A x \in Inbox!Waiting(s, "queue") : seq[q] <= seq[x]
      BY DEF NextQueued, Pending, Inbox!Waiting
    <3>4. Inbox!TakeQueued(s)
      BY <3>2, <3>3 DEF Inbox!TakeQueued
    <3> QED BY <1>0, <3>4 DEF Inbox!InboxNext
  <2> QED BY <2>2, <2>3
<1>3. CASE PromoteSteers(p)
  <2> DEFINE batch == SteersUpTo(s, run[p].cutoff)
  <2>1. run[p].pc = "promoteSteers" /\ run[p].marking = {}
    BY <1>3, NothingInHand DEF PromoteSteers, MarkingPCs
  <2>2. batch \in SUBSET inbox[s] /\ Promote(p, batch, "markSteers")
    BY <1>3 DEF PromoteSteers, SteersUpTo, Pending
  <2>3. Inbox!Take(s, batch)
    BY <1>0, <2>1, <2>2, InboxTake
  <2>4. batch \in SUBSET Inbox!Waiting(s, "steer")
    BY DEF SteersUpTo, Pending, Inbox!Waiting
  <2>5. \A x \in batch, q \in Inbox!Waiting(s, "steer") : seq[q] <= seq[x] => q \in batch
    <3>1. \A q \in inbox[s] : q \in Prompts /\ seq[q] \in Nat
      BY <1>0 DEF TypeOK
    <3>2. run[p].cutoff \in Nat
      BY <1>0 DEF Tasks
    <3> QED BY <3>1, <3>2 DEF SteersUpTo, Pending, Inbox!Waiting
  <2>6. Inbox!TakeSteers(s)
    BY <2>3, <2>4, <2>5 DEF Inbox!TakeSteers
  <2> QED BY <1>0, <2>6 DEF Inbox!InboxNext
<1>4. CASE MarkPromoted(p)
  <2>1. run'[p].marking = {} /\ \A r \in Prompts : r # p => run'[r] = run[r]
    BY <1>0, <1>4 DEF MarkPromoted, Become, Tasks, TypeOK
  <2>2. Hands' = [Hands EXCEPT ![s] = {}] /\ Hands[s] = run[p].marking
    BY <1>0, <2>1, HandsMove, OneHand DEF Hands
  <2>3. UNCHANGED <<exists, recorded, delivery, seq, inbox, handler>>
    BY <1>4 DEF MarkPromoted
  <2>4. UNCHANGED <<Counts, StagesOf>>
    BY <2>3 DEF Counts, StagesOf, StageOf
  <2>5. row' = [q \in Prompts |-> IF q \in Hands[s] /\ row[q] # "none" THEN "promoted" ELSE row[q]]
    BY <1>4, <2>2 DEF MarkPromoted
  <2>6. Inbox!MarkTaken(s)
    BY <2>2, <2>3, <2>4, <2>5 DEF Inbox!MarkTaken, Inbox!admission, Counts, StagesOf, Hands
  <2> QED BY <1>0, <2>6 DEF Inbox!InboxNext
<1> QED BY <1>1, <1>2, <1>3, <1>4 DEF PassStep, PromotionStep

LEMMA InboxEnvironment ==
  ASSUME ExclusionInv, RowInv, Environment
  PROVE  Inbox!InboxNext \/ UNCHANGED Inbox!inboxVars
<1>1. CASE Restart
  <2>1. /\ UNCHANGED <<exists, recorded, delivery, seq, row>>
        /\ inbox' = [s \in Sessions |-> {p \in Prompts : SessionOf[p] = s /\ row[p] = "pending"}]
        /\ \A p \in Prompts :
             handler'[p] = IF handler[p] \in {"idle", "done"} THEN handler[p] ELSE "lost"
    BY <1>1 DEF Restart, Unpromoted
  <2>2. \A r \in Prompts : run'[r].marking = {}
    <3> SUFFICES ASSUME NEW r \in Prompts PROVE run'[r].marking = {}
      OBVIOUS
    <3>1. CASE run[r].pc = "none"
      BY <1>1, <3>1, NothingInHand DEF Restart, MarkingPCs
    <3>2. CASE run[r].pc # "none"
      BY <1>1, <3>2 DEF Restart, IdleTask
    <3> QED BY <3>1, <3>2
  <2>3. Hands' = [s \in Sessions |-> {}]
    BY <2>2 DEF Hands, InHand
  <2>4. UNCHANGED Counts
    BY <2>1 DEF Counts
  <2>5. StagesOf' = [p \in Prompts |-> IF StagesOf[p] = "new" THEN "new" ELSE "over"]
    <3>1. \A p \in Prompts : StageOf(p)' = IF StageOf(p) = "new" THEN "new" ELSE "over"
      BY <2>1 DEF StageOf
    <3> QED BY <3>1 DEF StagesOf
  <2>6. Inbox!Reload
    BY <2>1, <2>3, <2>4, <2>5 DEF Inbox!Reload, Counts, StagesOf, Hands
  <2> QED BY <2>6 DEF Inbox!InboxNext
<1>2. ASSUME NEW s \in Sessions, AbortSession(s) PROVE UNCHANGED Inbox!inboxVars
  <2>1. UNCHANGED <<exists, recorded, delivery, seq, row, inbox, handler, run>>
    BY <1>2 DEF AbortSession, inputVars
  <2> QED BY <2>1, InboxRests DEF StageOf, SameMarking
<1>3. ASSUME NEW s \in Sessions, DeleteSession(s) PROVE Inbox!InboxNext
  <2>1. /\ UNCHANGED <<inbox, delivery, seq, handler, run>> /\ exists[s]
        /\ exists' = [exists EXCEPT ![s] = FALSE]
        /\ recorded' = [recorded EXCEPT ![s] = {}]
        /\ row' = [p \in Prompts |-> IF SessionOf[p] = s THEN "none" ELSE row[p]]
    BY <1>3 DEF DeleteSession
  <2>2. Counts' = [Counts EXCEPT ![s] = 0]
    <3>1. recorded'[s] = {} /\ \A x \in Sessions : x # s => recorded'[x] = recorded[x]
      BY <2>1 DEF ExclusionInv, TypeOK
    <3>2. Counts'[s] = 0 /\ \A x \in Sessions : x # s => Counts'[x] = Counts[x]
      BY <3>1, FS_EmptySet DEF Counts
    <3> QED BY <3>2 DEF Counts
  <2>3. UNCHANGED <<StagesOf, Hands>>
    BY <2>1 DEF StagesOf, StageOf, Hands, InHand
  <2>4. Inbox!Delete(s)
    BY <2>1, <2>2, <2>3 DEF Inbox!Delete, Counts, StagesOf, Hands
  <2> QED BY <2>4 DEF Inbox!InboxNext
<1> QED BY <1>1, <1>2, <1>3 DEF Environment

LEMMA InboxStep ==
  ASSUME ExclusionInv, RowInv, OrderInv, [Next]_vars
  PROVE  [Inbox!InboxNext]_(Inbox!inboxVars)
<1>1. CASE UNCHANGED vars
  BY <1>1, InboxRests DEF vars, SameMarking, StageOf
<1>2. ASSUME NEW p \in Prompts, AcquireRun(p) \/ FinishRun(p) PROVE UNCHANGED Inbox!inboxVars
  <2>1. UNCHANGED <<exists, recorded, delivery, seq, row, inbox, handler>>
    BY <1>2 DEF AcquireRun, FinishRun, inputVars
  <2>2. SameMarking
    BY <1>2, SlotMarking DEF ExclusionInv
  <2> QED BY <2>1, <2>2, InboxRests DEF StageOf
<1>3. CASE Next
  BY <1>2, <1>3, NextCases, InboxHandler, InboxPass, InboxEnvironment
<1> QED BY <1>1, <1>3

(* All tasks, handlers, aborts, deletions and restarts together are one    *)
(* consumer of each inbox, which takes nothing before what it took last is *)
(* marked.                                                                 *)
THEOREM DrainsImplementInbox == Spec => ImplementsInbox
<1>1. Init => Inbox!InboxInit
  <2> SUFFICES ASSUME Init PROVE Inbox!InboxInit
    OBVIOUS
  <2>1. Counts = [s \in Sessions |-> 0]
    BY FS_EmptySet DEF Init, Counts
  <2>2. StagesOf = [p \in Prompts |-> "new"]
    BY DEF Init, StagesOf, StageOf
  <2>3. Hands = [s \in Sessions |-> {}]
    BY DEF Init, Hands, InHand, IdleTask
  <2> QED BY <2>1, <2>2, <2>3 DEF Init, Inbox!InboxInit, Counts, StagesOf, Hands
<1>2. ExclusionInv /\ RowInv /\ OrderInv /\ [Next]_vars => ExclusionInv' /\ RowInv' /\ OrderInv'
  BY ExclusionNext, RowNext, OrderNext
<1>3. ExclusionInv /\ RowInv /\ OrderInv /\ [Next]_vars => [Inbox!InboxNext]_(Inbox!inboxVars)
  BY InboxStep
<1> QED BY <1>1, <1>2, <1>3, ExclusionInit, RowInit, OrderInit, PTL
        DEF Spec, ImplementsInbox, Inbox!InboxSpec
=============================================================================
