---------------------------- MODULE SessionRuns ----------------------------
(***************************************************************************)
(* How oc-server admits prompts to a session and drives provider turns     *)
(* over them.  Three kinds of process touch a session concurrently:        *)
(*                                                                         *)
(*   - the HTTP handler of a prompt (`session_prompt`), which records the  *)
(*     message, enqueues it, interrupts a running turn when the prompt is  *)
(*     a steer, and spawns a scheduler task;                               *)
(*   - the scheduler task of that prompt (`schedule_session_run`), which   *)
(*     takes the session's single runner slot or marks it for a rerun, and *)
(*     then runs passes of the drain loop `SessionRunnerService::run`;     *)
(*   - the environment: abort, delete, a dropped connection, a crash and   *)
(*     restart of the server, a declined tool, a failing provider.         *)
(*                                                                         *)
(* One step of the model is the code between two lock acquisitions or      *)
(* awaits.  A message is the prompt it carries; assistant messages are     *)
(* left out, so a sequence number counts the prompts recorded so far: the  *)
(* code only ever compares sequence numbers of prompts with a cutoff read  *)
(* from the same list, and appending other messages keeps that order.      *)
(***************************************************************************)
EXTENDS Naturals, FiniteSets

CONSTANTS
  Sessions,     \* session ids
  Prompts,      \* prompts that may be submitted, one handler and one task each
  SessionOf,    \* the session a prompt is addressed to
  MaxSteps,     \* agent.info.steps: the last step of an activity has no tools
  MaxRetries,   \* provider retries per turn (the code's literal 3)
  MaxRestarts,  \* bound: crashes of the server
  Faults        \* environment events enabled, a subset of FaultKinds

FaultKinds == {"abort", "delete", "disconnect", "restart", "decline", "fail"}

ASSUME SessionRunsAssumption ==
  /\ SessionOf \in [Prompts -> Sessions]
  /\ IsFiniteSet(Prompts)
  /\ MaxSteps \in Nat \ {0}
  /\ MaxRetries \in Nat
  /\ MaxRestarts \in Nat
  /\ Faults \subseteq FaultKinds

VARIABLES
  slot,       \* session_runs: session -> [token, rerun], token 0 when absent
  issued,     \* number of cancellation tokens created for the session so far
  cancelled,  \* the session's live tokens that have been cancelled
  exists,     \* stores.sessions contains the session
  recorded,   \* the session's messages, as the set of prompts among them
  inbox,      \* pending_inputs: session -> prompts admitted, not promoted
  row,        \* session_input table: "none", "pending" or "promoted"
  delivery,   \* "steer" or "queue"
  seq,        \* admitted_seq
  handler,    \* program counter of the prompt's HTTP handler
  run,        \* the scheduler task of the prompt: see Tasks
  before,     \* history: prompts fully admitted when this one was recorded
  answered,   \* history: prompts in the context of a turn that completed
  faulted,    \* history: a drain of the session was cut short
  restarts    \* history: crashes so far

sessionVars == <<slot, issued, cancelled>>
inputVars   == <<exists, recorded, inbox, row, delivery, seq>>
historyVars == <<before, answered, faulted, restarts>>
vars == <<slot, issued, cancelled, exists, recorded, inbox, row, delivery, seq,
          handler, run, before, answered, faulted, restarts>>

Deliveries == {"steer", "queue"}

(* Handler program counters: the awaits of session_prompt in order; "lost" *)
(* is a handler whose future was dropped or that died with the server.     *)
HandlerPCs == {"idle", "recorded", "persisted", "steering", "scheduling",
               "done", "lost"}

(* Task program counters.  A task between "hasSteer" and "finish" is in a  *)
(* pass: it owns the slot.                                                 *)
TurnPCs == {"attempt", "cutoff", "promoteQueued", "markQueued", "promoteSteers",
            "markSteers", "hide", "read", "prepared", "stream", "backoff"}
PassPCs == {"hasSteer", "hasQueue", "drainSteer", "drainQueue", "finish"}
              \union TurnPCs
TaskPCs == {"none", "spawned", "done"} \union PassPCs

Tasks == [pc        : TaskPCs,
          token     : Nat,                        \* the pass's token
          promotion : Deliveries \union {"none"}, \* `promotion` of run()
          step      : 1 .. MaxSteps,
          retry     : 0 .. MaxRetries,            \* `retry_attempt`
          cutoff    : Nat,                        \* `latest_sequence`
          marking   : SUBSET Prompts,             \* `promoted_rows`
          hidden    : SUBSET Prompts,             \* `pending_ids`
          context   : SUBSET Prompts]             \* history entries read

IdleTask(pc) == [pc |-> pc, token |-> 0, promotion |-> "none", step |-> 1,
                 retry |-> 0, cutoff |-> 0, marking |-> {}, hidden |-> {},
                 context |-> {}]

NoSlot == [token |-> 0, rerun |-> FALSE]

TypeOK ==
  /\ slot \in [Sessions -> [token : Nat, rerun : BOOLEAN]]
  /\ issued \in [Sessions -> Nat]
  /\ cancelled \in [Sessions -> SUBSET Nat]
  /\ exists \in [Sessions -> BOOLEAN]
  /\ recorded \in [Sessions -> SUBSET Prompts]
  /\ inbox \in [Sessions -> SUBSET Prompts]
  /\ row \in [Prompts -> {"none", "pending", "promoted"}]
  /\ delivery \in [Prompts -> Deliveries]
  /\ seq \in [Prompts -> Nat]
  /\ handler \in [Prompts -> HandlerPCs]
  /\ run \in [Prompts -> Tasks]
  /\ before \in [Prompts -> SUBSET Prompts]
  /\ answered \in SUBSET Prompts
  /\ faulted \in [Sessions -> BOOLEAN]
  /\ restarts \in Nat

Init ==
  /\ slot = [s \in Sessions |-> NoSlot]
  /\ issued = [s \in Sessions |-> 0]
  /\ cancelled = [s \in Sessions |-> {}]
  /\ exists = [s \in Sessions |-> TRUE]
  /\ recorded = [s \in Sessions |-> {}]
  /\ inbox = [s \in Sessions |-> {}]
  /\ row = [p \in Prompts |-> "none"]
  /\ delivery = [p \in Prompts |-> "steer"]
  /\ seq = [p \in Prompts |-> 0]
  /\ handler = [p \in Prompts |-> "idle"]
  /\ run = [p \in Prompts |-> IdleTask("none")]
  /\ before = [p \in Prompts |-> {}]
  /\ answered = {}
  /\ faulted = [s \in Sessions |-> FALSE]
  /\ restarts = 0

-----------------------------------------------------------------------------
(* Reading the session state.                                              *)

Held(s) == slot[s].token # 0

InPass(p) == run[p].pc \in PassPCs

Cancelled(p) == run[p].token \in cancelled[SessionOf[p]]

\* pending_session_input
Pending(s, d) == {p \in inbox[s] : delivery[p] = d}

\* latest_session_sequence
LatestSeq(s) == Cardinality(recorded[s])

\* Mutant: the newest queued input first.
NextQueuedNewest(s) ==
  {p \in Pending(s, "queue") : \A q \in Pending(s, "queue") : seq[p] >= seq[q]}

\* the queue input promote_next_session_queue removes
NextQueued(s) ==
  {p \in Pending(s, "queue") : \A q \in Pending(s, "queue") : seq[p] <= seq[q]}

\* Mutant: the cutoff is exclusive.
SteersBelow(s, cutoff) == {p \in Pending(s, "steer") : seq[p] < cutoff}

\* the steers promote_session_steers removes
SteersUpTo(s, cutoff) == {p \in Pending(s, "steer") : seq[p] <= cutoff}

-----------------------------------------------------------------------------
(* The handler of a prompt.                                                *)

\* Under the stores lock: push the message and take its position as sequence.
RecordPrompt(p) ==
  LET s == SessionOf[p] IN
  /\ handler[p] = "idle"
  /\ exists[s]
  /\ recorded' = [recorded EXCEPT ![s] = @ \union {p}]
  /\ seq' = [seq EXCEPT ![p] = Cardinality(recorded'[s])]
  /\ \E d \in Deliveries : delivery' = [delivery EXCEPT ![p] = d]
  /\ handler' = [handler EXCEPT ![p] = "recorded"]
  /\ before' = [before EXCEPT ![p] = {q \in Prompts : handler[q] = "done"}]
  /\ UNCHANGED <<sessionVars, exists, inbox, row, run, answered, faulted, restarts>>

\* enqueue_session_input, first half: upsert the durable row.
PersistInput(p) ==
  /\ handler[p] = "recorded"
  /\ row' = [row EXCEPT ![p] = "pending"]
  /\ handler' = [handler EXCEPT ![p] = "persisted"]
  /\ UNCHANGED <<sessionVars, exists, recorded, inbox, delivery, seq, run,
                 historyVars>>

\* enqueue_session_input, second half: push under the pending_inputs lock.
EnqueueInput(p) ==
  /\ handler[p] = "persisted"
  /\ inbox' = [inbox EXCEPT ![SessionOf[p]] = @ \union {p}]
  /\ handler' = [handler EXCEPT ![p] =
                   IF delivery[p] = "steer" THEN "steering" ELSE "scheduling"]
  /\ UNCHANGED <<sessionVars, exists, recorded, row, delivery, seq, run,
                 historyVars>>

\* Mutant: cancel the turn without a rerun marker.
InterruptOnly(p) ==
  LET s == SessionOf[p] IN
  /\ handler[p] = "steering"
  /\ cancelled' = IF Held(s) THEN [cancelled EXCEPT ![s] = @ \union {slot[s].token}]
                             ELSE cancelled
  /\ handler' = [handler EXCEPT ![p] = "scheduling"]
  /\ UNCHANGED <<slot, issued, inputVars, run, historyVars>>

\* interrupt_session_for_steer: cancel the running pass, keep a rerun marker.
InterruptForSteer(p) ==
  LET s == SessionOf[p] IN
  /\ handler[p] = "steering"
  /\ IF Held(s)
       THEN /\ slot' = [slot EXCEPT ![s].rerun = TRUE]
            /\ cancelled' = [cancelled EXCEPT ![s] = @ \union {slot[s].token}]
       ELSE UNCHANGED <<slot, cancelled>>
  /\ handler' = [handler EXCEPT ![p] = "scheduling"]
  /\ UNCHANGED <<issued, inputVars, run, historyVars>>

\* The scheduler task of the prompt moves on.
Become(p, task) == run' = [run EXCEPT ![p] = task]

Goto(p, pc) == Become(p, [run[p] EXCEPT !.pc = pc])

\* schedule_session_run: spawn the scheduler task.
ScheduleRun(p) ==
  /\ handler[p] = "scheduling"
  /\ Become(p, IdleTask("spawned"))
  /\ handler' = [handler EXCEPT ![p] = "done"]
  /\ UNCHANGED <<sessionVars, inputVars, historyVars>>

HandlerStep(p) ==
  \/ PersistInput(p)
  \/ EnqueueInput(p)
  \/ InterruptForSteer(p)
  \/ ScheduleRun(p)

-----------------------------------------------------------------------------
(* The scheduler task and its passes.                                      *)

\* The task holds token t of a fresh pass.
StartPass(p, t) ==
  Become(p, [IdleTask("hasSteer") EXCEPT !.token = t])

\* Mutant: a busy session is left alone.
AcquireOrLeave(p) ==
  LET s == SessionOf[p] IN
  /\ run[p].pc = "spawned"
  /\ IF Held(s)
       THEN Goto(p, "done") /\ UNCHANGED <<slot, issued>>
       ELSE /\ issued' = [issued EXCEPT ![s] = @ + 1]
            /\ slot' = [slot EXCEPT ![s] = [token |-> issued[s] + 1, rerun |-> FALSE]]
            /\ StartPass(p, issued[s] + 1)
  /\ UNCHANGED <<cancelled, inputVars, handler, historyVars>>

\* Mutant: the slot is not looked at.
AcquireAnyway(p) ==
  LET s == SessionOf[p] IN
  /\ run[p].pc = "spawned"
  /\ issued' = [issued EXCEPT ![s] = @ + 1]
  /\ slot' = [slot EXCEPT ![s] = [token |-> issued[s] + 1, rerun |-> FALSE]]
  /\ StartPass(p, issued[s] + 1)
  /\ UNCHANGED <<cancelled, inputVars, handler, historyVars>>

\* acquire_session_run
AcquireRun(p) ==
  LET s == SessionOf[p] IN
  /\ run[p].pc = "spawned"
  /\ IF Held(s)
       THEN /\ slot' = [slot EXCEPT ![s].rerun = TRUE]
            /\ Goto(p, "done")
            /\ UNCHANGED issued
       ELSE /\ issued' = [issued EXCEPT ![s] = @ + 1]
            /\ slot' = [slot EXCEPT ![s] = [token |-> issued[s] + 1, rerun |-> FALSE]]
            /\ StartPass(p, issued[s] + 1)
  /\ UNCHANGED <<cancelled, inputVars, handler, historyVars>>

\* Mutant: the slot is released before the follow-up pass.
FinishThenRerun(p) ==
  LET s == SessionOf[p] IN
  /\ run[p].pc = "finish"
  /\ cancelled' = [cancelled EXCEPT ![s] = @ \ {slot[s].token}]
  /\ slot' = [slot EXCEPT ![s] = NoSlot]
  /\ IF slot[s].rerun
       THEN /\ issued' = [issued EXCEPT ![s] = @ + 1]
            /\ StartPass(p, issued[s] + 1)
       ELSE /\ Become(p, IdleTask("done"))
            /\ UNCHANGED issued
  /\ UNCHANGED <<inputVars, handler, historyVars>>

\* Mutant: the rerun marker is not reset.
FinishKeepsRerun(p) ==
  LET s == SessionOf[p] IN
  /\ run[p].pc = "finish"
  /\ cancelled' = [cancelled EXCEPT ![s] = @ \ {slot[s].token}]
  /\ IF slot[s].rerun
       THEN StartPass(p, slot[s].token) /\ UNCHANGED slot
       ELSE /\ slot' = [slot EXCEPT ![s] = NoSlot]
            /\ Become(p, IdleTask("done"))
  /\ UNCHANGED <<issued, inputVars, handler, historyVars>>

\* finish_session_run: another pass when a prompt arrived, else release.
FinishRun(p) ==
  LET s == SessionOf[p] IN
  /\ run[p].pc = "finish"
  /\ cancelled' = [cancelled EXCEPT ![s] = @ \ {slot[s].token}]
  /\ IF slot[s].rerun
       THEN /\ issued' = [issued EXCEPT ![s] = @ + 1]
            /\ slot' = [slot EXCEPT ![s] = [token |-> issued[s] + 1, rerun |-> FALSE]]
            /\ StartPass(p, issued[s] + 1)
       ELSE /\ slot' = [slot EXCEPT ![s] = NoSlot]
            /\ Become(p, IdleTask("done"))
            /\ UNCHANGED issued
  /\ UNCHANGED <<inputVars, handler, historyVars>>

\* run(): has_steer decides the first promotion; the pass is always forced.
CheckSteer(p) ==
  /\ run[p].pc = "hasSteer"
  /\ IF Pending(SessionOf[p], "steer") # {}
       THEN Become(p, [run[p] EXCEPT !.promotion = "steer", !.pc = "attempt"])
       ELSE Goto(p, "hasQueue")
  /\ UNCHANGED <<sessionVars, inputVars, handler, historyVars>>

CheckQueue(p) ==
  /\ run[p].pc = "hasQueue"
  /\ Become(p, [run[p] EXCEPT !.pc = "attempt",
                              !.promotion = IF Pending(SessionOf[p], "queue") # {}
                                           THEN "queue" ELSE "none"])
  /\ UNCHANGED <<sessionVars, inputVars, handler, historyVars>>

\* run_turn_attempt loads the session; a deleted one ends the pass.
StartAttempt(p) ==
  /\ run[p].pc = "attempt"
  /\ Goto(p, IF ~exists[SessionOf[p]] THEN "finish"
             ELSE IF run[p].promotion = "none" THEN "hide" ELSE "cutoff")
  /\ UNCHANGED <<sessionVars, inputVars, handler, historyVars>>

\* Only steers recorded by now may be promoted in this attempt.
ReadCutoff(p) ==
  /\ run[p].pc = "cutoff"
  /\ Become(p, [run[p] EXCEPT !.cutoff = LatestSeq(SessionOf[p]),
                              !.pc = IF run[p].promotion = "steer"
                                    THEN "promoteSteers" ELSE "promoteQueued"])
  /\ UNCHANGED <<sessionVars, inputVars, handler, historyVars>>

\* Inputs taken out of the inbox; a promotion restarts the step count.
Promote(p, taken, pc) ==
  LET s == SessionOf[p] IN
  /\ inbox' = [inbox EXCEPT ![s] = @ \ taken]
  /\ Become(p, [run[p] EXCEPT !.pc = pc,
                              !.marking = taken,
                              !.step = IF taken = {} THEN @ ELSE 1])
  /\ UNCHANGED <<sessionVars, exists, recorded, row, delivery, seq, handler,
                 historyVars>>

\* promote_next_session_queue
PromoteQueued(p) ==
  /\ run[p].pc = "promoteQueued"
  /\ IF Pending(SessionOf[p], "queue") = {}
       THEN Promote(p, {}, "promoteSteers")
       ELSE \E q \in NextQueued(SessionOf[p]) : Promote(p, {q}, "markQueued")

\* promote_session_steers
PromoteSteers(p) ==
  /\ run[p].pc = "promoteSteers"
  /\ Promote(p, SteersUpTo(SessionOf[p], run[p].cutoff), "markSteers")

\* Mutant: only steers are marked.
MarkSteersOnly(p) ==
  /\ run[p].pc \in {"markQueued", "markSteers"}
  /\ row' = [q \in Prompts |->
               IF q \in run[p].marking /\ row[q] # "none" /\ delivery[q] = "steer"
                 THEN "promoted" ELSE row[q]]
  /\ Become(p, [run[p] EXCEPT
       !.marking = {},
       !.pc = IF run[p].pc = "markQueued" THEN "promoteSteers" ELSE "hide"])
  /\ UNCHANGED <<sessionVars, exists, recorded, inbox, delivery, seq, handler,
                 historyVars>>

\* mark_session_inputs_promoted, after the inbox lock is released: an update
\* of the rows that are there.
MarkPromoted(p) ==
  /\ run[p].pc \in {"markQueued", "markSteers"}
  /\ row' = [q \in Prompts |->
               IF q \in run[p].marking /\ row[q] # "none" THEN "promoted" ELSE row[q]]
  /\ Become(p, [run[p] EXCEPT
       !.marking = {},
       !.pc = IF run[p].pc = "markQueued" THEN "promoteSteers" ELSE "hide"])
  /\ UNCHANGED <<sessionVars, exists, recorded, inbox, delivery, seq, handler,
                 historyVars>>

\* entries_for_runner reads the pending ids first ...
ReadPendingIds(p) ==
  /\ run[p].pc = "hide"
  /\ Become(p, [run[p] EXCEPT !.hidden = inbox[SessionOf[p]], !.pc = "read"])
  /\ UNCHANGED <<sessionVars, inputVars, handler, historyVars>>

\* ... and then the messages, without the pending ones.
ReadHistory(p) ==
  /\ run[p].pc = "read"
  /\ Become(p, [run[p] EXCEPT !.context = recorded[SessionOf[p]] \ run[p].hidden,
                              !.hidden = {}, !.cutoff = 0, !.pc = "prepared"])
  /\ UNCHANGED <<sessionVars, inputVars, handler, historyVars>>

\* compact_if_needed: the attempt starts over and promotes nothing.
CompactAndRestart(p) ==
  /\ run[p].pc = "prepared"
  /\ Become(p, [run[p] EXCEPT !.promotion = "none", !.context = {}, !.pc = "attempt"])
  /\ UNCHANGED <<sessionVars, inputVars, handler, historyVars>>

BeginStream(p) ==
  /\ run[p].pc = "prepared"
  /\ Goto(p, "stream")
  /\ UNCHANGED <<sessionVars, inputVars, handler, historyVars>>

\* Steps are only ever compared with agent.info.steps, so they stop there.
NextStep(n) == IF n < MaxSteps THEN n + 1 ELSE MaxSteps

\* The loop of run() after a turn: `continue` is needs_continuation.  Tools
\* are offered before the last step only, so only there may a turn continue.
AfterTurn(p, continue) ==
  /\ continue => run[p].step < MaxSteps
  /\ Become(p, [run[p] EXCEPT
       !.pc = IF continue THEN "attempt" ELSE "drainSteer",
       !.promotion = "steer",
       !.step = NextStep(@),
       !.retry = 0,
       !.context = {}])

\* The provider stream ended and every tool call of the turn settled.
TurnCompletes(p) ==
  /\ run[p].pc = "stream"
  /\ \E continue \in BOOLEAN : AfterTurn(p, continue)
  /\ answered' = answered \union run[p].context
  /\ UNCHANGED <<sessionVars, inputVars, handler, before, faulted, restarts>>

\* The select on the token wins.  With a tool call in flight the turn is
\* Interrupted and the pass returns; without one the turn counts as done and
\* the loop goes on under the cancelled token.
TurnInterrupted(p) ==
  /\ run[p].pc = "stream"
  /\ Cancelled(p)
  /\ \/ \E continue \in BOOLEAN : AfterTurn(p, continue)
     \/ /\ run[p].step < MaxSteps
        /\ Become(p, [run[p] EXCEPT !.pc = "finish", !.context = {}])
  /\ UNCHANGED <<sessionVars, inputVars, handler, historyVars>>

\* A retryable provider error: publish Retried, then sleep or be cancelled.
RetryLater(p) ==
  /\ run[p].pc = "stream"
  /\ run[p].retry < MaxRetries
  /\ Become(p, [run[p] EXCEPT !.pc = "backoff", !.retry = @ + 1,
                              !.promotion = "none", !.context = {}])
  /\ UNCHANGED <<sessionVars, inputVars, handler, historyVars>>

BackoffEnds(p) ==
  /\ run[p].pc = "backoff"
  /\ \/ Goto(p, "attempt")
     \/ Cancelled(p) /\ Goto(p, "finish")
  /\ UNCHANGED <<sessionVars, inputVars, handler, historyVars>>

\* run(): a steer that arrived during the turn continues the activity.
CheckSteerAgain(p) ==
  /\ run[p].pc = "drainSteer"
  /\ Goto(p, IF Pending(SessionOf[p], "steer") # {} THEN "attempt" ELSE "drainQueue")
  /\ UNCHANGED <<sessionVars, inputVars, handler, historyVars>>

\* run(): the next queued input opens a new activity.
CheckQueueAgain(p) ==
  /\ run[p].pc = "drainQueue"
  /\ Become(p, [run[p] EXCEPT
       !.pc = IF Pending(SessionOf[p], "queue") # {} THEN "attempt" ELSE "finish",
       !.step = 1,
       !.promotion = IF Pending(SessionOf[p], "queue") # {} THEN "queue" ELSE "none"])
  /\ UNCHANGED <<sessionVars, inputVars, handler, historyVars>>

TaskStep(p) ==
  \/ AcquireRun(p)     \/ FinishRun(p)
  \/ CheckSteer(p)     \/ CheckQueue(p)
  \/ StartAttempt(p)   \/ ReadCutoff(p)
  \/ PromoteQueued(p)  \/ PromoteSteers(p)
  \/ MarkPromoted(p)   \/ ReadPendingIds(p)    \/ ReadHistory(p)
  \/ CompactAndRestart(p) \/ BeginStream(p)
  \/ TurnCompletes(p)  \/ TurnInterrupted(p)   \/ RetryLater(p)
  \/ BackoffEnds(p)    \/ CheckSteerAgain(p)   \/ CheckQueueAgain(p)

-----------------------------------------------------------------------------
(* What cuts a drain short.                                                *)

Cut(s) == faulted' = [faulted EXCEPT ![s] = TRUE]

\* A permission or question of a tool call is rejected: the turn returns
\* Interrupted, and run() returns without another look at the inbox.
TurnDeclined(p) ==
  /\ "decline" \in Faults
  /\ run[p].pc = "stream"
  /\ run[p].step < MaxSteps
  /\ Become(p, [run[p] EXCEPT !.pc = "finish", !.context = {}])
  /\ Cut(SessionOf[p])
  /\ UNCHANGED <<sessionVars, inputVars, handler, before, answered, restarts>>

\* A provider error that is not retried, or any other RunError: run() returns.
TurnFails(p) ==
  /\ "fail" \in Faults
  /\ run[p].pc = "stream"
  /\ Become(p, [run[p] EXCEPT !.pc = "finish", !.context = {}])
  /\ Cut(SessionOf[p])
  /\ UNCHANGED <<sessionVars, inputVars, handler, before, answered, restarts>>

\* session_abort, session_interrupt: cancel_session_run.
AbortSession(s) ==
  /\ "abort" \in Faults
  /\ exists[s]
  /\ Held(s)
  /\ slot' = [slot EXCEPT ![s].rerun = FALSE]
  /\ cancelled' = [cancelled EXCEPT ![s] = @ \union {slot[s].token}]
  /\ Cut(s)
  /\ UNCHANGED <<issued, inputVars, handler, run, before, answered, restarts>>

\* session_delete: the record and its rows go, the slot and the inbox stay.
DeleteSession(s) ==
  /\ "delete" \in Faults
  /\ exists[s]
  /\ exists' = [exists EXCEPT ![s] = FALSE]
  /\ recorded' = [recorded EXCEPT ![s] = {}]
  /\ row' = [p \in Prompts |-> IF SessionOf[p] = s THEN "none" ELSE row[p]]
  /\ Cut(s)
  /\ UNCHANGED <<sessionVars, inbox, delivery, seq, handler, run, before,
                 answered, restarts>>

\* The client goes away and the handler's future is dropped at an await.
DropHandler(p) ==
  /\ "disconnect" \in Faults
  /\ handler[p] \in {"persisted", "steering", "scheduling"}
  /\ handler' = [handler EXCEPT ![p] = "lost"]
  /\ Cut(SessionOf[p])
  /\ UNCHANGED <<sessionVars, inputVars, run, before, answered, restarts>>

\* Mutant: promoted_seq is not looked at.
AllRows(s) == {p \in Prompts : SessionOf[p] = s /\ row[p] # "none"}

\* the rows load_persisted_sessions turns into pending inputs
Unpromoted(s) == {p \in Prompts : SessionOf[p] = s /\ row[p] = "pending"}

\* The server dies and load_persisted_sessions rebuilds the inbox from the
\* rows not yet promoted.  Nothing is scheduled for what it finds.
Restart ==
  /\ "restart" \in Faults
  /\ restarts < MaxRestarts
  /\ restarts' = restarts + 1
  /\ slot' = [s \in Sessions |-> NoSlot]
  /\ cancelled' = [s \in Sessions |-> {}]
  /\ issued' = [s \in Sessions |-> 0]
  /\ inbox' = [s \in Sessions |-> Unpromoted(s)]
  /\ handler' = [p \in Prompts |->
                   IF handler[p] \in {"idle", "done"} THEN handler[p] ELSE "lost"]
  /\ run' = [p \in Prompts |->
               IF run[p].pc = "none" THEN run[p] ELSE IdleTask("done")]
  /\ faulted' = [s \in Sessions |-> TRUE]
  /\ UNCHANGED <<exists, recorded, row, delivery, seq, before, answered>>

-----------------------------------------------------------------------------
Next ==
  \/ \E p \in Prompts : \/ RecordPrompt(p) \/ HandlerStep(p) \/ TaskStep(p)
                        \/ TurnDeclined(p) \/ TurnFails(p) \/ DropHandler(p)
  \/ \E s \in Sessions : AbortSession(s) \/ DeleteSession(s)
  \/ Restart

Spec == Init /\ [][Next]_vars

(***************************************************************************)
(* Handlers and tasks are polled by the tokio scheduler until they finish, *)
(* and a provider stream ends.  An attempt is not compacted forever.       *)
(***************************************************************************)
Fairness ==
  \A p \in Prompts : /\ WF_vars(HandlerStep(p))
                     /\ WF_vars(TaskStep(p))
                     /\ SF_vars(BeginStream(p))

FairSpec == Spec /\ Fairness
-----------------------------------------------------------------------------
(* Properties.                                                             *)

(* A session has at most one task in a pass, it owns the slot under its    *)
(* own token, and an owned slot has such a task: acquire_session_run is a  *)
(* mutual exclusion that is never leaked.                                  *)
OneRunnerPerSession ==
  \A s \in Sessions :
    LET running == {p \in Prompts : SessionOf[p] = s /\ InPass(p)} IN
    /\ Held(s) <=> running # {}
    /\ \A p, q \in running : p = q
    /\ \A p \in running : run[p].token = slot[s].token

(* Somebody is still going to schedule a pass for prompt p.                *)
Scheduling(p) == handler[p] \in {"steering", "scheduling"} \/ run[p].pc = "spawned"

(* An admitted prompt is never left in the inbox of an idle session, with  *)
(* nobody about to start a pass, unless a drain was cut short: the rerun   *)
(* marker of acquire_session_run closes every window in which the running  *)
(* pass has already looked at the inbox for the last time.                 *)
NoStrandedInput ==
  \A s \in Sessions :
    inbox[s] # {} /\ ~Held(s) /\ ~faulted[s]
      => \E p \in Prompts : SessionOf[p] = s /\ Scheduling(p)

(* A pass interrupted by a steer is always followed by another one: the    *)
(* token of a held slot is cancelled without a rerun marker only by abort. *)
SteerKeepsRerun ==
  \A s \in Sessions :
    Held(s) /\ slot[s].token \in cancelled[s] /\ ~faulted[s] => slot[s].rerun

(* The durable rows and the inbox agree: a row is pending exactly while    *)
(* its input is in the inbox, is being pushed by its handler, is being     *)
(* marked by the pass that took it, or its handler was dropped between the *)
(* two halves of enqueue_session_input.                                    *)
RowsMatchInbox ==
  \A p \in Prompts :
    LET s == SessionOf[p] IN
    exists[s] =>
      /\ p \in inbox[s] => row[p] = "pending"
      /\ row[p] = "pending" =>
           \/ p \in inbox[s]
           \/ handler[p] \in {"persisted", "lost"}
           \/ \E r \in Prompts : SessionOf[r] = s /\ p \in run[r].marking

(* A queued prompt whose request had been answered before another one was  *)
(* recorded is also promoted before it.                                    *)
QueueOrder ==
  \A q \in Prompts : \A p \in before[q] :
    /\ SessionOf[p] = SessionOf[q]
    /\ delivery[p] = "queue" /\ delivery[q] = "queue"
    /\ row[q] = "promoted"
    => p \notin inbox[SessionOf[p]]

(* A prompt a completed turn has answered does not come back into the      *)
(* inbox, not even through a restart, once its promotion is marked.        *)
AnsweredNotReplayed ==
  [][\A p \in answered :
       LET s == SessionOf[p] IN
       /\ p \notin inbox[s]
       /\ handler[p] = "done"
       /\ \A r \in Prompts : p \notin run[r].marking
       => p \notin inbox'[s]]_vars

(* The inbox as its callers see it: how far a handler has brought its      *)
(* prompt in, and what is in the hands of the passes of a session.         *)
StageOf(p) ==
  CASE handler[p] = "idle"      -> "new"
    [] handler[p] = "recorded"  -> "recorded"
    [] handler[p] = "persisted" -> "entering"
    [] OTHER                    -> "over"

InHand(s) == {p \in Prompts : SessionOf[p] = s /\ \E r \in Prompts : p \in run[r].marking}

Inbox == INSTANCE SessionInbox WITH
  count <- [s \in Sessions |-> Cardinality(recorded[s])],
  stage <- [p \in Prompts |-> StageOf(p)],
  taken <- [s \in Sessions |-> InHand(s)]

(* However many tasks and handlers work on a session, its inbox is the     *)
(* queue of one consumer: a drain takes inputs only when every input taken *)
(* before has been marked, by whichever task that was.                     *)
ImplementsInbox == Inbox!InboxSpec

(* Every recorded prompt is eventually in the context of a turn that       *)
(* completes, unless a drain of its session is cut short.                  *)
EveryPromptAnswered ==
  \A p \in Prompts :
    handler[p] = "recorded" ~> (p \in answered \/ faulted[SessionOf[p]])

(* No drain goes on for ever: whatever is submitted, aborted or fails, the *)
(* session's slot is released again and again.                             *)
SlotReleased == \A s \in Sessions : []<>(~Held(s))

(* The test server_history_holds_unpromoted_input_out_of_provider_context: *)
(* a prompt that has not been promoted is not in what the provider sees.   *)
ContextOnlyPromoted ==
  \A r \in Prompts : run[r].pc = "stream" =>
    \A p \in run[r].context : row[p] = "promoted"
=============================================================================
