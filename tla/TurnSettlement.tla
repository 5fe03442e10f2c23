--------------------------- MODULE TurnSettlement ---------------------------
(***************************************************************************)
(* How the tool calls of a session's turns are settled.  A drain of the    *)
(* runner (llm.rs) makes provider requests; the stream of one publishes    *)
(* events through the publisher of its turn, and every local call starts a *)
(* fiber that runs the tool and publishes its result.  After the stream    *)
(* the runner joins the fibers, fails what is left unsettled and ends or   *)
(* fails the step.  The server's event bus (runner.rs) emits each event to *)
(* the durable log and projects it onto the open turn, which becomes a     *)
(* message of the session when its step ends or fails.                     *)
(*                                                                         *)
(* What the runner publishes is one step: it awaits each publication.  A   *)
(* fiber settles its call in the publisher (under the state lock) and then *)
(* publishes; an abort may end it in between, and does not stop it before  *)
(* it next waits.  Promotion, compaction before a request and the run's    *)
(* slot are in SessionRuns.                                                *)
(***************************************************************************)
EXTENDS Integers

CONSTANTS
  Calls,       \* tool calls; each has an id of its own
  MaxTurns,    \* bound: provider requests
  MaxDrains    \* bound: drains of the session

ASSUME TurnSettlementAssumption ==
  /\ MaxTurns \in Nat
  /\ MaxDrains \in Nat

VARIABLES
  run,        \* the drain and its turn
  cancelled,  \* the drain's token
  publisher,  \* the flags of the turn's publisher
  tool,       \* the publisher's entries for calls
  fiber,      \* the fibers of local calls
  log,        \* durable events: how often a call was settled and recovered
  open,       \* the turn that is projected and not stored yet
  messages    \* the stored assistant messages

vars == <<run, cancelled, publisher, tool, fiber, log, open, messages>>

Statuses == {"none", "pending", "running", "settled"}
FiberPCs == {"none", "executing", "publishing", "over"}
Live == {"executing", "publishing"}

Runs ==
  [pc       : {"idle", "ready", "streaming", "closed", "joining", "joined", "settled"},
   drain    : 0 .. MaxDrains,
   first    : 0 .. MaxTurns,  \* the first turn since the drain began or recovered
   turn     : 0 .. MaxTurns,
   recovers : BOOLEAN,   \* recover_overflow
   tools    : BOOLEAN,   \* the request advertises tools
   more     : BOOLEAN,   \* needs_continuation
   overflow : BOOLEAN,   \* overflow_failure
   stream   : {"open", "left", "completed", "failed", "interrupted"},
   joined   : {"none", "ok", "failed", "declined", "interrupted"}]

Publishers == [started : BOOLEAN, active : BOOLEAN, stepFailed : BOOLEAN,
               providerFailed : BOOLEAN, finished : BOOLEAN]
Entries == [turn : 0 .. MaxTurns, stage : {"none", "input", "local", "hosted"}, settled : BOOLEAN]
FiberStates == [pc : FiberPCs, aborted : BOOLEAN,
                result : {"none", "ok", "failed", "declined", "interrupted"}]
Turns == [turn : 0 .. MaxTurns, tools : [Calls -> Statuses]]
Messages == [turn : 0 .. MaxTurns, finish : {"stop", "error"}, tools : [Calls -> Statuses]]

TypeOK ==
  /\ run \in Runs
  /\ cancelled \in BOOLEAN
  /\ publisher \in Publishers
  /\ tool \in [Calls -> Entries]
  /\ fiber \in [Calls -> FiberStates]
  /\ log \in [Calls -> [settled : Nat, recovered : 0 .. 1]]
  /\ open \in Turns
  /\ messages \subseteq Messages

NoTools == [c \in Calls |-> "none"]
NoTurn == [turn |-> 0, tools |-> NoTools]

NewPublisher == [started |-> FALSE, active |-> FALSE, stepFailed |-> FALSE,
                 providerFailed |-> FALSE, finished |-> FALSE]

Init ==
  /\ run = [pc |-> "idle", drain |-> 0, first |-> 0, turn |-> 0, recovers |-> TRUE, tools |-> TRUE,
            more |-> FALSE, overflow |-> FALSE, stream |-> "open", joined |-> "none"]
  /\ cancelled = FALSE
  /\ publisher = NewPublisher
  /\ tool = [c \in Calls |-> [turn |-> 0, stage |-> "none", settled |-> FALSE]]
  /\ fiber = [c \in Calls |-> [pc |-> "none", aborted |-> FALSE, result |-> "none"]]
  /\ log = [c \in Calls |-> [settled |-> 0, recovered |-> 0]]
  /\ open = NoTurn
  /\ messages = {}

-----------------------------------------------------------------------------
(* The publisher and the projection.                                       *)

\* The publisher's getters try the state lock, and answer as for a new
\* publisher while a fiber holds it.
Contended == \E c \in Calls : fiber[c].pc = "executing"
Seen(flag) == {flag} \union {f \in {FALSE} : Contended}

\* start_assistant: Step.Started opens the turn, in place of an older one.
Started(pub) == IF pub.started THEN pub ELSE [pub EXCEPT !.started = TRUE, !.active = TRUE]
Opened == IF publisher.started THEN open ELSE [turn |-> run.turn, tools |-> NoTools]

\* A call is recorded in the open turn, if there is one; what settles it
\* reaches the open turn only if this has the call.
Recorded(turn, c, status) == IF turn.turn = 0 THEN turn ELSE [turn EXCEPT !.tools[c] = status]
Projected(turn, calls) ==
  [turn EXCEPT !.tools =
     [c \in Calls |-> IF c \in calls /\ turn.tools[c] # "none" THEN "settled" ELSE turn.tools[c]]]

\* Mutant: the calls that have been settled are not left out.
UnsettledOrNot == {c \in Calls : tool[c].turn = run.turn /\ tool[c].stage # "none"}

Unsettled == {c \in Calls : tool[c].turn = run.turn /\ tool[c].stage # "none" /\ ~tool[c].settled}
Hosted == {c \in Calls : tool[c].stage = "hosted"}   \* provider_executed

Settled(calls) == [c \in Calls |-> IF c \in calls THEN [tool[c] EXCEPT !.settled = TRUE] ELSE tool[c]]
Logged(calls) == [c \in Calls |-> IF c \in calls THEN [log[c] EXCEPT !.settled = @ + 1] ELSE log[c]]

\* fail_unsettled_tools, followed by fail_assistant if it fails the step.
FailUnsettled(calls, failsStep) ==
  LET unsettled == Unsettled \intersect calls
      turn      == Projected(open, unsettled)
      last      == IF publisher.started THEN turn ELSE [turn |-> run.turn, tools |-> NoTools]
  IN
  /\ tool' = Settled(unsettled)
  /\ log' = Logged(unsettled)
  /\ IF failsStep /\ ~publisher.stepFailed
       THEN /\ messages' = messages \union {[turn |-> run.turn, finish |-> "error", tools |-> last.tools]}
            /\ open' = NoTurn
       ELSE /\ open' = turn
            /\ UNCHANGED messages

FailedStep(pub) ==
  IF pub.stepFailed THEN pub ELSE [Started(pub) EXCEPT !.active = FALSE, !.stepFailed = TRUE]

\* abort_all.
Aborted ==
  [c \in Calls |-> IF tool[c].turn = run.turn /\ fiber[c].pc \in Live
                     THEN [fiber[c] EXCEPT !.aborted = TRUE] ELSE fiber[c]]

\* The turn is over: its locals, its publisher's flags and its JoinSet with
\* what is in it are dropped; fibers that are left have the tools' entries.
Leave(fibers, turn) ==
  /\ run' = [turn EXCEPT !.tools = TRUE, !.more = FALSE, !.overflow = FALSE, !.stream = "open", !.joined = "none"]
  /\ publisher' = NewPublisher
  /\ fiber' = [c \in Calls |-> [fibers[c] EXCEPT !.result = "none"]]

-----------------------------------------------------------------------------
(* The start of a drain and of a turn.                                     *)

\* fail_interrupted_tools publishes a failure for every unsettled tool of
\* the stored messages; no turn is open that it could be projected onto.
BeginDrain ==
  /\ run.pc = "idle"
  /\ run.drain < MaxDrains
  /\ run.turn < MaxTurns
  /\ run' = [run EXCEPT !.pc = "ready", !.drain = @ + 1, !.first = run.turn + 1, !.recovers = TRUE]
  /\ cancelled' = FALSE
  /\ open' = NoTurn
  /\ log' = [c \in Calls |->
       IF \E m \in messages : m.tools[c] \in {"pending", "running"}
         THEN [log[c] EXCEPT !.recovered = 1] ELSE log[c]]
  /\ UNCHANGED <<publisher, tool, fiber, messages>>

\* The last step of an agent advertises no tools.
StartTurn ==
  /\ run.pc = "ready"
  /\ run.turn < MaxTurns
  /\ \E tools \in BOOLEAN :
       run' = [run EXCEPT !.pc = "streaming", !.turn = @ + 1, !.tools = tools]
  /\ UNCHANGED <<cancelled, publisher, tool, fiber, log, open, messages>>

-----------------------------------------------------------------------------
(* The events of the stream.                                               *)

\* After an error of the provider the next event ends the loop.
Streaming == run.pc = "streaming" /\ FALSE \in Seen(publisher.providerFailed) /\ ~run.overflow

TextStarts ==
  /\ Streaming
  /\ ~publisher.started
  /\ publisher' = Started(publisher)
  /\ open' = Opened
  /\ UNCHANGED <<run, cancelled, tool, fiber, log, messages>>

ToolInputStarts(c) ==
  /\ Streaming
  /\ tool[c].stage = "none"
  /\ tool' = [tool EXCEPT ![c].turn = run.turn, ![c].stage = "input"]
  /\ publisher' = Started(publisher)
  /\ open' = Recorded(Opened, c, "pending")
  /\ UNCHANGED <<run, cancelled, fiber, log, messages>>

Callable(c) == \/ tool[c].stage = "none"
               \/ tool[c].stage = "input" /\ tool[c].turn = run.turn

\* The call is recorded; a local one is executed by a fiber.
ToolCalled(c, stage) ==
  /\ Streaming
  /\ Callable(c)
  /\ stage = "hosted" \/ run.tools
  /\ tool' = [tool EXCEPT ![c].turn = run.turn, ![c].stage = stage]
  /\ publisher' = Started(publisher)
  /\ open' = Recorded(Opened, c, "running")
  /\ IF stage = "hosted" THEN UNCHANGED <<run, fiber>>
       ELSE /\ run' = [run EXCEPT !.more = TRUE]
            /\ fiber' = [fiber EXCEPT ![c].pc = "executing"]
  /\ UNCHANGED <<cancelled, log, messages>>

\* A local call without tools: it fails, with every other unsettled one.
DisabledToolCalled(c) ==
  LET failed == Unsettled \union {d \in {c} : ~tool[c].settled} IN
  /\ Streaming
  /\ ~run.tools
  /\ Callable(c)
  /\ tool' = [Settled(failed) EXCEPT ![c].turn = run.turn, ![c].stage = "local"]
  /\ log' = Logged(failed)
  /\ publisher' = Started(publisher)
  /\ open' = Projected(Recorded(Opened, c, "running"), failed)
  /\ UNCHANGED <<run, cancelled, fiber, messages>>

HostedResult(c) ==
  /\ Streaming
  /\ c \in Unsettled \intersect Hosted
  /\ tool' = Settled({c})
  /\ log' = Logged({c})
  /\ open' = Projected(open, {c})
  /\ UNCHANGED <<run, cancelled, publisher, fiber, messages>>

StepFinishes ==
  /\ Streaming
  /\ ~publisher.finished
  /\ publisher' = [publisher EXCEPT !.active = FALSE, !.finished = TRUE]
  /\ UNCHANGED <<run, cancelled, tool, fiber, log, open, messages>>

\* A provider error fails the step; an overflow may be recovered from.
ProviderErrs ==
  /\ Streaming
  /\ publisher' = [FailedStep(publisher) EXCEPT !.providerFailed = TRUE]
  /\ FailUnsettled({}, TRUE)
  /\ UNCHANGED <<run, cancelled, fiber>>

ContextOverflows ==
  /\ Streaming
  /\ FALSE \in Seen(publisher.started)
  /\ run' = [run EXCEPT !.overflow = TRUE]
  /\ UNCHANGED <<cancelled, publisher, tool, fiber, log, open, messages>>

\* An event the publisher refuses ends the drain and drops the fibers.
BadEvent ==
  /\ Streaming
  /\ Leave(Aborted, [run EXCEPT !.pc = "idle"])
  /\ UNCHANGED <<cancelled, tool, log, open, messages>>

StreamEnds(how) ==
  /\ run.pc = "streaming"
  /\ how = "left" => publisher.providerFailed \/ run.overflow
  /\ how = "interrupted" => cancelled
  /\ run' = [run EXCEPT !.pc = "closed", !.stream = how, !.tools = TRUE]
  /\ UNCHANGED <<cancelled, publisher, tool, fiber, log, open, messages>>

-----------------------------------------------------------------------------
(* After the stream.                                                       *)

\* Compaction made room: the turn is made anew, once.
RecoverOverflow ==
  /\ run.pc = "closed"
  /\ run.recovers
  /\ run.turn < MaxTurns
  /\ run.overflow \/ run.stream = "failed"
  /\ FALSE \in Seen(publisher.started)
  /\ Leave(Aborted, [run EXCEPT !.pc = "ready", !.first = run.turn + 1, !.recovers = FALSE])
  /\ UNCHANGED <<cancelled, tool, log, open, messages>>

\* An overflow that remains, or an error of the stream, fails the step.
CloseStream ==
  /\ run.pc = "closed"
  /\ \E failed \in Seen(publisher.providerFailed \/ run.overflow) :
       LET streamFailed == run.stream = "failed" /\ ~failed
           failsStep    == run.overflow \/ streamFailed
       IN
       /\ FailUnsettled(IF streamFailed THEN Hosted ELSE {}, failsStep)
       /\ publisher' = [(IF failsStep THEN FailedStep(publisher) ELSE publisher)
                         EXCEPT !.providerFailed = @ \/ run.overflow]
  /\ fiber' = IF run.stream = "interrupted" THEN Aborted ELSE fiber
  /\ run' = [run EXCEPT !.pc = "joining"]
  /\ UNCHANGED cancelled

Fibers == {c \in Calls : tool[c].turn = run.turn /\ fiber[c].pc # "none"}

\* Mutant: the fibers that are still running are not awaited.
JoinFinished ==
  /\ run.pc = "joining"
  /\ \A c \in Fibers : fiber[c].result \notin {"declined", "interrupted"}
  /\ run' = [run EXCEPT !.pc = "joined",
               !.joined = IF \E c \in Fibers : fiber[c].result = "failed" THEN "failed" ELSE "ok"]
  /\ UNCHANGED <<cancelled, publisher, tool, fiber, log, open, messages>>

\* await_tool_fibers goes on over failures, and stops at the first fiber
\* that was declined, or interrupted, which an aborted one is too.
JoinAll ==
  /\ run.pc = "joining"
  /\ \A c \in Fibers : fiber[c].pc = "over" /\ fiber[c].result \in {"ok", "failed"}
  /\ run' = [run EXCEPT !.pc = "joined",
               !.joined = IF \E c \in Fibers : fiber[c].result = "failed" THEN "failed" ELSE "ok"]
  /\ UNCHANGED <<cancelled, publisher, tool, fiber, log, open, messages>>

StopJoining(c) ==
  /\ run.pc = "joining"
  /\ c \in Fibers
  /\ fiber[c].pc = "over"
  /\ fiber[c].result \in {"declined", "interrupted"}
  /\ run' = [run EXCEPT !.pc = "joined",
               !.joined = fiber[c].result]
  /\ fiber' = Aborted
  /\ UNCHANGED <<cancelled, publisher, tool, log, open, messages>>

\* A declined tool ends the drain; the step neither ends nor fails.
TurnDeclined ==
  /\ run.pc = "joined"
  /\ run.joined = "declined"
  /\ FailUnsettled(Calls, FALSE)
  /\ Leave(Aborted, [run EXCEPT !.pc = "idle"])
  /\ UNCHANGED cancelled

\* Mutant: the calls of tools that failed are not settled.
SettleInterrupted ==
  LET interrupted == run.stream = "interrupted" \/ run.joined = "interrupted" IN
  /\ run.pc = "joined"
  /\ run.joined # "declined"
  /\ \E active \in Seen(publisher.active) :
       LET failsStep == interrupted /\ active IN
       /\ FailUnsettled(IF interrupted THEN Calls ELSE {}, failsStep)
       /\ publisher' = IF failsStep THEN FailedStep(publisher) ELSE publisher
  /\ run' = [run EXCEPT !.pc = "settled"]
  /\ UNCHANGED <<cancelled, fiber>>

SettleTurn ==
  LET interrupted == run.stream = "interrupted" \/ run.joined = "interrupted" IN
  /\ run.pc = "joined"
  /\ run.joined # "declined"
  /\ \E active \in Seen(publisher.active) :
       LET failsStep == interrupted /\ active IN
       /\ FailUnsettled(IF interrupted \/ run.joined = "failed" THEN Calls ELSE {}, failsStep)
       /\ publisher' = IF failsStep THEN FailedStep(publisher) ELSE publisher
  /\ run' = [run EXCEPT !.pc = "settled"]
  /\ UNCHANGED <<cancelled, fiber>>

\* Step.Ended stores the message; what is still unsettled fails too late
\* for it.
EndStep(ends, late) ==
  LET unsettled == Unsettled \intersect late IN
  /\ tool' = Settled(unsettled)
  /\ log' = Logged(unsettled)
  /\ IF ends
       THEN /\ messages' = messages \union {[turn |-> run.turn, finish |-> "stop", tools |-> Opened.tools]}
            /\ open' = NoTurn
       ELSE /\ open' = Projected(open, unsettled)
            /\ UNCHANGED messages

\* A failed request may be retried, the results of calls need another one,
\* and pending input may ask for one.
GoesOn(results) ==
  {goesOn \in BOOLEAN :
     LET may == /\ run.turn < MaxTurns
                /\ IF run.stream = "failed" THEN run.recovers ELSE run.joined # "interrupted"
     IN  /\ goesOn => may
         /\ may /\ results /\ run.stream # "failed" => goesOn}

\* The step ends, unless the provider failed, which is asked four times.
EndTurn ==
  /\ run.pc = "settled"
  /\ \E finished \in Seen(publisher.finished), failed \in [1 .. 4 -> Seen(publisher.providerFailed)] :
       /\ EndStep(finished /\ ~failed[1],
                  IF failed[2] THEN Calls
                  ELSE IF run.stream = "completed" /\ ~failed[3] THEN Hosted ELSE {})
       /\ \E goesOn \in GoesOn(run.more /\ ~failed[4]) :
            Leave(Aborted, [run EXCEPT !.pc = IF goesOn THEN "ready" ELSE "idle", !.recovers = TRUE])
  /\ UNCHANGED cancelled

-----------------------------------------------------------------------------
(* The fibers.                                                             *)

\* The result is for the JoinSet, while this exists.
FiberEnds(c, result) ==
  fiber' = [fiber EXCEPT ![c].pc = "over",
                         ![c].result = IF c \in Fibers /\ run.pc \notin {"idle", "ready"} THEN result ELSE "none"]

\* The tool returns; a result settles the call in the publisher.
ToolReturns(c) ==
  /\ fiber[c].pc = "executing"
  /\ ~tool[c].settled
  /\ tool' = Settled({c})
  /\ fiber' = [fiber EXCEPT ![c].pc = "publishing"]
  /\ UNCHANGED <<run, cancelled, publisher, log, open, messages>>

\* The call has been failed meanwhile: an error result is ignored, another
\* one is a duplicate.
ToolReturnsLate(c) ==
  /\ fiber[c].pc = "executing"
  /\ tool[c].settled
  /\ \E result \in {"ok", "failed"} : FiberEnds(c, result)
  /\ UNCHANGED <<run, cancelled, publisher, tool, log, open, messages>>

ToolPublishes(c) ==
  /\ fiber[c].pc = "publishing"
  /\ log' = Logged({c})
  /\ open' = Projected(open, {c})
  /\ FiberEnds(c, "ok")
  /\ UNCHANGED <<run, cancelled, publisher, tool, messages>>

ToolEndsWithout(c, result) ==
  /\ fiber[c].pc = "executing"
  /\ result \in {"failed", "declined", "interrupted"}
  /\ FiberEnds(c, result)
  /\ UNCHANGED <<run, cancelled, publisher, tool, log, open, messages>>

\* Mutant: the fiber waits for its tool alone.
ToolNotInterrupted(c) == cancelled /\ fiber[c].aborted /\ ToolEndsWithout(c, "interrupted")

ToolInterrupted(c) == cancelled /\ ToolEndsWithout(c, "interrupted")

FiberDropped(c) ==
  /\ fiber[c].pc \in Live
  /\ fiber[c].aborted
  /\ FiberEnds(c, "interrupted")
  /\ UNCHANGED <<run, cancelled, publisher, tool, log, open, messages>>

-----------------------------------------------------------------------------
Cancel ==
  /\ run.pc # "idle"
  /\ cancelled' = TRUE
  /\ UNCHANGED <<run, publisher, tool, fiber, log, open, messages>>

\* The process ends; the durable log and the messages are kept.
Crash ==
  /\ run.pc # "idle"
  /\ Leave([c \in Calls |-> IF fiber[c].pc \in Live THEN [fiber[c] EXCEPT !.pc = "over", !.aborted = TRUE] ELSE fiber[c]],
           [run EXCEPT !.pc = "idle"])
  /\ open' = NoTurn
  /\ UNCHANGED <<cancelled, tool, log, messages>>

\* What the runner does by itself, once its token is cancelled.
RunnerStep ==
  \/ StartTurn
  \/ StreamEnds("interrupted")
  \/ CloseStream
  \/ JoinAll \/ \E c \in Calls : StopJoining(c)
  \/ TurnDeclined \/ SettleTurn \/ EndTurn

StreamStep ==
  \/ TextStarts
  \/ \E c \in Calls :
       \/ ToolInputStarts(c) \/ DisabledToolCalled(c) \/ HostedResult(c)
       \/ \E stage \in {"local", "hosted"} : ToolCalled(c, stage)
  \/ StepFinishes \/ ProviderErrs \/ ContextOverflows \/ BadEvent
  \/ \E how \in {"left", "completed", "failed"} : StreamEnds(how)

FiberStep(c) ==
  \/ ToolReturns(c) \/ ToolReturnsLate(c)
  \/ \E result \in {"failed", "declined", "interrupted"} : ToolEndsWithout(c, result)
  \/ ToolPublishes(c) \/ FiberDropped(c)

Next ==
  \/ BeginDrain \/ RunnerStep \/ StreamStep \/ RecoverOverflow
  \/ \E c \in Calls : FiberStep(c)
  \/ Cancel \/ Crash

\* The runtime polls the runner and the fibers; what the tools and the
\* provider's stream do, and when, is up to them.
Fairness ==
  /\ WF_vars(RunnerStep)
  /\ \A c \in Calls : WF_vars(ToolPublishes(c) \/ ToolInterrupted(c) \/ FiberDropped(c))

Spec == Init /\ [][Next]_vars
FairSpec == Spec /\ Fairness

-----------------------------------------------------------------------------
(* Properties.                                                             *)

\* A call is settled in the durable log at most once, whoever fails it
\* while its fiber returns: the publisher marks it before it publishes.
SettledOnce == \A c \in Calls : log[c].settled <= 1

\* The message of a step that ended holds no call that is still running and
\* had a fiber, unless the fiber was aborted: the runner joins the fibers,
\* and fails the calls whose tool failed, before it ends the step.
EndedStepIsSettled ==
  \A m \in messages, c \in Calls :
    /\ m.finish = "stop"
    /\ m.tools[c] = "running"
    /\ fiber[c].pc # "none"
    => fiber[c].aborted

\* A request is made when every call of the drain's earlier turns that had a
\* fiber is settled: no result is missing from it, except one that an aborted
\* fiber did not come to publish.  Recovery from an overflow begins anew.
SettledBeforeNextRequest ==
  run.pc = "streaming" =>
    \A c \in Calls :
      /\ tool[c].turn \in run.first .. run.turn - 1
      /\ fiber[c].pc # "none"
      => tool[c].settled /\ (log[c].settled = 1 \/ fiber[c].aborted)

\* A drain that is cancelled ends, wherever its turn and its tools are.
CancelledDrainEnds == cancelled ~> (run.pc = "idle")

\* When a drain makes a request, no stored message of an earlier drain holds
\* a call that is still running: the drain began by failing those, "so stale
\* tool parts from a previous run settle" (llm.rs:274).  It does not hold.
NoDanglingCall ==
  run.pc = "streaming" =>
    \A m \in messages, c \in Calls : m.turn < run.first => m.tools[c] # "running"
=============================================================================
