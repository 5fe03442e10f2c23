------------------------ MODULE TurnSettlementProofs ------------------------
(***************************************************************************)
(* Calls are settled once, whatever the number of calls, requests and      *)
(* drains.  The event that settles a call is published some time after the *)
(* publisher has marked the call, and by whoever marked it: the invariant  *)
(* says that an event in the log has its mark, and that a fiber which has  *)
(* still to publish has the mark and no event.                             *)
(*                                                                         *)
(* And the runner settles a turn before it goes on.  A fiber that has not  *)
(* been aborted belongs to the turn in progress, and is over when this has *)
(* joined its fibers.  Then every call of the turn that had a fiber has    *)
(* its mark, from its fiber or from the runner; and a marked call is still *)
(* recorded as running only where its fiber has not come to publish, which *)
(* after the join only an aborted one has not.                             *)
(***************************************************************************)
EXTENDS TurnSettlement, TLAPS

MarkedBeforeLogged ==
  \A c \in Calls :
    /\ log[c].settled \in {0, 1}
    /\ log[c].settled = 1 => tool[c].settled
    /\ fiber[c].pc = "publishing" => tool[c].settled /\ log[c].settled = 0

-----------------------------------------------------------------------------
(* What the helpers return.                                                *)

LEMMA PublisherTypes ==
  ASSUME NEW pub \in Publishers
  PROVE  Started(pub) \in Publishers /\ FailedStep(pub) \in Publishers
  BY DEF Publishers, Started, FailedStep

LEMMA NewTypes == NewPublisher \in Publishers /\ NoTurn \in Turns /\ NoTools \in [Calls -> Statuses]
  BY TurnSettlementAssumption DEF NewPublisher, Publishers, NoTurn, Turns, NoTools, Statuses

LEMMA OpenedType == TypeOK => Opened \in Turns
  BY NewTypes DEF TypeOK, Opened, Turns, Runs

LEMMA RecordedType ==
  ASSUME NEW turn \in Turns, NEW c \in Calls, NEW status \in Statuses
  PROVE  Recorded(turn, c, status) \in Turns
  BY DEF Recorded, Turns

LEMMA ProjectedType ==
  ASSUME NEW turn \in Turns, NEW calls
  PROVE  Projected(turn, calls) \in Turns
  BY DEF Projected, Turns, Statuses

LEMMA SettledType ==
  ASSUME TypeOK, NEW calls
  PROVE  Settled(calls) \in [Calls -> Entries]
  BY DEF TypeOK, Settled, Entries

LEMMA LoggedType ==
  ASSUME TypeOK, NEW calls
  PROVE  Logged(calls) \in [Calls -> [settled : Nat, recovered : 0 .. 1]]
<1>1. \A c \in Calls : [log[c] EXCEPT !.settled = @ + 1] \in [settled : Nat, recovered : 0 .. 1]
  BY DEF TypeOK
<1> QED BY <1>1 DEF TypeOK, Logged

LEMMA AbortedType == TypeOK => Aborted \in [Calls -> FiberStates]
  BY DEF TypeOK, Aborted, FiberStates

LEMMA FailUnsettledTypes ==
  ASSUME TypeOK,
         NEW calls, NEW failsStep \in BOOLEAN, FailUnsettled(calls, failsStep)
  PROVE  /\ tool' \in [Calls -> Entries]
         /\ log' \in [Calls -> [settled : Nat, recovered : 0 .. 1]]
         /\ open' \in Turns
         /\ messages' \subseteq Messages
<1> DEFINE unsettled == Unsettled \intersect calls
           turn      == Projected(open, unsettled)
           last      == IF publisher.started THEN turn ELSE [turn |-> run.turn, tools |-> NoTools]
           message   == [turn |-> run.turn, finish |-> "error", tools |-> last.tools]
<1>1. tool' = Settled(unsettled) /\ log' = Logged(unsettled)
  BY DEF FailUnsettled
<1>2. turn \in Turns
  BY ProjectedType DEF TypeOK
<1>3. last \in Turns
  BY <1>2, NewTypes DEF TypeOK, Runs, Turns
<1>4. message \in Messages
  BY <1>3 DEF TypeOK, Runs, Turns, Messages
<1>5. open' \in {turn, NoTurn} /\ messages' \in {messages, messages \union {message}}
  BY DEF FailUnsettled
<1> QED BY <1>1, <1>2, <1>4, <1>5, SettledType, LoggedType, NewTypes DEF TypeOK

LEMMA EndStepTypes ==
  ASSUME TypeOK, NEW ends, NEW late, EndStep(ends, late)
  PROVE  /\ tool' \in [Calls -> Entries]
         /\ log' \in [Calls -> [settled : Nat, recovered : 0 .. 1]]
         /\ open' \in Turns
         /\ messages' \subseteq Messages
<1> DEFINE message == [turn |-> run.turn, finish |-> "stop", tools |-> Opened.tools]
<1>1. message \in Messages
  BY OpenedType DEF TypeOK, Runs, Turns, Messages
<1>2. PICK unsettled : /\ tool' = Settled(unsettled)
                       /\ log' = Logged(unsettled)
                       /\ open' \in {NoTurn, Projected(open, unsettled)}
                       /\ messages' \in {messages, messages \union {message}}
  BY DEF EndStep
<1> QED BY <1>1, <1>2, SettledType, LoggedType, NewTypes, ProjectedType DEF TypeOK

LEMMA LeaveTypes ==
  ASSUME NEW turn \in Runs, NEW fibers \in [Calls -> FiberStates], Leave(fibers, turn)
  PROVE  run' \in Runs /\ publisher' \in Publishers /\ fiber' \in [Calls -> FiberStates]
<1>1. run' \in Runs
  BY DEF Leave, Runs
<1>2. publisher' \in Publishers
  BY NewTypes DEF Leave
<1>3. fiber' \in [Calls -> FiberStates]
  BY DEF Leave, FiberStates
<1> QED BY <1>1, <1>2, <1>3

-----------------------------------------------------------------------------
(* Every step keeps the types.                                             *)

LEMMA Counted ==
  ASSUME TypeOK
  PROVE  /\ run.drain < MaxDrains => run.drain + 1 \in 0 .. MaxDrains
         /\ run.turn < MaxTurns => run.turn + 1 \in 0 .. MaxTurns
  BY TurnSettlementAssumption DEF TypeOK, Runs

LEMMA DrainTypes ==
  ASSUME TypeOK, BeginDrain \/ StartTurn
  PROVE  TypeOK'
<1>1. CASE BeginDrain
  <2>1. run' \in Runs
    BY <1>1, Counted DEF BeginDrain, TypeOK, Runs
  <2>2. log' \in [Calls -> [settled : Nat, recovered : 0 .. 1]]
    BY <1>1 DEF BeginDrain, TypeOK
  <2> QED BY <1>1, <2>1, <2>2, NewTypes DEF BeginDrain, TypeOK
<1>2. CASE StartTurn
  <2>1. run' \in Runs
    BY <1>2, Counted DEF StartTurn, TypeOK, Runs
  <2> QED BY <1>2, <2>1 DEF StartTurn, TypeOK
<1> QED BY <1>1, <1>2

LEMMA CallTypes ==
  ASSUME TypeOK, NEW c \in Calls,
         \/ ToolInputStarts(c) \/ DisabledToolCalled(c) \/ HostedResult(c)
         \/ \E stage \in {"local", "hosted"} : ToolCalled(c, stage)
  PROVE  TypeOK'
<1>1. Opened \in Turns /\ Started(publisher) \in Publishers
  BY OpenedType, PublisherTypes DEF TypeOK
<1>2. Recorded(Opened, c, "pending") \in Turns /\ Recorded(Opened, c, "running") \in Turns
  BY <1>1, RecordedType DEF Statuses
<1>3. CASE ToolInputStarts(c)
  <2>1. tool' \in [Calls -> Entries]
    BY <1>3 DEF ToolInputStarts, TypeOK, Entries, Runs
  <2> QED BY <1>1, <1>2, <1>3, <2>1 DEF ToolInputStarts, TypeOK
<1>4. CASE DisabledToolCalled(c)
  <2>1. PICK failed : /\ tool' = [Settled(failed) EXCEPT ![c].turn = run.turn, ![c].stage = "local"]
                      /\ log' = Logged(failed)
                      /\ open' = Projected(Recorded(Opened, c, "running"), failed)
    BY <1>4 DEF DisabledToolCalled
  <2>2. tool' \in [Calls -> Entries]
    BY <2>1, SettledType DEF TypeOK, Entries, Runs
  <2>3. log' \in [Calls -> [settled : Nat, recovered : 0 .. 1]]
    BY <2>1, LoggedType
  <2>4. open' \in Turns
    BY <1>2, <2>1, ProjectedType
  <2> QED BY <1>1, <1>4, <2>2, <2>3, <2>4 DEF DisabledToolCalled, TypeOK
<1>5. CASE HostedResult(c)
  BY <1>5, SettledType, LoggedType, ProjectedType DEF HostedResult, TypeOK
<1>6. CASE \E stage \in {"local", "hosted"} : ToolCalled(c, stage)
  <2>1. PICK stage \in {"local", "hosted"} : ToolCalled(c, stage)
    BY <1>6
  <2>2. tool' \in [Calls -> Entries]
    BY <2>1 DEF ToolCalled, TypeOK, Entries, Runs
  <2>3. run' \in Runs
    BY <2>1 DEF ToolCalled, TypeOK, Runs
  <2>4. fiber' \in [Calls -> FiberStates]
    <3>1. fiber \in [Calls -> FiberStates]
      BY DEF TypeOK
    <3>2. [fiber[c] EXCEPT !.pc = "executing"] \in FiberStates
      BY <3>1 DEF FiberStates, FiberPCs
    <3>3. fiber' = fiber \/ fiber' = [fiber EXCEPT ![c].pc = "executing"]
      BY <2>1 DEF ToolCalled
    <3> QED BY <3>1, <3>2, <3>3
  <2> QED BY <1>1, <1>2, <2>1, <2>2, <2>3, <2>4 DEF ToolCalled, TypeOK
<1> QED BY <1>3, <1>4, <1>5, <1>6

LEMMA StreamTypes ==
  ASSUME TypeOK,
         \/ TextStarts \/ StepFinishes \/ ProviderErrs \/ ContextOverflows \/ BadEvent
         \/ \E how \in {"left", "completed", "failed", "interrupted"} : StreamEnds(how)
  PROVE  TypeOK'
<1>1. Opened \in Turns /\ Started(publisher) \in Publishers /\ FailedStep(publisher) \in Publishers
  BY OpenedType, PublisherTypes DEF TypeOK
<1>2. CASE TextStarts
  BY <1>1, <1>2 DEF TextStarts, TypeOK
<1>3. CASE StepFinishes
  <2>1. publisher' \in Publishers
    BY <1>3 DEF StepFinishes, TypeOK, Publishers
  <2> QED BY <1>3, <2>1 DEF StepFinishes, TypeOK
<1>4. CASE ProviderErrs
  <2>1. publisher' \in Publishers
    BY <1>1, <1>4 DEF ProviderErrs, Publishers
  <2> QED BY <1>4, <2>1, FailUnsettledTypes DEF ProviderErrs, TypeOK
<1>5. CASE ContextOverflows
  <2>1. run' \in Runs
    BY <1>5 DEF ContextOverflows, TypeOK, Runs
  <2> QED BY <1>5, <2>1 DEF ContextOverflows, TypeOK
<1>6. CASE BadEvent
  <2>1. [run EXCEPT !.pc = "idle"] \in Runs
    BY DEF TypeOK, Runs
  <2> QED BY <1>6, <2>1, LeaveTypes, AbortedType DEF BadEvent, TypeOK
<1>7. CASE \E how \in {"left", "completed", "failed", "interrupted"} : StreamEnds(how)
  <2>1. run' \in Runs
    BY <1>7 DEF StreamEnds, TypeOK, Runs
  <2> QED BY <1>7, <2>1 DEF StreamEnds, TypeOK
<1> QED BY <1>2, <1>3, <1>4, <1>5, <1>6, <1>7

LEMMA ClosingTypes ==
  ASSUME TypeOK,
         \/ RecoverOverflow \/ CloseStream \/ JoinAll \/ \E c \in Calls : StopJoining(c)
         \/ TurnDeclined \/ SettleTurn \/ EndTurn
  PROVE  TypeOK'
<1>1. FailedStep(publisher) \in Publishers
  BY PublisherTypes DEF TypeOK
<1>2. CASE RecoverOverflow
  <2>1. [run EXCEPT !.pc = "ready", !.first = run.turn + 1, !.recovers = FALSE] \in Runs
    BY <1>2, Counted DEF RecoverOverflow, TypeOK, Runs
  <2> QED BY <1>2, <2>1, LeaveTypes, AbortedType DEF RecoverOverflow, TypeOK
<1>3. CASE CloseStream
  <2>1. PICK failed \in Seen(publisher.providerFailed \/ run.overflow) :
          LET streamFailed == run.stream = "failed" /\ ~failed
              failsStep    == run.overflow \/ streamFailed
          IN  /\ FailUnsettled(IF streamFailed THEN Hosted ELSE {}, failsStep)
              /\ publisher' = [(IF failsStep THEN FailedStep(publisher) ELSE publisher)
                                 EXCEPT !.providerFailed = @ \/ run.overflow]
    BY <1>3 DEF CloseStream
  <2> DEFINE streamFailed == run.stream = "failed" /\ ~failed
             failsStep    == run.overflow \/ streamFailed
  <2>5. failsStep \in BOOLEAN
    OBVIOUS
  <2>2. publisher' \in Publishers
    BY <1>1, <2>1 DEF TypeOK, Publishers, Runs
  <2>6. /\ tool' \in [Calls -> Entries]
        /\ log' \in [Calls -> [settled : Nat, recovered : 0 .. 1]]
        /\ open' \in Turns
        /\ messages' \subseteq Messages
    BY <2>1, <2>5, FailUnsettledTypes
  <2>3. run' \in Runs
    BY <1>3 DEF CloseStream, TypeOK, Runs
  <2>4. fiber' \in [Calls -> FiberStates]
    BY <1>3, AbortedType DEF CloseStream, TypeOK
  <2> QED BY <1>3, <2>2, <2>3, <2>4, <2>6 DEF CloseStream, TypeOK
<1>4. CASE JoinAll
  <2>1. run' \in Runs
    BY <1>4 DEF JoinAll, TypeOK, Runs
  <2> QED BY <1>4, <2>1 DEF JoinAll, TypeOK
<1>5. CASE \E c \in Calls : StopJoining(c)
  <2>1. PICK c \in Calls : StopJoining(c)
    BY <1>5
  <2>2. run' \in Runs
    BY <2>1 DEF StopJoining, TypeOK, Runs
  <2> QED BY <2>1, <2>2, AbortedType DEF StopJoining, TypeOK
<1>6. CASE TurnDeclined
  <2>1. [run EXCEPT !.pc = "idle"] \in Runs
    BY DEF TypeOK, Runs
  <2>2. run' \in Runs /\ publisher' \in Publishers /\ fiber' \in [Calls -> FiberStates]
    BY <1>6, <2>1, LeaveTypes, AbortedType DEF TurnDeclined
  <2> QED BY <1>6, <2>2, FailUnsettledTypes DEF TurnDeclined, TypeOK
<1>7. CASE SettleTurn
  <2> DEFINE interrupted == run.stream = "interrupted" \/ run.joined = "interrupted"
             calls == IF interrupted \/ run.joined = "failed" THEN Calls ELSE {}
  <2>1. PICK active \in Seen(publisher.active) :
          /\ FailUnsettled(calls, interrupted /\ active)
          /\ publisher' = IF interrupted /\ active THEN FailedStep(publisher) ELSE publisher
    BY <1>7 DEF SettleTurn
  <2>3. (interrupted /\ active) \in BOOLEAN
    OBVIOUS
  <2>4. /\ tool' \in [Calls -> Entries]
        /\ log' \in [Calls -> [settled : Nat, recovered : 0 .. 1]]
        /\ open' \in Turns
        /\ messages' \subseteq Messages
    BY <2>1, <2>3, FailUnsettledTypes
  <2>2. run' \in Runs
    BY <1>7 DEF SettleTurn, TypeOK, Runs
  <2>5. publisher' \in Publishers
    BY <1>1, <2>1 DEF TypeOK
  <2> QED BY <1>7, <2>2, <2>4, <2>5 DEF SettleTurn, TypeOK
<1>8. CASE EndTurn
  <2>1. PICK ends, late : EndStep(ends, late)
    BY <1>8 DEF EndTurn
  <2>2. PICK goesOn : Leave(Aborted, [run EXCEPT !.pc = IF goesOn THEN "ready" ELSE "idle", !.recovers = TRUE])
    BY <1>8 DEF EndTurn
  <2>3. [run EXCEPT !.pc = IF goesOn THEN "ready" ELSE "idle", !.recovers = TRUE] \in Runs
    BY DEF TypeOK, Runs
  <2>4. run' \in Runs /\ publisher' \in Publishers /\ fiber' \in [Calls -> FiberStates]
    BY <2>2, <2>3, LeaveTypes, AbortedType
  <2>5. cancelled' \in BOOLEAN
    BY <1>8 DEF EndTurn, TypeOK
  <2> QED BY <2>1, <2>4, <2>5, EndStepTypes DEF TypeOK
<1> QED BY <1>2, <1>3, <1>4, <1>5, <1>6, <1>7, <1>8

LEMMA FiberTypes ==
  ASSUME TypeOK, NEW c \in Calls, FiberStep(c) \/ ToolInterrupted(c)
  PROVE  TypeOK'
<1>1. ASSUME NEW result \in {"ok", "failed", "declined", "interrupted"}, FiberEnds(c, result)
      PROVE  fiber' \in [Calls -> FiberStates]
  BY <1>1 DEF FiberEnds, TypeOK, FiberStates, FiberPCs
<1>2. CASE ToolReturns(c)
  <2>1. fiber' \in [Calls -> FiberStates]
    BY <1>2 DEF ToolReturns, TypeOK, FiberStates, FiberPCs
  <2> QED BY <1>2, <2>1, SettledType DEF ToolReturns, TypeOK
<1>3. CASE ToolReturnsLate(c)
  BY <1>1, <1>3 DEF ToolReturnsLate, TypeOK
<1>4. CASE ToolPublishes(c)
  BY <1>1, <1>4, LoggedType, ProjectedType DEF ToolPublishes, TypeOK
<1>5. CASE FiberDropped(c)
  BY <1>1, <1>5 DEF FiberDropped, TypeOK
<1>6. ASSUME NEW result, ToolEndsWithout(c, result)
      PROVE  TypeOK'
  BY <1>1, <1>6 DEF ToolEndsWithout, TypeOK
<1> QED BY <1>2, <1>3, <1>4, <1>5, <1>6 DEF FiberStep, ToolInterrupted

LEMMA CrashTypes ==
  ASSUME TypeOK, Crash
  PROVE  TypeOK'
<1> DEFINE fibers == [c \in Calls |-> IF fiber[c].pc \in Live
                                        THEN [fiber[c] EXCEPT !.pc = "over", !.aborted = TRUE] ELSE fiber[c]]
<1>1. fibers \in [Calls -> FiberStates]
  BY DEF TypeOK, FiberStates, FiberPCs
<1>2. [run EXCEPT !.pc = "idle"] \in Runs
  BY DEF TypeOK, Runs
<1>3. Leave(fibers, [run EXCEPT !.pc = "idle"])
  BY DEF Crash
<1>4. run' \in Runs /\ publisher' \in Publishers /\ fiber' \in [Calls -> FiberStates]
  BY <1>1, <1>2, <1>3, LeaveTypes
<1> QED BY <1>4, NewTypes DEF Crash, TypeOK

LEMMA NextKeepsTypes == TypeOK /\ [Next]_vars => TypeOK'
<1> SUFFICES ASSUME TypeOK, [Next]_vars PROVE TypeOK'
  OBVIOUS
<1>1. CASE UNCHANGED vars
  BY <1>1 DEF vars, TypeOK
<1>2. CASE Cancel
  BY <1>2 DEF Cancel, TypeOK
<1> QED
  BY <1>1, <1>2, DrainTypes, CallTypes, StreamTypes, ClosingTypes, FiberTypes, CrashTypes
  DEF Next, RunnerStep, StreamStep

\* Every variable keeps its type.
THEOREM Typed == Spec => []TypeOK
<1>1. Init => TypeOK
  <2> SUFFICES ASSUME Init PROVE TypeOK
    OBVIOUS
  <2>1. run \in Runs /\ tool \in [Calls -> Entries] /\ fiber \in [Calls -> FiberStates]
    BY TurnSettlementAssumption DEF Init, Runs, Entries, FiberStates, FiberPCs
  <2>2. log \in [Calls -> [settled : Nat, recovered : 0 .. 1]]
    BY DEF Init
  <2>3. publisher \in Publishers /\ open \in Turns /\ messages \subseteq Messages /\ cancelled \in BOOLEAN
    BY NewTypes DEF Init
  <2> QED BY <2>1, <2>2, <2>3 DEF TypeOK
<1> QED BY <1>1, NextKeepsTypes, PTL DEF Spec

-----------------------------------------------------------------------------
(* Every step keeps the mark before the event.                             *)

NoNewPublishing == \A c \in Calls : fiber'[c].pc = "publishing" => fiber[c].pc = "publishing"

LEMMA NothingSettles ==
  ASSUME TypeOK, MarkedBeforeLogged, NoNewPublishing,
         \A c \in Calls : log'[c].settled = log[c].settled,
         \A c \in Calls : tool[c].settled => tool'[c].settled
  PROVE  MarkedBeforeLogged'
  BY DEF MarkedBeforeLogged, NoNewPublishing

(* Whoever marks calls that have no mark may log them at once.             *)
LEMMA MarkAndLog ==
  ASSUME TypeOK, MarkedBeforeLogged, NoNewPublishing,
         NEW calls, calls \subseteq {c \in Calls : ~tool[c].settled},
         \A c \in Calls : tool'[c].settled = Settled(calls)[c].settled,
         log' = Logged(calls)
  PROVE  MarkedBeforeLogged'
<1> SUFFICES ASSUME NEW c \in Calls
             PROVE  /\ log'[c].settled \in {0, 1}
                    /\ log'[c].settled = 1 => tool'[c].settled
                    /\ fiber'[c].pc = "publishing" => tool'[c].settled /\ log'[c].settled = 0
  BY DEF MarkedBeforeLogged
<1>1. CASE c \in calls
  <2>1. log[c].settled = 0 /\ fiber[c].pc # "publishing"
    BY <1>1 DEF MarkedBeforeLogged
  <2>2. log'[c].settled = 1
    BY <1>1, <2>1 DEF Logged, TypeOK
  <2>3. tool'[c].settled
    BY <1>1 DEF Settled, TypeOK, Entries
  <2> QED BY <2>1, <2>2, <2>3 DEF NoNewPublishing
<1>2. CASE c \notin calls
  <2>1. log'[c] = log[c] /\ tool'[c].settled = tool[c].settled
    BY <1>2 DEF Logged, Settled
  <2> QED BY <2>1 DEF MarkedBeforeLogged, NoNewPublishing
<1> QED BY <1>1, <1>2

LEMMA FailUnsettledKeeps ==
  ASSUME TypeOK, MarkedBeforeLogged, NoNewPublishing,
         NEW calls, NEW failsStep, FailUnsettled(calls, failsStep)
  PROVE  MarkedBeforeLogged'
<1> DEFINE unsettled == Unsettled \intersect calls
<1>1. tool' = Settled(unsettled) /\ log' = Logged(unsettled)
  BY DEF FailUnsettled
<1>2. unsettled \subseteq {c \in Calls : ~tool[c].settled}
  BY DEF Unsettled
<1> QED BY <1>1, <1>2, MarkAndLog

LEMMA LeavePublishes ==
  ASSUME TypeOK, NEW turn, Leave(Aborted, turn)
  PROVE  NoNewPublishing
  BY DEF Leave, Aborted, NoNewPublishing, TypeOK, FiberStates

LEMMA DrainKeeps ==
  ASSUME TypeOK, MarkedBeforeLogged, BeginDrain \/ StartTurn
  PROVE  MarkedBeforeLogged'
<1>1. NoNewPublishing /\ tool' = tool
  BY DEF BeginDrain, StartTurn, NoNewPublishing
<1>2. \A c \in Calls : log'[c].settled = log[c].settled
  <2>1. CASE BeginDrain
    <3> SUFFICES ASSUME NEW c \in Calls PROVE log'[c].settled = log[c].settled
      OBVIOUS
    <3>1. log'[c] \in {log[c], [log[c] EXCEPT !.recovered = 1]}
      BY <2>1 DEF BeginDrain
    <3> QED BY <3>1 DEF TypeOK
  <2>2. CASE StartTurn
    BY <2>2 DEF StartTurn
  <2> QED BY <2>1, <2>2
<1> QED BY <1>1, <1>2, NothingSettles

LEMMA CallKeeps ==
  ASSUME TypeOK, MarkedBeforeLogged, NEW c \in Calls,
         \/ ToolInputStarts(c) \/ DisabledToolCalled(c) \/ HostedResult(c)
         \/ \E stage \in {"local", "hosted"} : ToolCalled(c, stage)
  PROVE  MarkedBeforeLogged'
<1>1. CASE ToolInputStarts(c)
  <2>1. NoNewPublishing /\ log' = log
    BY <1>1 DEF ToolInputStarts, NoNewPublishing
  <2>2. \A d \in Calls : tool'[d].settled = tool[d].settled
    BY <1>1 DEF ToolInputStarts, TypeOK, Entries
  <2> QED BY <2>1, <2>2, NothingSettles
<1>2. CASE DisabledToolCalled(c)
  <2> DEFINE failed == Unsettled \union {d \in {c} : ~tool[d].settled}
  <2>1. NoNewPublishing /\ log' = Logged(failed)
    BY <1>2 DEF DisabledToolCalled, NoNewPublishing
  <2>2. failed \subseteq {d \in Calls : ~tool[d].settled}
    BY DEF Unsettled
  <2>3. tool' = [Settled(failed) EXCEPT ![c].turn = run.turn, ![c].stage = "local"]
    BY <1>2 DEF DisabledToolCalled
  <2>4. \A d \in Calls : tool'[d].settled = Settled(failed)[d].settled
    <3> HIDE DEF failed
    <3> QED BY <2>3, SettledType DEF Entries
  <2> QED BY <2>1, <2>2, <2>4, MarkAndLog
<1>3. CASE HostedResult(c)
  <2>1. NoNewPublishing /\ tool' = Settled({c}) /\ log' = Logged({c})
    BY <1>3 DEF HostedResult, NoNewPublishing
  <2>2. {c} \subseteq {d \in Calls : ~tool[d].settled}
    BY <1>3 DEF HostedResult, Unsettled
  <2> QED BY <2>1, <2>2, MarkAndLog
<1>4. CASE \E stage \in {"local", "hosted"} : ToolCalled(c, stage)
  <2>1. PICK stage \in {"local", "hosted"} : ToolCalled(c, stage)
    BY <1>4
  <2>2. NoNewPublishing /\ log' = log
    BY <2>1 DEF ToolCalled, NoNewPublishing, TypeOK, FiberStates
  <2>3. \A d \in Calls : tool'[d].settled = tool[d].settled
    BY <2>1 DEF ToolCalled, TypeOK, Entries
  <2> QED BY <2>2, <2>3, NothingSettles
<1> QED BY <1>1, <1>2, <1>3, <1>4

LEMMA StreamKeeps ==
  ASSUME TypeOK, MarkedBeforeLogged,
         \/ TextStarts \/ StepFinishes \/ ProviderErrs \/ ContextOverflows \/ BadEvent
         \/ \E how \in {"left", "completed", "failed", "interrupted"} : StreamEnds(how)
  PROVE  MarkedBeforeLogged'
<1>1. CASE ProviderErrs
  BY <1>1, FailUnsettledKeeps DEF ProviderErrs, NoNewPublishing
<1>2. CASE BadEvent
  BY <1>2, LeavePublishes, NothingSettles DEF BadEvent
<1>3. CASE \/ TextStarts \/ StepFinishes \/ ContextOverflows
           \/ \E how \in {"left", "completed", "failed", "interrupted"} : StreamEnds(how)
  <2>1. UNCHANGED <<tool, fiber, log>>
    BY <1>3 DEF TextStarts, StepFinishes, ContextOverflows, StreamEnds
  <2> QED BY <2>1 DEF MarkedBeforeLogged
<1> QED BY <1>1, <1>2, <1>3

LEMMA ClosingKeeps ==
  ASSUME TypeOK, MarkedBeforeLogged,
         \/ RecoverOverflow \/ CloseStream \/ JoinAll \/ \E c \in Calls : StopJoining(c)
         \/ TurnDeclined \/ SettleTurn \/ EndTurn
  PROVE  MarkedBeforeLogged'
<1>1. ASSUME fiber' = fiber \/ fiber' = Aborted PROVE NoNewPublishing
  <2>1. \A c \in Calls : Aborted[c].pc = fiber[c].pc
    BY DEF Aborted, TypeOK, FiberStates
  <2> QED BY <1>1, <2>1 DEF NoNewPublishing
<1>2. CASE RecoverOverflow
  BY <1>2, LeavePublishes, NothingSettles DEF RecoverOverflow
<1>3. CASE CloseStream
  <2>1. \E calls, failsStep : FailUnsettled(calls, failsStep)
    BY <1>3 DEF CloseStream
  <2> QED BY <1>1, <1>3, <2>1, FailUnsettledKeeps DEF CloseStream
<1>4. CASE JoinAll
  BY <1>4 DEF JoinAll, MarkedBeforeLogged
<1>5. CASE \E c \in Calls : StopJoining(c)
  BY <1>1, <1>5, NothingSettles DEF StopJoining
<1>6. CASE TurnDeclined
  BY <1>6, LeavePublishes, FailUnsettledKeeps DEF TurnDeclined
<1>7. CASE SettleTurn
  <2>1. \E calls, failsStep : FailUnsettled(calls, failsStep)
    BY <1>7 DEF SettleTurn
  <2> QED BY <1>1, <1>7, <2>1, FailUnsettledKeeps DEF SettleTurn
<1>8. CASE EndTurn
  <2>1. PICK ends, late : EndStep(ends, late)
    BY <1>8 DEF EndTurn
  <2>2. NoNewPublishing
    BY <1>8, LeavePublishes DEF EndTurn
  <2>3. LET unsettled == Unsettled \intersect late
        IN  tool' = Settled(unsettled) /\ log' = Logged(unsettled)
    BY <2>1 DEF EndStep
  <2>4. (Unsettled \intersect late) \subseteq {c \in Calls : ~tool[c].settled}
    BY DEF Unsettled
  <2> QED BY <2>2, <2>3, <2>4, MarkAndLog
<1> QED BY <1>2, <1>3, <1>4, <1>5, <1>6, <1>7, <1>8

LEMMA FiberKeeps ==
  ASSUME TypeOK, MarkedBeforeLogged, NEW c \in Calls, FiberStep(c) \/ ToolInterrupted(c)
  PROVE  MarkedBeforeLogged'
<1>1. ASSUME NEW result, FiberEnds(c, result), tool' = tool, log' = log
      PROVE  MarkedBeforeLogged'
  <2>1. NoNewPublishing
    BY <1>1 DEF FiberEnds, NoNewPublishing, TypeOK, FiberStates
  <2> QED BY <1>1, <2>1, NothingSettles
<1>2. CASE ToolReturns(c)
  <2>1. log' = log /\ tool' = Settled({c}) /\ fiber' = [fiber EXCEPT ![c].pc = "publishing"] /\ ~tool[c].settled
    BY <1>2 DEF ToolReturns
  <2>2. log[c].settled = 0
    BY <2>1 DEF MarkedBeforeLogged
  <2>3. tool'[c].settled
    BY <2>1 DEF Settled, TypeOK, Entries
  <2>4. \A d \in Calls \ {c} : tool'[d] = tool[d] /\ fiber'[d] = fiber[d]
    BY <2>1 DEF Settled, TypeOK
  <2> QED BY <2>1, <2>2, <2>3, <2>4 DEF MarkedBeforeLogged
<1>3. CASE ToolPublishes(c)
  <2>1. log' = Logged({c}) /\ tool' = tool /\ fiber[c].pc = "publishing" /\ FiberEnds(c, "ok")
    BY <1>3 DEF ToolPublishes
  <2>2. log'[c].settled = 1 /\ tool[c].settled /\ fiber'[c].pc = "over"
    BY <2>1 DEF MarkedBeforeLogged, Logged, FiberEnds, TypeOK, FiberStates
  <2>3. \A d \in Calls \ {c} : log'[d] = log[d] /\ fiber'[d] = fiber[d]
    BY <2>1 DEF Logged, FiberEnds, TypeOK
  <2> QED BY <2>1, <2>2, <2>3 DEF MarkedBeforeLogged
<1>4. CASE ToolReturnsLate(c)
  BY <1>1, <1>4 DEF ToolReturnsLate
<1>5. CASE FiberDropped(c)
  BY <1>1, <1>5 DEF FiberDropped
<1>6. ASSUME NEW result, ToolEndsWithout(c, result)
      PROVE  MarkedBeforeLogged'
  BY <1>1, <1>6 DEF ToolEndsWithout
<1> QED BY <1>2, <1>3, <1>4, <1>5, <1>6 DEF FiberStep, ToolInterrupted

LEMMA CrashKeeps ==
  ASSUME TypeOK, MarkedBeforeLogged, Crash
  PROVE  MarkedBeforeLogged'
<1>1. NoNewPublishing
  BY DEF Crash, Leave, NoNewPublishing, TypeOK, FiberStates
<1> QED BY <1>1, NothingSettles DEF Crash

LEMMA NextKeepsMarks == TypeOK /\ MarkedBeforeLogged /\ [Next]_vars => MarkedBeforeLogged'
<1> SUFFICES ASSUME TypeOK, MarkedBeforeLogged, [Next]_vars PROVE MarkedBeforeLogged'
  OBVIOUS
<1>1. CASE UNCHANGED vars
  BY <1>1 DEF vars, MarkedBeforeLogged
<1>2. CASE Cancel
  BY <1>2 DEF Cancel, MarkedBeforeLogged
<1> QED
  BY <1>1, <1>2, DrainKeeps, CallKeeps, StreamKeeps, ClosingKeeps, FiberKeeps, CrashKeeps
  DEF Next, RunnerStep, StreamStep

LEMMA MarkedInit == Init => MarkedBeforeLogged
<1> SUFFICES ASSUME Init PROVE MarkedBeforeLogged
  OBVIOUS
<1>1. \A c \in Calls : log[c].settled = 0 /\ fiber[c].pc = "none"
  BY DEF Init
<1>2. \A c \in Calls : log[c].settled \in {0, 1} /\ log[c].settled # 1
  <2>1. 0 \in {0, 1} /\ 0 # 1
    OBVIOUS
  <2> QED BY <1>1, <2>1, Zenon
<1>3. \A c \in Calls : fiber[c].pc # "publishing"
  BY <1>1
<1> QED BY <1>2, <1>3, Zenon DEF MarkedBeforeLogged

\* No call is settled twice in the durable log, however its fiber, the end
\* of its request, the end of its turn and an abort come together.
THEOREM NoCallIsSettledTwice == Spec => []SettledOnce
<1>1. Init => MarkedBeforeLogged
  BY MarkedInit
<1>2. MarkedBeforeLogged => SettledOnce
  <2>1. \A n \in {0, 1} : n <= 1
    OBVIOUS
  <2> QED BY <2>1, Zenon DEF MarkedBeforeLogged, SettledOnce
<1> QED BY <1>1, <1>2, Typed, NextKeepsMarks, PTL DEF Spec
-----------------------------------------------------------------------------
(* The turn is settled before the runner goes on: what holds of a call.    *)

Called == {"local", "hosted"}

\* A fiber runs a local call; unless it was aborted it does so for the turn in progress,
\* and what was marked has been logged but for a fiber that had still to publish.
CallOK(c) ==
  /\ fiber[c].pc # "none" => tool[c].stage = "local"
  /\ tool[c].turn <= run.turn
  /\ tool[c].stage = "none" => ~tool[c].settled
  /\ run.pc = "streaming" /\ run.tools /\ tool[c].stage = "input" /\ tool[c].turn = run.turn
       => ~tool[c].settled
  /\ fiber[c].result = "ok" => tool[c].settled
  /\ tool[c].settled => log[c].settled = 1 \/ fiber[c].pc = "publishing" \/ fiber[c].aborted
  /\ fiber[c].pc \in Live /\ ~fiber[c].aborted =>
       tool[c].turn = run.turn /\ run.pc \in {"streaming", "closed", "joining"}

\* What the open turn and the stored messages say of the call.
RecordOK(c) ==
  /\ open.tools[c] = "running" => tool[c].stage \in Called
  /\ \A m \in messages : m.tools[c] = "running" => tool[c].stage \in Called
  /\ publisher.started /\ open.tools[c] # "none" => tool[c].turn = run.turn
  /\ publisher.started /\ open.tools[c] = "running" /\ fiber[c].pc # "none" /\ tool[c].settled
       => fiber[c].pc = "publishing" \/ fiber[c].aborted

\* The runner has settled the calls of the turn in progress, or found no need to.
TurnIsSettled ==
  run.pc = "settled" \/ (run.pc = "joined" /\ run.joined \notin {"failed", "declined", "interrupted"})

LastTurn == IF run.pc = "ready" THEN run.turn ELSE run.turn - 1

DueOK(c) ==
  /\ TurnIsSettled /\ tool[c].turn = run.turn /\ fiber[c].pc # "none" => tool[c].settled
  /\ run.pc # "idle" /\ tool[c].turn \in run.first .. LastTurn /\ fiber[c].pc # "none"
       => tool[c].settled /\ (log[c].settled = 1 \/ fiber[c].aborted)

EndedOK(c) ==
  \A m \in messages : m.finish = "stop" /\ m.tools[c] = "running" /\ fiber[c].pc # "none" => fiber[c].aborted

TurnOK(c) == CallOK(c) /\ RecordOK(c) /\ DueOK(c) /\ EndedOK(c)

NotStarted == run.pc \in {"idle", "ready"} => ~publisher.started

TurnInv == TypeOK /\ MarkedBeforeLogged /\ NotStarted /\ \A c \in Calls : TurnOK(c)

-----------------------------------------------------------------------------
(* What a step that is not about a call does to it.                        *)

\* The call keeps its turn, its stage and its fiber; it may be marked and logged at once.
Same(c) ==
  /\ tool'[c].turn = tool[c].turn /\ tool'[c].stage = tool[c].stage
  /\ fiber'[c].pc = fiber[c].pc /\ fiber'[c].result \in {fiber[c].result, "none"}
  /\ fiber[c].aborted => fiber'[c].aborted
  /\ \/ (tool'[c].settled <=> tool[c].settled) /\ log'[c].settled = log[c].settled
     \/ ~tool[c].settled /\ tool[c].stage # "none" /\ tool'[c].settled /\ log'[c].settled = 1

\* The runner stays in the turn, or no fiber goes on without having been aborted.
RunFollows(c) ==
  /\ run.turn <= run'.turn
  /\ run'.pc = "streaming" /\ run'.tools /\ tool[c].stage = "input" /\ tool[c].turn = run'.turn
       => ~tool'[c].settled
  /\ fiber[c].pc \in Live /\ ~fiber'[c].aborted =>
       run'.turn = run.turn /\ run'.pc \in {"streaming", "closed", "joining"}

\* Nothing new is recorded of the call, and it is marked in the open turn too.
RecordFollows(c) ==
  /\ publisher'.started => run'.turn = run.turn /\ (publisher.started \/ open'.tools[c] = "none")
  /\ open'.tools[c] # "none" => open.tools[c] # "none"
  /\ open'.tools[c] = "running" => open.tools[c] = "running" /\ (tool'[c].settled => tool[c].settled)
  /\ \A m \in messages' : m \in messages \/ (m.tools[c] = "running" => open.tools[c] = "running")

LEMMA SameCall ==
  ASSUME NEW c \in Calls, TypeOK, TypeOK', CallOK(c), Same(c), RunFollows(c)
  PROVE  CallOK(c)'
<1>1. run.turn \in Int /\ run'.turn \in Int /\ tool[c].turn \in Int
  BY DEF TypeOK, Runs, Entries
<1> QED BY <1>1 DEF CallOK, Same, RunFollows, Live

LEMMA SameRecord ==
  ASSUME NEW c \in Calls, RecordOK(c), Same(c), RecordFollows(c)
  PROVE  RecordOK(c)'
<1>1. open'.tools[c] = "running" => tool'[c].stage \in Called
  BY DEF RecordOK, Same, RecordFollows
<1>2. \A m \in messages' : m.tools[c] = "running" => tool'[c].stage \in Called
  BY DEF RecordOK, Same, RecordFollows
<1>3. publisher'.started /\ open'.tools[c] # "none" => tool'[c].turn = run'.turn
  BY DEF RecordOK, Same, RecordFollows
<1>4. publisher'.started /\ open'.tools[c] = "running" /\ fiber'[c].pc # "none" /\ tool'[c].settled
        => fiber'[c].pc = "publishing" \/ fiber'[c].aborted
  BY DEF RecordOK, Same, RecordFollows
<1> QED BY <1>1, <1>2, <1>3, <1>4 DEF RecordOK

\* What is due of the call was due before.
LEMMA SameDue ==
  ASSUME NEW c \in Calls, DueOK(c), Same(c),
         TurnIsSettled' => TurnIsSettled /\ run'.turn = run.turn,
         run'.pc # "idle" /\ tool[c].turn \in run'.first .. LastTurn' =>
           run.pc # "idle" /\ tool[c].turn \in run.first .. LastTurn
  PROVE  DueOK(c)'
<1>1. /\ tool[c].settled => tool'[c].settled
      /\ fiber[c].aborted => fiber'[c].aborted
      /\ tool[c].settled /\ log[c].settled = 1 => log'[c].settled = 1
      /\ tool'[c].turn = tool[c].turn /\ fiber'[c].pc = fiber[c].pc
  BY DEF Same
<1> QED BY <1>1 DEF DueOK

LEMMA SameEnded ==
  ASSUME NEW c \in Calls, EndedOK(c), Same(c), \A m \in messages' : m \in messages \/ m.finish # "stop"
  PROVE  EndedOK(c)'
BY DEF EndedOK, Same

-----------------------------------------------------------------------------
(* What the helpers do to a call.                                          *)

LEMMA SettledFacts ==
  ASSUME TypeOK, MarkedBeforeLogged, NEW c \in Calls,
         NEW calls, calls \subseteq {d \in Calls : ~tool[d].settled}
  PROVE  /\ Settled(calls)[c].turn = tool[c].turn /\ Settled(calls)[c].stage = tool[c].stage
         /\ c \in calls => Settled(calls)[c].settled /\ Logged(calls)[c].settled = 1 /\ ~tool[c].settled
         /\ c \notin calls => Settled(calls)[c] = tool[c] /\ Logged(calls)[c] = log[c]
<1>1. tool[c] \in Entries /\ log[c] \in [settled : Nat, recovered : 0 .. 1]
  BY DEF TypeOK
<1>2. CASE c \in calls
  <2>1. ~tool[c].settled /\ log[c].settled = 0
    BY <1>2 DEF MarkedBeforeLogged
  <2>2. Settled(calls)[c] = [tool[c] EXCEPT !.settled = TRUE]
    BY <1>2 DEF Settled
  <2>3. Logged(calls)[c] = [log[c] EXCEPT !.settled = @ + 1]
    BY <1>2 DEF Logged
  <2>4. Logged(calls)[c].settled = 1
    BY <1>1, <2>1, <2>3
  <2>5. Settled(calls)[c].settled /\ Settled(calls)[c].turn = tool[c].turn /\ Settled(calls)[c].stage = tool[c].stage
    BY <1>1, <2>2 DEF Entries
  <2> QED BY <1>2, <2>1, <2>4, <2>5
<1>3. CASE c \notin calls
  BY <1>3 DEF Settled, Logged
<1> QED BY <1>2, <1>3

LEMMA ProjectedFacts ==
  ASSUME NEW turn \in Turns, NEW calls, NEW c \in Calls
  PROVE  /\ Projected(turn, calls).tools[c] # "none" => turn.tools[c] # "none"
         /\ Projected(turn, calls).tools[c] = "running" => turn.tools[c] = "running" /\ c \notin calls
BY DEF Projected, Turns

LEMMA RecordedFacts ==
  ASSUME NEW turn \in Turns, NEW c \in Calls, NEW status, NEW d \in Calls
  PROVE  \/ Recorded(turn, c, status).tools[d] = turn.tools[d]
         \/ d = c /\ Recorded(turn, c, status).tools[d] = status
BY DEF Recorded, Turns

\* Before the turn is started nothing is recorded of it.
LEMMA OpenedFacts ==
  ASSUME NEW c \in Calls
  PROVE  /\ publisher.started => Opened = open
         /\ ~publisher.started => Opened.tools[c] = "none"
         /\ NoTurn.tools[c] = "none"
BY DEF Opened, NoTurn, NoTools

LEMMA StartedFacts ==
  ASSUME NEW pub \in Publishers
  PROVE  Started(pub).started /\ (pub.stepFailed \/ FailedStep(pub).started)
                              /\ (pub.stepFailed => FailedStep(pub) = pub)
BY DEF Publishers, Started, FailedStep

LEMMA AbortedFacts ==
  ASSUME TypeOK, NEW c \in Calls
  PROVE  /\ Aborted[c].pc = fiber[c].pc /\ Aborted[c].result = fiber[c].result
         /\ fiber[c].aborted => Aborted[c].aborted
         /\ tool[c].turn = run.turn /\ fiber[c].pc \in Live => Aborted[c].aborted
<1>1. fiber[c] \in FiberStates
  BY DEF TypeOK
<1> QED BY <1>1 DEF Aborted, FiberStates

LEMMA LeaveFacts ==
  ASSUME TypeOK, NEW turn \in Runs, Leave(Aborted, turn), NEW c \in Calls
  PROVE  /\ run'.pc = turn.pc /\ run'.turn = turn.turn /\ run'.first = turn.first /\ run'.joined = "none"
         /\ ~publisher'.started
         /\ fiber'[c].pc = fiber[c].pc /\ fiber'[c].result = "none"
         /\ fiber[c].aborted => fiber'[c].aborted
         /\ tool[c].turn = run.turn /\ fiber[c].pc \in Live => fiber'[c].aborted
<1>1. /\ run'.pc = turn.pc /\ run'.turn = turn.turn /\ run'.first = turn.first /\ run'.joined = "none"
  BY DEF Leave, Runs
<1>2. ~publisher'.started
  BY DEF Leave, NewPublisher
<1>3. fiber'[c] = [Aborted[c] EXCEPT !.result = "none"]
  BY DEF Leave
<1>4. Aborted[c] \in FiberStates
  BY AbortedType
<1>5. /\ fiber'[c].pc = Aborted[c].pc /\ fiber'[c].result = "none"
      /\ fiber'[c].aborted = Aborted[c].aborted
  BY <1>3, <1>4 DEF FiberStates
<1> QED BY <1>1, <1>2, <1>5, AbortedFacts

\* fail_unsettled_tools: it marks, logs and records the end of what it finds unsettled.
LEMMA FailFacts ==
  ASSUME TypeOK, MarkedBeforeLogged, NEW calls, NEW failsStep \in BOOLEAN,
         FailUnsettled(calls, failsStep), NEW c \in Calls,
         fiber'[c].pc = fiber[c].pc, fiber'[c].result \in {fiber[c].result, "none"},
         fiber[c].aborted => fiber'[c].aborted
  PROVE  /\ Same(c)
         /\ c \in Unsettled \intersect calls => tool'[c].settled
         /\ tool'[c].settled => tool[c].settled \/ c \in Unsettled
         /\ open'.tools[c] # "none" => open.tools[c] # "none"
         /\ open'.tools[c] = "running" => open.tools[c] = "running" /\ (tool'[c].settled => tool[c].settled)
         /\ failsStep /\ ~publisher.stepFailed => open'.tools[c] = "none"
         /\ \A m \in messages' : m \in messages \/
              (m.finish = "error" /\ (m.tools[c] = "running" => open.tools[c] = "running"))
<1> DEFINE unsettled == Unsettled \intersect calls
           turn      == Projected(open, unsettled)
           last      == IF publisher.started THEN turn ELSE [turn |-> run.turn, tools |-> NoTools]
           message   == [turn |-> run.turn, finish |-> "error", tools |-> last.tools]
<1>1. tool' = Settled(unsettled) /\ log' = Logged(unsettled)
  BY DEF FailUnsettled
<1>2. unsettled \subseteq {d \in Calls : ~tool[d].settled}
  BY DEF Unsettled
<1>3. open' \in {turn, NoTurn} /\ (failsStep /\ ~publisher.stepFailed => open' = NoTurn)
  BY DEF FailUnsettled
<1>4. \A m \in messages' : m \in messages \/ m = message
  BY DEF FailUnsettled
<1>5. /\ turn.tools[c] # "none" => open.tools[c] # "none"
      /\ turn.tools[c] = "running" => open.tools[c] = "running" /\ c \notin unsettled
  BY ProjectedFacts DEF TypeOK
<1>6. last.tools[c] = "running" => open.tools[c] = "running"
  BY <1>5 DEF NoTools
<1>7. message.finish = "error" /\ message.tools = last.tools
  OBVIOUS
<1>8. c \in unsettled => c \in Unsettled /\ tool[c].stage # "none"
  BY DEF Unsettled
<1> HIDE DEF turn, last, message, unsettled
<1>9. /\ tool'[c].turn = tool[c].turn /\ tool'[c].stage = tool[c].stage
      /\ c \in unsettled => tool'[c].settled /\ log'[c].settled = 1 /\ ~tool[c].settled
      /\ c \notin unsettled => tool'[c] = tool[c] /\ log'[c] = log[c]
  BY <1>1, <1>2, SettledFacts
<1>10. Same(c)
  <2>1. CASE c \in unsettled
    BY <1>8, <1>9, <2>1 DEF Same
  <2>2. CASE c \notin unsettled
    BY <1>9, <2>2 DEF Same
  <2> QED BY <2>1, <2>2
<1>11. open' = turn \/ open'.tools[c] = "none"
  BY <1>3, OpenedFacts
<1>12. failsStep /\ ~publisher.stepFailed => open'.tools[c] = "none"
  BY <1>3, OpenedFacts
<1>13. /\ open'.tools[c] # "none" => open.tools[c] # "none"
       /\ open'.tools[c] = "running" => open.tools[c] = "running" /\ (tool'[c].settled => tool[c].settled)
  BY <1>5, <1>9, <1>11
<1>14. \A m \in messages' : m \in messages \/
         (m.finish = "error" /\ (m.tools[c] = "running" => open.tools[c] = "running"))
  BY <1>4, <1>6, <1>7
<1>15. tool'[c].settled => tool[c].settled \/ c \in Unsettled
  BY <1>8, <1>9
<1>16. c \in Unsettled \intersect calls => tool'[c].settled
  BY <1>9 DEF unsettled
<1> QED BY <1>10, <1>12, <1>13, <1>14, <1>15, <1>16
-----------------------------------------------------------------------------
(* Steps that are not about a single call.                                 *)

DueFollows(c) ==
  /\ TurnIsSettled' => TurnIsSettled /\ run'.turn = run.turn
  /\ run'.pc # "idle" /\ tool[c].turn \in run'.first .. LastTurn' =>
       run.pc # "idle" /\ tool[c].turn \in run.first .. LastTurn

LEMMA SameTurn ==
  ASSUME TurnInv, TypeOK', NEW c \in Calls, Same(c), RunFollows(c), RecordFollows(c), DueFollows(c),
         \A m \in messages' : m \in messages \/ m.finish # "stop"
  PROVE  TurnOK(c)'
<1>1. CallOK(c)'
  BY SameCall DEF TurnInv, TurnOK
<1>2. RecordOK(c)'
  BY SameRecord DEF TurnInv, TurnOK
<1>3. DueOK(c)'
  BY SameDue DEF TurnInv, TurnOK, DueFollows
<1>4. EndedOK(c)'
  BY SameEnded DEF TurnInv, TurnOK
<1> QED BY <1>1, <1>2, <1>3, <1>4 DEF TurnOK

LEMMA Numbers ==
  ASSUME TypeOK, NEW c \in Calls
  PROVE  /\ run.turn \in Nat /\ run.first \in Nat /\ tool[c].turn \in Nat
         /\ tool[c] \in Entries /\ fiber[c] \in FiberStates /\ run \in Runs
         /\ log[c] \in [settled : Nat, recovered : 0 .. 1]
BY TurnSettlementAssumption DEF TypeOK, Runs, Entries

LEMMA BeginDrainTurn ==
  ASSUME TurnInv, TypeOK', BeginDrain
  PROVE  NotStarted' /\ \A c \in Calls : TurnOK(c)'
<1>1. ~publisher'.started
  BY DEF BeginDrain, TurnInv, NotStarted
<1>2. /\ run'.pc = "ready" /\ run'.turn = run.turn /\ run'.first = run.turn + 1
      /\ UNCHANGED <<publisher, tool, fiber, messages>> /\ open' = NoTurn
  BY DEF BeginDrain, TurnInv, TypeOK, Runs
<1>3. ASSUME NEW c \in Calls PROVE TurnOK(c)'
  <2>1. /\ run.turn \in Nat /\ tool[c].turn \in Nat /\ tool[c].turn <= run.turn
        /\ fiber[c].pc \in Live => fiber[c].aborted
    BY Numbers DEF TurnInv, TurnOK, CallOK, BeginDrain
  <2>2. log'[c].settled = log[c].settled
    <3>1. log'[c] \in {log[c], [log[c] EXCEPT !.recovered = 1]}
      BY DEF BeginDrain
    <3> QED BY <3>1, Numbers DEF TurnInv
  <2>3. Same(c)
    BY <1>2, <2>2 DEF Same
  <2>4. RunFollows(c)
    BY <1>2, <2>1 DEF RunFollows
  <2>5. RecordFollows(c)
    BY <1>1, <1>2, OpenedFacts DEF RecordFollows
  <2>6. DueFollows(c)
    BY <1>2, <2>1 DEF DueFollows, TurnIsSettled, LastTurn
  <2> QED BY <1>2, <2>3, <2>4, <2>5, <2>6, SameTurn
<1> QED BY <1>1, <1>3 DEF NotStarted

LEMMA StartTurnTurn ==
  ASSUME TurnInv, TypeOK', StartTurn
  PROVE  NotStarted' /\ \A c \in Calls : TurnOK(c)'
<1>1. ~publisher'.started
  BY DEF StartTurn, TurnInv, NotStarted
<1>2. /\ run.pc = "ready" /\ run'.pc = "streaming" /\ run'.turn = run.turn + 1 /\ run'.first = run.first
      /\ UNCHANGED <<publisher, tool, fiber, log, open, messages>>
  BY DEF StartTurn, TurnInv, TypeOK, Runs
<1>3. ASSUME NEW c \in Calls PROVE TurnOK(c)'
  <2>1. /\ run.turn \in Nat /\ tool[c].turn \in Nat /\ tool[c].turn <= run.turn
        /\ fiber[c].pc \in Live => fiber[c].aborted
    BY <1>2, Numbers DEF TurnInv, TurnOK, CallOK
  <2>2. Same(c)
    BY <1>2 DEF Same
  <2>3. RunFollows(c)
    BY <1>2, <2>1 DEF RunFollows
  <2>4. RecordFollows(c)
    BY <1>1, <1>2 DEF RecordFollows
  <2>5. DueFollows(c)
    BY <1>2, <2>1 DEF DueFollows, TurnIsSettled, LastTurn
  <2> QED BY <1>2, <2>2, <2>3, <2>4, <2>5, SameTurn
<1> QED BY <1>1, <1>3 DEF NotStarted

\* The runner stays in its turn and has not settled it; `more` may be anything.
LEMMA InTurn ==
  ASSUME TurnInv, TypeOK', run.pc \in {"streaming", "closed", "joining"},
         run'.turn = run.turn, run'.first = run.first,
         run'.pc = run.pc \/ run'.pc \in {"closed", "joining"},
         run'.pc = "streaming" => run'.tools = run.tools,
         NEW c \in Calls, Same(c), RecordFollows(c),
         run'.pc = "streaming" => (tool'[c].settled => tool[c].settled \/ tool[c].stage = "hosted"),
         \A m \in messages' : m \in messages \/ m.finish # "stop"
  PROVE  TurnOK(c)'
<1>1. run.turn <= run'.turn
  BY Numbers DEF TurnInv
<1>2. RunFollows(c)
  BY <1>1 DEF RunFollows, TurnInv, TurnOK, CallOK
<1>3. DueFollows(c)
  BY DEF DueFollows, TurnIsSettled, LastTurn
<1> QED BY <1>2, <1>3, SameTurn

LEMMA StreamTurn ==
  ASSUME TurnInv, TypeOK',
         \/ TextStarts \/ StepFinishes \/ ProviderErrs \/ ContextOverflows
         \/ \E how \in {"left", "completed", "failed", "interrupted"} : StreamEnds(how)
  PROVE  NotStarted' /\ \A c \in Calls : TurnOK(c)'
<1>1. /\ run.pc = "streaming" /\ run'.pc \in {"streaming", "closed"}
      /\ run'.turn = run.turn /\ run'.first = run.first
      /\ run'.pc = "streaming" => run'.tools = run.tools
      /\ UNCHANGED fiber
  BY DEF TextStarts, StepFinishes, ProviderErrs, ContextOverflows, StreamEnds, Streaming, TurnInv, TypeOK, Runs
<1>2. NotStarted'
  BY <1>1 DEF NotStarted
<1>3. ASSUME NEW c \in Calls PROVE TurnOK(c)'
  <2>1. CASE ~ProviderErrs
    <3>1. UNCHANGED <<tool, log, messages>>
      BY <2>1 DEF TextStarts, StepFinishes, ContextOverflows, StreamEnds
    <3>2. Same(c)
      BY <1>1, <3>1 DEF Same
    <3>3. open'.tools[c] = "none" \/ (open' = open /\ publisher'.started = publisher.started)
      <4>1. CASE TextStarts
        BY <4>1, OpenedFacts DEF TextStarts
      <4>2. CASE StepFinishes
        BY <4>2 DEF StepFinishes, TurnInv, TypeOK, Publishers
      <4>3. CASE ContextOverflows \/ \E how \in {"left", "completed", "failed", "interrupted"} : StreamEnds(how)
        BY <4>3 DEF ContextOverflows, StreamEnds
      <4> QED BY <2>1, <4>1, <4>2, <4>3
    <3>4. RecordFollows(c)
      BY <1>1, <3>1, <3>3 DEF RecordFollows
    <3> QED BY <1>1, <3>1, <3>2, <3>4, InTurn
  <2>2. CASE ProviderErrs
    <3>1. /\ FailUnsettled({}, TRUE)
          /\ publisher' = [FailedStep(publisher) EXCEPT !.providerFailed = TRUE]
      BY <2>2 DEF ProviderErrs
    <3>2. /\ Same(c)
          /\ open'.tools[c] # "none" => open.tools[c] # "none"
          /\ open'.tools[c] = "running" => open.tools[c] = "running" /\ (tool'[c].settled => tool[c].settled)
          /\ ~publisher.stepFailed => open'.tools[c] = "none"
          /\ \A m \in messages' : m \in messages \/
               (m.finish = "error" /\ (m.tools[c] = "running" => open.tools[c] = "running"))
      BY <1>1, <3>1, FailFacts DEF TurnInv
    <3>3. publisher.stepFailed => publisher'.started = publisher.started
      BY <3>1, PublisherTypes, StartedFacts DEF TurnInv, TypeOK, Publishers
    <3>4. RecordFollows(c)
      BY <1>1, <3>2, <3>3 DEF RecordFollows
    <3>5. tool'[c].settled => tool[c].settled
      BY <3>1, SettledFacts DEF FailUnsettled, Unsettled, TurnInv
    <3> QED BY <1>1, <3>2, <3>4, <3>5, InTurn
  <2> QED BY <2>1, <2>2
<1> QED BY <1>2, <1>3

LEMMA HostedTurn ==
  ASSUME TurnInv, TypeOK', NEW d \in Calls, HostedResult(d)
  PROVE  NotStarted' /\ \A c \in Calls : TurnOK(c)'
<1>1. /\ run.pc = "streaming" /\ UNCHANGED <<run, publisher, fiber, messages>>
      /\ ~tool[d].settled /\ tool[d].stage = "hosted"
      /\ tool' = Settled({d}) /\ log' = Logged({d}) /\ open' = Projected(open, {d})
  BY DEF HostedResult, Streaming, Unsettled, Hosted
<1>2. NotStarted'
  BY <1>1 DEF NotStarted
<1>3. ASSUME NEW c \in Calls PROVE TurnOK(c)'
  <2>1. /\ tool'[c].turn = tool[c].turn /\ tool'[c].stage = tool[c].stage
        /\ c = d => tool'[c].settled /\ log'[c].settled = 1
        /\ c # d => tool'[c] = tool[c] /\ log'[c] = log[c]
    BY <1>1, SettledFacts DEF TurnInv
  <2>2. Same(c)
    BY <1>1, <2>1 DEF Same
  <2>3. /\ open'.tools[c] # "none" => open.tools[c] # "none"
        /\ open'.tools[c] = "running" => open.tools[c] = "running" /\ c # d
    BY <1>1, ProjectedFacts DEF TurnInv, TypeOK
  <2>4. RecordFollows(c)
    BY <1>1, <2>1, <2>3 DEF RecordFollows
  <2> QED BY <1>1, <2>1, <2>2, <2>4, InTurn
<1> QED BY <1>2, <1>3
-----------------------------------------------------------------------------
(* Steps about one call of the stream.                                     *)

LEMMA InputTurn ==
  ASSUME TurnInv, TypeOK', NEW d \in Calls, ToolInputStarts(d)
  PROVE  NotStarted' /\ \A c \in Calls : TurnOK(c)'
<1>1. /\ run.pc = "streaming" /\ UNCHANGED <<run, fiber, log, messages>>
      /\ tool[d].stage = "none" /\ tool' = [tool EXCEPT ![d].turn = run.turn, ![d].stage = "input"]
      /\ open' = Recorded(Opened, d, "pending")
  BY DEF ToolInputStarts, Streaming
<1>2. /\ \A c \in Calls \ {d} : tool'[c] = tool[c]
      /\ tool'[d].turn = run.turn /\ tool'[d].stage = "input" /\ tool'[d].settled = tool[d].settled
  BY <1>1 DEF TurnInv, TypeOK, Entries
<1>3. NotStarted'
  BY <1>1 DEF NotStarted
<1>4. ASSUME NEW c \in Calls, c # d PROVE TurnOK(c)'
  <2>1. Same(c)
    BY <1>1, <1>2, <1>4 DEF Same
  <2>2. open'.tools[c] = Opened.tools[c]
    BY <1>1, <1>4, OpenedType, RecordedFacts DEF TurnInv
  <2>3. RecordFollows(c)
    BY <1>1, <1>2, <1>4, <2>2, OpenedFacts DEF RecordFollows
  <2> QED BY <1>1, <1>2, <1>4, <2>1, <2>3, InTurn
<1>5. TurnOK(d)'
  <2>1. CallOK(d) /\ RecordOK(d)
    BY DEF TurnInv, TurnOK
  <2>2. fiber[d].pc = "none" /\ ~tool[d].settled
    BY <1>1, <2>1 DEF CallOK
  <2>3. run.turn <= run.turn
    BY Numbers DEF TurnInv
  <2>4. CallOK(d)'
    BY <1>1, <1>2, <2>1, <2>2, <2>3 DEF CallOK, Live
  <2>5. Opened.tools[d] # "running"
    BY <1>1, <2>1, OpenedFacts DEF RecordOK, Called
  <2>6. open'.tools[d] # "running"
    BY <1>1, <2>5, OpenedType, RecordedFacts DEF TurnInv
  <2>7. \A m \in messages' : m.tools[d] # "running"
    BY <1>1, <2>1 DEF RecordOK, Called
  <2>8. RecordOK(d)'
    BY <1>1, <1>2, <2>6, <2>7 DEF RecordOK
  <2>9. DueOK(d)' /\ EndedOK(d)'
    BY <1>1, <2>2 DEF DueOK, EndedOK
  <2> QED BY <2>4, <2>8, <2>9 DEF TurnOK
<1> QED BY <1>3, <1>4, <1>5

LEMMA CalledTurn ==
  ASSUME TurnInv, TypeOK', NEW d \in Calls, NEW stage \in {"local", "hosted"}, ToolCalled(d, stage)
  PROVE  NotStarted' /\ \A c \in Calls : TurnOK(c)'
<1>1. /\ run.pc = "streaming" /\ UNCHANGED <<log, messages>>
      /\ Callable(d) /\ (stage = "hosted" \/ run.tools)
      /\ tool' = [tool EXCEPT ![d].turn = run.turn, ![d].stage = stage]
      /\ open' = Recorded(Opened, d, "running")
  BY DEF ToolCalled, Streaming
<1>2. /\ \A c \in Calls \ {d} : tool'[c] = tool[c]
      /\ tool'[d].turn = run.turn /\ tool'[d].stage = stage /\ tool'[d].settled = tool[d].settled
  BY <1>1 DEF TurnInv, TypeOK, Entries
<1>3. /\ run'.pc = "streaming" /\ run'.turn = run.turn /\ run'.first = run.first /\ run'.tools = run.tools
      /\ \A c \in Calls \ {d} : fiber'[c] = fiber[c]
      /\ stage = "hosted" => fiber'[d].pc = fiber[d].pc
      /\ stage = "local" => fiber'[d].pc = "executing"
      /\ fiber'[d].result = fiber[d].result /\ fiber'[d].aborted = fiber[d].aborted
  BY <1>1 DEF ToolCalled, TurnInv, TypeOK, Runs, FiberStates
<1>4. NotStarted'
  BY <1>3 DEF NotStarted
<1>5. ASSUME NEW c \in Calls, c # d PROVE TurnOK(c)'
  <2>1. Same(c)
    BY <1>1, <1>2, <1>3, <1>5 DEF Same
  <2>2. open'.tools[c] = Opened.tools[c]
    BY <1>1, <1>5, OpenedType, RecordedFacts DEF TurnInv
  <2>3. RecordFollows(c)
    BY <1>1, <1>2, <1>3, <1>5, <2>2, OpenedFacts DEF RecordFollows
  <2> QED BY <1>1, <1>2, <1>3, <1>5, <2>1, <2>3, InTurn
<1>6. TurnOK(d)'
  <2>1. CallOK(d) /\ RecordOK(d)
    BY DEF TurnInv, TurnOK
  <2>2. fiber[d].pc = "none" /\ tool[d].stage \notin Called /\ (run.tools => ~tool[d].settled)
    BY <1>1, <2>1 DEF CallOK, Callable, Called
  <2>3. run.turn <= run.turn /\ run.turn \notin run.first .. run.turn - 1
    BY Numbers DEF TurnInv
  <2>4. CallOK(d)'
    <3>1. tool'[d].settled => log'[d].settled = 1 \/ fiber'[d].pc = "publishing" \/ fiber'[d].aborted
      BY <1>1, <1>2, <1>3, <2>1, <2>2 DEF CallOK
    <3>2. fiber'[d].pc # "none" => tool'[d].stage = "local"
      BY <1>2, <1>3, <2>2
    <3>3. fiber'[d].result = "ok" => tool'[d].settled
      BY <1>2, <1>3, <2>1 DEF CallOK
    <3> QED BY <1>2, <1>3, <2>3, <3>1, <3>2, <3>3 DEF CallOK
  <2>5. \A m \in messages' : m.tools[d] # "running"
    BY <1>1, <2>1, <2>2 DEF RecordOK
  <2>6. RecordOK(d)'
    BY <1>1, <1>2, <1>3, <2>2, <2>5 DEF RecordOK, Called
  <2>7. DueOK(d)'
    BY <1>2, <1>3, <2>3 DEF DueOK, TurnIsSettled, LastTurn
  <2>8. EndedOK(d)'
    BY <2>5 DEF EndedOK
  <2> QED BY <2>4, <2>6, <2>7, <2>8 DEF TurnOK
<1> QED BY <1>4, <1>5, <1>6

LEMMA DisabledTurn ==
  ASSUME TurnInv, TypeOK', NEW d \in Calls, DisabledToolCalled(d)
  PROVE  NotStarted' /\ \A c \in Calls : TurnOK(c)'
<1> DEFINE failed == Unsettled \union {e \in {d} : ~tool[e].settled}
           record == Recorded(Opened, d, "running")
<1>1. /\ run.pc = "streaming" /\ ~run.tools /\ UNCHANGED <<run, fiber, messages>> /\ Callable(d)
      /\ tool' = [Settled(failed) EXCEPT ![d].turn = run.turn, ![d].stage = "local"]
      /\ log' = Logged(failed)
      /\ open' = Projected(record, failed)
  BY DEF DisabledToolCalled, Streaming
<1>2. failed \subseteq {e \in Calls : ~tool[e].settled}
  BY DEF Unsettled
<1>3. \A e \in failed \ {d} : tool[e].stage # "none"
  BY DEF Unsettled
<1>4. record \in Turns
  BY OpenedType, RecordedType DEF TurnInv, Statuses
<1>5. \A c \in Calls \ {d} : record.tools[c] = Opened.tools[c]
  BY OpenedType, RecordedFacts DEF TurnInv
<1> HIDE DEF failed, record
<1>6. /\ \A c \in Calls \ {d} : tool'[c] = Settled(failed)[c]
      /\ tool'[d].turn = run.turn /\ tool'[d].stage = "local"
      /\ tool'[d].settled = Settled(failed)[d].settled
  BY <1>1, SettledType DEF TurnInv, Entries
<1>7. NotStarted'
  BY <1>1 DEF NotStarted
<1>8. ASSUME NEW c \in Calls, c # d PROVE TurnOK(c)'
  <2>1. /\ tool'[c].turn = tool[c].turn /\ tool'[c].stage = tool[c].stage
        /\ c \in failed => tool'[c].settled /\ log'[c].settled = 1 /\ ~tool[c].settled
        /\ c \notin failed => tool'[c] = tool[c] /\ log'[c] = log[c]
    <3>1. /\ Settled(failed)[c].turn = tool[c].turn /\ Settled(failed)[c].stage = tool[c].stage
          /\ c \in failed => Settled(failed)[c].settled /\ Logged(failed)[c].settled = 1 /\ ~tool[c].settled
          /\ c \notin failed => Settled(failed)[c] = tool[c] /\ Logged(failed)[c] = log[c]
      BY <1>2, SettledFacts DEF TurnInv
    <3>2. tool'[c] = Settled(failed)[c] /\ log'[c] = Logged(failed)[c]
      BY <1>1, <1>6, <1>8
    <3> QED BY <3>1, <3>2
  <2>2. Same(c)
    <3>1. CASE c \in failed
      BY <1>1, <1>3, <1>8, <2>1, <3>1 DEF Same
    <3>2. CASE c \notin failed
      BY <1>1, <2>1, <3>2 DEF Same
    <3> QED BY <3>1, <3>2
  <2>3. /\ open'.tools[c] # "none" => record.tools[c] # "none"
        /\ open'.tools[c] = "running" => record.tools[c] = "running" /\ c \notin failed
    BY <1>1, <1>4, ProjectedFacts
  <2>4. (publisher.started /\ record.tools[c] = open.tools[c]) \/ record.tools[c] = "none"
    BY <1>5, <1>8, OpenedFacts
  <2>5. RecordFollows(c)
    BY <1>1, <2>1, <2>3, <2>4 DEF RecordFollows
  <2>6. RunFollows(c)
    <3>1. run.turn <= run.turn
      BY Numbers DEF TurnInv
    <3> QED BY <1>1, <3>1 DEF RunFollows, TurnInv, TurnOK, CallOK
  <2>7. DueFollows(c)
    BY <1>1 DEF DueFollows, TurnIsSettled, LastTurn
  <2> QED BY <1>1, <2>2, <2>5, <2>6, <2>7, SameTurn
<1>9. TurnOK(d)'
  <2>1. CallOK(d) /\ RecordOK(d)
    BY DEF TurnInv, TurnOK
  <2>2. fiber[d].pc = "none" /\ tool[d].stage \notin Called
    BY <1>1, <2>1 DEF CallOK, Callable, Called
  <2>3. run.turn <= run.turn /\ run.turn \notin run.first .. run.turn - 1
    BY Numbers DEF TurnInv
  <2>4. /\ d \in failed => tool'[d].settled /\ log'[d].settled = 1
        /\ d \notin failed => (tool'[d].settled <=> tool[d].settled) /\ log'[d] = log[d]
    BY <1>1, <1>2, <1>6, SettledFacts DEF TurnInv
  <2>5. CallOK(d)'
    <3>1. tool'[d].settled => log'[d].settled = 1 \/ fiber'[d].pc = "publishing" \/ fiber'[d].aborted
      BY <1>1, <2>1, <2>4 DEF CallOK
    <3>2. fiber'[d].result = "ok" => tool'[d].settled
      BY <1>1, <2>1, <2>4 DEF CallOK
    <3> QED BY <1>1, <1>6, <2>2, <2>3, <3>1, <3>2 DEF CallOK, Live
  <2>6. \A m \in messages' : m.tools[d] # "running"
    BY <1>1, <2>1, <2>2 DEF RecordOK
  <2>7. RecordOK(d)'
    BY <1>1, <1>6, <2>2, <2>6 DEF RecordOK, Called
  <2>8. DueOK(d)' /\ EndedOK(d)'
    BY <1>1, <2>2 DEF DueOK, EndedOK
  <2> QED BY <2>5, <2>7, <2>8 DEF TurnOK
<1> QED BY <1>7, <1>8, <1>9
-----------------------------------------------------------------------------
(* Steps that leave the turn.                                              *)

\* The turn's fibers are aborted, and nothing is due of the turn any more.
LEMMA LeavingTurn ==
  ASSUME TurnInv, TypeOK', NEW turn \in Runs, Leave(Aborted, turn), run.pc \notin {"idle", "ready"},
         turn.turn = run.turn,
         turn.pc = "idle" \/ (turn.pc = "ready" /\ turn.first = run.turn + 1),
         NEW c \in Calls, Same(c),
         open'.tools[c] # "none" => open.tools[c] # "none",
         open'.tools[c] = "running" => open.tools[c] = "running" /\ (tool'[c].settled => tool[c].settled),
         UNCHANGED messages
  PROVE  TurnOK(c)'
<1>1. /\ run'.pc = turn.pc /\ run'.turn = run.turn /\ run'.first = turn.first /\ run'.joined = "none"
      /\ ~publisher'.started
      /\ fiber'[c].pc = fiber[c].pc
      /\ tool[c].turn = run.turn /\ fiber[c].pc \in Live => fiber'[c].aborted
      /\ fiber[c].aborted => fiber'[c].aborted
  BY LeaveFacts DEF TurnInv
<1>2. run.turn \in Nat /\ tool[c].turn \in Nat /\ tool[c].turn <= run.turn
  BY Numbers DEF TurnInv, TurnOK, CallOK
<1>3. RunFollows(c)
  BY <1>1, <1>2 DEF RunFollows, TurnInv, TurnOK, CallOK
<1>4. RecordFollows(c)
  BY <1>1 DEF RecordFollows
<1>5. DueFollows(c)
  BY <1>1, <1>2 DEF DueFollows, TurnIsSettled, LastTurn
<1> QED BY <1>3, <1>4, <1>5, SameTurn

LEMMA LeaveTurn ==
  ASSUME TurnInv, TypeOK', BadEvent \/ RecoverOverflow \/ TurnDeclined
  PROVE  NotStarted' /\ \A c \in Calls : TurnOK(c)'
<1>1. CASE BadEvent \/ RecoverOverflow
  <2> DEFINE turn == IF BadEvent THEN [run EXCEPT !.pc = "idle"]
                     ELSE [run EXCEPT !.pc = "ready", !.first = run.turn + 1, !.recovers = FALSE]
  <2>1. /\ turn \in Runs /\ turn.turn = run.turn
        /\ turn.pc = "idle" \/ (turn.pc = "ready" /\ turn.first = run.turn + 1)
    <3>1. CASE BadEvent
      BY <3>1 DEF TurnInv, TypeOK, Runs
    <3>2. CASE RecoverOverflow /\ ~BadEvent
      BY <3>2, Counted DEF RecoverOverflow, TurnInv, TypeOK, Runs
    <3> QED BY <1>1, <3>1, <3>2
  <2>2. /\ Leave(Aborted, turn) /\ run.pc \notin {"idle", "ready"}
        /\ UNCHANGED <<tool, log, open, messages>>
    BY <1>1 DEF BadEvent, RecoverOverflow, Streaming
  <2> HIDE DEF turn
  <2>3. ASSUME NEW c \in Calls PROVE TurnOK(c)'
    <3>1. Same(c)
      BY <2>1, <2>2, LeaveFacts DEF Same, TurnInv
    <3> QED BY <2>1, <2>2, <3>1, LeavingTurn
  <2>4. NotStarted'
    BY <2>2 DEF Leave, NewPublisher, NotStarted
  <2> QED BY <2>3, <2>4
<1>2. CASE TurnDeclined
  <2> DEFINE turn == [run EXCEPT !.pc = "idle"]
  <2>1. turn \in Runs /\ turn.turn = run.turn /\ turn.pc = "idle"
    BY DEF TurnInv, TypeOK, Runs
  <2>2. Leave(Aborted, turn) /\ run.pc \notin {"idle", "ready"} /\ FailUnsettled(Calls, FALSE)
    BY <1>2 DEF TurnDeclined
  <2>3. UNCHANGED messages
    BY <2>2 DEF FailUnsettled
  <2> HIDE DEF turn
  <2>4. ASSUME NEW c \in Calls PROVE TurnOK(c)'
    <3>1. /\ fiber'[c].pc = fiber[c].pc /\ fiber'[c].result = "none"
          /\ fiber[c].aborted => fiber'[c].aborted
      BY <2>1, <2>2, LeaveFacts DEF TurnInv
    <3>2. /\ Same(c)
          /\ open'.tools[c] # "none" => open.tools[c] # "none"
          /\ open'.tools[c] = "running" => open.tools[c] = "running" /\ (tool'[c].settled => tool[c].settled)
      BY <2>2, <3>1, FailFacts DEF TurnInv
    <3> QED BY <2>1, <2>2, <2>3, <3>2, LeavingTurn
  <2>5. NotStarted'
    BY <2>2 DEF Leave, NewPublisher, NotStarted
  <2> QED BY <2>4, <2>5
<1> QED BY <1>1, <1>2

-----------------------------------------------------------------------------
(* Steps after the stream.                                                 *)

LEMMA CloseTurn ==
  ASSUME TurnInv, TypeOK', CloseStream
  PROVE  NotStarted' /\ \A c \in Calls : TurnOK(c)'
<1>1. PICK failed \in Seen(publisher.providerFailed \/ run.overflow) :
        LET streamFailed == run.stream = "failed" /\ ~failed
            failsStep    == run.overflow \/ streamFailed
        IN  /\ FailUnsettled(IF streamFailed THEN Hosted ELSE {}, failsStep)
            /\ publisher' = [(IF failsStep THEN FailedStep(publisher) ELSE publisher)
                               EXCEPT !.providerFailed = @ \/ run.overflow]
  BY DEF CloseStream
<1> DEFINE failsStep == run.overflow \/ (run.stream = "failed" /\ ~failed)
           calls     == IF run.stream = "failed" /\ ~failed THEN Hosted ELSE {}
<1>2. FailUnsettled(calls, failsStep) /\ failsStep \in BOOLEAN
  BY <1>1
<1>3. (~failsStep \/ publisher.stepFailed) => publisher'.started = publisher.started
  BY <1>1, StartedFacts DEF TurnInv, TypeOK, Publishers
<1> HIDE DEF failsStep, calls
<1>4. /\ run.pc = "closed" /\ run'.pc = "joining" /\ run'.turn = run.turn /\ run'.first = run.first
      /\ fiber' = fiber \/ fiber' = Aborted
  BY DEF CloseStream, TurnInv, TypeOK, Runs
<1>5. NotStarted'
  BY <1>4 DEF NotStarted
<1>6. ASSUME NEW c \in Calls PROVE TurnOK(c)'
  <2>1. /\ fiber'[c].pc = fiber[c].pc /\ fiber'[c].result = fiber[c].result
        /\ fiber[c].aborted => fiber'[c].aborted
    BY <1>4, AbortedFacts DEF TurnInv
  <2>2. /\ Same(c)
        /\ open'.tools[c] # "none" => open.tools[c] # "none"
        /\ open'.tools[c] = "running" => open.tools[c] = "running" /\ (tool'[c].settled => tool[c].settled)
        /\ failsStep /\ ~publisher.stepFailed => open'.tools[c] = "none"
        /\ \A m \in messages' : m \in messages \/
             (m.finish = "error" /\ (m.tools[c] = "running" => open.tools[c] = "running"))
    BY <1>2, <2>1, FailFacts DEF TurnInv
  <2>3. RecordFollows(c)
    BY <1>3, <1>4, <2>2 DEF RecordFollows
  <2> QED BY <1>4, <2>2, <2>3, InTurn
<1> QED BY <1>5, <1>6

\* The join of a turn: every fiber is over, or the rest of them is aborted.
LEMMA JoinTurn ==
  ASSUME TurnInv, TypeOK', JoinAll \/ \E d \in Calls : StopJoining(d)
  PROVE  NotStarted' /\ \A c \in Calls : TurnOK(c)'
<1>1. /\ run.pc = "joining" /\ run'.pc = "joined" /\ run'.turn = run.turn /\ run'.first = run.first
      /\ UNCHANGED <<publisher, tool, log, open, messages>>
      /\ fiber' = fiber \/ fiber' = Aborted
  BY DEF JoinAll, StopJoining, TurnInv, TypeOK, Runs
<1>2. NotStarted'
  BY <1>1 DEF NotStarted
<1>3. ASSUME NEW c \in Calls PROVE TurnOK(c)'
  <2>1. /\ fiber'[c].pc = fiber[c].pc /\ fiber'[c].result = fiber[c].result
        /\ fiber[c].aborted => fiber'[c].aborted
    BY <1>1, AbortedFacts DEF TurnInv
  <2>2. Same(c)
    BY <1>1, <2>1 DEF Same
  <2>3. fiber[c].pc \in Live => fiber'[c].aborted
    <3>1. CASE JoinAll
      BY <1>1, <3>1 DEF JoinAll, Fibers, Live, TurnInv, TurnOK, CallOK
    <3>2. CASE \E d \in Calls : StopJoining(d)
      <4>1. fiber' = Aborted
        BY <3>2 DEF StopJoining
      <4> QED BY <4>1, AbortedFacts DEF TurnInv, TurnOK, CallOK
    <3> QED BY <3>1, <3>2
  <2>4. RunFollows(c)
    BY <1>1, <2>3, Numbers DEF RunFollows, TurnInv
  <2>5. RecordFollows(c)
    BY <1>1, <2>2 DEF RecordFollows, Same
  <2>6. CallOK(c)' /\ RecordOK(c)' /\ EndedOK(c)'
    BY <1>1, <2>2, <2>4, <2>5, SameCall, SameRecord, SameEnded DEF TurnInv, TurnOK
  <2>7. DueOK(c)'
    <3>1. CASE run'.joined \notin {"failed", "declined", "interrupted"}
      <4>1. JoinAll
        BY <3>1 DEF StopJoining, TurnInv, TypeOK, Runs
      <4>2. fiber[c].pc # "none" /\ tool[c].turn = run.turn => fiber[c].result = "ok"
        BY <3>1, <4>1 DEF JoinAll, Fibers, TurnInv, TypeOK, Runs
      <4> QED BY <1>1, <2>1, <4>2 DEF DueOK, LastTurn, TurnInv, TurnOK, CallOK
    <3>2. CASE run'.joined \in {"failed", "declined", "interrupted"}
      BY <1>1, <2>1, <3>2 DEF DueOK, TurnIsSettled, LastTurn, TurnInv, TurnOK
    <3> QED BY <3>1, <3>2
  <2> QED BY <2>6, <2>7 DEF TurnOK
<1> QED BY <1>2, <1>3
\* After the join whatever the fibers left unsettled is failed, and they have left nothing
\* when they all succeeded.
LEMMA SettleTurnTurn ==
  ASSUME TurnInv, TypeOK', SettleTurn
  PROVE  NotStarted' /\ \A c \in Calls : TurnOK(c)'
<1> DEFINE interrupted == run.stream = "interrupted" \/ run.joined = "interrupted"
           calls == IF interrupted \/ run.joined = "failed" THEN Calls ELSE {}
<1>1. PICK active \in Seen(publisher.active) :
        /\ FailUnsettled(calls, interrupted /\ active)
        /\ publisher' = IF interrupted /\ active THEN FailedStep(publisher) ELSE publisher
  BY DEF SettleTurn
<1> DEFINE failsStep == interrupted /\ active
<1>2. FailUnsettled(calls, failsStep) /\ failsStep \in BOOLEAN
  BY <1>1
<1>3. (~failsStep \/ publisher.stepFailed) => publisher'.started = publisher.started
  BY <1>1, StartedFacts DEF TurnInv, TypeOK
<1>4. run.joined \in {"failed", "interrupted"} => calls = Calls
  OBVIOUS
<1> HIDE DEF failsStep, calls, interrupted
<1>5. /\ run.pc = "joined" /\ run'.pc = "settled" /\ run'.turn = run.turn /\ run'.first = run.first
      /\ run.joined # "declined" /\ UNCHANGED fiber
  BY DEF SettleTurn, TurnInv, TypeOK, Runs
<1>6. NotStarted'
  BY <1>5 DEF NotStarted
<1>7. ASSUME NEW c \in Calls PROVE TurnOK(c)'
  <2>1. /\ Same(c)
        /\ c \in Unsettled \intersect calls => tool'[c].settled
        /\ open'.tools[c] # "none" => open.tools[c] # "none"
        /\ open'.tools[c] = "running" => open.tools[c] = "running" /\ (tool'[c].settled => tool[c].settled)
        /\ failsStep /\ ~publisher.stepFailed => open'.tools[c] = "none"
        /\ \A m \in messages' : m \in messages \/
             (m.finish = "error" /\ (m.tools[c] = "running" => open.tools[c] = "running"))
    BY <1>2, <1>5, FailFacts DEF TurnInv
  <2>2. fiber[c].pc \in Live => fiber[c].aborted
    BY <1>5 DEF TurnInv, TurnOK, CallOK
  <2>3. RunFollows(c)
    BY <1>5, <2>2, Numbers DEF RunFollows, TurnInv
  <2>4. RecordFollows(c)
    BY <1>3, <1>5, <2>1 DEF RecordFollows
  <2>5. CallOK(c)' /\ RecordOK(c)' /\ EndedOK(c)'
    BY <2>1, <2>3, <2>4, SameCall, SameRecord, SameEnded DEF TurnInv, TurnOK
  <2>6. tool[c].settled => tool'[c].settled
    BY <2>1 DEF Same
  <2>7. ASSUME tool[c].turn = run.turn, fiber[c].pc # "none" PROVE tool'[c].settled
    <3>1. CASE run.joined \in {"failed", "interrupted"}
      <4>1. tool[c].settled \/ c \in Unsettled \intersect calls
        BY <1>4, <2>7, <3>1 DEF Unsettled, TurnInv, TurnOK, CallOK
      <4> QED BY <2>1, <2>6, <4>1
    <3>2. CASE run.joined \notin {"failed", "interrupted"}
      BY <1>5, <2>6, <2>7, <3>2 DEF TurnIsSettled, DueOK, TurnInv, TurnOK
    <3> QED BY <3>1, <3>2
  <2>8. DueOK(c)'
    BY <1>5, <2>1, <2>6, <2>7 DEF DueOK, LastTurn, Same, TurnInv, TurnOK
  <2> QED BY <2>5, <2>8 DEF TurnOK
<1> QED BY <1>6, <1>7

\* The step ends: its message and the next request find the calls of the turn settled.
LEMMA EndTurnTurn ==
  ASSUME TurnInv, TypeOK', EndTurn
  PROVE  NotStarted' /\ \A c \in Calls : TurnOK(c)'
<1>1. PICK ends, late : EndStep(ends, late)
  BY DEF EndTurn
<1>2. PICK goesOn : Leave(Aborted, [run EXCEPT !.pc = IF goesOn THEN "ready" ELSE "idle", !.recovers = TRUE])
  BY DEF EndTurn
<1> DEFINE turn == [run EXCEPT !.pc = IF goesOn THEN "ready" ELSE "idle", !.recovers = TRUE]
           unsettled == Unsettled \intersect late
<1>3. turn \in Runs /\ turn.turn = run.turn /\ turn.first = run.first /\ turn.pc \in {"ready", "idle"}
  BY DEF TurnInv, TypeOK, Runs
<1>4. Leave(Aborted, turn) /\ run.pc = "settled"
  BY <1>2 DEF EndTurn
<1>5. /\ tool' = Settled(unsettled) /\ log' = Logged(unsettled)
      /\ open' \in {NoTurn, Projected(open, unsettled)}
      /\ \A m \in messages' : m \in messages \/ m.tools = Opened.tools
  BY <1>1 DEF EndStep
<1>6. unsettled \subseteq {d \in Calls : ~tool[d].settled}
  BY DEF Unsettled
<1> HIDE DEF turn
<1>7. NotStarted'
  BY <1>4 DEF Leave, NewPublisher, NotStarted
<1>8. ASSUME NEW c \in Calls PROVE TurnOK(c)'
  <2>1. /\ run'.pc \in {"ready", "idle"} /\ run'.turn = run.turn /\ run'.first = run.first
        /\ run'.joined = "none" /\ ~publisher'.started
        /\ fiber'[c].pc = fiber[c].pc /\ fiber'[c].result = "none"
        /\ fiber[c].aborted => fiber'[c].aborted
    BY <1>3, <1>4, LeaveFacts DEF TurnInv
  <2>2. c \in unsettled => tool[c].stage # "none"
    BY DEF Unsettled
  <2> HIDE DEF unsettled
  <2>3. /\ tool'[c].turn = tool[c].turn /\ tool'[c].stage = tool[c].stage
        /\ c \in unsettled => tool'[c].settled /\ log'[c].settled = 1 /\ ~tool[c].settled
        /\ c \notin unsettled => tool'[c] = tool[c] /\ log'[c] = log[c]
    BY <1>5, <1>6, SettledFacts DEF TurnInv
  <2>4. Same(c)
    <3>1. CASE c \in unsettled
      BY <2>1, <2>2, <2>3, <3>1 DEF Same
    <3>2. CASE c \notin unsettled
      BY <2>1, <2>3, <3>2 DEF Same
    <3> QED BY <3>1, <3>2
  <2>5. fiber[c].pc \in Live => fiber[c].aborted
    BY <1>4 DEF TurnInv, TurnOK, CallOK
  <2>6. RunFollows(c)
    BY <2>1, <2>5, Numbers DEF RunFollows, TurnInv
  <2>7. CallOK(c)'
    BY <2>4, <2>6, SameCall DEF TurnInv, TurnOK
  <2>8. Opened.tools[c] = "running" => publisher.started /\ open.tools[c] = "running"
    BY OpenedFacts
  <2>9. RecordOK(c)'
    <3>1. open'.tools[c] = "running" => open.tools[c] = "running"
      BY <1>5, OpenedFacts, ProjectedFacts DEF TurnInv, TypeOK
    <3>2. \A m \in messages' : m.tools[c] = "running" => tool[c].stage \in Called
      BY <1>5, <2>8 DEF RecordOK, TurnInv, TurnOK
    <3>3. open.tools[c] = "running" => tool[c].stage \in Called
      BY DEF RecordOK, TurnInv, TurnOK
    <3> QED BY <2>1, <2>3, <3>1, <3>2, <3>3 DEF RecordOK
  <2>10. ASSUME tool[c].turn = run.turn, fiber[c].pc # "none"
         PROVE  tool[c].settled /\ (log[c].settled = 1 \/ fiber[c].aborted)
    <3>1. tool[c].settled
      BY <1>4, <2>10 DEF TurnIsSettled, DueOK, TurnInv, TurnOK
    <3>2. log[c].settled = 1 \/ fiber[c].pc = "publishing" \/ fiber[c].aborted
      BY <3>1 DEF CallOK, TurnInv, TurnOK
    <3> QED BY <2>5, <3>1, <3>2 DEF Live
  <2>11. DueOK(c)'
    <3>1. ASSUME tool[c].turn \in run.first .. run.turn, fiber[c].pc # "none"
          PROVE  tool[c].settled /\ (log[c].settled = 1 \/ fiber[c].aborted)
      <4>1. tool[c].turn = run.turn \/ tool[c].turn \in run.first .. run.turn - 1
        BY <3>1, Numbers DEF TurnInv
      <4> QED BY <1>4, <2>10, <3>1, <4>1 DEF DueOK, LastTurn, TurnInv, TurnOK
    <3> QED BY <2>1, <2>3, <3>1 DEF DueOK, LastTurn, TurnIsSettled
  <2>12. EndedOK(c)'
    <3>1. ASSUME Opened.tools[c] = "running", fiber[c].pc # "none" PROVE fiber'[c].aborted
      <4>1. tool[c].turn = run.turn
        BY <2>8, <3>1 DEF RecordOK, TurnInv, TurnOK
      <4>2. tool[c].settled
        BY <2>10, <3>1, <4>1
      <4>3. fiber[c].pc = "publishing" \/ fiber[c].aborted
        BY <2>8, <3>1, <4>2 DEF RecordOK, TurnInv, TurnOK
      <4> QED BY <2>1, <2>5, <4>3 DEF Live
    <3> QED BY <1>5, <2>1, <3>1 DEF EndedOK, TurnInv, TurnOK
  <2> QED BY <2>7, <2>9, <2>11, <2>12 DEF TurnOK
<1> QED BY <1>7, <1>8
-----------------------------------------------------------------------------
(* Fibers, and the end of the process.                                     *)

\* A fiber goes on or ends: what it has marked it goes on to publish, unless it is aborted.
LEMMA FiberGoesOn ==
  ASSUME TurnInv, TypeOK', NEW d \in Calls,
         UNCHANGED <<run, publisher, messages>>,
         \A c \in Calls \ {d} :
           tool'[c] = tool[c] /\ fiber'[c] = fiber[c] /\ log'[c] = log[c] /\ open'.tools[c] = open.tools[c],
         tool'[d].turn = tool[d].turn, tool'[d].stage = tool[d].stage,
         tool[d].settled => tool'[d].settled, log[d].settled = 1 => log'[d].settled = 1,
         fiber[d].pc \in Live, fiber'[d].pc \in {"publishing", "over"},
         fiber'[d].aborted = fiber[d].aborted,
         fiber'[d].result = "ok" => tool'[d].settled,
         tool'[d].settled => log'[d].settled = 1 \/ fiber'[d].pc = "publishing" \/ fiber[d].aborted,
         open'.tools[d] # "none" => open.tools[d] # "none",
         open'.tools[d] = "running" => open.tools[d] = "running",
         publisher.started /\ open'.tools[d] = "running" /\ tool'[d].settled
           => fiber'[d].pc = "publishing" \/ fiber[d].aborted
  PROVE  NotStarted' /\ \A c \in Calls : TurnOK(c)'
<1>1. NotStarted'
  BY DEF TurnInv, NotStarted
<1>2. ASSUME NEW c \in Calls, c # d PROVE TurnOK(c)'
  <2>1. TurnOK(c)
    BY DEF TurnInv
  <2>2. CallOK(c)'
    BY <1>2, <2>1 DEF TurnOK, CallOK
  <2>3. RecordOK(c)'
    BY <1>2, <2>1 DEF TurnOK, RecordOK
  <2>4. DueOK(c)'
    BY <1>2, <2>1 DEF TurnOK, DueOK, TurnIsSettled, LastTurn
  <2>5. EndedOK(c)'
    BY <1>2, <2>1 DEF TurnOK, EndedOK
  <2> QED BY <2>2, <2>3, <2>4, <2>5 DEF TurnOK
<1>3. TurnOK(d)'
  <2>1. TurnOK(d) /\ fiber[d].pc # "none"
    BY DEF TurnInv, Live
  <2>2. tool[d].stage = "local"
    BY <2>1 DEF TurnOK, CallOK
  <2>3. CallOK(d)'
    BY <2>1, <2>2 DEF TurnOK, CallOK, Live
  <2>4. RecordOK(d)'
    BY <2>1, <2>2 DEF TurnOK, RecordOK, Called
  <2>5. DueOK(d)'
    BY <2>1 DEF TurnOK, DueOK, TurnIsSettled, LastTurn
  <2>6. EndedOK(d)'
    BY <2>1 DEF TurnOK, EndedOK
  <2> QED BY <2>3, <2>4, <2>5, <2>6 DEF TurnOK
<1> QED BY <1>1, <1>2, <1>3

LEMMA FiberEndsFacts ==
  ASSUME TypeOK, NEW d \in Calls, NEW result, FiberEnds(d, result)
  PROVE  /\ fiber'[d].pc = "over" /\ fiber'[d].aborted = fiber[d].aborted
         /\ fiber'[d].result \in {result, "none"}
         /\ \A c \in Calls \ {d} : fiber'[c] = fiber[c]
BY DEF FiberEnds, TypeOK, FiberStates

LEMMA FiberTurn ==
  ASSUME TurnInv, TypeOK', NEW d \in Calls, FiberStep(d)
  PROVE  NotStarted' /\ \A c \in Calls : TurnOK(c)'
<1>0. TypeOK /\ MarkedBeforeLogged /\ TurnOK(d)
  BY DEF TurnInv
<1>1. CASE ToolReturns(d)
  <2>1. /\ ~tool[d].settled /\ fiber[d].pc = "executing" /\ UNCHANGED <<run, publisher, log, open, messages>>
        /\ tool' = Settled({d}) /\ fiber' = [fiber EXCEPT ![d].pc = "publishing"]
    BY <1>1 DEF ToolReturns
  <2>2. /\ tool'[d].turn = tool[d].turn /\ tool'[d].stage = tool[d].stage /\ tool'[d].settled
        /\ \A c \in Calls \ {d} : tool'[c] = tool[c]
    BY <1>0, <2>1, SettledFacts
  <2>3. /\ fiber'[d].pc = "publishing" /\ fiber'[d].aborted = fiber[d].aborted
        /\ \A c \in Calls \ {d} : fiber'[c] = fiber[c]
    BY <1>0, <2>1 DEF TypeOK, FiberStates
  <2> QED BY <2>1, <2>2, <2>3, FiberGoesOn DEF Live
<1>2. CASE ToolPublishes(d)
  <2>1. /\ fiber[d].pc = "publishing" /\ UNCHANGED <<run, publisher, tool, messages>>
        /\ log' = Logged({d}) /\ open' = Projected(open, {d}) /\ FiberEnds(d, "ok")
    BY <1>2 DEF ToolPublishes
  <2>2. tool[d].settled /\ log[d].settled = 0
    BY <1>0, <2>1 DEF MarkedBeforeLogged
  <2>3. log'[d].settled = 1 /\ \A c \in Calls \ {d} : log'[c] = log[c]
    BY <1>0, <2>1, <2>2 DEF Logged, TypeOK
  <2>4. /\ open'.tools[d] # "none" => open.tools[d] # "none"
        /\ open'.tools[d] # "running"
        /\ \A c \in Calls \ {d} : open'.tools[c] = open.tools[c]
    BY <1>0, <2>1 DEF Projected, TypeOK, Turns
  <2> QED BY <1>0, <2>1, <2>2, <2>3, <2>4, FiberEndsFacts, FiberGoesOn DEF Live
<1>3. ASSUME NEW result, FiberEnds(d, result), fiber[d].pc \in Live,
             fiber[d].pc = "executing" \/ fiber[d].aborted,
             result = "ok" => tool[d].settled,
             UNCHANGED <<run, publisher, tool, log, open, messages>>
      PROVE  NotStarted' /\ \A c \in Calls : TurnOK(c)'
  <2>1. tool[d].settled => log[d].settled = 1 \/ fiber[d].aborted
    BY <1>0, <1>3 DEF TurnOK, CallOK
  <2>2. publisher.started /\ open.tools[d] = "running" /\ tool[d].settled => fiber[d].aborted
    BY <1>0, <1>3 DEF TurnOK, RecordOK, Live
  <2>3. /\ fiber'[d].pc = "over" /\ fiber'[d].aborted = fiber[d].aborted
        /\ fiber'[d].result \in {result, "none"}
        /\ \A c \in Calls \ {d} : fiber'[c] = fiber[c]
    BY <1>0, <1>3, FiberEndsFacts
  <2>4. fiber'[d].result = "ok" => tool[d].settled
    BY <1>3, <2>3
  <2> QED BY <1>3, <2>1, <2>2, <2>3, <2>4, FiberGoesOn
<1>4. CASE ToolReturnsLate(d)
  BY <1>3, <1>4 DEF ToolReturnsLate, Live
<1>5. ASSUME NEW result \in {"failed", "declined", "interrupted"}, ToolEndsWithout(d, result)
      PROVE  NotStarted' /\ \A c \in Calls : TurnOK(c)'
  BY <1>3, <1>5 DEF ToolEndsWithout, Live
<1>6. CASE FiberDropped(d)
  BY <1>3, <1>6 DEF FiberDropped
<1> QED BY <1>1, <1>2, <1>4, <1>5, <1>6 DEF FiberStep

LEMMA CrashTurn ==
  ASSUME TurnInv, TypeOK', Crash
  PROVE  NotStarted' /\ \A c \in Calls : TurnOK(c)'
<1>1. /\ run'.pc = "idle" /\ run'.turn = run.turn /\ ~publisher'.started
      /\ open' = NoTurn /\ UNCHANGED <<tool, log, messages>>
  BY DEF Crash, Leave, NewPublisher, TurnInv, TypeOK, Runs
<1>2. ASSUME NEW c \in Calls PROVE TurnOK(c)'
  <2>1. fiber[c] \in FiberStates /\ TurnOK(c)
    BY DEF TurnInv, TypeOK
  <2>2. /\ fiber[c].pc \in Live => fiber'[c].pc = "over" /\ fiber'[c].aborted
        /\ fiber[c].pc \notin Live => fiber'[c].pc = fiber[c].pc /\ fiber'[c].aborted = fiber[c].aborted
        /\ fiber'[c].result = "none"
    BY <2>1 DEF Crash, Leave, FiberStates
  <2>3. CallOK(c)'
    BY <1>1, <2>1, <2>2 DEF TurnOK, CallOK, Live
  <2>4. RecordOK(c)'
    BY <1>1, <2>1, OpenedFacts DEF TurnOK, RecordOK
  <2>5. DueOK(c)'
    BY <1>1 DEF DueOK, TurnIsSettled
  <2>6. EndedOK(c)'
    BY <1>1, <2>1, <2>2 DEF TurnOK, EndedOK, Live
  <2> QED BY <2>3, <2>4, <2>5, <2>6 DEF TurnOK
<1> QED BY <1>1, <1>2 DEF NotStarted

\* The token, which no part of the invariant is about.
LEMMA CancelTurn ==
  ASSUME TurnInv, UNCHANGED <<run, publisher, tool, fiber, log, open, messages>>
  PROVE  NotStarted' /\ \A c \in Calls : TurnOK(c)'
BY DEF TurnInv, NotStarted, TurnOK, CallOK, RecordOK, DueOK, EndedOK, TurnIsSettled, LastTurn

LEMMA TurnNext == TurnInv /\ [Next]_vars => TurnInv'
<1> SUFFICES ASSUME TurnInv, [Next]_vars PROVE TurnInv'
  OBVIOUS
<1>1. TypeOK' /\ MarkedBeforeLogged'
  BY NextKeepsTypes, NextKeepsMarks DEF TurnInv
<1>2. NotStarted' /\ \A c \in Calls : TurnOK(c)'
  <2>1. CASE UNCHANGED vars \/ Cancel
    BY <2>1, CancelTurn DEF vars, Cancel
  <2>2. CASE BeginDrain \/ StartTurn
    BY <1>1, <2>2, BeginDrainTurn, StartTurnTurn
  <2>3. CASE \/ TextStarts \/ StepFinishes \/ ProviderErrs \/ ContextOverflows
             \/ \E how \in {"left", "completed", "failed", "interrupted"} : StreamEnds(how)
    BY <1>1, <2>3, StreamTurn
  <2>4. CASE \E c \in Calls :
                \/ ToolInputStarts(c) \/ DisabledToolCalled(c) \/ HostedResult(c)
                \/ \E stage \in {"local", "hosted"} : ToolCalled(c, stage)
    BY <1>1, <2>4, InputTurn, DisabledTurn, HostedTurn, CalledTurn
  <2>5. CASE BadEvent \/ RecoverOverflow \/ TurnDeclined
    BY <1>1, <2>5, LeaveTurn
  <2>6. CASE CloseStream \/ JoinAll \/ \E c \in Calls : StopJoining(c)
    BY <1>1, <2>6, CloseTurn, JoinTurn
  <2>7. CASE SettleTurn \/ EndTurn
    BY <1>1, <2>7, SettleTurnTurn, EndTurnTurn
  <2>8. CASE Crash
    BY <1>1, <2>8, CrashTurn
  <2>9. CASE \E c \in Calls : FiberStep(c)
    BY <1>1, <2>9, FiberTurn
  <2> QED BY <2>1, <2>2, <2>3, <2>4, <2>5, <2>6, <2>7, <2>8, <2>9 DEF Next, RunnerStep, StreamStep
<1> QED BY <1>1, <1>2 DEF TurnInv

LEMMA TurnInitInv == Init /\ TypeOK => TurnInv
<1> SUFFICES ASSUME Init, TypeOK PROVE TurnInv
  OBVIOUS
<1>1. NotStarted
  BY DEF Init, NotStarted, NewPublisher
<1>2. ASSUME NEW c \in Calls PROVE TurnOK(c)
  <2>1. /\ tool[c].turn = 0 /\ tool[c].stage = "none" /\ ~tool[c].settled
        /\ fiber[c].pc = "none" /\ fiber[c].result = "none"
        /\ run.pc = "idle" /\ run.turn = 0
        /\ open.tools[c] = "none" /\ messages = {}
    BY DEF Init, NoTurn, NoTools
  <2>2. CallOK(c)
    BY <2>1 DEF CallOK, Live
  <2>3. RecordOK(c)
    BY <2>1 DEF RecordOK
  <2>4. DueOK(c) /\ EndedOK(c)
    BY <2>1 DEF DueOK, EndedOK
  <2> QED BY <2>2, <2>3, <2>4 DEF TurnOK
<1> QED BY <1>1, <1>2, MarkedInit DEF TurnInv

LEMMA TurnAlways == Spec => []TurnInv
BY Typed, TurnInitInv, TurnNext, PTL DEF Spec

\* The message of a step that ended shows no call as running that a fiber ran, unless the
\* fiber was aborted: the runner has joined the fibers and failed what they left.
THEOREM StepsEndSettled == Spec => []EndedStepIsSettled
<1>1. TurnInv => EndedStepIsSettled
  BY DEF TurnInv, TurnOK, EndedOK, EndedStepIsSettled
<1> QED BY <1>1, TurnAlways, PTL

\* A request is made only when every call of the drain's earlier turns that a fiber ran is
\* settled, and its result is in the durable log unless the fiber was aborted.
THEOREM RequestsFollowResults == Spec => []SettledBeforeNextRequest
<1>1. TurnInv => SettledBeforeNextRequest
  BY DEF TurnInv, TurnOK, DueOK, LastTurn, SettledBeforeNextRequest
<1> QED BY <1>1, TurnAlways, PTL
=============================================================================
