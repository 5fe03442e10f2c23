----------------------------- MODULE Subagents ------------------------------
(***************************************************************************)
(* Subagents of oc-server: the child sessions a `task` tool call starts.   *)
(* A background subagent is a job of the registry BackgroundJob whose run  *)
(* takes the runner slot of the child session, drives one pass, gives the  *)
(* slot back and puts the child's answer into the parent's transcript.  A  *)
(* foreground one runs a pass inside the parent's tool call.  Meanwhile    *)
(* the child is a session like any other: clients prompt it, through the   *)
(* scheduler task of SessionRuns, and cancel it.                           *)
(*                                                                         *)
(* A pass is one step here, from the slot to its end; what happens inside  *)
(* is the subject of SessionRuns.  The job id is the child session's id.   *)
(***************************************************************************)
EXTENDS BackgroundJob

CONSTANTS
  Prompts,      \* prompts to child sessions, one scheduler task each
  Foregrounds,  \* foreground runs
  Routes,       \* requests to cancel a background job
  ChildOf       \* the child session of each of these

ASSUME SubagentsAssumption ==
  /\ ChildOf \in [Prompts \union Foregrounds \union Routes -> Ids]
  /\ Extends = {} /\ Starts \intersect Prompts = {}

VARIABLES
  slot,      \* session_runs of the child: held, rerun, the token cancelled
  body,      \* the run closure of spawn_background_subagent: its next step
  result,    \* the answer it has read from the child's transcript
  prompt,    \* scheduler task of a prompt to the child
  fore,      \* run_foreground_subagent
  route,     \* experimental_session_background_cancel
  latest,    \* whose pass wrote the child's last assistant text
  delivered  \* what was injected into the parent's transcript

childVars == <<slot, body, result, prompt, fore, route, latest, delivered>>
vars == <<jobVars, childVars>>

Runners == Starts \union Prompts \union Foregrounds

FreeSlot == [held |-> FALSE, rerun |-> FALSE, cancelled |-> FALSE]
FreshSlot == [held |-> TRUE, rerun |-> FALSE, cancelled |-> FALSE]

Init ==
  /\ JobInit
  /\ slot = [i \in Ids |-> FreeSlot]
  /\ body = [c \in Starts |-> "status"]
  /\ result = [c \in Starts |-> None]
  /\ prompt = [p \in Prompts |-> "idle"]
  /\ fore = [f \in Foregrounds |-> "idle"]
  /\ route = [r \in Routes |-> "idle"]
  /\ latest = [i \in Ids |-> None]
  /\ delivered = [c \in Starts |-> None]

-----------------------------------------------------------------------------
(* The slot of a child session.                                            *)

\* acquire_session_run when the slot is taken, and when it is free
MarkRerun(i) == slot' = [slot EXCEPT ![i].rerun = TRUE]
Take(i) == slot' = [slot EXCEPT ![i] = FreshSlot]

\* finish_session_run: a follow-up pass keeps the slot under a new token.
Release(i) == slot' = [slot EXCEPT ![i] = IF slot[i].rerun THEN FreshSlot ELSE FreeSlot]

\* A pass of x over child i ends, with or without an assistant text.
PassEnds(x, i) == latest' = latest \/ latest' = [latest EXCEPT ![i] = x]

-----------------------------------------------------------------------------
(* The run of a background job.                                            *)

Body(c, from, to) ==
  /\ segment[c].pc = "running"
  /\ body[c] = from
  /\ body' = [body EXCEPT ![c] = to]

\* A job cancelled before its run was polled starts no runner.
CheckNotCancelled(c) ==
  /\ Body(c, "status", IF Running(IdOf[c]) THEN "acquire" ELSE "failed")
  /\ UNCHANGED <<jobVars, slot, result, prompt, fore, route, latest, delivered>>

\* Mutant: a running session does not stop the job.
AcquireAnyway(c) ==
  LET i == IdOf[c] IN
  /\ Body(c, "acquire", "pass")
  /\ IF slot[i].held THEN MarkRerun(i) ELSE Take(i)
  /\ UNCHANGED <<jobVars, result, prompt, fore, route, latest, delivered>>

\* Mutant: wait until the session is free.
AcquireWhenFree(c) ==
  /\ ~slot[IdOf[c]].held
  /\ Body(c, "acquire", "pass")
  /\ Take(IdOf[c])
  /\ UNCHANGED <<jobVars, result, prompt, fore, route, latest, delivered>>

AcquireChild(c) ==
  LET i == IdOf[c] IN
  /\ IF slot[i].held THEN Body(c, "acquire", "failed") /\ MarkRerun(i)
                     ELSE Body(c, "acquire", "pass") /\ Take(i)
  /\ UNCHANGED <<jobVars, result, prompt, fore, route, latest, delivered>>

RunChild(c) ==
  /\ Body(c, "pass", "finish")
  /\ PassEnds(c, IdOf[c])
  /\ UNCHANGED <<jobVars, slot, result, prompt, fore, route, delivered>>

\* The next token that finish_session_run may return is thrown away.
FinishChild(c) ==
  /\ Body(c, "finish", "check")
  /\ Release(IdOf[c])
  /\ UNCHANGED <<jobVars, result, prompt, fore, route, latest, delivered>>

CheckCancelled(c) ==
  /\ Body(c, "check", IF job[IdOf[c]].status = "cancelled" THEN "failed" ELSE "collect")
  /\ UNCHANGED <<jobVars, slot, result, prompt, fore, route, latest, delivered>>

\* Mutant: a child without an answer counts as a success.
CollectAnything(c) ==
  /\ Body(c, "collect", IF latest[IdOf[c]] = None THEN "ok" ELSE "inject")
  /\ result' = [result EXCEPT ![c] = latest[IdOf[c]]]
  /\ UNCHANGED <<jobVars, slot, prompt, fore, route, latest, delivered>>

\* completed_subagent_result: the last assistant text of the child, if any.
CollectResult(c) ==
  /\ Body(c, "collect", IF latest[IdOf[c]] = None THEN "failed" ELSE "inject")
  /\ result' = [result EXCEPT ![c] = latest[IdOf[c]]]
  /\ UNCHANGED <<jobVars, slot, prompt, fore, route, latest, delivered>>

\* inject_background_result
InjectResult(c) ==
  /\ Body(c, "inject", "ok")
  /\ delivered' = [delivered EXCEPT ![c] = result[c]]
  /\ UNCHANGED <<jobVars, slot, result, prompt, fore, route, latest>>

ReturnResult(c) ==
  /\ body[c] \in {"ok", "failed"}
  /\ RunReturns(c, body[c] = "ok")
  /\ UNCHANGED childVars

BodyStep(c) ==
  \/ CheckNotCancelled(c) \/ AcquireChild(c)  \/ RunChild(c)     \/ FinishChild(c)
  \/ CheckCancelled(c)    \/ CollectResult(c) \/ InjectResult(c) \/ ReturnResult(c)

-----------------------------------------------------------------------------
(* A prompt to the child: schedule_session_run.                            *)

SendPrompt(p) ==
  /\ prompt[p] = "idle"
  /\ prompt' = [prompt EXCEPT ![p] = "spawned"]
  /\ UNCHANGED <<jobVars, slot, body, result, fore, route, latest, delivered>>

AcquirePrompt(p) ==
  LET i == ChildOf[p] IN
  /\ prompt[p] = "spawned"
  /\ prompt' = [prompt EXCEPT ![p] = IF slot[i].held THEN "done" ELSE "pass"]
  /\ IF slot[i].held THEN MarkRerun(i) ELSE Take(i)
  /\ UNCHANGED <<jobVars, body, result, fore, route, latest, delivered>>

RunPrompt(p) ==
  /\ prompt[p] = "pass"
  /\ prompt' = [prompt EXCEPT ![p] = "finish"]
  /\ PassEnds(p, ChildOf[p])
  /\ UNCHANGED <<jobVars, slot, body, result, fore, route, delivered>>

FinishPrompt(p) ==
  LET i == ChildOf[p] IN
  /\ prompt[p] = "finish"
  /\ prompt' = [prompt EXCEPT ![p] = IF slot[i].rerun THEN "pass" ELSE "done"]
  /\ Release(i)
  /\ UNCHANGED <<jobVars, body, result, fore, route, latest, delivered>>

PromptStep(p) == AcquirePrompt(p) \/ RunPrompt(p) \/ FinishPrompt(p)

-----------------------------------------------------------------------------
(* A foreground run goes by the parent's token and takes no slot.          *)

StartForeground(f) ==
  /\ fore[f] = "idle"
  /\ fore' = [fore EXCEPT ![f] = "pass"]
  /\ UNCHANGED <<jobVars, slot, body, result, prompt, route, latest, delivered>>

EndForeground(f) ==
  /\ fore[f] = "pass"
  /\ fore' = [fore EXCEPT ![f] = "done"]
  /\ PassEnds(f, ChildOf[f])
  /\ UNCHANGED <<jobVars, slot, body, result, prompt, route, delivered>>

-----------------------------------------------------------------------------
(* Cancelling a background job: first the job, then the child's runner.    *)

\* Mutant: a job that has ended is cancelled as well.
StopEndedJob(r) ==
  LET i == ChildOf[r] IN
  /\ route[r] = "idle"
  /\ job[i].token # None
  /\ job' = [job EXCEPT ![i].status = "cancelled"]
  /\ route' = [route EXCEPT ![r] = "interrupt"]
  /\ UNCHANGED <<segment, done, promoted, wait, watch, slot, body, result, prompt, fore,
                 latest, delivered>>

StopJob(r) ==
  LET i == ChildOf[r] IN
  /\ route[r] = "idle"
  /\ job[i].token # None
  /\ IF Running(i) THEN CancelJob(i) ELSE UNCHANGED jobVars
  /\ route' = [route EXCEPT ![r] = "interrupt"]
  /\ UNCHANGED <<slot, body, result, prompt, fore, latest, delivered>>

\* cancel_session_run
StopRunner(r) ==
  LET i == ChildOf[r] IN
  /\ route[r] = "interrupt"
  /\ route' = [route EXCEPT ![r] = "done"]
  /\ slot' = IF slot[i].held THEN [slot EXCEPT ![i] = [@ EXCEPT !.rerun = FALSE, !.cancelled = TRUE]]
                             ELSE slot
  /\ UNCHANGED <<jobVars, body, result, prompt, fore, latest, delivered>>

-----------------------------------------------------------------------------
(* The registry's own steps.  StopJob takes CancelJob, ReturnResult takes  *)
(* RunReturns; a subagent's job is a background one from the start, so     *)
(* promoting it does nothing, and the server makes no other call.          *)
RegistryStep ==
  /\ \E c \in Starts : CheckExisting(c) \/ InsertJob(c, TRUE) \/ SegmentStep(c)
  /\ UNCHANGED childVars

Next ==
  \/ RegistryStep
  \/ \E c \in Starts : BodyStep(c)
  \/ \E p \in Prompts : SendPrompt(p) \/ PromptStep(p)
  \/ \E f \in Foregrounds : StartForeground(f) \/ EndForeground(f)
  \/ \E r \in Routes : StopJob(r) \/ StopRunner(r)

Spec == Init /\ [][Next]_vars

Fairness ==
  /\ \A c \in Starts : WF_vars(BodyStep(c)) /\ WF_vars(SegmentStep(c) /\ UNCHANGED childVars)
  /\ \A p \in Prompts : WF_vars(PromptStep(p))
  /\ \A f \in Foregrounds : WF_vars(EndForeground(f))
  /\ \A r \in Routes : WF_vars(StopRunner(r))

FairSpec == Spec /\ Fairness

-----------------------------------------------------------------------------
(* Properties.                                                             *)

(* Who is in a pass over child i.                                          *)
SlotRunners(i) ==
  {c \in Starts : IdOf[c] = i /\ body[c] \in {"pass", "finish"}}
    \union {p \in Prompts : ChildOf[p] = i /\ prompt[p] \in {"pass", "finish"}}

(* Background runs and prompts to the child exclude each other.            *)
OneSlotRunner ==
  \A i \in Ids : \A x, y \in SlotRunners(i) : x = y /\ slot[i].held

(* A background job that completed has put an answer into the parent's     *)
(* transcript, and one that failed has not, whatever was cancelled or      *)
(* resumed in the meantime.                                                *)
CompletedMeansDelivered ==
  \A c \in Starts :
    LET i == IdOf[c] IN
    job[i].token = c =>
      /\ job[i].status = "completed" => delivered[c] # None
      /\ job[i].status = "error" => delivered[c] = None

(* Every background job comes to an end, also when its session is busy.    *)
EveryJobEnds == \A i \in Ids : Running(i) ~> ~Running(i)

(* acquire_session_run: when the slot is taken, the caller's prompt will   *)
(* be drained when that runner finishes; so a taken slot has a runner.     *)
TakenSlotHasRunner == \A i \in Ids : slot[i].held => SlotRunners(i) # {}
=============================================================================
