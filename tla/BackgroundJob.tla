--------------------------- MODULE BackgroundJob ----------------------------
(***************************************************************************)
(* The process-local registry of background jobs (oc-core).  A job is      *)
(* started under an id, may be extended by further segments that run one   *)
(* after the other, is waited for, promoted to the background, cancelled,  *)
(* and settles when its last segment has returned or one has failed.  All  *)
(* calls may run at the same time; one step is the code under one          *)
(* acquisition of the registry's lock, or the end of an await.             *)
(*                                                                         *)
(* A call of `start` gives its job a fresh token, so the call itself is    *)
(* the token.  The oneshot channels of a job are kept by token as well: a  *)
(* waiter keeps its receiver when the job is replaced in the registry.     *)
(***************************************************************************)
EXTENDS Naturals, FiniteSets

CONSTANTS
  Ids,       \* job ids
  Starts,    \* calls of start
  Extends,   \* calls of extend
  Waits,     \* calls of wait
  Watches,   \* calls of wait_for_promotion
  IdOf,      \* the job id of a call
  None

Segments == Starts \union Extends

ASSUME BackgroundJobAssumption ==
  /\ IdOf \in [Segments \union Waits \union Watches -> Ids]
  /\ None \notin Segments
  /\ Starts \intersect Extends = {}

VARIABLES
  job,       \* the registry: id -> Job, its token None when absent
  segment,   \* the call that runs a segment, and its task
  done,      \* what was sent on a job's done channel
  promoted,  \* what was sent on a job's promoted channel
  wait,      \* calls of wait
  watch      \* calls of wait_for_promotion

jobVars == <<job, segment, done, promoted, wait, watch>>

Statuses == {"running", "completed", "error", "cancelled"}

Jobs == [token      : Starts \union {None},
         status     : Statuses,
         pending    : Nat,
         next       : Nat,
         output     : Segments \union {None},  \* the segment whose text it is
         tail       : Segments \union {None},  \* the segment the next one follows
         receiver   : BOOLEAN,                 \* done_rx not taken yet
         watcher    : BOOLEAN,                 \* promoted_rx not taken yet
         background : BOOLEAN]                 \* metadata.background

SegmentPCs == {"idle", "checked", "reused", "refused", "waiting", "running",
               "returned", "settled", "finished"}

SegmentStates == [pc       : SegmentPCs,
                  token    : Starts \union {None},
                  sequence : Nat,
                  previous : Segments \union {None},
                  ok       : BOOLEAN]

WaitStates == [pc       : {"idle", "taken", "waiting", "returned"},
               timeout  : {"none", "zero", "some"},
               receives : Starts \union {None},      \* the receiver it took
               status   : Statuses \union {"unknown"},
               timedOut : BOOLEAN]

NoJob == [token |-> None, status |-> "error", pending |-> 0, next |-> 0, output |-> None,
          tail |-> None, receiver |-> FALSE, watcher |-> FALSE, background |-> FALSE]

TypeOK ==
  /\ job \in [Ids -> Jobs]
  /\ segment \in [Segments -> SegmentStates]
  /\ done \in [Starts -> {"open", "completed", "error", "cancelled", "dropped"}]
  /\ promoted \in [Starts -> {"open", "promoted", "settled", "dropped"}]
  /\ wait \in [Waits -> WaitStates]
  /\ watch \in [Watches -> [pc : {"idle", "waiting", "returned"}, receives : Starts \union {None}]]

JobInit ==
  /\ job = [i \in Ids |-> NoJob]
  /\ segment = [c \in Segments |-> [pc |-> "idle", token |-> None, sequence |-> 0,
                                    previous |-> None, ok |-> TRUE]]
  /\ done = [c \in Starts |-> "open"]
  /\ promoted = [c \in Starts |-> "open"]
  /\ wait = [w \in Waits |-> [pc |-> "idle", timeout |-> "none", receives |-> None,
                              status |-> "unknown", timedOut |-> FALSE]]
  /\ watch = [w \in Watches |-> [pc |-> "idle", receives |-> None]]

-----------------------------------------------------------------------------
Running(i) == job[i].token # None /\ job[i].status = "running"

Follow(c, pc) == segment' = [segment EXCEPT ![c].pc = pc]

\* start, first lock: a running job with the id is reused.
CheckExisting(c) ==
  /\ segment[c].pc = "idle"
  /\ Follow(c, IF Running(IdOf[c]) THEN "reused" ELSE "checked")
  /\ UNCHANGED <<job, done, promoted, wait, watch>>

\* What is left of a channel whose sender goes with its job.
Dropped(channel, token) ==
  [c \in Starts |-> IF c = token /\ channel[c] = "open" THEN "dropped" ELSE channel[c]]

\* start, second lock: insert, whatever is there by now, and spawn the run.
\* The caller's metadata may say that the job is a background one already.
InsertJob(c, background) ==
  LET old == job[IdOf[c]] IN
  /\ segment[c].pc = "checked"
  /\ job' = [job EXCEPT ![IdOf[c]] =
       [NoJob EXCEPT !.token = c, !.status = "running", !.pending = 1, !.next = 1,
                     !.tail = c, !.receiver = TRUE, !.watcher = TRUE,
                     !.background = background]]
  /\ segment' = [segment EXCEPT ![c] = [@ EXCEPT !.pc = "running", !.token = c]]
  /\ done' = Dropped(done, old.token)
  /\ promoted' = Dropped(promoted, old.token)
  /\ UNCHANGED <<wait, watch>>

\* Mutant: the new segment follows the job's first one, not its last one.
ExtendFirst(c) ==
  LET i == IdOf[c] IN
  /\ segment[c].pc = "idle"
  /\ IF Running(i)
       THEN /\ segment' = [segment EXCEPT ![c] =
                 [@ EXCEPT !.pc = "waiting", !.token = job[i].token,
                           !.sequence = job[i].next, !.previous = job[i].token]]
            /\ job' = [job EXCEPT ![i].tail = c, ![i].pending = @ + 1, ![i].next = @ + 1]
       ELSE Follow(c, "refused") /\ UNCHANGED job
  /\ UNCHANGED <<done, promoted, wait, watch>>

\* extend: a running job gets one more segment, behind its tail.
ExtendJob(c) ==
  LET i == IdOf[c] IN
  /\ segment[c].pc = "idle"
  /\ IF Running(i)
       THEN /\ segment' = [segment EXCEPT ![c] =
                 [@ EXCEPT !.pc = "waiting", !.token = job[i].token,
                           !.sequence = job[i].next, !.previous = job[i].tail]]
            /\ job' = [job EXCEPT ![i].tail = c, ![i].pending = @ + 1, ![i].next = @ + 1]
       ELSE Follow(c, "refused") /\ UNCHANGED job
  /\ UNCHANGED <<done, promoted, wait, watch>>

\* The segment's task: the previous one has sent its tail.
TailArrives(c) ==
  /\ segment[c].pc = "waiting"
  /\ segment[segment[c].previous].pc = "finished"
  /\ Follow(c, "running")
  /\ UNCHANGED <<job, done, promoted, wait, watch>>

\* The future of the job's owner resolves.
RunReturns(c, ok) ==
  /\ segment[c].pc = "running"
  /\ segment' = [segment EXCEPT ![c] = [@ EXCEPT !.pc = "returned", !.ok = ok]]
  /\ UNCHANGED <<job, done, promoted, wait, watch>>

Newer(c, output) == output = None \/ segment[c].sequence > segment[output].sequence

\* Mutant: the first segment to return completes the job.
SettledAtOnce(j, c) ==
  [j EXCEPT !.pending = @ - 1,
            !.output = IF segment[c].ok /\ Newer(c, @) THEN c ELSE @,
            !.status = IF segment[c].ok THEN "completed" ELSE "error"]

\* What settle makes of the job j when segment c has returned.
Settled(j, c) ==
  [j EXCEPT !.pending = @ - 1,
            !.output = IF segment[c].ok /\ Newer(c, @) THEN c ELSE @,
            !.status = IF ~segment[c].ok THEN "error"
                       ELSE IF j.pending > 1 THEN @ ELSE "completed"]

\* Mutant: a cancelled job settles as well.
SettleAnyway(c) ==
  LET i == IdOf[c]
      t == segment[c].token
      j == Settled(job[i], c)
  IN
  /\ segment[c].pc = "returned"
  /\ Follow(c, "settled")
  /\ IF job[i].token = t
       THEN /\ job' = [job EXCEPT ![i] = j]
            /\ done' = IF j.status # "running" /\ done[t] = "open"
                         THEN [done EXCEPT ![t] = j.status] ELSE done
            /\ promoted' = IF j.status # "running" /\ promoted[t] = "open"
                             THEN [promoted EXCEPT ![t] = "settled"] ELSE promoted
       ELSE UNCHANGED <<job, done, promoted>>
  /\ UNCHANGED <<wait, watch>>

\* settle: counts the segment and, when it is the last or failed, ends the
\* job and tells the waiter; a job cancelled or replaced is left alone.
Settle(c) ==
  LET i == IdOf[c]
      t == segment[c].token
      j == Settled(job[i], c)
  IN
  /\ segment[c].pc = "returned"
  /\ Follow(c, "settled")
  /\ IF job[i].token = t /\ job[i].status = "running"
       THEN /\ job' = [job EXCEPT ![i] = j]
            /\ done' = IF j.status # "running" /\ done[t] = "open"
                         THEN [done EXCEPT ![t] = j.status] ELSE done
            /\ promoted' = IF j.status # "running" /\ promoted[t] = "open"
                             THEN [promoted EXCEPT ![t] = "settled"] ELSE promoted
       ELSE UNCHANGED <<job, done, promoted>>
  /\ UNCHANGED <<wait, watch>>

SendTail(c) ==
  /\ segment[c].pc = "settled"
  /\ Follow(c, "finished")
  /\ UNCHANGED <<job, done, promoted, wait, watch>>

\* Mutant: the waiter is not told.
CancelSilently(i) ==
  /\ Running(i)
  /\ job' = [job EXCEPT ![i].status = "cancelled"]
  /\ UNCHANGED <<segment, done, promoted, wait, watch>>

\* cancel: ends the job and tells its waiter; the run goes on.
CancelJob(i) ==
  /\ Running(i)
  /\ job' = [job EXCEPT ![i].status = "cancelled"]
  /\ done' = [done EXCEPT ![job[i].token] = "cancelled"]
  /\ UNCHANGED <<segment, promoted, wait, watch>>

\* promote
PromoteJob(i) ==
  /\ Running(i)
  /\ ~job[i].background
  /\ job' = [job EXCEPT ![i].background = TRUE]
  /\ promoted' = [promoted EXCEPT ![job[i].token] = "promoted"]
  /\ UNCHANGED <<segment, done, wait, watch>>

-----------------------------------------------------------------------------
(* wait                                                                    *)

WaitReturns(w, status, timedOut) ==
  wait' = [wait EXCEPT ![w] = [@ EXCEPT !.pc = "returned", !.status = status,
                                        !.timedOut = timedOut]]

\* First lock: only one caller gets the receiver.
TakeReceiver(w) ==
  LET i == IdOf[w] IN
  /\ wait[w].pc = "idle"
  /\ IF Running(i)
       THEN /\ \E t \in {"none", "zero", "some"} :
                 wait' = [wait EXCEPT ![w] =
                   [@ EXCEPT !.pc = "taken", !.timeout = t,
                             !.receives = IF job[i].receiver THEN job[i].token ELSE None]]
            /\ job' = [job EXCEPT ![i].receiver = FALSE]
       ELSE /\ WaitReturns(w, IF job[i].token = None THEN "unknown" ELSE job[i].status, FALSE)
            /\ UNCHANGED job
  /\ UNCHANGED <<segment, done, promoted, watch>>

\* Second lock: the snapshot, returned at once without a receiver to await.
Snapshot(w) ==
  LET now == job[IdOf[w]].status IN
  /\ wait[w].pc = "taken"
  /\ IF wait[w].timeout = "zero" \/ wait[w].receives = None
       THEN WaitReturns(w, now, wait[w].timeout = "zero")
       ELSE wait' = [wait EXCEPT ![w] = [@ EXCEPT !.pc = "waiting", !.status = now]]
  /\ UNCHANGED <<job, segment, done, promoted, watch>>

\* The channel resolves: with the outcome, or with the snapshot when its
\* sender is gone.
DoneArrives(w) ==
  /\ wait[w].pc = "waiting"
  /\ LET sent == done[wait[w].receives] IN
     /\ sent # "open"
     /\ IF sent = "dropped" THEN WaitReturns(w, wait[w].status, wait[w].timeout = "some")
                            ELSE WaitReturns(w, sent, FALSE)
  /\ UNCHANGED <<job, segment, done, promoted, watch>>

WaitTimesOut(w) ==
  /\ wait[w].pc = "waiting"
  /\ wait[w].timeout = "some"
  /\ WaitReturns(w, wait[w].status, TRUE)
  /\ UNCHANGED <<job, segment, done, promoted, watch>>

-----------------------------------------------------------------------------
(* wait_for_promotion                                                      *)

TakeWatcher(w) ==
  LET i == IdOf[w]
      pending == Running(i) /\ ~job[i].background /\ job[i].watcher
  IN
  /\ watch[w].pc = "idle"
  /\ watch' = [watch EXCEPT ![w] = IF pending THEN [pc |-> "waiting", receives |-> job[i].token]
                                              ELSE [pc |-> "returned", receives |-> None]]
  /\ job' = IF pending THEN [job EXCEPT ![i].watcher = FALSE] ELSE job
  /\ UNCHANGED <<segment, done, promoted, wait>>

PromotionArrives(w) ==
  /\ watch[w].pc = "waiting"
  /\ promoted[watch[w].receives] # "open"
  /\ watch' = [watch EXCEPT ![w].pc = "returned"]
  /\ UNCHANGED <<job, segment, done, promoted, wait>>

-----------------------------------------------------------------------------
SegmentStep(c) == TailArrives(c) \/ Settle(c) \/ SendTail(c)

RegistryNext ==
  \/ \E c \in Starts : CheckExisting(c) \/ \E b \in BOOLEAN : InsertJob(c, b)
  \/ \E c \in Extends : ExtendJob(c)
  \/ \E c \in Segments : SegmentStep(c)
  \/ \E i \in Ids : CancelJob(i) \/ PromoteJob(i)
  \/ \E w \in Waits : TakeReceiver(w) \/ Snapshot(w) \/ DoneArrives(w) \/ WaitTimesOut(w)
  \/ \E w \in Watches : TakeWatcher(w) \/ PromotionArrives(w)

JobNext ==
  \/ RegistryNext
  \/ \E c \in Segments, ok \in BOOLEAN : RunReturns(c, ok)

JobSpec == JobInit /\ [][JobNext]_jobVars

(* Tasks and callers are polled until they finish, and runs return.        *)
JobFairness ==
  /\ \A c \in Segments : /\ WF_jobVars(SegmentStep(c))
                         /\ WF_jobVars(\E ok \in BOOLEAN : RunReturns(c, ok))
  /\ \A w \in Waits : WF_jobVars(Snapshot(w) \/ DoneArrives(w))
  /\ \A w \in Watches : WF_jobVars(PromotionArrives(w))

FairJobSpec == JobSpec /\ JobFairness

-----------------------------------------------------------------------------
(* Properties.                                                             *)

OfJob(i) == {c \in Segments : segment[c].token = job[i].token /\ job[i].token # None}

(* The count of outstanding segments is exact while a job runs, so a job   *)
(* completes when, and only when, every segment it was ever given has      *)
(* returned successfully: `extend` racing `settle` loses no segment.       *)
CompletesWithLastSegment ==
  \A i \in Ids :
    LET open == {c \in OfJob(i) : segment[c].pc \in {"waiting", "running", "returned"}} IN
    /\ Running(i) => job[i].pending = Cardinality(open) /\ open # {}
    /\ job[i].token # None /\ job[i].status = "completed" =>
         open = {} /\ \A c \in OfJob(i) : segment[c].ok

(* The segments of one job never run at the same time, and they run in the *)
(* order in which they were given: while one runs, the earlier ones have   *)
(* finished and the later ones wait.                                       *)
OneSegmentAtATime ==
  \A i \in Ids : \A c, e \in OfJob(i) :
    c # e /\ segment[c].pc \in {"running", "returned"} =>
      segment[e].pc = IF segment[e].sequence > segment[c].sequence THEN "waiting"
                                                                  ELSE "finished"

(* An outcome is final: a job that has ended changes no more, whatever     *)
(* segments still return, until a new job takes its id; and what the       *)
(* waiter is told is that outcome.                                         *)
OutcomeIsFinal ==
  [][\A i \in Ids :
       job[i].token # None /\ job[i].status # "running" =>
         \/ job'[i].token # job[i].token
         \/ /\ job'[i].status = job[i].status
            /\ job'[i].output = job[i].output
            /\ job[i].status = "completed" => done[job[i].token] = "completed"]_jobVars

(* A caller that holds the receiver and has set no time limit returns, be  *)
(* its job completed, failed, cancelled or replaced in the registry.       *)
WaiterIsTold ==
  \A w \in Waits : wait[w].pc = "taken" /\ wait[w].timeout = "none" ~> wait[w].pc = "returned"
=============================================================================
