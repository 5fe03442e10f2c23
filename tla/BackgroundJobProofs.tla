------------------------ MODULE BackgroundJobProofs -------------------------
(***************************************************************************)
(* The safety of the job registry, for any ids and calls.                  *)
(*                                                                         *)
(* The argument: the segments of the job an id has are numbered without a  *)
(* gap, and each waits for the one before it; so whatever has begun has    *)
(* only finished segments before it.  While the job runs, its count is the *)
(* number of its segments that have not settled, and those that have were  *)
(* successful; so it comes to zero with the last one.  The channel of a    *)
(* running job is unused, so its outcome is what the waiter is told.       *)
(***************************************************************************)
EXTENDS BackgroundJob, FiniteSetTheorems, TLAPS

Unplaced == {"idle", "checked", "reused", "refused"}

(* A segment has the token of the call of start it belongs to, which is    *)
(* about its id and has inserted its job; a call of start has its own.     *)
TokensAreStarts ==
  /\ \A c \in Segments :
       /\ segment[c].token = None <=> segment[c].pc \in Unplaced
       /\ segment[c].token # None =>
            LET t == segment[c].token IN IdOf[t] = IdOf[c] /\ segment[t].token = t
       /\ c \in Starts => segment[c].token \in {None, c} /\ segment[c].sequence = 0
  /\ \A i \in Ids :
       job[i].token # None =>
         LET t == job[i].token IN IdOf[t] = i /\ segment[t].token = t

(* The segments of a job are a chain that ends in its tail.                *)
ChainIsLinear ==
  \A i \in Ids :
    /\ job[i].token # None =>
         job[i].tail \in OfJob(i) /\ segment[job[i].tail].sequence + 1 = job[i].next
    /\ \A c \in OfJob(i) :
         /\ segment[c].sequence < job[i].next
         /\ segment[c].pc = "waiting" =>
              LET p == segment[c].previous IN
              p \in OfJob(i) /\ segment[p].sequence + 1 = segment[c].sequence
         /\ \A e \in OfJob(i) : segment[e].sequence = segment[c].sequence => e = c

EarlierIsFinished ==
  \A i \in Ids : \A c, e \in OfJob(i) :
    segment[c].sequence < segment[e].sequence /\ segment[e].pc # "waiting"
      => segment[c].pc = "finished"

OpenOf(i) == {c \in OfJob(i) : segment[c].pc \in {"waiting", "running", "returned"}}

CountOf(i) ==
  /\ Running(i) =>
       /\ IsFiniteSet(OpenOf(i)) /\ OpenOf(i) # {}
       /\ job[i].pending = Cardinality(OpenOf(i))
       /\ \A c \in OfJob(i) : segment[c].pc \in {"settled", "finished"} => segment[c].ok
  /\ job[i].token # None /\ job[i].status = "completed" =>
       OpenOf(i) = {} /\ \A c \in OfJob(i) : segment[c].ok

CountIsExact == \A i \in Ids : CountOf(i)

OutcomeIsTold ==
  /\ \A c \in Starts : segment[c].token = None => done[c] = "open"
  /\ \A i \in Ids :
       /\ Running(i) => done[job[i].token] = "open"
       /\ job[i].token # None /\ job[i].status = "completed" => done[job[i].token] = "completed"

WaitersReceive == \A w \in Waits : wait[w].pc = "waiting" => wait[w].receives # None

JobInv ==
  /\ TypeOK
  /\ TokensAreStarts /\ ChainIsLinear /\ EarlierIsFinished
  /\ CountIsExact /\ OutcomeIsTold /\ WaitersReceive

-----------------------------------------------------------------------------
(* What the steps do to the segments and the jobs.                         *)

OnlySegment(c) ==
  /\ segment' \in [Segments -> SegmentStates]
  /\ \A d \in Segments \ {c} : segment'[d] = segment[d]

\* Segment c keeps its place in its job.
KeepsPlace(c) ==
  /\ segment'[c].token = segment[c].token
  /\ segment'[c].sequence = segment[c].sequence
  /\ segment'[c].previous = segment[c].previous

OnlyJob(i) == /\ job' \in [Ids -> Jobs]
              /\ \A j \in Ids \ {i} : job'[j] = job[j]

\* Jobs change in what no property is about: the receivers and metadata.
SameJobs ==
  /\ job' \in [Ids -> Jobs]
  /\ \A i \in Ids :
       /\ job'[i].token = job[i].token /\ job'[i].status = job[i].status
       /\ job'[i].pending = job[i].pending /\ job'[i].next = job[i].next
       /\ job'[i].tail = job[i].tail /\ job'[i].output = job[i].output

LEMMA Followed ==
  ASSUME TypeOK, NEW c \in Segments, NEW pc \in SegmentPCs, Follow(c, pc)
  PROVE  OnlySegment(c) /\ KeepsPlace(c) /\ segment'[c].pc = pc /\ segment'[c].ok = segment[c].ok
<1>1. segment \in [Segments -> SegmentStates] /\ segment[c] \in SegmentStates
  BY DEF TypeOK
<1>2. segment' = [segment EXCEPT ![c].pc = pc]
  BY DEF Follow
<1>3. segment'[c] = [segment[c] EXCEPT !.pc = pc]
  BY <1>1, <1>2
<1> QED BY <1>1, <1>2, <1>3 DEF OnlySegment, KeepsPlace, SegmentStates

LEMMA Returned ==
  ASSUME TypeOK, NEW c \in Segments, NEW ok \in BOOLEAN, RunReturns(c, ok)
  PROVE  /\ OnlySegment(c) /\ KeepsPlace(c)
         /\ segment[c].pc = "running" /\ segment'[c].pc = "returned"
         /\ UNCHANGED <<job, done, promoted, wait, watch>>
<1>1. segment \in [Segments -> SegmentStates] /\ segment[c] \in SegmentStates
  BY DEF TypeOK
<1>2. segment' = [segment EXCEPT ![c] = [segment[c] EXCEPT !.pc = "returned", !.ok = ok]]
  BY DEF RunReturns
<1>3. segment'[c] = [segment[c] EXCEPT !.pc = "returned", !.ok = ok]
  BY <1>1, <1>2
<1>4. segment'[c] \in SegmentStates /\ KeepsPlace(c) /\ segment'[c].pc = "returned"
  BY <1>1, <1>3 DEF KeepsPlace, SegmentStates, SegmentPCs
<1>5. OnlySegment(c)
  BY <1>1, <1>2, <1>4 DEF OnlySegment
<1> QED BY <1>4, <1>5 DEF RunReturns

LEMMA Inserted ==
  ASSUME TypeOK, NEW c \in Starts, NEW background \in BOOLEAN, InsertJob(c, background)
  PROVE  /\ OnlySegment(c) /\ OnlyJob(IdOf[c]) /\ IdOf[c] \in Ids
         /\ segment[c].pc = "checked" /\ segment'[c].pc = "running"
         /\ segment'[c].token = c /\ segment'[c].sequence = segment[c].sequence
         /\ job'[IdOf[c]].token = c /\ job'[IdOf[c]].status = "running"
         /\ job'[IdOf[c]].pending = 1 /\ job'[IdOf[c]].next = 1 /\ job'[IdOf[c]].tail = c
         /\ done' = Dropped(done, job[IdOf[c]].token)
         /\ promoted' = Dropped(promoted, job[IdOf[c]].token)
         /\ UNCHANGED <<wait, watch>>
<1>1. segment \in [Segments -> SegmentStates] /\ segment[c] \in SegmentStates /\ c \in Segments
  BY DEF TypeOK, Segments
<1>2. job \in [Ids -> Jobs] /\ IdOf[c] \in Ids
  BY <1>1, BackgroundJobAssumption DEF TypeOK
<1>3. segment' = [segment EXCEPT ![c] = [segment[c] EXCEPT !.pc = "running", !.token = c]]
  BY DEF InsertJob
<1>4. segment'[c] = [segment[c] EXCEPT !.pc = "running", !.token = c]
  BY <1>1, <1>3
<1>5. /\ segment'[c] \in SegmentStates /\ segment'[c].pc = "running"
      /\ segment'[c].token = c /\ segment'[c].sequence = segment[c].sequence
  BY <1>1, <1>4 DEF SegmentStates, SegmentPCs
<1>6. OnlySegment(c)
  BY <1>1, <1>3, <1>5 DEF OnlySegment
<1> DEFINE new == [NoJob EXCEPT !.token = c, !.status = "running", !.pending = 1, !.next = 1,
                                !.tail = c, !.receiver = TRUE, !.watcher = TRUE,
                                !.background = background]
<1>7. /\ new \in Jobs /\ new.token = c /\ new.status = "running" /\ new.pending = 1
      /\ new.next = 1 /\ new.tail = c
  BY <1>1 DEF NoJob, Jobs, Statuses
<1>8. job' = [job EXCEPT ![IdOf[c]] = new]
  BY DEF InsertJob
<1> HIDE DEF new
<1>9. OnlyJob(IdOf[c]) /\ job'[IdOf[c]] = new
  BY <1>2, <1>7, <1>8 DEF OnlyJob
<1> QED BY <1>2, <1>5, <1>6, <1>7, <1>9 DEF InsertJob

LEMMA Extended ==
  ASSUME TypeOK, NEW c \in Extends, ExtendJob(c), Running(IdOf[c])
  PROVE  LET i == IdOf[c] IN
         /\ OnlySegment(c) /\ OnlyJob(i) /\ i \in Ids
         /\ segment[c].pc = "idle" /\ segment'[c].pc = "waiting"
         /\ segment'[c].token = job[i].token
         /\ segment'[c].sequence = job[i].next /\ segment'[c].previous = job[i].tail
         /\ job'[i].token = job[i].token /\ job'[i].status = job[i].status
         /\ job'[i].pending = job[i].pending + 1 /\ job'[i].next = job[i].next + 1
         /\ job'[i].tail = c
         /\ UNCHANGED <<done, promoted, wait, watch>>
<1> DEFINE i == IdOf[c]
<1>1. segment \in [Segments -> SegmentStates] /\ segment[c] \in SegmentStates /\ c \in Segments
  BY DEF TypeOK, Segments
<1>2. job \in [Ids -> Jobs] /\ i \in Ids /\ job[i] \in Jobs
  BY <1>1, BackgroundJobAssumption DEF TypeOK
<1>3. segment' = [segment EXCEPT ![c] = [segment[c] EXCEPT !.pc = "waiting", !.token = job[i].token,
                                           !.sequence = job[i].next, !.previous = job[i].tail]]
  BY DEF ExtendJob
<1>4. segment'[c] = [segment[c] EXCEPT !.pc = "waiting", !.token = job[i].token,
                                       !.sequence = job[i].next, !.previous = job[i].tail]
  BY <1>1, <1>3
<1>5. /\ segment'[c] \in SegmentStates /\ segment'[c].pc = "waiting"
      /\ segment'[c].token = job[i].token
      /\ segment'[c].sequence = job[i].next /\ segment'[c].previous = job[i].tail
  BY <1>1, <1>2, <1>4 DEF SegmentStates, SegmentPCs, Jobs
<1>6. OnlySegment(c)
  BY <1>1, <1>3, <1>5 DEF OnlySegment
<1>7. job' = [job EXCEPT ![i].tail = c, ![i].pending = @ + 1, ![i].next = @ + 1]
  BY DEF ExtendJob
<1>8. /\ job'[i].token = job[i].token /\ job'[i].status = job[i].status
      /\ job'[i].pending = job[i].pending + 1 /\ job'[i].next = job[i].next + 1
      /\ job'[i].tail = c
  BY <1>1, <1>2, <1>7 DEF Jobs
<1>9. job'[i] \in Jobs
  BY <1>1, <1>2, <1>7 DEF Jobs
<1>10. OnlyJob(i)
  BY <1>2, <1>7, <1>9 DEF OnlyJob
<1> QED BY <1>2, <1>5, <1>6, <1>8, <1>10 DEF ExtendJob

LEMMA SettledIs ==
  ASSUME TypeOK, NEW c \in Segments, NEW j \in Jobs, j.pending > 0
  PROVE  LET s == Settled(j, c) IN
         /\ s \in Jobs
         /\ s.token = j.token /\ s.next = j.next /\ s.tail = j.tail
         /\ s.pending = j.pending - 1
         /\ s.status = IF ~segment[c].ok THEN "error"
                       ELSE IF j.pending > 1 THEN j.status ELSE "completed"
<1> DEFINE output == IF segment[c].ok /\ Newer(c, j.output) THEN c ELSE j.output
           status == IF ~segment[c].ok THEN "error"
                     ELSE IF j.pending > 1 THEN j.status ELSE "completed"
<1>1. output \in Segments \union {None} /\ status \in Statuses
  BY DEF Jobs, Statuses
<1>2. j.pending - 1 \in Nat
  BY DEF Jobs
<1>3. Settled(j, c) = [j EXCEPT !.pending = j.pending - 1, !.output = output, !.status = status]
  BY DEF Settled
<1> HIDE DEF output
<1> QED BY <1>1, <1>2, <1>3 DEF Jobs

LEMMA SettledSegment ==
  ASSUME JobInv, NEW c \in Segments, Settle(c)
  PROVE  LET i == IdOf[c]
             t == segment[c].token
             counts == job[i].token = t /\ job[i].status = "running"
         IN
         /\ i \in Ids /\ t \in Starts
         /\ OnlySegment(c) /\ KeepsPlace(c)
         /\ segment[c].pc = "returned" /\ segment'[c].pc = "settled"
         /\ segment'[c].ok = segment[c].ok
         /\ UNCHANGED <<wait, watch>>
         /\ promoted' \in [Starts -> {"open", "promoted", "settled", "dropped"}]
         /\ ~counts => UNCHANGED <<job, done>>
         /\ counts =>
              /\ OnlyJob(i)
              /\ job'[i].token = t /\ job'[i].next = job[i].next /\ job'[i].tail = job[i].tail
              /\ job'[i].pending = job[i].pending - 1
              /\ job'[i].status = IF ~segment[c].ok THEN "error"
                                  ELSE IF job[i].pending > 1 THEN "running" ELSE "completed"
              /\ done' = IF job'[i].status # "running" /\ done[t] = "open"
                           THEN [done EXCEPT ![t] = job'[i].status] ELSE done
<1> DEFINE i == IdOf[c]
           t == segment[c].token
           j == Settled(job[i], c)
<1>1. TypeOK /\ segment[c].pc = "returned"
  BY DEF JobInv, Settle
<1>2. segment[c] \in SegmentStates /\ i \in Ids /\ job[i] \in Jobs /\ job \in [Ids -> Jobs]
  BY <1>1, BackgroundJobAssumption DEF TypeOK
<1>3. t \in Starts
  BY <1>1, <1>2 DEF JobInv, TokensAreStarts, Unplaced, SegmentStates
<1>4. Follow(c, "settled") /\ UNCHANGED <<wait, watch>>
  BY DEF Settle
<1>5. /\ OnlySegment(c) /\ KeepsPlace(c) /\ segment'[c].pc = "settled"
      /\ segment'[c].ok = segment[c].ok
  BY <1>1, <1>4, Followed DEF SegmentPCs
<1>6. CASE ~(job[i].token = t /\ job[i].status = "running")
  <2>1. UNCHANGED <<job, done, promoted>>
    BY <1>6 DEF Settle
  <2> QED BY <1>1, <1>2, <1>3, <1>4, <1>5, <1>6, <2>1 DEF TypeOK
<1>7. CASE job[i].token = t /\ job[i].status = "running"
  <2>1. Running(i)
    BY <1>3, <1>7, BackgroundJobAssumption DEF Running, Segments
  <2>2. job[i].pending # 0 /\ job[i].pending \in Nat
    BY <1>2, <2>1, FS_EmptySet DEF JobInv, CountIsExact, CountOf, Jobs
  <2>3. /\ j \in Jobs
        /\ j.token = job[i].token /\ j.next = job[i].next /\ j.tail = job[i].tail
        /\ j.pending = job[i].pending - 1
        /\ j.status = IF ~segment[c].ok THEN "error"
                      ELSE IF job[i].pending > 1 THEN job[i].status ELSE "completed"
    BY <1>1, <1>2, <2>2, SettledIs
  <2>4. /\ job' = [job EXCEPT ![i] = j]
        /\ done' = IF j.status # "running" /\ done[t] = "open"
                     THEN [done EXCEPT ![t] = j.status] ELSE done
        /\ promoted' = IF j.status # "running" /\ promoted[t] = "open"
                         THEN [promoted EXCEPT ![t] = "settled"] ELSE promoted
    BY <1>7 DEF Settle
  <2> HIDE DEF j
  <2>5. OnlyJob(i) /\ job'[i] = j
    BY <1>2, <2>3, <2>4 DEF OnlyJob
  <2>6. promoted' \in [Starts -> {"open", "promoted", "settled", "dropped"}]
    BY <1>1, <1>3, <2>4 DEF TypeOK
  <2> QED BY <1>2, <1>3, <1>4, <1>5, <1>1, <1>7, <2>3, <2>4, <2>5, <2>6
<1> QED BY <1>6, <1>7

LEMMA Cancelled ==
  ASSUME TypeOK, NEW i \in Ids, CancelJob(i)
  PROVE  /\ Running(i) /\ OnlyJob(i)
         /\ job'[i].token = job[i].token /\ job'[i].next = job[i].next
         /\ job'[i].tail = job[i].tail /\ job'[i].status = "cancelled"
         /\ done' = [done EXCEPT ![job[i].token] = "cancelled"]
         /\ UNCHANGED <<segment, promoted, wait, watch>>
<1>1. job \in [Ids -> Jobs] /\ job[i] \in Jobs
  BY DEF TypeOK
<1>2. job' = [job EXCEPT ![i].status = "cancelled"]
  BY DEF CancelJob
<1> QED BY <1>1, <1>2 DEF CancelJob, OnlyJob, Jobs, Statuses

\* The steps that touch neither a segment, a count nor an outcome.
QuietStep ==
  \/ \E i \in Ids : PromoteJob(i)
  \/ \E w \in Waits : TakeReceiver(w) \/ Snapshot(w) \/ DoneArrives(w) \/ WaitTimesOut(w)
  \/ \E w \in Watches : TakeWatcher(w) \/ PromotionArrives(w)

OtherTypes ==
  /\ promoted \in [Starts -> {"open", "promoted", "settled", "dropped"}]
  /\ wait \in [Waits -> WaitStates]
  /\ watch \in [Watches -> [pc : {"idle", "waiting", "returned"}, receives : Starts \union {None}]]

LEMMA WaitReturned ==
  ASSUME TypeOK, WaitersReceive, NEW w \in Waits, NEW status \in Statuses \union {"unknown"},
         NEW timedOut \in BOOLEAN, WaitReturns(w, status, timedOut)
  PROVE  wait' \in [Waits -> WaitStates] /\ WaitersReceive'
<1>1. wait \in [Waits -> WaitStates] /\ wait[w] \in WaitStates
  BY DEF TypeOK
<1>2. wait' = [wait EXCEPT ![w] = [wait[w] EXCEPT !.pc = "returned", !.status = status,
                                                  !.timedOut = timedOut]]
  BY DEF WaitReturns
<1>3. /\ [wait[w] EXCEPT !.pc = "returned", !.status = status, !.timedOut = timedOut] \in WaitStates
      /\ [wait[w] EXCEPT !.pc = "returned", !.status = status, !.timedOut = timedOut].pc = "returned"
  BY <1>1 DEF WaitStates
<1> QED BY <1>1, <1>2, <1>3 DEF WaitersReceive

LEMMA Quiet ==
  ASSUME TypeOK, WaitersReceive, QuietStep
  PROVE  SameJobs /\ UNCHANGED <<segment, done>> /\ OtherTypes' /\ WaitersReceive'
<1>1. /\ job \in [Ids -> Jobs] /\ \A i \in Ids : job[i] \in Jobs
      /\ wait \in [Waits -> WaitStates] /\ \A w \in Waits : wait[w] \in WaitStates
      /\ OtherTypes
  BY DEF TypeOK, OtherTypes
<1>2. \A w \in Waits \union Watches : IdOf[w] \in Ids
  BY BackgroundJobAssumption
<1>3. UNCHANGED job => SameJobs
  BY <1>1 DEF SameJobs
<1>4. UNCHANGED wait => WaitersReceive'
  BY DEF WaitersReceive
<1>5. ASSUME NEW i \in Ids, PromoteJob(i)
      PROVE  SameJobs /\ UNCHANGED <<segment, done>> /\ OtherTypes' /\ WaitersReceive'
  <2>1. /\ job' = [job EXCEPT ![i].background = TRUE]
        /\ promoted' = [promoted EXCEPT ![job[i].token] = "promoted"]
        /\ UNCHANGED <<segment, done, wait, watch>>
    BY <1>5 DEF PromoteJob
  <2>2. SameJobs
    BY <1>1, <2>1 DEF SameJobs, Jobs
  <2> QED BY <1>1, <1>4, <2>1, <2>2 DEF OtherTypes
<1>6. ASSUME NEW w \in Waits, TakeReceiver(w)
      PROVE  SameJobs /\ UNCHANGED <<segment, done>> /\ OtherTypes' /\ WaitersReceive'
  <2> DEFINE i == IdOf[w]
  <2>1. UNCHANGED <<segment, done, promoted, watch>>
    BY <1>6 DEF TakeReceiver
  <2>2. CASE Running(i)
    <3>1. PICK t \in {"none", "zero", "some"} :
            wait' = [wait EXCEPT ![w] =
              [@ EXCEPT !.pc = "taken", !.timeout = t,
                        !.receives = IF job[i].receiver THEN job[i].token ELSE None]]
      BY <1>6, <2>2 DEF TakeReceiver
    <3> DEFINE receives == IF job[i].receiver THEN job[i].token ELSE None
               new == [wait[w] EXCEPT !.pc = "taken", !.timeout = t, !.receives = receives]
    <3>2. receives \in Starts \union {None}
      BY <1>1, <1>2 DEF Jobs
    <3> HIDE DEF receives
    <3>3. new \in WaitStates /\ new.pc = "taken"
      BY <1>1, <3>2 DEF WaitStates
    <3>4. wait' = [wait EXCEPT ![w] = new]
      BY <3>1 DEF receives
    <3> HIDE DEF new
    <3>5. wait' \in [Waits -> WaitStates] /\ WaitersReceive'
      BY <1>1, <3>3, <3>4 DEF WaitersReceive
    <3>6. job' = [job EXCEPT ![i].receiver = FALSE]
      BY <1>6, <2>2 DEF TakeReceiver
    <3>7. SameJobs
      BY <1>1, <1>2, <3>6 DEF SameJobs, Jobs
    <3> QED BY <1>1, <2>1, <3>5, <3>7 DEF OtherTypes
  <2>3. CASE ~Running(i)
    <3> DEFINE status == IF job[i].token = None THEN "unknown" ELSE job[i].status
    <3>1. WaitReturns(w, status, FALSE) /\ UNCHANGED job
      BY <1>6, <2>3 DEF TakeReceiver
    <3>2. status \in Statuses \union {"unknown"}
      BY <1>1, <1>2 DEF Jobs
    <3> HIDE DEF status
    <3>3. wait' \in [Waits -> WaitStates] /\ WaitersReceive'
      BY <3>1, <3>2, WaitReturned
    <3> QED BY <1>1, <1>3, <2>1, <3>1, <3>3 DEF OtherTypes
  <2> QED BY <2>2, <2>3
<1>7. ASSUME NEW w \in Waits, Snapshot(w)
      PROVE  SameJobs /\ UNCHANGED <<segment, done>> /\ OtherTypes' /\ WaitersReceive'
  <2> DEFINE now == job[IdOf[w]].status
  <2>1. UNCHANGED <<job, segment, done, promoted, watch>> /\ now \in Statuses
    BY <1>1, <1>2, <1>7 DEF Snapshot, Jobs
  <2>2. CASE wait[w].timeout = "zero" \/ wait[w].receives = None
    <3>1. WaitReturns(w, now, wait[w].timeout = "zero")
      BY <1>7, <2>2 DEF Snapshot
    <3> HIDE DEF now
    <3>2. wait' \in [Waits -> WaitStates] /\ WaitersReceive'
      BY <2>1, <3>1, WaitReturned
    <3> QED BY <1>1, <1>3, <2>1, <3>2 DEF OtherTypes
  <2>3. CASE ~(wait[w].timeout = "zero" \/ wait[w].receives = None)
    <3> DEFINE new == [wait[w] EXCEPT !.pc = "waiting", !.status = now]
    <3>1. wait' = [wait EXCEPT ![w] = new]
      BY <1>7, <2>3 DEF Snapshot
    <3> HIDE DEF now
    <3>2. new \in WaitStates /\ new.receives # None
      BY <1>1, <2>1, <2>3 DEF WaitStates
    <3> HIDE DEF new
    <3>3. wait' \in [Waits -> WaitStates] /\ WaitersReceive'
      BY <1>1, <3>1, <3>2 DEF WaitersReceive
    <3> QED BY <1>1, <1>3, <2>1, <3>3 DEF OtherTypes
  <2> QED BY <2>2, <2>3
<1>8. ASSUME NEW w \in Waits, DoneArrives(w)
      PROVE  SameJobs /\ UNCHANGED <<segment, done>> /\ OtherTypes' /\ WaitersReceive'
  <2> DEFINE sent == done[wait[w].receives]
  <2>1. wait[w].receives \in Starts /\ wait[w].status \in Statuses \union {"unknown"}
    BY <1>1, <1>8 DEF DoneArrives, WaitersReceive, WaitStates
  <2>2. sent \in {"open", "completed", "error", "cancelled", "dropped"}
    BY <2>1 DEF TypeOK
  <2>3. /\ sent # "open"
        /\ IF sent = "dropped" THEN WaitReturns(w, wait[w].status, wait[w].timeout = "some")
                               ELSE WaitReturns(w, sent, FALSE)
        /\ UNCHANGED <<job, segment, done, promoted, watch>>
    BY <1>8 DEF DoneArrives
  <2> HIDE DEF sent
  <2>4. CASE sent = "dropped"
    <3>1. WaitReturns(w, wait[w].status, wait[w].timeout = "some")
      BY <2>3, <2>4
    <3> QED BY <1>1, <1>3, <2>1, <2>3, <3>1, WaitReturned DEF OtherTypes
  <2>5. CASE sent # "dropped"
    <3>1. WaitReturns(w, sent, FALSE) /\ sent \in Statuses \union {"unknown"}
      BY <2>2, <2>3, <2>5 DEF Statuses
    <3> QED BY <1>1, <1>3, <2>3, <3>1, WaitReturned DEF OtherTypes
  <2> QED BY <2>4, <2>5
<1>9. ASSUME NEW w \in Waits, WaitTimesOut(w)
      PROVE  SameJobs /\ UNCHANGED <<segment, done>> /\ OtherTypes' /\ WaitersReceive'
  <2>1. WaitReturns(w, wait[w].status, TRUE) /\ UNCHANGED <<job, segment, done, promoted, watch>>
    BY <1>9 DEF WaitTimesOut
  <2>2. wait[w].status \in Statuses \union {"unknown"}
    BY <1>1 DEF WaitStates
  <2> QED BY <1>1, <1>3, <2>1, <2>2, WaitReturned DEF OtherTypes
<1>10. ASSUME NEW w \in Watches, TakeWatcher(w)
       PROVE  SameJobs /\ UNCHANGED <<segment, done>> /\ OtherTypes' /\ WaitersReceive'
  <2> DEFINE i == IdOf[w]
             pending == Running(i) /\ ~job[i].background /\ job[i].watcher
  <2>1. /\ watch' = [watch EXCEPT ![w] = IF pending
                       THEN [pc |-> "waiting", receives |-> job[i].token]
                       ELSE [pc |-> "returned", receives |-> None]]
        /\ job' = IF pending THEN [job EXCEPT ![i].watcher = FALSE] ELSE job
        /\ UNCHANGED <<segment, done, promoted, wait>>
    BY <1>10 DEF TakeWatcher
  <2>2. i \in Ids /\ job[i].token \in Starts \union {None}
    BY <1>1, <1>2 DEF Jobs
  <2> HIDE DEF pending, i
  <2>3. SameJobs
    BY <1>1, <2>1, <2>2 DEF SameJobs, Jobs
  <2>4. watch' \in [Watches -> [pc : {"idle", "waiting", "returned"}, receives : Starts \union {None}]]
    BY <1>1, <2>1, <2>2 DEF OtherTypes
  <2> QED BY <1>1, <1>4, <2>1, <2>3, <2>4 DEF OtherTypes
<1>11. ASSUME NEW w \in Watches, PromotionArrives(w)
       PROVE  SameJobs /\ UNCHANGED <<segment, done>> /\ OtherTypes' /\ WaitersReceive'
  BY <1>1, <1>3, <1>4, <1>11 DEF PromotionArrives, OtherTypes
<1> QED BY <1>5, <1>6, <1>7, <1>8, <1>9, <1>10, <1>11 DEF QuietStep

-----------------------------------------------------------------------------
(* Steps in which no job gets a segment, and segments only move on.        *)

Advances ==
  /\ segment' \in [Segments -> SegmentStates]
  /\ \A c \in Segments :
       /\ KeepsPlace(c)
       /\ segment[c].pc \in Unplaced <=> segment'[c].pc \in Unplaced
       /\ segment'[c].pc = "waiting" => segment[c].pc = "waiting"
       /\ segment[c].pc = "finished" => segment'[c].pc = "finished"
       /\ segment[c].pc = "waiting" /\ segment'[c].pc # "waiting" =>
            segment[segment[c].previous].pc = "finished"

SameChains ==
  /\ job' \in [Ids -> Jobs]
  /\ \A i \in Ids : /\ job'[i].token = job[i].token /\ job'[i].next = job[i].next
                    /\ job'[i].tail = job[i].tail

Shape == TokensAreStarts /\ ChainIsLinear /\ EarlierIsFinished

LEMMA SegmentOfStart == Starts \subseteq Segments
BY DEF Segments

\* A segment of a job is about the job's id.
LEMMA JobsShareNothing ==
  ASSUME TypeOK, TokensAreStarts
  PROVE  /\ \A i \in Ids : \A c \in OfJob(i) : IdOf[c] = i /\ segment[c].pc \notin Unplaced
         /\ \A i, j \in Ids : job[i].token # None /\ job[i].token = job[j].token => i = j
<1>1. ASSUME NEW i \in Ids, NEW c \in OfJob(i)
      PROVE  IdOf[c] = i /\ segment[c].pc \notin Unplaced
  BY DEF OfJob, TokensAreStarts
<1> QED BY <1>1 DEF TokensAreStarts

LEMMA ShapeKept ==
  ASSUME JobInv, Advances, SameChains
  PROVE  Shape' /\ \A i \in Ids : OfJob(i)' = OfJob(i)
<1>1. \A i \in Ids : OfJob(i)' = OfJob(i)
  BY DEF OfJob, Advances, KeepsPlace, SameChains
<1>2. TokensAreStarts'
  <2>1. \A c \in Starts : c \in Segments
    BY DEF Segments
  <2>2. \A c \in Segments : segment[c].token # None => segment[c].token \in Segments
    BY SegmentOfStart DEF JobInv, TypeOK, SegmentStates
  <2>3. \A i \in Ids : job[i].token # None => job[i].token \in Segments
    BY SegmentOfStart DEF JobInv, TypeOK, Jobs
  <2> QED BY <2>1, <2>2, <2>3 DEF JobInv, TokensAreStarts, Advances, KeepsPlace, SameChains
<1>3. ChainIsLinear'
  <2> SUFFICES ASSUME NEW i \in Ids
               PROVE  /\ job'[i].token # None =>
                           /\ job'[i].tail \in OfJob(i)
                           /\ segment'[job'[i].tail].sequence + 1 = job'[i].next
                      /\ \A c \in OfJob(i) :
                           /\ segment'[c].sequence < job'[i].next
                           /\ segment'[c].pc = "waiting" =>
                                LET p == segment'[c].previous IN
                                p \in OfJob(i) /\ segment'[p].sequence + 1 = segment'[c].sequence
                           /\ \A e \in OfJob(i) :
                                segment'[e].sequence = segment'[c].sequence => e = c
    BY <1>1 DEF ChainIsLinear
  <2>1. OfJob(i) \subseteq Segments
    BY DEF OfJob
  <2> QED BY <2>1 DEF JobInv, ChainIsLinear, Advances, KeepsPlace, SameChains
<1>4. EarlierIsFinished'
  <2> SUFFICES ASSUME NEW i \in Ids, NEW c \in OfJob(i), NEW e \in OfJob(i),
                      segment'[c].sequence < segment'[e].sequence, segment'[e].pc # "waiting"
               PROVE  segment'[c].pc = "finished"
    BY <1>1 DEF EarlierIsFinished
  <2>1. c \in Segments /\ e \in Segments
    BY DEF OfJob
  <2>2. segment[c].sequence < segment[e].sequence
    BY <2>1 DEF Advances, KeepsPlace
  <2>3. segment[c].pc = "finished" => segment'[c].pc = "finished"
    BY <2>1 DEF Advances
  <2>4. CASE segment[e].pc # "waiting"
    BY <2>2, <2>3, <2>4 DEF JobInv, EarlierIsFinished
  <2>5. CASE segment[e].pc = "waiting"
    <3> DEFINE p == segment[e].previous
    <3>1. p \in OfJob(i) /\ segment[p].sequence + 1 = segment[e].sequence
      BY <2>5 DEF JobInv, ChainIsLinear
    <3>2. segment[p].pc = "finished"
      BY <2>1, <2>5 DEF Advances
    <3>3. segment[c].sequence \in Nat /\ segment[p].sequence \in Nat
      BY <2>1, <3>1 DEF OfJob, JobInv, TypeOK, SegmentStates
    <3>4. CASE segment[c].sequence = segment[p].sequence
      BY <2>3, <3>1, <3>2, <3>4 DEF JobInv, ChainIsLinear
    <3>5. CASE segment[c].sequence < segment[p].sequence
      BY <2>3, <3>1, <3>2, <3>5 DEF JobInv, EarlierIsFinished
    <3> QED BY <2>2, <3>1, <3>3, <3>4, <3>5
  <2> QED BY <2>4, <2>5
<1> QED BY <1>1, <1>2, <1>3, <1>4 DEF Shape

\* The count stays right where no segment settles.
LEMMA CountKept ==
  ASSUME NEW i \in Ids, CountOf(i), OfJob(i)' = OfJob(i),
         job'[i].token = job[i].token, job'[i].status = job[i].status,
         job'[i].pending = job[i].pending,
         \A c \in OfJob(i) :
           /\ segment[c].pc \in {"waiting", "running", "returned"}
                <=> segment'[c].pc \in {"waiting", "running", "returned"}
           /\ segment'[c].pc \in {"settled", "finished"} => segment[c].pc \in {"settled", "finished"}
           /\ segment[c].pc \notin {"waiting", "running", "returned"} =>
                segment'[c].ok = segment[c].ok
  PROVE  CountOf(i)'
<1>1. OpenOf(i)' = OpenOf(i)
  BY DEF OpenOf
<1>2. Running(i)' <=> Running(i)
  BY DEF Running
<1>3. \A c \in OfJob(i) :
        segment[c].pc \in {"waiting", "running", "returned"} => c \in OpenOf(i)
  BY DEF OpenOf
<1> QED BY <1>1, <1>2, <1>3 DEF CountOf

\* A job that is over, and not a success, has no count to keep.
LEMMA OverCounts ==
  ASSUME NEW i \in Ids, job'[i].token = None \/ job'[i].status \in {"error", "cancelled"}
  PROVE  CountOf(i)'
BY DEF CountOf, Running

\* A step of a segment that settles nothing.
LEMMA SegmentMoves ==
  ASSUME JobInv, NEW c \in Segments, OnlySegment(c), KeepsPlace(c),
         UNCHANGED <<job, done, promoted, wait, watch>>,
         \/ /\ segment[c].pc \in Unplaced /\ segment'[c].pc \in Unplaced
         \/ /\ segment[c].pc = "waiting" /\ segment'[c].pc = "running"
            /\ segment[segment[c].previous].pc = "finished"
         \/ segment[c].pc = "running" /\ segment'[c].pc = "returned"
         \/ /\ segment[c].pc = "settled" /\ segment'[c].pc = "finished"
            /\ segment'[c].ok = segment[c].ok
  PROVE  JobInv'
<1>1. segment \in [Segments -> SegmentStates] /\ TypeOK'
  BY DEF JobInv, TypeOK, OnlySegment
<1>2. Advances
  BY DEF Advances, OnlySegment, KeepsPlace, Unplaced
<1>3. SameChains
  BY DEF SameChains, JobInv, TypeOK
<1>4. Shape' /\ \A i \in Ids : OfJob(i)' = OfJob(i)
  BY <1>2, <1>3, ShapeKept
<1>5. CountIsExact'
  <2> SUFFICES ASSUME NEW i \in Ids PROVE CountOf(i)'
    BY DEF CountIsExact
  <2>1. \A d \in OfJob(i) : d \in Segments /\ segment[d].pc \notin Unplaced
    BY JobsShareNothing DEF OfJob, JobInv
  <2>2. \A d \in OfJob(i) :
           /\ segment[d].pc \in {"waiting", "running", "returned"}
                <=> segment'[d].pc \in {"waiting", "running", "returned"}
           /\ segment'[d].pc \in {"settled", "finished"} => segment[d].pc \in {"settled", "finished"}
           /\ segment[d].pc \notin {"waiting", "running", "returned"} =>
                segment'[d].ok = segment[d].ok
    BY <2>1 DEF OnlySegment, Unplaced
  <2>3. CountOf(i)
    BY DEF JobInv, CountIsExact
  <2> QED BY <1>4, <2>2, <2>3, CountKept
<1>6. OutcomeIsTold'
  <2>1. \A d \in Starts : segment'[d].token = segment[d].token
    BY SegmentOfStart DEF OnlySegment, KeepsPlace
  <2> QED BY <2>1 DEF JobInv, OutcomeIsTold, Running
<1>7. WaitersReceive'
  BY DEF JobInv, WaitersReceive
<1> QED BY <1>1, <1>4, <1>5, <1>6, <1>7 DEF JobInv, Shape

LEMMA QuietKeeps ==
  ASSUME JobInv, QuietStep
  PROVE  JobInv'
<1>1. SameJobs /\ UNCHANGED <<segment, done>> /\ OtherTypes' /\ WaitersReceive'
  BY Quiet DEF JobInv
<1>2. TypeOK'
  BY <1>1 DEF JobInv, TypeOK, SameJobs, OtherTypes
<1>3. Advances
  BY <1>1 DEF Advances, KeepsPlace, JobInv, TypeOK
<1>4. SameChains
  BY <1>1 DEF SameChains, SameJobs
<1>5. Shape' /\ \A i \in Ids : OfJob(i)' = OfJob(i)
  BY <1>3, <1>4, ShapeKept
<1>6. CountIsExact'
  <2> SUFFICES ASSUME NEW i \in Ids PROVE CountOf(i)'
    BY DEF CountIsExact
  <2>1. CountOf(i)
    BY DEF JobInv, CountIsExact
  <2> QED BY <1>1, <1>5, <2>1, CountKept DEF SameJobs
<1>7. OutcomeIsTold'
  BY <1>1 DEF JobInv, OutcomeIsTold, SameJobs, Running
<1> QED BY <1>1, <1>2, <1>5, <1>6, <1>7 DEF JobInv, Shape

LEMMA CancelKeeps ==
  ASSUME JobInv, NEW i \in Ids, CancelJob(i)
  PROVE  JobInv'
<1>1. /\ Running(i) /\ OnlyJob(i)
      /\ job'[i].token = job[i].token /\ job'[i].next = job[i].next
      /\ job'[i].tail = job[i].tail /\ job'[i].status = "cancelled"
      /\ done' = [done EXCEPT ![job[i].token] = "cancelled"]
      /\ UNCHANGED <<segment, promoted, wait, watch>>
  BY Cancelled DEF JobInv
<1>2. job[i].token \in Starts /\ \A j \in Ids : job[j].token \in Starts \union {None}
  BY <1>1 DEF JobInv, TypeOK, Jobs, Running
<1>3. TypeOK'
  BY <1>1, <1>2 DEF JobInv, TypeOK, OnlyJob
<1>4. Advances
  BY <1>1 DEF Advances, KeepsPlace, JobInv, TypeOK
<1>5. SameChains
  BY <1>1 DEF SameChains, OnlyJob
<1>6. Shape' /\ \A j \in Ids : OfJob(j)' = OfJob(j)
  BY <1>4, <1>5, ShapeKept
<1>7. CountIsExact'
  <2> SUFFICES ASSUME NEW j \in Ids PROVE CountOf(j)'
    BY DEF CountIsExact
  <2>1. CASE j = i
    BY <1>1, <2>1, OverCounts
  <2>2. CASE j # i
    <3>1. CountOf(j) /\ job'[j] = job[j]
      BY <1>1, <2>2 DEF JobInv, CountIsExact, OnlyJob
    <3> QED BY <1>1, <1>6, <3>1, CountKept
  <2> QED BY <2>1, <2>2
<1>8. OutcomeIsTold'
  <2>1. \A j \in Ids \ {i} : job'[j] = job[j] /\ (job[j].token # None => job[j].token # job[i].token)
    BY <1>1, <1>2, JobsShareNothing DEF OnlyJob, JobInv, Running
  <2>2. \A c \in Starts : c # job[i].token => done'[c] = done[c]
    BY <1>1 DEF JobInv, TypeOK
  <2>3. segment[job[i].token].token = job[i].token /\ job[i].token # None
    BY <1>1 DEF JobInv, TokensAreStarts, Running
  <2> QED BY <1>1, <1>2, <2>1, <2>2, <2>3 DEF JobInv, OutcomeIsTold, Running
<1>9. WaitersReceive'
  BY <1>1 DEF JobInv, WaitersReceive
<1> QED BY <1>3, <1>6, <1>7, <1>8, <1>9 DEF JobInv, Shape

LEMMA SettleKeeps ==
  ASSUME JobInv, NEW c \in Segments, Settle(c)
  PROVE  JobInv'
<1> DEFINE i == IdOf[c]
           t == segment[c].token
           counts == job[i].token = t /\ job[i].status = "running"
<1>1. /\ i \in Ids /\ t \in Starts /\ t # None
      /\ OnlySegment(c) /\ KeepsPlace(c)
      /\ segment[c].pc = "returned" /\ segment'[c].pc = "settled"
      /\ segment'[c].ok = segment[c].ok
      /\ UNCHANGED <<wait, watch>>
      /\ promoted' \in [Starts -> {"open", "promoted", "settled", "dropped"}]
  BY SettledSegment, BackgroundJobAssumption DEF Segments
<1>2. ~counts => UNCHANGED <<job, done>>
  BY SettledSegment
<1>3. counts =>
        /\ OnlyJob(i)
        /\ job'[i].token = t /\ job'[i].next = job[i].next /\ job'[i].tail = job[i].tail
        /\ job'[i].pending = job[i].pending - 1
        /\ job'[i].status = IF ~segment[c].ok THEN "error"
                            ELSE IF job[i].pending > 1 THEN "running" ELSE "completed"
        /\ done' = IF job'[i].status # "running" /\ done[t] = "open"
                     THEN [done EXCEPT ![t] = job'[i].status] ELSE done
  BY SettledSegment
<1>4. counts => Running(i) /\ c \in OfJob(i) /\ c \in OpenOf(i)
  BY <1>1 DEF Running, OfJob, OpenOf
<1>5. job \in [Ids -> Jobs] /\ done \in [Starts -> {"open", "completed", "error", "cancelled", "dropped"}]
  BY DEF JobInv, TypeOK
<1>6. SameChains
  <2>1. CASE ~counts
    BY <1>2, <1>5, <2>1 DEF SameChains
  <2>2. CASE counts
    BY <1>3, <2>2 DEF SameChains, OnlyJob
  <2> QED BY <2>1, <2>2
<1>7. Advances
  BY <1>1 DEF Advances, OnlySegment, KeepsPlace, Unplaced
<1>8. Shape' /\ \A j \in Ids : OfJob(j)' = OfJob(j)
  BY <1>6, <1>7, ShapeKept
<1>9. TypeOK'
  <2>1. segment' \in [Segments -> SegmentStates] /\ job' \in [Ids -> Jobs]
    BY <1>1, <1>6 DEF OnlySegment, SameChains
  <2>2. done' \in [Starts -> {"open", "completed", "error", "cancelled", "dropped"}]
    BY <1>1, <1>2, <1>3, <1>5
  <2> QED BY <1>1, <2>1, <2>2 DEF JobInv, TypeOK
<1>10. \A j \in Ids \ {i} : job'[j] = job[j] /\ c \notin OfJob(j)
  BY <1>1, <1>2, <1>3, JobsShareNothing DEF OnlyJob, JobInv
<1>11. CountIsExact'
  <2> SUFFICES ASSUME NEW j \in Ids PROVE CountOf(j)'
    BY DEF CountIsExact
  <2>1. CountOf(j) /\ \A d \in OfJob(j) : d \in Segments
    BY DEF JobInv, CountIsExact, OfJob
  <2>2. CASE j # i
    BY <1>1, <1>8, <1>10, <2>1, <2>2, CountKept DEF OnlySegment
  <2>3. CASE j = i /\ ~counts
    <3>1. CASE c \in OfJob(i)
      <4>1. job[i].token = t /\ c \in OpenOf(i) /\ job[i] \in Jobs
        BY <1>1, <1>5, <3>1 DEF OfJob, OpenOf
      <4>2. job[i].status \in {"error", "cancelled"}
        BY <1>1, <2>1, <2>3, <4>1 DEF CountOf, Running, Jobs, Statuses
      <4> QED BY <1>2, <2>3, <4>2, OverCounts
    <3>2. CASE c \notin OfJob(i)
      BY <1>1, <1>2, <1>8, <2>1, <2>3, <3>2, CountKept DEF OnlySegment
    <3> QED BY <3>1, <3>2
  <2>4. CASE j = i /\ counts
    <3>1. OpenOf(i)' = OpenOf(i) \ {c}
      <4>1. OpenOf(i)' = {d \in OfJob(i) : segment'[d].pc \in {"waiting", "running", "returned"}}
        BY <1>1, <1>8 DEF OpenOf
      <4>2. \A d \in OfJob(i) \ {c} : segment'[d] = segment[d]
        BY <1>1, <2>1, <2>4 DEF OnlySegment
      <4> QED BY <1>1, <4>1, <4>2 DEF OpenOf
    <3>2. /\ IsFiniteSet(OpenOf(i)) /\ job[i].pending = Cardinality(OpenOf(i))
          /\ Cardinality(OpenOf(i)) \in Nat
          /\ \A d \in OfJob(i) : segment[d].pc \in {"settled", "finished"} => segment[d].ok
      BY <1>4, <2>1, <2>4, FS_CardinalityType DEF CountOf
    <3>3. /\ IsFiniteSet(OpenOf(i) \ {c})
          /\ Cardinality(OpenOf(i) \ {c}) = job[i].pending - 1
      BY <1>4, <2>4, <3>2, FS_RemoveElement
    <3>4. CASE ~segment[c].ok
      BY <1>1, <1>3, <2>4, <3>4, OverCounts
    <3>5. CASE segment[c].ok /\ job[i].pending > 1
      <4>1. OpenOf(i)' # {} /\ IsFiniteSet(OpenOf(i)') /\ job'[i].pending = Cardinality(OpenOf(i)')
        BY <1>3, <2>4, <3>1, <3>2, <3>3, <3>5, FS_EmptySet
      <4>2. job'[i].status = "running"
        BY <1>3, <2>4, <3>5
      <4>3. \A d \in OfJob(i) : segment'[d].pc \in {"settled", "finished"} => segment'[d].ok
        BY <1>1, <2>1, <2>4, <3>2, <3>5 DEF OnlySegment
      <4> QED BY <1>1, <1>8, <2>4, <4>1, <4>2, <4>3 DEF CountOf
    <3>6. CASE segment[c].ok /\ ~(job[i].pending > 1)
      <4>1. OpenOf(i) # {} /\ job[i].pending # 0
        BY <1>4, <2>4, <3>2, FS_EmptySet
      <4>2. OpenOf(i)' = {}
        BY <3>1, <3>2, <3>3, <3>6, <4>1, FS_EmptySet
      <4>3. job'[i].status = "completed"
        BY <1>3, <2>4, <3>6
      <4>4. \A d \in OfJob(i) : segment'[d].ok
        <5> SUFFICES ASSUME NEW d \in OfJob(i), d # c PROVE segment[d].ok
          BY <1>1, <2>1, <2>4, <3>6 DEF OnlySegment
        <5>1. segment[d].pc \notin {"waiting", "running", "returned"}
          BY <3>1, <4>2 DEF OpenOf
        <5>2. segment[d].pc \notin Unplaced /\ segment[d].pc \in SegmentPCs
          BY <1>1, <2>1, <2>4, JobsShareNothing DEF JobInv, TypeOK, SegmentStates
        <5> QED BY <3>2, <5>1, <5>2 DEF Unplaced, SegmentPCs
      <4> QED BY <1>8, <2>4, <4>2, <4>3, <4>4, <1>1 DEF CountOf, Running
    <3> QED BY <3>4, <3>5, <3>6
  <2> QED BY <2>2, <2>3, <2>4
<1>12. OutcomeIsTold'
  <2>1. \A d \in Starts : segment'[d].token = segment[d].token
    BY <1>1, SegmentOfStart DEF OnlySegment, KeepsPlace
  <2>2. CASE ~counts
    BY <1>2, <2>1, <2>2 DEF JobInv, OutcomeIsTold, Running
  <2>3. CASE counts
    <3>1. \A j \in Ids \ {i} : job[j].token # None => job[j].token # t /\ job[j].token \in Starts
      BY <1>1, <1>5, <2>3, JobsShareNothing DEF JobInv, Jobs
    <3>2. done[t] = "open" /\ segment[t].token = t
      BY <1>1, <1>4, <2>3 DEF JobInv, OutcomeIsTold, Running, TokensAreStarts
    <3>3. \A d \in Starts : d # t => done'[d] = done[d]
      BY <1>3, <1>5, <2>3
    <3>4. \A d \in Starts : segment'[d].token = None => done'[d] = "open"
      BY <1>1, <2>1, <3>2, <3>3 DEF JobInv, OutcomeIsTold
    <3>5. job'[i].status = "running" => done'[t] = "open"
      BY <1>3, <2>3, <3>2
    <3>6. job'[i].status = "completed" => done'[t] = "completed"
      BY <1>1, <1>3, <1>5, <2>3, <3>2
    <3>7. \A j \in Ids \ {i} : /\ Running(j) => done'[job[j].token] = "open"
                               /\ job[j].token # None /\ job[j].status = "completed" =>
                                    done'[job[j].token] = "completed"
      BY <3>1, <3>3 DEF JobInv, OutcomeIsTold, Running
    <3> QED BY <1>1, <1>3, <1>10, <2>3, <3>4, <3>5, <3>6, <3>7 DEF OutcomeIsTold, Running
  <2> QED BY <2>2, <2>3
<1>13. WaitersReceive'
  BY <1>1 DEF JobInv, WaitersReceive
<1> QED BY <1>8, <1>9, <1>11, <1>12, <1>13 DEF JobInv, Shape

LEMMA InsertKeeps ==
  ASSUME JobInv, NEW c \in Starts, NEW background \in BOOLEAN, InsertJob(c, background)
  PROVE  JobInv'
<1> DEFINE i == IdOf[c]
           old == job[i].token
<1>1. /\ OnlySegment(c) /\ OnlyJob(i) /\ i \in Ids
      /\ segment[c].pc = "checked" /\ segment'[c].pc = "running"
      /\ segment'[c].token = c /\ segment'[c].sequence = segment[c].sequence
      /\ job'[i].token = c /\ job'[i].status = "running"
      /\ job'[i].pending = 1 /\ job'[i].next = 1 /\ job'[i].tail = c
      /\ done' = Dropped(done, old) /\ promoted' = Dropped(promoted, old)
      /\ UNCHANGED <<wait, watch>>
  BY Inserted DEF JobInv
<1>2. c \in Segments /\ c # None /\ segment[c].token = None /\ segment[c].sequence = 0
  BY <1>1, BackgroundJobAssumption DEF JobInv, TokensAreStarts, Unplaced, Segments
<1>3. \A d \in Segments \ {c} : /\ segment'[d] = segment[d] /\ segment[d].token # c
                                /\ segment[d].token \in Segments \union {None}
  BY <1>1, <1>2, SegmentOfStart DEF OnlySegment, JobInv, TokensAreStarts, TypeOK, SegmentStates
<1>4. \A j \in Ids \ {i} : /\ job'[j] = job[j] /\ job[j].token # c
                           /\ job[j].token \in Starts \union {None}
                           /\ job[j].token # None => job[j].token # old
  BY <1>1, <1>2, JobsShareNothing DEF OnlyJob, JobInv, TokensAreStarts, TypeOK, Jobs
<1>5. OfJob(i)' = {c}
  BY <1>1, <1>2, <1>3 DEF OfJob
<1>6. \A j \in Ids \ {i} : OfJob(j)' = OfJob(j) /\ c \notin OfJob(j)
  BY <1>1, <1>2, <1>3, <1>4 DEF OfJob
<1>7. TypeOK'
  <2>1. segment' \in [Segments -> SegmentStates] /\ job' \in [Ids -> Jobs]
    BY <1>1 DEF OnlySegment, OnlyJob
  <2>2. /\ done' \in [Starts -> {"open", "completed", "error", "cancelled", "dropped"}]
        /\ promoted' \in [Starts -> {"open", "promoted", "settled", "dropped"}]
    BY <1>1 DEF JobInv, TypeOK, Dropped
  <2> QED BY <1>1, <2>1, <2>2 DEF JobInv, TypeOK
<1>8. TokensAreStarts'
  <2>1. ASSUME NEW d \in Segments
        PROVE  /\ segment'[d].token = None <=> segment'[d].pc \in Unplaced
               /\ segment'[d].token # None =>
                    LET t == segment'[d].token IN IdOf[t] = IdOf[d] /\ segment'[t].token = t
               /\ d \in Starts => segment'[d].token \in {None, d} /\ segment'[d].sequence = 0
    <3>1. CASE d = c
      BY <1>1, <1>2, <3>1 DEF Unplaced
    <3>2. CASE d # c
      BY <1>3, <3>2 DEF JobInv, TokensAreStarts
    <3> QED BY <3>1, <3>2
  <2>2. ASSUME NEW j \in Ids, job'[j].token # None
        PROVE  IdOf[job'[j].token] = j /\ segment'[job'[j].token].token = job'[j].token
    <3>1. CASE j = i
      BY <1>1, <3>1
    <3>2. CASE j # i
      <4>1. job'[j] = job[j] /\ job[j].token \in Segments \ {c}
        BY <1>4, <2>2, <3>2, SegmentOfStart
      <4> QED BY <1>3, <2>2, <4>1 DEF JobInv, TokensAreStarts
    <3> QED BY <3>1, <3>2
  <2> QED BY <2>1, <2>2 DEF TokensAreStarts
<1>9. ASSUME NEW j \in Ids \ {i}
      PROVE  \A d \in OfJob(j) : d \in Segments /\ segment'[d] = segment[d]
  BY <1>3, <1>6 DEF OfJob
<1>10. ChainIsLinear'
  <2>1. \A d \in OfJob(i)' : d = c /\ segment'[d].sequence = 0 /\ segment'[d].pc # "waiting"
    BY <1>1, <1>2, <1>5
  <2>2. job'[i].tail \in OfJob(i)' /\ segment'[job'[i].tail].sequence + 1 = job'[i].next
    BY <1>1, <1>2, <1>5
  <2>3. ASSUME NEW j \in Ids \ {i}
        PROVE  /\ job'[j].token # None =>
                    /\ job'[j].tail \in OfJob(j)
                    /\ segment'[job'[j].tail].sequence + 1 = job'[j].next
               /\ \A d \in OfJob(j) :
                    /\ segment'[d].sequence < job'[j].next
                    /\ segment'[d].pc = "waiting" =>
                         LET p == segment'[d].previous IN
                         p \in OfJob(j) /\ segment'[p].sequence + 1 = segment'[d].sequence
                    /\ \A e \in OfJob(j) :
                         segment'[e].sequence = segment'[d].sequence => e = d
    BY <1>4, <1>9 DEF JobInv, ChainIsLinear
  <2> QED BY <1>1, <1>6, <2>1, <2>2, <2>3 DEF ChainIsLinear
<1>11. EarlierIsFinished'
  <2>1. \A d \in OfJob(i)' : d = c /\ segment'[d].sequence = 0
    BY <1>1, <1>2, <1>5
  <2> QED BY <1>6, <1>9, <2>1 DEF JobInv, EarlierIsFinished
<1>12. CountIsExact'
  <2> SUFFICES ASSUME NEW j \in Ids PROVE CountOf(j)'
    BY DEF CountIsExact
  <2>1. CASE j = i
    <3>1. OpenOf(j)' = {c}
      BY <1>1, <1>5, <2>1 DEF OpenOf
    <3>2. IsFiniteSet({c}) /\ Cardinality({c}) = 1
      BY FS_Singleton
    <3> QED BY <1>1, <1>5, <2>1, <3>1, <3>2 DEF CountOf
  <2>2. CASE j # i
    <3>1. CountOf(j)
      BY DEF JobInv, CountIsExact
    <3> QED BY <1>4, <1>6, <1>9, <2>2, <3>1, CountKept
  <2> QED BY <2>1, <2>2
<1>13. OutcomeIsTold'
  <2>1. \A d \in Starts : done[d] # "open" \/ d # old => done'[d] = done[d]
    BY <1>1 DEF Dropped
  <2>2. \A d \in Starts : segment'[d].token = None => d # old /\ d # c /\ segment[d].token = None
    <3>1. \A d \in Starts : segment[d].token = None => d # old
      BY <1>1, BackgroundJobAssumption DEF JobInv, TokensAreStarts, Segments
    <3> QED BY <1>1, <1>2, <1>3, <3>1, SegmentOfStart
  <2>3. done'[c] = "open"
    <3>1. done[c] = "open" /\ c # old
      BY <1>1, <1>2 DEF JobInv, OutcomeIsTold, TokensAreStarts
    <3> QED BY <2>1, <3>1
  <2>4. ASSUME NEW j \in Ids \ {i}
        PROVE  /\ Running(j) => done'[job[j].token] = "open"
               /\ job[j].token # None /\ job[j].status = "completed" =>
                    done'[job[j].token] = "completed"
    BY <1>4, <2>1 DEF JobInv, OutcomeIsTold, Running
  <2> QED BY <1>1, <1>4, <2>1, <2>2, <2>3, <2>4 DEF JobInv, OutcomeIsTold, Running
<1>14. WaitersReceive'
  BY <1>1 DEF JobInv, WaitersReceive
<1> QED BY <1>7, <1>8, <1>10, <1>11, <1>12, <1>13, <1>14 DEF JobInv

LEMMA ExtendKeeps ==
  ASSUME JobInv, NEW c \in Extends, ExtendJob(c), Running(IdOf[c])
  PROVE  JobInv'
<1> DEFINE i == IdOf[c]
<1>1. /\ OnlySegment(c) /\ OnlyJob(i) /\ i \in Ids
      /\ segment[c].pc = "idle" /\ segment'[c].pc = "waiting"
      /\ segment'[c].token = job[i].token
      /\ segment'[c].sequence = job[i].next /\ segment'[c].previous = job[i].tail
      /\ job'[i].token = job[i].token /\ job'[i].status = job[i].status
      /\ job'[i].pending = job[i].pending + 1 /\ job'[i].next = job[i].next + 1
      /\ job'[i].tail = c
      /\ UNCHANGED <<done, promoted, wait, watch>>
  BY Extended DEF JobInv
<1>2. c \in Segments /\ c \notin Starts /\ segment[c].token = None
  BY <1>1, BackgroundJobAssumption DEF JobInv, TokensAreStarts, Unplaced, Segments
<1>3. job[i].token \in Starts /\ job[i].token # None /\ job[i].next \in Nat
  BY <1>1 DEF JobInv, TypeOK, Jobs, Running
<1>4. \A d \in Segments \ {c} : /\ segment'[d] = segment[d]
                                /\ segment[d].token \in Starts \union {None}
                                /\ segment[d].sequence \in Nat
  BY <1>1 DEF OnlySegment, JobInv, TypeOK, SegmentStates
<1>5. \A j \in Ids \ {i} : job'[j] = job[j] /\ (job[j].token # None => job[j].token # job[i].token)
  BY <1>1, JobsShareNothing DEF OnlyJob, JobInv
<1>6. OfJob(i)' = OfJob(i) \union {c} /\ c \notin OfJob(i)
  BY <1>1, <1>2, <1>3, <1>4 DEF OfJob
<1>7. \A j \in Ids \ {i} : OfJob(j)' = OfJob(j) /\ c \notin OfJob(j)
  BY <1>1, <1>2, <1>3, <1>4, <1>5 DEF OfJob
<1>8. \A j \in Ids : \A d \in OfJob(j) : /\ d \in Segments /\ segment'[d] = segment[d]
                                         /\ segment[d].sequence \in Nat
  BY <1>4, <1>6, <1>7 DEF OfJob
<1>9. TypeOK'
  BY <1>1 DEF JobInv, TypeOK, OnlySegment, OnlyJob
<1>10. TokensAreStarts'
  <2>1. ASSUME NEW d \in Segments
        PROVE  /\ segment'[d].token = None <=> segment'[d].pc \in Unplaced
               /\ segment'[d].token # None =>
                    LET t == segment'[d].token IN IdOf[t] = IdOf[d] /\ segment'[t].token = t
               /\ d \in Starts => segment'[d].token \in {None, d} /\ segment'[d].sequence = 0
    <3>1. CASE d = c
      <4>1. IdOf[job[i].token] = i /\ segment[job[i].token].token = job[i].token
        BY <1>1, <1>3 DEF JobInv, TokensAreStarts
      <4>2. segment'[job[i].token] = segment[job[i].token]
        BY <1>2, <1>3, <1>4, SegmentOfStart
      <4> QED BY <1>1, <1>2, <1>3, <3>1, <4>1, <4>2 DEF Unplaced
    <3>2. CASE d # c
      BY <1>2, <1>4, <3>2, SegmentOfStart DEF JobInv, TokensAreStarts
    <3> QED BY <3>1, <3>2
  <2>2. ASSUME NEW j \in Ids, job'[j].token # None
        PROVE  IdOf[job'[j].token] = j /\ segment'[job'[j].token].token = job'[j].token
    <3>1. job'[j].token = job[j].token /\ job[j].token \in Segments \ {c}
      BY <1>1, <1>2, <1>5, <2>2, SegmentOfStart DEF JobInv, TypeOK, Jobs
    <3> QED BY <1>4, <2>2, <3>1 DEF JobInv, TokensAreStarts
  <2> QED BY <2>1, <2>2 DEF TokensAreStarts
<1>11. \A d \in OfJob(i) : segment[d].sequence < job[i].next
  BY <1>1 DEF JobInv, ChainIsLinear
<1>12. ChainIsLinear'
  <2>1. ASSUME NEW j \in Ids \ {i}
        PROVE  /\ job'[j].token # None =>
                    /\ job'[j].tail \in OfJob(j)
                    /\ segment'[job'[j].tail].sequence + 1 = job'[j].next
               /\ \A d \in OfJob(j) :
                    /\ segment'[d].sequence < job'[j].next
                    /\ segment'[d].pc = "waiting" =>
                         LET p == segment'[d].previous IN
                         p \in OfJob(j) /\ segment'[p].sequence + 1 = segment'[d].sequence
                    /\ \A e \in OfJob(j) :
                         segment'[e].sequence = segment'[d].sequence => e = d
    BY <1>5, <1>8 DEF JobInv, ChainIsLinear
  <2>2. job'[i].tail \in OfJob(i)' /\ segment'[job'[i].tail].sequence + 1 = job'[i].next
    BY <1>1, <1>6
  <2>3. ASSUME NEW d \in OfJob(i)'
        PROVE  /\ segment'[d].sequence < job'[i].next
               /\ segment'[d].pc = "waiting" =>
                    LET p == segment'[d].previous IN
                    p \in OfJob(i)' /\ segment'[p].sequence + 1 = segment'[d].sequence
               /\ \A e \in OfJob(i)' : segment'[e].sequence = segment'[d].sequence => e = d
    <3>1. CASE d = c
      <4>1. job[i].tail \in OfJob(i) /\ segment[job[i].tail].sequence + 1 = job[i].next
        BY <1>1, <1>3 DEF JobInv, ChainIsLinear
      <4> QED BY <1>1, <1>3, <1>6, <1>8, <1>11, <3>1, <4>1
    <3>2. CASE d # c
      <4>1. d \in OfJob(i)
        BY <1>6, <2>3, <3>2
      <4>2. segment'[d].sequence < job'[i].next
        BY <1>1, <1>3, <1>8, <1>11, <4>1
      <4>3. segment'[d].pc = "waiting" =>
              LET p == segment'[d].previous IN
              p \in OfJob(i)' /\ segment'[p].sequence + 1 = segment'[d].sequence
        BY <1>1, <1>6, <1>8, <4>1 DEF JobInv, ChainIsLinear
      <4>4. \A e \in OfJob(i)' : segment'[e].sequence = segment'[d].sequence => e = d
        BY <1>1, <1>3, <1>6, <1>8, <1>11, <4>1 DEF JobInv, ChainIsLinear
      <4> QED BY <4>2, <4>3, <4>4
    <3> QED BY <3>1, <3>2
  <2> QED BY <1>1, <1>7, <2>1, <2>2, <2>3 DEF ChainIsLinear
<1>13. EarlierIsFinished'
  <2> SUFFICES ASSUME NEW j \in Ids, NEW d \in OfJob(j)', NEW e \in OfJob(j)',
                      segment'[d].sequence < segment'[e].sequence, segment'[e].pc # "waiting"
               PROVE  segment'[d].pc = "finished"
    BY DEF EarlierIsFinished
  <2>1. e # c /\ e \in OfJob(j)
    BY <1>1, <1>6, <1>7
  <2>2. d # c
    <3> SUFFICES ASSUME d = c PROVE FALSE
      OBVIOUS
    <3>1. j = i
      BY <1>7
    <3> QED BY <1>1, <1>3, <1>8, <1>11, <2>1, <3>1
  <2>3. d \in OfJob(j)
    BY <1>6, <1>7, <2>2
  <2> QED BY <1>8, <2>1, <2>3 DEF JobInv, EarlierIsFinished
<1>14. CountIsExact'
  <2> SUFFICES ASSUME NEW j \in Ids PROVE CountOf(j)'
    BY DEF CountIsExact
  <2>1. CountOf(j)
    BY DEF JobInv, CountIsExact
  <2>2. CASE j = i
    <3>1. OpenOf(i)' = OpenOf(i) \union {c} /\ c \notin OpenOf(i)
      BY <1>1, <1>6, <1>8 DEF OpenOf
    <3>2. IsFiniteSet(OpenOf(i)) /\ job[i].pending = Cardinality(OpenOf(i))
      BY <2>1, <2>2 DEF CountOf
    <3>3. IsFiniteSet(OpenOf(i)') /\ OpenOf(i)' # {} /\ job'[i].pending = Cardinality(OpenOf(i)')
      BY <1>1, <3>1, <3>2, FS_AddElement
    <3>4. \A d \in OfJob(i)' : segment'[d].pc \in {"settled", "finished"} => segment'[d].ok
      BY <1>1, <1>6, <1>8, <2>1, <2>2 DEF CountOf
    <3>5. job'[i].status = "running"
      BY <1>1 DEF Running
    <3> QED BY <2>2, <3>3, <3>4, <3>5 DEF CountOf
  <2>3. CASE j # i
    BY <1>5, <1>7, <1>8, <2>1, <2>3, CountKept
  <2> QED BY <2>2, <2>3
<1>15. OutcomeIsTold'
  <2>1. \A d \in Starts : segment'[d] = segment[d]
    BY <1>2, <1>4, SegmentOfStart
  <2>2. \A j \in Ids : job'[j].token = job[j].token /\ job'[j].status = job[j].status
    BY <1>1, <1>5
  <2> QED BY <1>1, <2>1, <2>2 DEF JobInv, OutcomeIsTold, Running
<1>16. WaitersReceive'
  BY <1>1 DEF JobInv, WaitersReceive
<1> QED BY <1>9, <1>10, <1>12, <1>13, <1>14, <1>15, <1>16 DEF JobInv

-----------------------------------------------------------------------------
(* The invariant.                                                          *)

LEMMA InvInit == JobInit => JobInv
<1> SUFFICES ASSUME JobInit PROVE JobInv
  OBVIOUS
<1>1. TypeOK
  BY DEF JobInit, TypeOK, NoJob, Jobs, Statuses, SegmentStates, SegmentPCs, WaitStates
<1>2. \A i \in Ids : job[i].token = None /\ OfJob(i) = {}
  BY DEF JobInit, NoJob, OfJob
<1>3. TokensAreStarts
  BY <1>2, SegmentOfStart DEF JobInit, TokensAreStarts, Unplaced
<1>4. ChainIsLinear /\ EarlierIsFinished /\ CountIsExact
  BY <1>2 DEF ChainIsLinear, EarlierIsFinished, CountIsExact, CountOf, Running
<1>5. OutcomeIsTold /\ WaitersReceive
  BY <1>2 DEF JobInit, OutcomeIsTold, WaitersReceive, Running
<1> QED BY <1>1, <1>3, <1>4, <1>5 DEF JobInv

LEMMA InvNext == JobInv /\ [JobNext]_jobVars => JobInv'
<1> SUFFICES ASSUME JobInv, [JobNext]_jobVars PROVE JobInv'
  OBVIOUS
<1>1. ASSUME NEW c \in Starts, CheckExisting(c) PROVE JobInv'
  <2> DEFINE pc == IF Running(IdOf[c]) THEN "reused" ELSE "checked"
  <2>1. /\ segment[c].pc = "idle" /\ Follow(c, pc) /\ pc \in {"reused", "checked"}
        /\ UNCHANGED <<job, done, promoted, wait, watch>>
    BY <1>1 DEF CheckExisting
  <2> HIDE DEF pc
  <2>2. c \in Segments /\ OnlySegment(c) /\ KeepsPlace(c) /\ segment'[c].pc = pc
    BY <2>1, Followed, SegmentOfStart DEF JobInv, SegmentPCs
  <2> QED BY <2>1, <2>2, SegmentMoves DEF Unplaced
<1>2. ASSUME NEW c \in Starts, NEW b \in BOOLEAN, InsertJob(c, b) PROVE JobInv'
  BY <1>2, InsertKeeps
<1>3. ASSUME NEW c \in Extends, ExtendJob(c) PROVE JobInv'
  <2>1. CASE Running(IdOf[c])
    BY <1>3, <2>1, ExtendKeeps
  <2>2. CASE ~Running(IdOf[c])
    <3>1. segment[c].pc = "idle" /\ Follow(c, "refused") /\ UNCHANGED <<job, done, promoted, wait, watch>>
      BY <1>3, <2>2 DEF ExtendJob
    <3>2. c \in Segments /\ OnlySegment(c) /\ KeepsPlace(c) /\ segment'[c].pc = "refused"
      BY <3>1, Followed DEF JobInv, SegmentPCs, Segments
    <3> QED BY <3>1, <3>2, SegmentMoves DEF Unplaced
  <2> QED BY <2>1, <2>2
<1>4. ASSUME NEW c \in Segments, TailArrives(c) PROVE JobInv'
  <2>1. /\ segment[c].pc = "waiting" /\ segment[segment[c].previous].pc = "finished"
        /\ Follow(c, "running") /\ UNCHANGED <<job, done, promoted, wait, watch>>
    BY <1>4 DEF TailArrives
  <2>2. OnlySegment(c) /\ KeepsPlace(c) /\ segment'[c].pc = "running"
    BY <2>1, Followed DEF JobInv, SegmentPCs
  <2> QED BY <2>1, <2>2, SegmentMoves
<1>5. ASSUME NEW c \in Segments, Settle(c) PROVE JobInv'
  BY <1>5, SettleKeeps
<1>6. ASSUME NEW c \in Segments, SendTail(c) PROVE JobInv'
  <2>1. /\ segment[c].pc = "settled" /\ Follow(c, "finished")
        /\ UNCHANGED <<job, done, promoted, wait, watch>>
    BY <1>6 DEF SendTail
  <2>2. /\ OnlySegment(c) /\ KeepsPlace(c) /\ segment'[c].pc = "finished"
        /\ segment'[c].ok = segment[c].ok
    BY <2>1, Followed DEF JobInv, SegmentPCs
  <2> QED BY <2>1, <2>2, SegmentMoves
<1>7. ASSUME NEW i \in Ids, CancelJob(i) PROVE JobInv'
  BY <1>7, CancelKeeps
<1>8. ASSUME QuietStep PROVE JobInv'
  BY <1>8, QuietKeeps
<1>9. ASSUME NEW c \in Segments, NEW ok \in BOOLEAN, RunReturns(c, ok) PROVE JobInv'
  <2>1. /\ OnlySegment(c) /\ KeepsPlace(c)
        /\ segment[c].pc = "running" /\ segment'[c].pc = "returned"
        /\ UNCHANGED <<job, done, promoted, wait, watch>>
    BY <1>9, Returned DEF JobInv
  <2> QED BY <2>1, SegmentMoves
<1>10. CASE UNCHANGED jobVars
  <2>1. UNCHANGED <<job, segment, done, promoted, wait, watch>>
    BY <1>10 DEF jobVars
  <2>2. TypeOK' /\ TokensAreStarts' /\ WaitersReceive'
    BY <2>1 DEF JobInv, TypeOK, TokensAreStarts, WaitersReceive
  <2>3. \A i \in Ids : OfJob(i)' = OfJob(i) /\ OpenOf(i)' = OpenOf(i) /\ (Running(i)' <=> Running(i))
    BY <2>1 DEF OfJob, OpenOf, Running
  <2>4. ChainIsLinear' /\ EarlierIsFinished'
    BY <2>1, <2>3 DEF JobInv, ChainIsLinear, EarlierIsFinished
  <2>5. CountIsExact' /\ OutcomeIsTold'
    BY <2>1, <2>3 DEF JobInv, CountIsExact, CountOf, OutcomeIsTold
  <2> QED BY <2>2, <2>4, <2>5 DEF JobInv
<1> QED BY <1>1, <1>2, <1>3, <1>4, <1>5, <1>6, <1>7, <1>8, <1>9, <1>10
        DEF JobNext, RegistryNext, SegmentStep, QuietStep

LEMMA Invariance == JobSpec => []JobInv
BY InvInit, InvNext, PTL DEF JobSpec

(* Every state of the registry has its type.                               *)
THEOREM TypeCorrect == JobSpec => []TypeOK
<1>1. JobInv => TypeOK
  BY DEF JobInv
<1> QED BY <1>1, Invariance, PTL

(* A job completes with the last of its segments, none of which failed:    *)
(* extend and settle lose no segment (background_job.rs, settle).          *)
THEOREM NoSegmentIsLost == JobSpec => []CompletesWithLastSegment
<1>1. JobInv => CompletesWithLastSegment
  BY DEF JobInv, CountIsExact, CountOf, CompletesWithLastSegment, OpenOf
<1> QED BY <1>1, Invariance, PTL

(* The segments of a job run one at a time and in order (background_job.rs,*)
(* extend: the channel to the tail).                                       *)
THEOREM SegmentsAreSerial == JobSpec => []OneSegmentAtATime
<1>1. JobInv => OneSegmentAtATime
  <2> SUFFICES ASSUME JobInv, NEW i \in Ids, NEW c \in OfJob(i), NEW e \in OfJob(i),
                      c # e, segment[c].pc \in {"running", "returned"}
               PROVE  segment[e].pc = IF segment[e].sequence > segment[c].sequence
                                        THEN "waiting" ELSE "finished"
    BY DEF OneSegmentAtATime
  <2>1. segment[c].sequence \in Nat /\ segment[e].sequence \in Nat
    BY DEF OfJob, JobInv, TypeOK, SegmentStates
  <2>2. segment[c].sequence # segment[e].sequence
    BY DEF JobInv, ChainIsLinear
  <2>3. CASE segment[e].sequence > segment[c].sequence
    <3>1. segment[c].sequence < segment[e].sequence
      BY <2>1, <2>3
    <3> QED BY <2>3, <3>1 DEF JobInv, EarlierIsFinished
  <2>4. CASE ~(segment[e].sequence > segment[c].sequence)
    <3>1. segment[e].sequence < segment[c].sequence
      BY <2>1, <2>2, <2>4
    <3> QED BY <2>4, <3>1 DEF JobInv, EarlierIsFinished
  <2> QED BY <2>3, <2>4
<1> QED BY <1>1, Invariance, PTL

\* A step leaves a job that is over as it is, or replaces it.
OverStays(i) ==
  job[i].token # None /\ job[i].status # "running" =>
    \/ job'[i].token # job[i].token
    \/ job'[i].status = job[i].status /\ job'[i].output = job[i].output

LEMMA OverJobsStay ==
  ASSUME JobInv, [JobNext]_jobVars, NEW i \in Ids
  PROVE  OverStays(i)
<1>1. UNCHANGED job => OverStays(i)
  BY DEF OverStays
<1>2. ASSUME NEW c \in Starts, NEW b \in BOOLEAN, InsertJob(c, b) PROVE OverStays(i)
  <2>1. /\ OnlyJob(IdOf[c]) /\ IdOf[c] \in Ids /\ job'[IdOf[c]].token = c
        /\ segment[c].pc = "checked"
    BY <1>2, Inserted DEF JobInv
  <2>2. segment[c].token = None /\ c # None
    BY <2>1, BackgroundJobAssumption DEF JobInv, TokensAreStarts, Unplaced, Segments
  <2>3. job[i].token # None => job[i].token # c
    BY <2>2 DEF JobInv, TokensAreStarts
  <2> QED BY <2>1, <2>3 DEF OverStays, OnlyJob
<1>3. ASSUME NEW c \in Extends, ExtendJob(c) PROVE OverStays(i)
  <2>1. CASE Running(IdOf[c])
    BY <1>3, <2>1, Extended DEF JobInv, OverStays, OnlyJob, Running
  <2>2. CASE ~Running(IdOf[c])
    BY <1>1, <1>3, <2>2 DEF ExtendJob
  <2> QED BY <2>1, <2>2
<1>4. ASSUME NEW c \in Segments, Settle(c) PROVE OverStays(i)
  BY <1>1, <1>4, SettledSegment DEF OverStays, OnlyJob
<1>5. ASSUME NEW j \in Ids, CancelJob(j) PROVE OverStays(i)
  BY <1>5, Cancelled DEF JobInv, OverStays, OnlyJob, Running
<1>6. ASSUME QuietStep PROVE OverStays(i)
  BY <1>6, Quiet DEF JobInv, OverStays, SameJobs
<1>7. ASSUME NEW c \in Segments, NEW ok \in BOOLEAN, RunReturns(c, ok) PROVE OverStays(i)
  BY <1>1, <1>7 DEF RunReturns
<1>8. ASSUME NEW c \in Segments, CheckExisting(c) \/ TailArrives(c) \/ SendTail(c)
      PROVE  OverStays(i)
  BY <1>1, <1>8 DEF CheckExisting, TailArrives, SendTail
<1>9. CASE UNCHANGED jobVars
  BY <1>1, <1>9 DEF jobVars
<1> QED BY <1>2, <1>3, <1>4, <1>5, <1>6, <1>7, <1>8, <1>9, SegmentOfStart
        DEF JobNext, RegistryNext, SegmentStep, QuietStep

(* An outcome is final, and it is what the waiter is told (background_job. *)
(* rs, settle and cancel: only a running job ends).                        *)
THEOREM OutcomesStay == JobSpec => OutcomeIsFinal
<1>1. JobInv /\ [JobNext]_jobVars =>
        [\A i \in Ids :
           job[i].token # None /\ job[i].status # "running" =>
             \/ job'[i].token # job[i].token
             \/ /\ job'[i].status = job[i].status
                /\ job'[i].output = job[i].output
                /\ job[i].status = "completed" => done[job[i].token] = "completed"]_jobVars
  BY OverJobsStay DEF OverStays, JobInv, OutcomeIsTold
<1> QED BY <1>1, Invariance, PTL DEF JobSpec, OutcomeIsFinal
=============================================================================
