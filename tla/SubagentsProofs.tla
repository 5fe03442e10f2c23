-------------------------- MODULE SubagentsProofs ---------------------------
(***************************************************************************)
(* Subagents implement the job registry, for any children and calls, and   *)
(* so have its invariant JobInv.  From it and from what a run has done so  *)
(* far follows what an ended job tells about the parent's transcript.      *)
(***************************************************************************)
EXTENDS Subagents, BackgroundJobProofs

LEMMA CallsAreApart ==
  /\ Segments = Starts /\ Starts \intersect Prompts = {}
  /\ \A c \in Starts : IdOf[c] \in Ids
  /\ \A x \in Prompts \union Foregrounds \union Routes : ChildOf[x] \in Ids
BY SubagentsAssumption, BackgroundJobAssumption DEF Segments

-----------------------------------------------------------------------------
(* The refinement.                                                         *)

LEMMA StepImplements == [Next]_vars => [JobNext]_jobVars
<1> SUFFICES ASSUME [Next]_vars PROVE [JobNext]_jobVars
  OBVIOUS
<1>1. CASE RegistryStep
  <2>1. PICK c \in Starts : CheckExisting(c) \/ InsertJob(c, TRUE) \/ SegmentStep(c)
    BY <1>1 DEF RegistryStep
  <2>2. c \in Segments
    BY DEF Segments
  <2> QED BY <2>1, <2>2 DEF JobNext, RegistryNext
<1>2. ASSUME NEW c \in Starts, BodyStep(c) PROVE [JobNext]_jobVars
  <2>1. CASE ReturnResult(c)
    <3>1. c \in Segments /\ RunReturns(c, body[c] = "ok") /\ (body[c] = "ok") \in BOOLEAN
      BY <2>1 DEF ReturnResult, Segments
    <3> QED BY <3>1 DEF JobNext
  <2>2. CASE ~ReturnResult(c)
    BY <1>2, <2>2 DEF BodyStep, CheckNotCancelled, AcquireChild, RunChild, FinishChild,
                      CheckCancelled, CollectResult, InjectResult
  <2> QED BY <2>1, <2>2
<1>3. ASSUME NEW p \in Prompts, SendPrompt(p) \/ PromptStep(p) PROVE [JobNext]_jobVars
  BY <1>3 DEF SendPrompt, PromptStep, AcquirePrompt, RunPrompt, FinishPrompt
<1>4. ASSUME NEW f \in Foregrounds, StartForeground(f) \/ EndForeground(f)
      PROVE  [JobNext]_jobVars
  BY <1>4 DEF StartForeground, EndForeground
<1>5. ASSUME NEW r \in Routes, StopJob(r) \/ StopRunner(r) PROVE [JobNext]_jobVars
  <2>1. CASE StopJob(r)
    <3>1. ChildOf[r] \in Ids
      BY CallsAreApart
    <3> QED BY <2>1, <3>1 DEF StopJob, JobNext, RegistryNext
  <2>2. CASE StopRunner(r)
    BY <2>2 DEF StopRunner
  <2> QED BY <1>5, <2>1, <2>2
<1>6. CASE UNCHANGED vars
  BY <1>6 DEF vars
<1> QED BY <1>1, <1>2, <1>3, <1>4, <1>5, <1>6 DEF Next

(* Whatever clients do to the child sessions, the subagents use the job    *)
(* registry as specified (runner.rs, spawn_background_subagent).           *)
THEOREM ImplementsJobs == Spec => JobSpec
<1>1. Init => JobInit
  BY DEF Init
<1> QED BY <1>1, StepImplements, PTL DEF Spec, JobSpec

LEMMA JobInvariant == Spec => []JobInv
BY ImplementsJobs, Invariance, PTL

-----------------------------------------------------------------------------
(* The slot of a child.                                                    *)

ChildTypes ==
  /\ slot \in [Ids -> [held : BOOLEAN, rerun : BOOLEAN, cancelled : BOOLEAN]]
  /\ body \in [Starts -> {"status", "acquire", "pass", "finish", "check", "collect", "inject",
                          "ok", "failed"}]
  /\ prompt \in [Prompts -> {"idle", "spawned", "pass", "finish", "done"}]
  /\ latest \in [Ids -> Runners \union {None}]
  /\ result \in [Starts -> Runners \union {None}]
  /\ delivered \in [Starts -> Runners \union {None}]

SlotInv == ChildTypes /\ OneSlotRunner

LEMMA PassEndsType ==
  ASSUME ChildTypes, NEW x \in Runners, NEW i \in Ids, PassEnds(x, i)
  PROVE  latest' \in [Ids -> Runners \union {None}]
BY DEF ChildTypes, PassEnds

\* Only x of child i changes whether it is in a pass, and to slot i only.
SlotMove(x, i) ==
  /\ x \in Starts \union Prompts /\ i \in Ids
  /\ \A j \in Ids : /\ SlotRunners(j)' \ {x} = SlotRunners(j) \ {x}
                    /\ j # i => slot'[j] = slot[j] /\ x \notin SlotRunners(j)'

LEMMA TakesSlot ==
  ASSUME OneSlotRunner, NEW x, NEW i, SlotMove(x, i), ~slot[i].held, slot'[i].held
  PROVE  OneSlotRunner'
<1>1. SlotRunners(i) = {}
  BY DEF OneSlotRunner, SlotMove
<1> QED BY <1>1 DEF OneSlotRunner, SlotMove

LEMMA LeavesSlot ==
  ASSUME OneSlotRunner, NEW x, NEW i, SlotMove(x, i), x \in SlotRunners(i),
         slot'[i].held \/ x \notin SlotRunners(i)'
  PROVE  OneSlotRunner'
<1>1. SlotRunners(i) \ {x} = {}
  BY DEF OneSlotRunner, SlotMove
<1>2. SlotRunners(i)' \subseteq {x}
  BY <1>1 DEF SlotMove
<1>3. \A y \in SlotRunners(i)' : slot'[i].held
  BY <1>2
<1> QED BY <1>2, <1>3 DEF OneSlotRunner, SlotMove

LEMMA KeepsRunners ==
  ASSUME OneSlotRunner, \A i \in Ids : SlotRunners(i)' \subseteq SlotRunners(i),
         \A i \in Ids : slot[i].held => slot'[i].held
  PROVE  OneSlotRunner'
BY DEF OneSlotRunner

LEMMA SlotInit == Init => SlotInv
BY CallsAreApart DEF Init, SlotInv, ChildTypes, OneSlotRunner, SlotRunners, FreeSlot, Runners

LEMMA MarkKeeps ==
  ASSUME ChildTypes, NEW i \in Ids, MarkRerun(i)
  PROVE  /\ slot' \in [Ids -> [held : BOOLEAN, rerun : BOOLEAN, cancelled : BOOLEAN]]
         /\ \A j \in Ids : slot'[j].held = slot[j].held
BY DEF ChildTypes, MarkRerun

LEMMA TakeOne ==
  ASSUME ChildTypes, NEW i \in Ids, Take(i)
  PROVE  /\ slot' \in [Ids -> [held : BOOLEAN, rerun : BOOLEAN, cancelled : BOOLEAN]]
         /\ slot'[i].held /\ \A j \in Ids \ {i} : slot'[j] = slot[j]
BY DEF ChildTypes, Take, FreshSlot

LEMMA ReleaseOne ==
  ASSUME ChildTypes, NEW i \in Ids, Release(i)
  PROVE  /\ slot' \in [Ids -> [held : BOOLEAN, rerun : BOOLEAN, cancelled : BOOLEAN]]
         /\ slot'[i].held = slot[i].rerun /\ \A j \in Ids \ {i} : slot'[j] = slot[j]
BY DEF ChildTypes, Release, FreshSlot, FreeSlot

\* A run moves on, seen from the slots.
LEMMA BodyMoves ==
  ASSUME ChildTypes, NEW c \in Starts, NEW to, body' = [body EXCEPT ![c] = to],
         UNCHANGED prompt
  PROVE  /\ \A j \in Ids : SlotRunners(j)' \ {c} = SlotRunners(j) \ {c}
         /\ \A j \in Ids : j # IdOf[c] => c \notin SlotRunners(j)'
         /\ c \in SlotRunners(IdOf[c])' <=> to \in {"pass", "finish"}
         /\ c \in SlotRunners(IdOf[c]) <=> body[c] \in {"pass", "finish"}
BY CallsAreApart DEF ChildTypes, SlotRunners

LEMMA PromptMoves ==
  ASSUME ChildTypes, NEW p \in Prompts, NEW to, prompt' = [prompt EXCEPT ![p] = to],
         UNCHANGED body
  PROVE  /\ \A j \in Ids : SlotRunners(j)' \ {p} = SlotRunners(j) \ {p}
         /\ \A j \in Ids : j # ChildOf[p] => p \notin SlotRunners(j)'
         /\ p \in SlotRunners(ChildOf[p])' <=> to \in {"pass", "finish"}
         /\ p \in SlotRunners(ChildOf[p]) <=> prompt[p] \in {"pass", "finish"}
BY CallsAreApart DEF ChildTypes, SlotRunners

LEMMA BodyStaysOut ==
  ASSUME ChildTypes, NEW c \in Starts, NEW to, to \notin {"pass", "finish"},
         body' = [body EXCEPT ![c] = to], UNCHANGED prompt
  PROVE  \A j \in Ids : SlotRunners(j)' \subseteq SlotRunners(j)
BY CallsAreApart DEF ChildTypes, SlotRunners

LEMMA PromptStaysOut ==
  ASSUME ChildTypes, NEW p \in Prompts, NEW to, to \notin {"pass", "finish"},
         prompt' = [prompt EXCEPT ![p] = to], UNCHANGED body
  PROVE  \A j \in Ids : SlotRunners(j)' \subseteq SlotRunners(j)
BY CallsAreApart DEF ChildTypes, SlotRunners

LEMMA BodyProceeds ==
  ASSUME ChildTypes, NEW c \in Starts, body[c] = "pass",
         body' = [body EXCEPT ![c] = "finish"], UNCHANGED prompt
  PROVE  \A j \in Ids : SlotRunners(j)' \subseteq SlotRunners(j)
BY CallsAreApart DEF ChildTypes, SlotRunners

LEMMA SlotBody ==
  ASSUME SlotInv, NEW c \in Starts, BodyStep(c)
  PROVE  SlotInv'
<1> DEFINE i == IdOf[c]
<1>0. i \in Ids /\ c \in Runners /\ ChildTypes /\ OneSlotRunner
  BY CallsAreApart DEF SlotInv, Runners
<1>1. CASE CheckNotCancelled(c)
  <2>1. PICK to \in {"acquire", "failed"} : body[c] = "status" /\ body' = [body EXCEPT ![c] = to]
    BY <1>1 DEF CheckNotCancelled, Body
  <2>2. UNCHANGED <<slot, result, prompt, fore, route, latest, delivered>>
    BY <1>1 DEF CheckNotCancelled
  <2>3. ChildTypes'
    BY <1>0, <2>1, <2>2 DEF ChildTypes
  <2>4. OneSlotRunner'
    <3>1. \A j \in Ids : SlotRunners(j)' \subseteq SlotRunners(j)
      BY <1>0, <2>1, <2>2, BodyStaysOut
    <3> QED BY <1>0, <2>2, <3>1, KeepsRunners
  <2> QED BY <2>3, <2>4 DEF SlotInv
<1>2. CASE AcquireChild(c)
  <2>1. UNCHANGED <<result, prompt, fore, route, latest, delivered>>
    BY <1>2 DEF AcquireChild
  <2>2. CASE slot[i].held
    <3>1. body' = [body EXCEPT ![c] = "failed"] /\ MarkRerun(i) /\ body[c] = "acquire"
      BY <1>2, <2>2 DEF AcquireChild, Body
    <3>2. ChildTypes'
      BY <1>0, <2>1, <3>1, MarkKeeps DEF ChildTypes
    <3>3. OneSlotRunner'
      <4>1. \A j \in Ids : SlotRunners(j)' \subseteq SlotRunners(j)
        BY <1>0, <2>1, <3>1, BodyStaysOut
      <4>2. \A j \in Ids : slot'[j].held = slot[j].held
        BY <1>0, <3>1, MarkKeeps
      <4> QED BY <1>0, <4>1, <4>2, KeepsRunners
    <3> QED BY <3>2, <3>3 DEF SlotInv
  <2>3. CASE ~slot[i].held
    <3>1. body' = [body EXCEPT ![c] = "pass"] /\ Take(i)
      BY <1>2, <2>3 DEF AcquireChild, Body
    <3>2. ChildTypes'
      BY <1>0, <2>1, <3>1, TakeOne DEF ChildTypes
    <3>3. SlotMove(c, i) /\ slot'[i].held
      BY <1>0, <2>1, <3>1, TakeOne, BodyMoves DEF SlotMove
    <3>4. OneSlotRunner'
      BY <1>0, <2>3, <3>3, TakesSlot
    <3> QED BY <3>2, <3>4 DEF SlotInv
  <2> QED BY <2>2, <2>3
<1>3. CASE RunChild(c)
  <2>1. /\ body' = [body EXCEPT ![c] = "finish"] /\ body[c] = "pass" /\ PassEnds(c, i)
        /\ UNCHANGED <<slot, result, prompt, fore, route, delivered>>
    BY <1>3 DEF RunChild, Body
  <2>2. ChildTypes'
    BY <1>0, <2>1, PassEndsType DEF ChildTypes, Runners
  <2>3. OneSlotRunner'
    <3>1. \A j \in Ids : SlotRunners(j)' \subseteq SlotRunners(j)
      BY <1>0, <2>1, BodyProceeds
    <3> QED BY <1>0, <2>1, <3>1, KeepsRunners
  <2> QED BY <2>2, <2>3 DEF SlotInv
<1>4. CASE FinishChild(c)
  <2>1. /\ body' = [body EXCEPT ![c] = "check"] /\ body[c] = "finish" /\ Release(i)
        /\ UNCHANGED <<result, prompt, fore, route, latest, delivered>>
    BY <1>4 DEF FinishChild, Body
  <2>2. ChildTypes'
    BY <1>0, <2>1, ReleaseOne DEF ChildTypes
  <2>3. SlotMove(c, i) /\ c \in SlotRunners(i) /\ c \notin SlotRunners(i)'
    <3>1. \A j \in Ids \ {i} : slot'[j] = slot[j]
      BY <1>0, <2>1, ReleaseOne
    <3>2. body' = [body EXCEPT ![c] = "check"] /\ UNCHANGED prompt
      BY <2>1
    <3>3. /\ \A j \in Ids : SlotRunners(j)' \ {c} = SlotRunners(j) \ {c}
          /\ \A j \in Ids : j # i => c \notin SlotRunners(j)'
          /\ c \in SlotRunners(i)' <=> "check" \in {"pass", "finish"}
          /\ c \in SlotRunners(i) <=> body[c] \in {"pass", "finish"}
      BY ONLY <1>0, <3>2, BodyMoves
    <3>4. c \in SlotRunners(i) /\ c \notin SlotRunners(i)'
      BY <2>1, <3>3
    <3> QED BY <1>0, <3>1, <3>3, <3>4 DEF SlotMove
  <2>4. OneSlotRunner'
    BY <1>0, <2>3, LeavesSlot
  <2> QED BY <2>2, <2>4 DEF SlotInv
<1>5. CASE CheckCancelled(c) \/ CollectResult(c) \/ InjectResult(c)
  <2>1. PICK to \in {"failed", "collect", "inject", "ok"} : body' = [body EXCEPT ![c] = to]
    BY <1>5 DEF CheckCancelled, CollectResult, InjectResult, Body
  <2>2. UNCHANGED <<slot, prompt, latest>>
    BY <1>5 DEF CheckCancelled, CollectResult, InjectResult
  <2>3. result' \in [Starts -> Runners \union {None}] /\ delivered' \in [Starts -> Runners \union {None}]
    BY <1>0, <1>5 DEF CheckCancelled, CollectResult, InjectResult, ChildTypes
  <2>4. ChildTypes'
    BY <1>0, <2>1, <2>2, <2>3 DEF ChildTypes
  <2>5. OneSlotRunner'
    <3>1. \A j \in Ids : SlotRunners(j)' \subseteq SlotRunners(j)
      BY <1>0, <2>1, <2>2, BodyStaysOut
    <3> QED BY <1>0, <2>2, <3>1, KeepsRunners
  <2> QED BY <2>4, <2>5 DEF SlotInv
<1>6. CASE ReturnResult(c)
  BY <1>6 DEF ReturnResult, childVars, SlotInv, ChildTypes, OneSlotRunner, SlotRunners
<1> QED BY <1>1, <1>2, <1>3, <1>4, <1>5, <1>6 DEF BodyStep

LEMMA PromptProceeds ==
  ASSUME ChildTypes, NEW p \in Prompts, prompt[p] = "pass",
         prompt' = [prompt EXCEPT ![p] = "finish"], UNCHANGED body
  PROVE  \A j \in Ids : SlotRunners(j)' \subseteq SlotRunners(j)
BY CallsAreApart DEF ChildTypes, SlotRunners

LEMMA SlotPrompt ==
  ASSUME SlotInv, NEW p \in Prompts, SendPrompt(p) \/ PromptStep(p)
  PROVE  SlotInv'
<1> DEFINE i == ChildOf[p]
<1>0. i \in Ids /\ p \in Runners /\ ChildTypes /\ OneSlotRunner
  BY CallsAreApart DEF SlotInv, Runners
<1>1. CASE SendPrompt(p)
  <2>1. /\ prompt' = [prompt EXCEPT ![p] = "spawned"]
        /\ UNCHANGED <<slot, body, result, latest, delivered>>
    BY <1>1 DEF SendPrompt
  <2>2. ChildTypes'
    BY <1>0, <2>1 DEF ChildTypes
  <2>3. OneSlotRunner'
    <3>1. \A j \in Ids : SlotRunners(j)' \subseteq SlotRunners(j)
      BY <1>0, <2>1, PromptStaysOut
    <3> QED BY <1>0, <2>1, <3>1, KeepsRunners
  <2> QED BY <2>2, <2>3 DEF SlotInv
<1>2. CASE AcquirePrompt(p)
  <2>1. UNCHANGED <<body, result, latest, delivered>>
    BY <1>2 DEF AcquirePrompt
  <2>2. CASE slot[i].held
    <3>1. prompt' = [prompt EXCEPT ![p] = "done"] /\ MarkRerun(i)
      BY <1>2, <2>2 DEF AcquirePrompt
    <3>2. ChildTypes'
      BY <1>0, <2>1, <3>1, MarkKeeps DEF ChildTypes
    <3>3. OneSlotRunner'
      <4>1. \A j \in Ids : SlotRunners(j)' \subseteq SlotRunners(j)
        BY <1>0, <2>1, <3>1, PromptStaysOut
      <4>2. \A j \in Ids : slot'[j].held = slot[j].held
        BY <1>0, <3>1, MarkKeeps
      <4> QED BY <1>0, <4>1, <4>2, KeepsRunners
    <3> QED BY <3>2, <3>3 DEF SlotInv
  <2>3. CASE ~slot[i].held
    <3>1. prompt' = [prompt EXCEPT ![p] = "pass"] /\ Take(i)
      BY <1>2, <2>3 DEF AcquirePrompt
    <3>2. ChildTypes'
      BY <1>0, <2>1, <3>1, TakeOne DEF ChildTypes
    <3>3. SlotMove(p, i) /\ slot'[i].held
      BY <1>0, <2>1, <3>1, TakeOne, PromptMoves DEF SlotMove
    <3>4. OneSlotRunner'
      BY <1>0, <2>3, <3>3, TakesSlot
    <3> QED BY <3>2, <3>4 DEF SlotInv
  <2> QED BY <2>2, <2>3
<1>3. CASE RunPrompt(p)
  <2>1. /\ prompt' = [prompt EXCEPT ![p] = "finish"] /\ prompt[p] = "pass" /\ PassEnds(p, i)
        /\ UNCHANGED <<slot, body, result, delivered>>
    BY <1>3 DEF RunPrompt
  <2>2. ChildTypes'
    BY <1>0, <2>1, PassEndsType DEF ChildTypes, Runners
  <2>3. OneSlotRunner'
    <3>1. \A j \in Ids : SlotRunners(j)' \subseteq SlotRunners(j)
      BY <1>0, <2>1, PromptProceeds
    <3> QED BY <1>0, <2>1, <3>1, KeepsRunners
  <2> QED BY <2>2, <2>3 DEF SlotInv
<1>4. CASE FinishPrompt(p)
  <2> DEFINE to == IF slot[i].rerun THEN "pass" ELSE "done"
  <2>1. /\ prompt' = [prompt EXCEPT ![p] = to] /\ prompt[p] = "finish" /\ Release(i)
        /\ to \in {"pass", "done"} /\ (to = "pass" <=> slot[i].rerun)
        /\ UNCHANGED <<body, result, latest, delivered>>
    BY <1>4 DEF FinishPrompt
  <2> HIDE DEF to
  <2>2. ChildTypes'
    BY <1>0, <2>1, ReleaseOne DEF ChildTypes
  <2>3. /\ SlotMove(p, i) /\ p \in SlotRunners(i)
        /\ slot'[i].held \/ p \notin SlotRunners(i)'
    BY <1>0, <2>1, ReleaseOne, PromptMoves DEF SlotMove
  <2>4. OneSlotRunner'
    BY <1>0, <2>3, LeavesSlot
  <2> QED BY <2>2, <2>4 DEF SlotInv
<1> QED BY <1>1, <1>2, <1>3, <1>4 DEF PromptStep

LEMMA SlotNext == SlotInv /\ [Next]_vars => SlotInv'
<1> SUFFICES ASSUME SlotInv, [Next]_vars PROVE SlotInv'
  OBVIOUS
<1>1. CASE RegistryStep \/ UNCHANGED vars
  <2>1. UNCHANGED <<slot, body, prompt, latest, result, delivered>>
    BY <1>1 DEF RegistryStep, vars, childVars
  <2> QED BY <2>1 DEF SlotInv, ChildTypes, OneSlotRunner, SlotRunners
<1>2. ASSUME NEW c \in Starts, BodyStep(c) PROVE SlotInv'
  BY <1>2, SlotBody
<1>3. ASSUME NEW p \in Prompts, SendPrompt(p) \/ PromptStep(p) PROVE SlotInv'
  BY <1>3, SlotPrompt
<1>4. ASSUME NEW f \in Foregrounds, StartForeground(f) \/ EndForeground(f) PROVE SlotInv'
  <2>1. UNCHANGED <<slot, body, prompt, result, delivered>>
    BY <1>4 DEF StartForeground, EndForeground
  <2>2. latest' \in [Ids -> Runners \union {None}]
    <3>1. CASE StartForeground(f)
      BY <3>1 DEF StartForeground, SlotInv, ChildTypes
    <3>2. CASE EndForeground(f)
      BY <3>2, CallsAreApart, PassEndsType DEF EndForeground, SlotInv, Runners
    <3> QED BY <1>4, <3>1, <3>2
  <2> QED BY <2>1, <2>2 DEF SlotInv, ChildTypes, OneSlotRunner, SlotRunners
<1>5. ASSUME NEW r \in Routes, StopJob(r) \/ StopRunner(r) PROVE SlotInv'
  <2>1. UNCHANGED <<body, prompt, latest, result, delivered>>
    BY <1>5 DEF StopJob, StopRunner
  <2>2. /\ slot' \in [Ids -> [held : BOOLEAN, rerun : BOOLEAN, cancelled : BOOLEAN]]
        /\ \A j \in Ids : slot'[j].held = slot[j].held
    <3>1. CASE StopJob(r)
      BY <3>1 DEF StopJob, SlotInv, ChildTypes
    <3>2. CASE StopRunner(r)
      <4> DEFINE i == ChildOf[r]
                 stopped == [slot[i] EXCEPT !.rerun = FALSE, !.cancelled = TRUE]
      <4>1. i \in Ids /\ slot[i] \in [held : BOOLEAN, rerun : BOOLEAN, cancelled : BOOLEAN]
        BY CallsAreApart DEF SlotInv, ChildTypes
      <4>2. /\ stopped \in [held : BOOLEAN, rerun : BOOLEAN, cancelled : BOOLEAN]
            /\ stopped.held = slot[i].held
        BY <4>1
      <4>3. slot' = [slot EXCEPT ![i] = stopped] \/ slot' = slot
        BY <3>2 DEF StopRunner
      <4> HIDE DEF stopped, i
      <4> QED BY <4>1, <4>2, <4>3 DEF SlotInv, ChildTypes
    <3> QED BY <1>5, <3>1, <3>2
  <2>3. \A j \in Ids : SlotRunners(j)' = SlotRunners(j)
    BY <2>1 DEF SlotRunners
  <2> QED BY <2>1, <2>2, <2>3, KeepsRunners DEF SlotInv, ChildTypes
<1> QED BY <1>1, <1>2, <1>3, <1>4, <1>5 DEF Next

(* Background runs and prompts of a child exclude each other (state.rs,    *)
(* acquire_session_run; runner.rs, spawn_background_subagent).             *)
THEOREM RunnersExclude == Spec => []OneSlotRunner
<1>1. SlotInv => OneSlotRunner
  BY DEF SlotInv
<1> QED BY <1>1, SlotInit, SlotNext, PTL DEF Spec

-----------------------------------------------------------------------------
(* What an ended job tells.                                                *)

Ended == {"returned", "settled", "finished"}

\* A run's success is an answer delivered, its result is what it returned,
\* and the job of its id is a failed one only when it has settled so.
RunsTellTheTruth ==
  \A c \in Starts :
    /\ body[c] = "inject" => result[c] # None
    /\ body[c] = "ok" <=> delivered[c] # None
    /\ segment[c].pc \in Ended =>
         body[c] \in {"ok", "failed"} /\ (segment[c].ok <=> body[c] = "ok")
    /\ job[IdOf[c]].token = c /\ job[IdOf[c]].status = "error" =>
         segment[c].pc \in {"settled", "finished"} /\ ~segment[c].ok

LEMMA TruthInit == Init => RunsTellTheTruth
BY CallsAreApart, BackgroundJobAssumption
   DEF Init, JobInit, NoJob, RunsTellTheTruth, Ended

\* Steps that leave the runs alone, and end no job with an error.
LEMMA RunsUntouched ==
  ASSUME RunsTellTheTruth, UNCHANGED <<segment, body, result, delivered>>,
         \A i \in Ids : \/ job'[i] = job[i]
                        \/ job'[i].status # "error"
  PROVE  RunsTellTheTruth'
BY CallsAreApart DEF RunsTellTheTruth

LEMMA TruthRegistry ==
  ASSUME JobInv, RunsTellTheTruth, RegistryStep
  PROVE  RunsTellTheTruth'
<1>1. PICK c \in Starts : CheckExisting(c) \/ InsertJob(c, TRUE) \/ SegmentStep(c)
  BY DEF RegistryStep
<1>2. UNCHANGED <<body, result, delivered>> /\ c \in Segments /\ TypeOK /\ IdOf[c] \in Ids
  BY CallsAreApart DEF RegistryStep, childVars, JobInv
<1>3. ASSUME OnlySegment(c), UNCHANGED job,
             \/ segment[c].pc \notin Ended /\ segment'[c].pc \notin Ended
             \/ /\ segment[c].pc \in {"settled", "finished"}
                /\ segment'[c].pc \in {"settled", "finished"}
                /\ segment'[c].ok = segment[c].ok
      PROVE  RunsTellTheTruth'
  BY <1>2, <1>3, CallsAreApart DEF RunsTellTheTruth, OnlySegment, Ended
<1>4. CASE CheckExisting(c)
  <2> DEFINE pc == IF Running(IdOf[c]) THEN "reused" ELSE "checked"
  <2>1. segment[c].pc = "idle" /\ Follow(c, pc) /\ pc \in {"reused", "checked"} /\ UNCHANGED job
    BY <1>4 DEF CheckExisting
  <2> HIDE DEF pc
  <2>2. OnlySegment(c) /\ segment'[c].pc = pc
    BY <1>2, <2>1, Followed DEF SegmentPCs
  <2> QED BY <1>3, <2>1, <2>2 DEF Ended
<1>5. CASE TailArrives(c)
  <2>1. segment[c].pc = "waiting" /\ Follow(c, "running") /\ UNCHANGED job
    BY <1>5 DEF TailArrives
  <2>2. OnlySegment(c) /\ segment'[c].pc = "running"
    BY <1>2, <2>1, Followed DEF SegmentPCs
  <2> QED BY <1>3, <2>1, <2>2 DEF Ended
<1>6. CASE SendTail(c)
  <2>1. segment[c].pc = "settled" /\ Follow(c, "finished") /\ UNCHANGED job
    BY <1>6 DEF SendTail
  <2>2. OnlySegment(c) /\ segment'[c].pc = "finished" /\ segment'[c].ok = segment[c].ok
    BY <1>2, <2>1, Followed DEF SegmentPCs
  <2> QED BY <1>3, <2>1, <2>2 DEF Ended
<1>7. CASE InsertJob(c, TRUE)
  <2>1. /\ OnlySegment(c) /\ OnlyJob(IdOf[c])
        /\ segment[c].pc = "checked" /\ segment'[c].pc = "running"
        /\ job'[IdOf[c]].token = c /\ job'[IdOf[c]].status = "running"
    BY <1>2, <1>7, Inserted
  <2>2. ASSUME NEW d \in Starts, d # c
        PROVE  /\ segment'[d] = segment[d]
               /\ job'[IdOf[d]].token = d /\ job'[IdOf[d]].status = "error" =>
                    job[IdOf[d]].token = d /\ job[IdOf[d]].status = "error"
    BY <2>1, <2>2, CallsAreApart DEF OnlySegment, OnlyJob
  <2> QED BY <1>2, <2>1, <2>2 DEF RunsTellTheTruth, Ended
<1>8. CASE Settle(c)
  <2> DEFINE i == IdOf[c]
             counts == job[i].token = c /\ job[i].status = "running"
  <2>1. segment[c].token = c
    <3>1. segment[c].pc = "returned" /\ segment[c].pc \notin Unplaced
      BY <1>8 DEF Settle, Unplaced
    <3> QED BY <1>2, <3>1 DEF JobInv, TokensAreStarts
  <2>2. /\ OnlySegment(c) /\ segment[c].pc = "returned" /\ segment'[c].pc = "settled"
        /\ segment'[c].ok = segment[c].ok
        /\ ~counts => UNCHANGED job
        /\ counts => /\ OnlyJob(i) /\ job'[i].token = c
                     /\ job'[i].status = "error" => ~segment[c].ok
    BY <1>2, <1>8, <2>1, SettledSegment
  <2>3. ASSUME NEW d \in Starts, job'[IdOf[d]].token = d, job'[IdOf[d]].status = "error"
        PROVE  segment'[d].pc \in {"settled", "finished"} /\ ~segment'[d].ok
    <3>1. CASE counts /\ IdOf[d] = i
      BY <2>2, <2>3, <3>1
    <3>2. CASE ~(counts /\ IdOf[d] = i)
      <4>1. job'[IdOf[d]] = job[IdOf[d]]
        BY <2>2, <3>2, CallsAreApart DEF OnlyJob
      <4>2. segment[d].pc \in {"settled", "finished"} /\ ~segment[d].ok
        BY <2>3, <4>1 DEF RunsTellTheTruth
      <4> QED BY <2>2, <4>2, CallsAreApart DEF OnlySegment
    <3> QED BY <3>1, <3>2
  <2>4. ASSUME NEW d \in Starts, segment'[d].pc \in Ended
        PROVE  body[d] \in {"ok", "failed"} /\ (segment'[d].ok <=> body[d] = "ok")
    <3>1. segment[d].pc \in Ended /\ segment'[d].ok = segment[d].ok
      BY <2>2, <2>4, CallsAreApart DEF OnlySegment, Ended
    <3> QED BY <3>1 DEF RunsTellTheTruth
  <2> QED BY <1>2, <2>3, <2>4 DEF RunsTellTheTruth
<1> QED BY <1>1, <1>4, <1>5, <1>6, <1>7, <1>8 DEF SegmentStep

\* A run takes a step: it has not returned.
LEMMA TruthRun ==
  ASSUME RunsTellTheTruth, ChildTypes, NEW c \in Starts, NEW from, NEW to,
         Body(c, from, to), UNCHANGED jobVars,
         from \notin {"ok", "failed"},
         \A d \in Starts \ {c} : result'[d] = result[d] /\ delivered'[d] = delivered[d],
         to = "inject" => result'[c] # None,
         to = "ok" <=> delivered'[c] # None
  PROVE  RunsTellTheTruth'
<1>1. /\ segment[c].pc = "running" /\ body[c] = from
      /\ body' = [body EXCEPT ![c] = to] /\ body'[c] = to
      /\ \A d \in Starts \ {c} : body'[d] = body[d]
  BY DEF Body, ChildTypes
<1>2. UNCHANGED <<segment, job>>
  BY DEF jobVars
<1> QED BY <1>1, <1>2 DEF RunsTellTheTruth, Ended

LEMMA TruthBody ==
  ASSUME JobInv, RunsTellTheTruth, ChildTypes, NEW c \in Starts, BodyStep(c)
  PROVE  RunsTellTheTruth'
<1>0. body[c] \notin {"ok"} => delivered[c] = None
  BY DEF RunsTellTheTruth
<1>1. CASE CheckNotCancelled(c)
  <2>1. PICK to \in {"acquire", "failed"} : Body(c, "status", to)
    BY <1>1 DEF CheckNotCancelled
  <2> QED BY <1>0, <1>1, <2>1, TruthRun DEF CheckNotCancelled, Body
<1>2. CASE AcquireChild(c)
  <2>1. PICK to \in {"pass", "failed"} : Body(c, "acquire", to)
    BY <1>2 DEF AcquireChild
  <2> QED BY <1>0, <1>2, <2>1, TruthRun DEF AcquireChild, Body
<1>3. CASE RunChild(c)
  BY <1>0, <1>3, TruthRun DEF RunChild, Body
<1>4. CASE FinishChild(c)
  BY <1>0, <1>4, TruthRun DEF FinishChild, Body
<1>5. CASE CheckCancelled(c)
  <2>1. PICK to \in {"collect", "failed"} : Body(c, "check", to)
    BY <1>5 DEF CheckCancelled
  <2> QED BY <1>0, <1>5, <2>1, TruthRun DEF CheckCancelled, Body
<1>6. CASE CollectResult(c)
  <2> DEFINE to == IF latest[IdOf[c]] = None THEN "failed" ELSE "inject"
  <2>1. /\ Body(c, "collect", to) /\ UNCHANGED jobVars /\ UNCHANGED delivered
        /\ result' = [result EXCEPT ![c] = latest[IdOf[c]]]
    BY <1>6 DEF CollectResult
  <2>2. to = "inject" => result'[c] # None
    BY <2>1 DEF ChildTypes
  <2>3. \A d \in Starts \ {c} : result'[d] = result[d]
    BY <2>1 DEF ChildTypes
  <2>4. to # "ok" /\ delivered'[c] = None
    BY <1>0, <2>1 DEF Body
  <2> HIDE DEF to
  <2> QED BY <2>1, <2>2, <2>3, <2>4, TruthRun
<1>7. CASE InjectResult(c)
  <2>1. /\ Body(c, "inject", "ok") /\ UNCHANGED jobVars /\ UNCHANGED result
        /\ delivered' = [delivered EXCEPT ![c] = result[c]]
    BY <1>7 DEF InjectResult
  <2>2. delivered'[c] # None /\ \A d \in Starts \ {c} : delivered'[d] = delivered[d]
    BY <2>1 DEF ChildTypes, RunsTellTheTruth, Body
  <2> QED BY <2>1, <2>2, TruthRun
<1>8. CASE ReturnResult(c)
  <2>1. /\ body[c] \in {"ok", "failed"} /\ RunReturns(c, body[c] = "ok")
        /\ UNCHANGED <<body, result, delivered>>
    BY <1>8 DEF ReturnResult, childVars
  <2>2. /\ OnlySegment(c) /\ segment[c].pc = "running" /\ UNCHANGED job
        /\ c \in Segments /\ segment \in [Segments -> SegmentStates]
    BY <2>1, Returned, CallsAreApart DEF JobInv, TypeOK
  <2>3. segment'[c].pc = "returned" /\ segment'[c].ok = (body[c] = "ok")
    BY <2>1, <2>2 DEF RunReturns, SegmentStates
  <2> QED BY <2>1, <2>2, <2>3, CallsAreApart DEF RunsTellTheTruth, OnlySegment, Ended
<1> QED BY <1>1, <1>2, <1>3, <1>4, <1>5, <1>6, <1>7, <1>8 DEF BodyStep

LEMMA TruthNext == JobInv /\ ChildTypes /\ RunsTellTheTruth /\ [Next]_vars => RunsTellTheTruth'
<1> SUFFICES ASSUME JobInv, ChildTypes, RunsTellTheTruth, [Next]_vars PROVE RunsTellTheTruth'
  OBVIOUS
<1>1. ASSUME UNCHANGED <<job, segment, body, result, delivered>> PROVE RunsTellTheTruth'
  BY <1>1, RunsUntouched
<1>2. CASE RegistryStep
  BY <1>2, TruthRegistry
<1>3. ASSUME NEW c \in Starts, BodyStep(c) PROVE RunsTellTheTruth'
  BY <1>3, TruthBody
<1>4. ASSUME NEW p \in Prompts, SendPrompt(p) \/ PromptStep(p) PROVE RunsTellTheTruth'
  BY <1>1, <1>4 DEF SendPrompt, PromptStep, AcquirePrompt, RunPrompt, FinishPrompt, jobVars
<1>5. ASSUME NEW f \in Foregrounds, StartForeground(f) \/ EndForeground(f) PROVE RunsTellTheTruth'
  BY <1>1, <1>5 DEF StartForeground, EndForeground, jobVars
<1>6. ASSUME NEW r \in Routes, StopJob(r) \/ StopRunner(r) PROVE RunsTellTheTruth'
  <2>1. CASE StopJob(r) /\ Running(ChildOf[r])
    <3>1. CancelJob(ChildOf[r]) /\ ChildOf[r] \in Ids /\ TypeOK
      BY <2>1, CallsAreApart DEF StopJob, JobInv
    <3>2. UNCHANGED segment /\ OnlyJob(ChildOf[r]) /\ job'[ChildOf[r]].status = "cancelled"
      BY <3>1, Cancelled
    <3>3. UNCHANGED <<body, result, delivered>>
      BY <2>1 DEF StopJob
    <3> QED BY <3>2, <3>3, RunsUntouched DEF OnlyJob
  <2>2. CASE StopJob(r) /\ ~Running(ChildOf[r])
    BY <1>1, <2>2 DEF StopJob, jobVars
  <2>3. CASE StopRunner(r)
    BY <1>1, <2>3 DEF StopRunner, jobVars
  <2> QED BY <1>6, <2>1, <2>2, <2>3
<1>7. CASE UNCHANGED vars
  BY <1>1, <1>7 DEF vars, jobVars, childVars
<1> QED BY <1>2, <1>3, <1>4, <1>5, <1>6, <1>7 DEF Next

(* A background job that completed has put an answer into the parent's     *)
(* transcript, and one that failed has not (runner.rs,                     *)
(* spawn_background_subagent and inject_background_result).                *)
THEOREM CompletedIsDelivered == Spec => []CompletedMeansDelivered
<1>1. JobInv /\ RunsTellTheTruth => CompletedMeansDelivered
  <2> SUFFICES ASSUME JobInv, RunsTellTheTruth, NEW c \in Starts, job[IdOf[c]].token = c
               PROVE  /\ job[IdOf[c]].status = "completed" => delivered[c] # None
                      /\ job[IdOf[c]].status = "error" => delivered[c] = None
    BY DEF CompletedMeansDelivered
  <2>1. c # None /\ IdOf[c] \in Ids /\ c \in Segments /\ segment[c] \in SegmentStates
    BY CallsAreApart, BackgroundJobAssumption DEF JobInv, TypeOK
  <2>2. segment[c].token = c
    BY <2>1 DEF JobInv, TokensAreStarts
  <2>3. c \in OfJob(IdOf[c]) /\ segment[c].pc \notin Unplaced
    BY <2>1, <2>2 DEF OfJob, JobInv, TokensAreStarts
  <2>4. CASE job[IdOf[c]].status = "completed"
    <3>1. OpenOf(IdOf[c]) = {} /\ segment[c].ok
      BY <2>1, <2>3, <2>4 DEF JobInv, CountIsExact, CountOf
    <3>2. segment[c].pc \in Ended
      BY <2>1, <2>3, <3>1 DEF OpenOf, SegmentStates, SegmentPCs, Unplaced, Ended
    <3> QED BY <2>4, <3>1, <3>2 DEF RunsTellTheTruth
  <2>5. CASE job[IdOf[c]].status = "error"
    BY <2>5 DEF RunsTellTheTruth, Ended
  <2> QED BY <2>4, <2>5
<1>2. SlotInv => ChildTypes
  BY DEF SlotInv
<1> QED BY <1>1, <1>2, JobInvariant, SlotInit, SlotNext, TruthInit, TruthNext, PTL DEF Spec
=============================================================================
