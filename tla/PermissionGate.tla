--------------------------- MODULE PermissionGate ---------------------------
(***************************************************************************)
(* The permission gate of oc-server.  A tool call that needs permission is *)
(* an ask: it registers a waiter, lists its request for the clients and    *)
(* sleeps until a reply, for at most five minutes (`request_permission`).  *)
(* Reply handlers run concurrently with the asks and with each other: one  *)
(* takes the waiter of its request, and those of every other request of    *)
(* the session when the reply is a rejection, then answers and notifies    *)
(* them one by one (`resolve_permission`).  An interrupted turn drops the  *)
(* futures of its tool calls wherever they are suspended.                  *)
(*                                                                         *)
(* One step is the code between two lock acquisitions or awaits.  The lock *)
(* on the waiters is held through the whole selection of a reply, which    *)
(* therefore is one step; the entries it reads of the list belong to asks  *)
(* that can leave it only after taking that lock.                          *)
(***************************************************************************)
EXTENDS Naturals, FiniteSets

CONSTANTS
  Asks,       \* tool calls that go through the gate, one request id each
  Handlers,   \* reply requests, one handler each
  SessionOf,  \* the session of an ask
  PatternOf,  \* the permission and pattern of an ask
  Faults      \* environment events enabled, a subset of FaultKinds

FaultKinds == {"timeout", "interrupt"}

ASSUME PermissionGateAssumption ==
  /\ Faults \subseteq FaultKinds
  /\ Asks # {}

VARIABLES
  ask,      \* where the tool call is, see AskPCs
  outcome,  \* what the gate told the tool call
  waiters,  \* permission_waiters
  listed,   \* stores.permissions
  answer,   \* PermissionWaiter.answer
  known,    \* requests a client has had the chance to see
  handler,  \* reply handlers: see HandlerStates
  saved,    \* stores.saved_permissions, as patterns
  replied,  \* history: permission.replied events of a request
  swept     \* history: requests pending in a session when it was rejected

vars == <<ask, outcome, waiters, listed, answer, known, handler, saved, replied, swept>>
askVars == <<ask, outcome>>
historyVars == <<replied, swept>>

AskPCs == {"idle",          \* not called yet
           "registered",    \* its waiter is inserted
           "checking",      \* about to look at the answer
           "unanswered",    \* has seen none, `notified()` not created yet
           "listening",     \* would be woken by notify_waiters
           "leaving",       \* decided, the waiter not removed yet
           "unlisting",     \* the waiter removed, the request not yet
           "done", "dropped"}

Outcomes == {"none", "ruled", "saved", "allowed", "denied"}

\* "other" is any value that neither approves nor is "reject".
ReplyValues == {"once", "always", "reject", "other"}

HandlerPCs == {"idle", "resolving", "answering", "publishing", "saving", "missing", "done"}

HandlerStates == [pc     : HandlerPCs,
                  target : Asks,
                  reply  : ReplyValues,
                  taken  : SUBSET Asks,    \* `resolved`
                  todo   : SUBSET Asks]    \* those of it not answered yet

TypeOK ==
  /\ ask \in [Asks -> AskPCs]
  /\ outcome \in [Asks -> Outcomes]
  /\ waiters \in SUBSET Asks
  /\ listed \in SUBSET Asks
  /\ answer \in [Asks -> {"none", "allow", "deny"}]
  /\ known \in SUBSET Asks
  /\ handler \in [Handlers -> HandlerStates]
  /\ saved \in SUBSET {PatternOf[a] : a \in Asks}
  /\ replied \in [Asks -> Nat]
  /\ swept \in SUBSET Asks

Init ==
  /\ ask = [a \in Asks |-> "idle"]
  /\ outcome = [a \in Asks |-> "none"]
  /\ waiters = {} /\ listed = {} /\ known = {} /\ saved = {} /\ swept = {}
  /\ answer = [a \in Asks |-> "none"]
  /\ handler = [h \in Handlers |-> [pc |-> "idle", target |-> CHOOSE a \in Asks : TRUE,
                                    reply |-> "once", taken |-> {}, todo |-> {}]]
  /\ replied = [a \in Asks |-> 0]

-----------------------------------------------------------------------------
(* A tool call at the gate.                                                *)

\* permission_gate: a saved permission first, then a configured allow or
\* deny, and only then the client.
Gate(a) ==
  /\ ask[a] = "idle"
  /\ \/ /\ PatternOf[a] \in saved
        /\ ask' = [ask EXCEPT ![a] = "done"]
        /\ outcome' = [outcome EXCEPT ![a] = "saved"]
        /\ UNCHANGED waiters
     \/ /\ PatternOf[a] \notin saved
        /\ ask' = [ask EXCEPT ![a] = "done"]
        /\ outcome' = [outcome EXCEPT ![a] = "ruled"]
        /\ UNCHANGED waiters
     \/ /\ PatternOf[a] \notin saved
        /\ ask' = [ask EXCEPT ![a] = "registered"]
        /\ waiters' = waiters \union {a}
        /\ UNCHANGED outcome
  /\ UNCHANGED <<listed, answer, known, handler, saved, historyVars>>

\* List the request and publish permission.asked.
ListRequest(a) ==
  /\ ask[a] = "registered"
  /\ listed' = listed \union {a}
  /\ known' = known \union {a}
  /\ ask' = [ask EXCEPT ![a] = "checking"]
  /\ UNCHANGED <<outcome, waiters, answer, handler, saved, historyVars>>

Leave(a, verdict) ==
  /\ ask' = [ask EXCEPT ![a] = "leaving"]
  /\ outcome' = [outcome EXCEPT ![a] = verdict]

\* The loop: an answer ends it, none means waiting for a notification.
CheckAnswer(a) ==
  /\ ask[a] = "checking"
  /\ CASE answer[a] = "allow" -> Leave(a, "allowed")
       [] answer[a] = "deny"  -> Leave(a, "denied")
       [] OTHER -> ask' = [ask EXCEPT ![a] = "unanswered"] /\ UNCHANGED outcome
  /\ UNCHANGED <<waiters, listed, answer, known, handler, saved, historyVars>>

Listen(a) ==
  /\ ask[a] = "unanswered"
  /\ ask' = [ask EXCEPT ![a] = "listening"]
  /\ UNCHANGED <<outcome, waiters, listed, answer, known, handler, saved, historyVars>>

\* Mutant: running out of time lets the tool run.
TimeOutAllows(a) ==
  /\ "timeout" \in Faults
  /\ ask[a] = "listening"
  /\ Leave(a, "allowed")
  /\ UNCHANGED <<waiters, listed, answer, known, handler, saved, historyVars>>

\* Mutant: wait for ever.
TimeOutNever(a) == ask[a] = "listening" /\ FALSE /\ UNCHANGED vars

\* tokio::time::timeout polls the loop first, so only a suspended one is cut.
TimeOut(a) ==
  /\ "timeout" \in Faults
  /\ ask[a] = "listening"
  /\ Leave(a, "denied")
  /\ UNCHANGED <<waiters, listed, answer, known, handler, saved, historyVars>>

RemoveWaiter(a) ==
  /\ ask[a] = "leaving"
  /\ waiters' = waiters \ {a}
  /\ ask' = [ask EXCEPT ![a] = "unlisting"]
  /\ UNCHANGED <<outcome, listed, answer, known, handler, saved, historyVars>>

\* Mutant: an answered request is left to the reply handler to remove.
RemoveIfUnanswered(a) ==
  /\ ask[a] = "unlisting"
  /\ listed' = IF answer[a] = "none" THEN listed \ {a} ELSE listed
  /\ ask' = [ask EXCEPT ![a] = "done"]
  /\ UNCHANGED <<outcome, waiters, answer, known, handler, saved, historyVars>>

RemoveRequest(a) ==
  /\ ask[a] = "unlisting"
  /\ listed' = listed \ {a}
  /\ ask' = [ask EXCEPT ![a] = "done"]
  /\ UNCHANGED <<outcome, waiters, answer, known, handler, saved, historyVars>>

\* The turn's token is cancelled, or a sibling call was declined: the future
\* is dropped at an await and cleans nothing up.
DropAsk(a) ==
  /\ "interrupt" \in Faults
  /\ ask[a] \in {"registered", "checking", "listening", "leaving", "unlisting"}
  /\ ask' = [ask EXCEPT ![a] = "dropped"]
  /\ UNCHANGED <<outcome, waiters, listed, answer, known, handler, saved, historyVars>>

AskStep(a) ==
  \/ ListRequest(a) \/ CheckAnswer(a) \/ Listen(a)
  \/ TimeOut(a) \/ RemoveWaiter(a) \/ RemoveRequest(a)

-----------------------------------------------------------------------------
(* A reply.                                                                *)

Allows(reply) == reply \in {"once", "always"}

\* permission_reply goes on for any id; session_permission_reply refuses one
\* that is not listed.
ReceiveReply(h) ==
  /\ handler[h].pc = "idle"
  /\ \E a \in known, r \in ReplyValues :
       \/ handler' = [handler EXCEPT ![h] = [@ EXCEPT !.pc = "resolving", !.target = a, !.reply = r]]
       \/ /\ a \notin listed
          /\ handler' = [handler EXCEPT ![h] = [@ EXCEPT !.pc = "done", !.target = a, !.reply = r]]
  /\ UNCHANGED <<askVars, waiters, listed, answer, known, saved, historyVars>>

\* The other requests of the session that a rejection takes along.
SessionPending(a) ==
  {b \in waiters \intersect listed : a \in listed /\ SessionOf[b] = SessionOf[a]}

Selected(h) ==
  {handler[h].target} \union
    (IF handler[h].reply = "reject" THEN SessionPending(handler[h].target) ELSE {})

\* Mutant: the waiters stay registered until they have left by themselves.
ResolveInPlace(h) ==
  /\ handler[h].pc = "resolving"
  /\ IF handler[h].target \notin waiters
       THEN /\ handler' = [handler EXCEPT ![h].pc = "missing"]
            /\ UNCHANGED <<waiters, listed, swept>>
       ELSE /\ handler' = [handler EXCEPT ![h] =
                 [@ EXCEPT !.pc = "answering", !.taken = Selected(h), !.todo = Selected(h)]]
            /\ listed' = IF handler[h].reply = "reject" THEN listed \ Selected(h) ELSE listed
            /\ swept' = IF handler[h].reply = "reject"
                          THEN swept \union SessionPending(handler[h].target) ELSE swept
            /\ UNCHANGED waiters
  /\ UNCHANGED <<askVars, answer, known, saved, replied>>

\* Mutant: a rejection denies its own request only.
ResolveOne(h) ==
  LET a == handler[h].target IN
  /\ handler[h].pc = "resolving"
  /\ IF a \notin waiters
       THEN /\ handler' = [handler EXCEPT ![h].pc = "missing"]
            /\ UNCHANGED <<waiters, listed, swept>>
       ELSE /\ handler' = [handler EXCEPT ![h] =
                 [@ EXCEPT !.pc = "answering", !.taken = {a}, !.todo = {a}]]
            /\ waiters' = waiters \ {a}
            /\ listed' = IF handler[h].reply = "reject" THEN listed \ {a} ELSE listed
            /\ swept' = IF handler[h].reply = "reject" THEN swept \union SessionPending(a) ELSE swept
  /\ UNCHANGED <<askVars, answer, known, saved, replied>>

\* resolve_permission, up to the release of the waiters lock.
Resolve(h) ==
  /\ handler[h].pc = "resolving"
  /\ IF handler[h].target \notin waiters
       THEN /\ handler' = [handler EXCEPT ![h].pc = "missing"]
            /\ UNCHANGED <<waiters, listed, swept>>
       ELSE /\ handler' = [handler EXCEPT ![h] =
                 [@ EXCEPT !.pc = "answering", !.taken = Selected(h), !.todo = Selected(h)]]
            /\ waiters' = waiters \ Selected(h)
            /\ listed' = IF handler[h].reply = "reject" THEN listed \ Selected(h) ELSE listed
            /\ swept' = IF handler[h].reply = "reject"
                          THEN swept \union SessionPending(handler[h].target) ELSE swept
  /\ UNCHANGED <<askVars, answer, known, saved, replied>>

\* Set the answer, then notify_waiters: only an ask that listens is woken.
AnswerOne(h) ==
  /\ handler[h].pc = "answering"
  /\ \E a \in handler[h].todo :
       /\ answer' = [answer EXCEPT ![a] = IF Allows(handler[h].reply) THEN "allow" ELSE "deny"]
       /\ ask' = IF ask[a] = "listening" THEN [ask EXCEPT ![a] = "checking"] ELSE ask
       /\ handler' = [handler EXCEPT
            ![h].todo = @ \ {a},
            ![h].pc = IF handler[h].todo = {a} THEN "publishing" ELSE "answering"]
  /\ UNCHANGED <<outcome, waiters, listed, known, saved, historyVars>>

\* permission.replied for every request taken.
PublishReplied(h) ==
  /\ handler[h].pc = "publishing"
  /\ replied' = [a \in Asks |-> replied[a] + IF a \in handler[h].taken THEN 1 ELSE 0]
  /\ handler' = [handler EXCEPT ![h].pc = IF handler[h].reply = "always" THEN "saving" ELSE "done"]
  /\ UNCHANGED <<askVars, waiters, listed, answer, known, saved, swept>>

\* "always": remember the permission for the calls to come.
SavePermission(h) ==
  /\ handler[h].pc = "saving"
  /\ saved' = saved \union {PatternOf[handler[h].target]}
  /\ handler' = [handler EXCEPT ![h].pc = "done"]
  /\ UNCHANGED <<askVars, waiters, listed, answer, known, historyVars>>

\* No runner was waiting: the handler drops the request from the list.
RemoveStale(h) ==
  /\ handler[h].pc = "missing"
  /\ listed' = listed \ {handler[h].target}
  /\ handler' = [handler EXCEPT ![h].pc = "done"]
  /\ UNCHANGED <<askVars, waiters, answer, known, saved, historyVars>>

HandlerStep(h) ==
  Resolve(h) \/ AnswerOne(h) \/ PublishReplied(h) \/ SavePermission(h) \/ RemoveStale(h)

-----------------------------------------------------------------------------
Next ==
  \/ \E a \in Asks : Gate(a) \/ AskStep(a) \/ DropAsk(a)
  \/ \E h \in Handlers : ReceiveReply(h) \/ HandlerStep(h)

Spec == Init /\ [][Next]_vars

(* Tasks are polled until they finish and the five minutes do pass; no     *)
(* client has to reply.                                                    *)
Fairness ==
  /\ \A a \in Asks : WF_vars(AskStep(a))
  /\ \A h \in Handlers : WF_vars(HandlerStep(h))

FairSpec == Spec /\ Fairness

-----------------------------------------------------------------------------
(* Properties.                                                             *)

(* resolve_permission on why it removes the waiters before it notifies     *)
(* them: a second reply cannot race and publish a duplicate.               *)
NoDuplicateReply == \A a \in Asks : replied[a] <= 1

(* An accepted rejection denies every request that was pending in its      *)
(* session, whichever other replies are under way.                         *)
RejectionSweeps == \A a \in swept : outcome[a] \notin {"allowed", "saved"}

(* The gate never lets a tool run unasked: a call is allowed only by an    *)
(* approving reply to that very request, or by an earlier "always" to one  *)
(* with its pattern.                                                       *)
Accepted(h) == handler[h].taken # {}

AllowedOnlyByReply ==
  \A a \in Asks :
    /\ outcome[a] = "allowed" =>
         \E h \in Handlers : Accepted(h) /\ handler[h].target = a /\ Allows(handler[h].reply)
    /\ outcome[a] = "saved" =>
         \E h \in Handlers : /\ Accepted(h) /\ handler[h].reply = "always"
                             /\ PatternOf[handler[h].target] = PatternOf[a]

(* A request is cleaned up by the time its call has returned: the list a   *)
(* client fetches holds no request nobody waits for.                       *)
NothingLeftBehind ==
  \A a \in Asks : ask[a] = "done" => a \notin waiters /\ a \notin listed

(* No call hangs at the gate, not even when the notification was lost or   *)
(* no client ever replies.                                                 *)
EveryAskEnds ==
  \A a \in Asks : ask[a] = "registered" ~> ask[a] \in {"done", "dropped"}

=============================================================================
