------------------------ MODULE PermissionGateProofs ------------------------
(***************************************************************************)
(* The safety of the permission gate, for any asks, handlers, sessions,    *)
(* patterns and faults.                                                    *)
(*                                                                         *)
(* The argument: waiters are inserted once, by an ask that nothing has     *)
(* touched, and a handler takes what it answers out of the waiters in the  *)
(* step in which it selects it.  So the selections of two handlers are     *)
(* disjoint for ever, whatever they do later and in which order; what one  *)
(* of them decides for an ask is all that is ever decided for it.          *)
(***************************************************************************)
EXTENDS PermissionGate, TLAPS

Untouched(a) ==
  /\ answer[a] = "none" /\ replied[a] = 0 /\ a \notin swept
  /\ \A h \in Handlers : a \notin handler[h].taken

(* An ask that waits, or has not called yet, has been in no reply.         *)
WaitingIsUntouched ==
  \A a \in Asks : ask[a] = "idle" \/ a \in waiters => Untouched(a)

(* What an ask has cleaned up by the time it is at a point of its way out. *)
CleanedUp ==
  \A a \in Asks :
    /\ ask[a] = "idle" => a \notin waiters /\ a \notin listed
    /\ ask[a] = "unlisting" => a \notin waiters
    /\ ask[a] = "done" => a \notin waiters /\ a \notin listed

(* An approving handler has selected the request of its reply alone.       *)
SelectionsAreSound ==
  \A h \in Handlers :
    /\ handler[h].todo \subseteq handler[h].taken
    /\ handler[h].pc \in {"idle", "resolving", "missing"} => handler[h].taken = {}
    /\ handler[h].pc = "saving" => handler[h].taken # {} /\ handler[h].reply = "always"
    /\ handler[h].pc \in {"answering", "publishing"} => handler[h].taken # {}
    /\ Allows(handler[h].reply) => handler[h].taken \subseteq {handler[h].target}

SelectionsAreDisjoint ==
  \A h, k \in Handlers : h # k => handler[h].taken \intersect handler[k].taken = {}

(* A request is announced as replied by the one handler that selected it.  *)
RepliedOnce ==
  \A a \in Asks :
    /\ replied[a] <= 1
    /\ \A h \in Handlers :
         a \in handler[h].taken /\ handler[h].pc \in {"answering", "publishing"} => replied[a] = 0

(* What a rejection has swept is in the hands of a denying handler.        *)
SweptIsDenied ==
  \A a \in swept :
    /\ answer[a] # "allow"
    /\ outcome[a] \notin {"allowed", "saved"}
    /\ \A h \in Handlers : a \in handler[h].taken => ~Allows(handler[h].reply)

ApprovedBy(h, a) == Accepted(h) /\ handler[h].target = a /\ Allows(handler[h].reply)

SavedBy(h, pattern) ==
  Accepted(h) /\ handler[h].reply = "always" /\ PatternOf[handler[h].target] = pattern

(* Every answer, verdict and saved pattern goes back to a reply.           *)
VerdictsHaveReasons ==
  /\ \A a \in Asks :
       /\ answer[a] = "allow" => \E h \in Handlers : ApprovedBy(h, a)
       /\ outcome[a] = "allowed" => /\ \E h \in Handlers : ApprovedBy(h, a)
                                   /\ answer[a] # "none"
       /\ outcome[a] = "saved" => /\ \E h \in Handlers : SavedBy(h, PatternOf[a])
                                 /\ ask[a] = "done"
  /\ \A pattern \in saved : \E h \in Handlers : SavedBy(h, pattern)

GateInv ==
  /\ TypeOK
  /\ WaitingIsUntouched /\ CleanedUp
  /\ SelectionsAreSound /\ SelectionsAreDisjoint /\ RepliedOnce
  /\ SweptIsDenied /\ VerdictsHaveReasons

-----------------------------------------------------------------------------
(* What the steps of a handler do to its record, and to nobody else's, and *)
(* what the steps of an ask leave alone.                                   *)

Only(h) == /\ handler' \in [Handlers -> HandlerStates]
           /\ \A k \in Handlers \ {h} : handler'[k] = handler[k]
KeepsRequest(h) == handler'[h].target = handler[h].target /\ handler'[h].reply = handler[h].reply
KeepsSelection(h) == handler'[h].taken = handler[h].taken /\ handler'[h].todo = handler[h].todo

LEMMA AskSteps ==
  ASSUME NEW a \in Asks, Gate(a) \/ AskStep(a) \/ DropAsk(a)
  PROVE  UNCHANGED <<answer, handler, saved, historyVars>>
  BY DEF Gate, AskStep, DropAsk, ListRequest, CheckAnswer, Leave, Listen, TimeOut, RemoveWaiter,
         RemoveRequest, historyVars

LEMMA Received ==
  ASSUME TypeOK, NEW h \in Handlers, ReceiveReply(h)
  PROVE  /\ handler[h].pc = "idle" /\ handler'[h].pc \in {"resolving", "done"}
         /\ Only(h) /\ KeepsSelection(h)
         /\ UNCHANGED <<askVars, waiters, listed, answer, known, saved, historyVars>>
<1>1. PICK a \in known, r \in ReplyValues, pc \in {"resolving", "done"} :
        handler' = [handler EXCEPT ![h] = [@ EXCEPT !.pc = pc, !.target = a, !.reply = r]]
  BY DEF ReceiveReply
<1>2. handler \in [Handlers -> HandlerStates] /\ a \in Asks
  BY <1>1 DEF TypeOK
<1>3. handler'[h] = [handler[h] EXCEPT !.pc = pc, !.target = a, !.reply = r]
  BY <1>1, <1>2
<1>4. handler'[h] \in HandlerStates
  BY <1>2, <1>3 DEF HandlerStates, HandlerPCs
<1>5. Only(h)
  BY <1>1, <1>2, <1>4 DEF Only
<1>6. KeepsSelection(h) /\ handler'[h].pc = pc
  BY <1>2, <1>3 DEF KeepsSelection, HandlerStates
<1> QED BY <1>5, <1>6 DEF ReceiveReply

LEMMA Resolved ==
  ASSUME TypeOK, NEW h \in Handlers, Resolve(h)
  PROVE  /\ handler[h].pc = "resolving"
         /\ Only(h) /\ KeepsRequest(h)
         /\ \/ /\ handler'[h].pc = "missing" /\ KeepsSelection(h)
               /\ UNCHANGED <<waiters, listed, swept>>
            \/ /\ handler'[h].pc = "answering"
               /\ handler'[h].taken \subseteq waiters /\ handler'[h].taken # {}
               /\ handler'[h].todo = handler'[h].taken
               /\ Allows(handler[h].reply) => handler'[h].taken = {handler[h].target}
               /\ waiters' = waiters \ handler'[h].taken
               /\ listed' \subseteq listed
               /\ swept' \subseteq swept \union handler'[h].taken
               /\ Allows(handler[h].reply) => swept' = swept
         /\ UNCHANGED <<askVars, answer, known, saved, replied>>
<1>0. handler \in [Handlers -> HandlerStates] /\ handler[h] \in HandlerStates /\ waiters \subseteq Asks
  BY DEF TypeOK
<1>1. CASE handler[h].target \notin waiters
  <2>1. handler' = [handler EXCEPT ![h].pc = "missing"] /\ UNCHANGED <<waiters, listed, swept>>
    BY <1>1 DEF Resolve
  <2>2. handler'[h] = [handler[h] EXCEPT !.pc = "missing"]
    BY <1>0, <2>1
  <2>3. Only(h) /\ KeepsRequest(h) /\ KeepsSelection(h) /\ handler'[h].pc = "missing"
    BY <1>0, <2>1, <2>2 DEF Only, KeepsRequest, KeepsSelection, HandlerStates, HandlerPCs
  <2> QED BY <2>1, <2>3 DEF Resolve
<1>2. CASE handler[h].target \in waiters
  <2> DEFINE chosen == Selected(h)
  <2>1. /\ chosen \subseteq waiters /\ chosen # {}
        /\ Allows(handler[h].reply) => chosen = {handler[h].target}
        /\ SessionPending(handler[h].target) \subseteq chosen \/ handler[h].reply # "reject"
    BY <1>2 DEF Selected, SessionPending, Allows
  <2>2. /\ handler' = [handler EXCEPT ![h] =
              [@ EXCEPT !.pc = "answering", !.taken = chosen, !.todo = chosen]]
        /\ waiters' = waiters \ chosen
        /\ listed' = IF handler[h].reply = "reject" THEN listed \ chosen ELSE listed
        /\ swept' = IF handler[h].reply = "reject"
                      THEN swept \union SessionPending(handler[h].target) ELSE swept
    BY <1>2 DEF Resolve
  <2> HIDE DEF chosen
  <2>3. handler'[h] = [handler[h] EXCEPT !.pc = "answering", !.taken = chosen, !.todo = chosen]
    BY <1>0, <2>2
  <2>4. /\ Only(h) /\ KeepsRequest(h) /\ handler'[h].pc = "answering"
        /\ handler'[h].taken = chosen /\ handler'[h].todo = chosen
    BY <1>0, <2>1, <2>2, <2>3 DEF Only, KeepsRequest, HandlerStates, HandlerPCs
  <2>5. /\ listed' \subseteq listed /\ swept' \subseteq swept \union chosen
        /\ Allows(handler[h].reply) => swept' = swept
    BY <2>1, <2>2 DEF Allows
  <2> QED BY <2>1, <2>2, <2>4, <2>5 DEF Resolve
<1> QED BY <1>1, <1>2

LEMMA Answered ==
  ASSUME TypeOK, NEW h \in Handlers, AnswerOne(h)
  PROVE  /\ handler[h].pc = "answering" /\ handler'[h].pc \in {"publishing", "answering"}
         /\ Only(h) /\ KeepsRequest(h)
         /\ handler'[h].taken = handler[h].taken /\ handler'[h].todo \subseteq handler[h].todo
         /\ \E a \in handler[h].todo :
              answer' = [answer EXCEPT ![a] = IF Allows(handler[h].reply) THEN "allow" ELSE "deny"]
         /\ ask' \in [Asks -> AskPCs]
         /\ \A b \in Asks : ask'[b] = ask[b] \/ (ask[b] = "listening" /\ ask'[b] = "checking")
         /\ UNCHANGED <<outcome, waiters, listed, known, saved, historyVars>>
<1>0. handler \in [Handlers -> HandlerStates] /\ handler[h] \in HandlerStates
  BY DEF TypeOK
<1>1. PICK a \in handler[h].todo :
        /\ answer' = [answer EXCEPT ![a] = IF Allows(handler[h].reply) THEN "allow" ELSE "deny"]
        /\ ask' = IF ask[a] = "listening" THEN [ask EXCEPT ![a] = "checking"] ELSE ask
        /\ handler' = [handler EXCEPT
             ![h].todo = @ \ {a},
             ![h].pc = IF handler[h].todo = {a} THEN "publishing" ELSE "answering"]
  BY DEF AnswerOne
<1>2. a \in Asks /\ ask \in [Asks -> AskPCs]
  BY <1>0 DEF HandlerStates, TypeOK
<1> DEFINE rest == handler[h].todo \ {a}
           pc == IF handler[h].todo = {a} THEN "publishing" ELSE "answering"
<1>3. handler'[h] = [handler[h] EXCEPT !.todo = rest, !.pc = pc]
  BY <1>0, <1>1
<1>4. rest \subseteq handler[h].todo /\ rest \subseteq Asks /\ pc \in {"publishing", "answering"}
  BY <1>0 DEF HandlerStates
<1>5. \A k \in Handlers \ {h} : handler'[k] = handler[k]
  BY <1>0, <1>1
<1>6. handler' = [handler EXCEPT ![h] = handler'[h]]
  BY <1>0, <1>1
<1> HIDE DEF rest, pc
<1>7. handler'[h] \in HandlerStates /\ handler'[h].pc = pc /\ handler'[h].todo = rest
  BY <1>0, <1>3, <1>4 DEF HandlerStates, HandlerPCs
<1>8. KeepsRequest(h) /\ handler'[h].taken = handler[h].taken
  BY <1>0, <1>3 DEF KeepsRequest, HandlerStates
<1>9. Only(h)
  BY <1>0, <1>5, <1>6, <1>7 DEF Only
<1>10. CASE ask[a] = "listening"
  <2>1. ask' = [ask EXCEPT ![a] = "checking"]
    BY <1>1, <1>10
  <2>2. ask' \in [Asks -> AskPCs]
    BY <1>2, <2>1 DEF AskPCs
  <2>3. \A b \in Asks : ask'[b] = ask[b] \/ (ask[b] = "listening" /\ ask'[b] = "checking")
    BY <1>2, <1>10, <2>1
  <2> QED BY <1>1, <1>4, <1>7, <1>8, <1>9, <2>2, <2>3 DEF AnswerOne
<1>11. CASE ask[a] # "listening"
  <2>1. ask' = ask
    BY <1>1, <1>11
  <2>2. ask' \in [Asks -> AskPCs] /\ \A b \in Asks : ask'[b] = ask[b]
    BY <1>2, <2>1
  <2> QED BY <1>1, <1>4, <1>7, <1>8, <1>9, <2>2 DEF AnswerOne
<1> QED BY <1>10, <1>11

LEMMA Advanced ==
  ASSUME TypeOK, NEW h \in Handlers, NEW pc \in HandlerPCs, handler' = [handler EXCEPT ![h].pc = pc]
  PROVE  Only(h) /\ KeepsRequest(h) /\ KeepsSelection(h) /\ handler'[h].pc = pc
<1>0. handler \in [Handlers -> HandlerStates] /\ handler[h] \in HandlerStates
  BY DEF TypeOK
<1>1. handler'[h] = [handler[h] EXCEPT !.pc = pc]
  BY <1>0
<1> QED BY <1>0, <1>1 DEF Only, KeepsRequest, KeepsSelection, HandlerStates, HandlerPCs

LEMMA Published ==
  ASSUME TypeOK, NEW h \in Handlers, PublishReplied(h)
  PROVE  /\ handler[h].pc = "publishing"
         /\ handler'[h].pc = IF handler[h].reply = "always" THEN "saving" ELSE "done"
         /\ Only(h) /\ KeepsRequest(h) /\ KeepsSelection(h)
         /\ replied' \in [Asks -> Nat]
         /\ \A a \in Asks : replied'[a] = replied[a] + IF a \in handler[h].taken THEN 1 ELSE 0
         /\ UNCHANGED <<askVars, waiters, listed, answer, known, saved, swept>>
<1>1. PICK pc \in HandlerPCs :
        /\ pc = IF handler[h].reply = "always" THEN "saving" ELSE "done"
        /\ handler' = [handler EXCEPT ![h].pc = pc]
  BY DEF PublishReplied, HandlerPCs
<1>2. /\ replied' \in [Asks -> Nat]
      /\ \A a \in Asks : replied'[a] = replied[a] + IF a \in handler[h].taken THEN 1 ELSE 0
  BY DEF PublishReplied, TypeOK
<1> QED BY <1>1, <1>2, Advanced DEF PublishReplied

LEMMA Saved ==
  ASSUME TypeOK, NEW h \in Handlers, SavePermission(h)
  PROVE  /\ handler[h].pc = "saving" /\ handler'[h].pc = "done"
         /\ Only(h) /\ KeepsRequest(h) /\ KeepsSelection(h)
         /\ saved' = saved \union {PatternOf[handler[h].target]}
         /\ UNCHANGED <<askVars, waiters, listed, answer, known, historyVars>>
  BY Advanced, "done" \in HandlerPCs DEF SavePermission, HandlerPCs

LEMMA RemovedStale ==
  ASSUME TypeOK, NEW h \in Handlers, RemoveStale(h)
  PROVE  /\ handler[h].pc = "missing" /\ handler'[h].pc = "done"
         /\ Only(h) /\ KeepsRequest(h) /\ KeepsSelection(h)
         /\ listed' \subseteq listed
         /\ UNCHANGED <<askVars, waiters, answer, known, saved, historyVars>>
  BY Advanced, "done" \in HandlerPCs DEF RemoveStale, HandlerPCs

-----------------------------------------------------------------------------
(* The invariant is preserved, part by part.                               *)

(* Types.                                                                  *)
LEMMA TypeStep ==
  ASSUME GateInv, [Next]_vars
  PROVE  TypeOK'
<1> USE DEF GateInv, TypeOK, HandlerStates, HandlerPCs, ReplyValues, AskPCs, Outcomes, askVars, historyVars
<1>1. ASSUME NEW a \in Asks, Gate(a) PROVE TypeOK'
  BY <1>1 DEF Gate
<1>2. ASSUME NEW a \in Asks, ListRequest(a) PROVE TypeOK'
  BY <1>2 DEF ListRequest
<1>3. ASSUME NEW a \in Asks, CheckAnswer(a) PROVE TypeOK'
  BY <1>3 DEF CheckAnswer, Leave
<1>4. ASSUME NEW a \in Asks, Listen(a) PROVE TypeOK'
  BY <1>4 DEF Listen
<1>5. ASSUME NEW a \in Asks, TimeOut(a) PROVE TypeOK'
  BY <1>5 DEF TimeOut, Leave
<1>6. ASSUME NEW a \in Asks, RemoveWaiter(a) PROVE TypeOK'
  BY <1>6 DEF RemoveWaiter
<1>7. ASSUME NEW a \in Asks, RemoveRequest(a) PROVE TypeOK'
  BY <1>7 DEF RemoveRequest
<1>8. ASSUME NEW a \in Asks, DropAsk(a) PROVE TypeOK'
  BY <1>8 DEF DropAsk
<1>9. ASSUME NEW h \in Handlers, ReceiveReply(h) PROVE TypeOK'
  BY <1>9, Received DEF Only, KeepsRequest, KeepsSelection
<1>10. ASSUME NEW h \in Handlers, Resolve(h) PROVE TypeOK'
  BY <1>10, Resolved DEF Only, KeepsRequest, KeepsSelection
<1>11. ASSUME NEW h \in Handlers, AnswerOne(h) PROVE TypeOK'
  BY <1>11, Answered DEF Only, KeepsRequest, KeepsSelection
<1>12. ASSUME NEW h \in Handlers, PublishReplied(h) PROVE TypeOK'
  BY <1>12, Published DEF Only, KeepsRequest, KeepsSelection
<1>13. ASSUME NEW h \in Handlers, SavePermission(h) PROVE TypeOK'
  BY <1>13, Saved DEF Only, KeepsRequest, KeepsSelection
<1>14. ASSUME NEW h \in Handlers, RemoveStale(h) PROVE TypeOK'
  BY <1>14, RemovedStale DEF Only, KeepsRequest, KeepsSelection
<1>15. CASE UNCHANGED vars
  BY <1>15 DEF vars
<1> QED
  BY <1>1, <1>2, <1>3, <1>4, <1>5, <1>6, <1>7, <1>8,
     <1>9, <1>10, <1>11, <1>12, <1>13, <1>14, <1>15
  DEF Next, AskStep, HandlerStep

(* A waiter is inserted by an untouched ask, and selected out of the       *)
(* waiters.                                                                *)
LEMMA UntouchedStep ==
  ASSUME GateInv, [Next]_vars
  PROVE  WaitingIsUntouched'
<1> USE DEF GateInv, TypeOK, HandlerStates, HandlerPCs, ReplyValues, AskPCs, Outcomes, WaitingIsUntouched, Untouched, CleanedUp, SelectionsAreSound, askVars, historyVars
<1>1. ASSUME NEW a \in Asks, Gate(a) PROVE WaitingIsUntouched'
  BY <1>1 DEF Gate
<1>2. ASSUME NEW a \in Asks, ListRequest(a) PROVE WaitingIsUntouched'
  BY <1>2 DEF ListRequest
<1>3. ASSUME NEW a \in Asks, CheckAnswer(a) PROVE WaitingIsUntouched'
  BY <1>3 DEF CheckAnswer, Leave
<1>4. ASSUME NEW a \in Asks, Listen(a) PROVE WaitingIsUntouched'
  BY <1>4 DEF Listen
<1>5. ASSUME NEW a \in Asks, TimeOut(a) PROVE WaitingIsUntouched'
  BY <1>5 DEF TimeOut, Leave
<1>6. ASSUME NEW a \in Asks, RemoveWaiter(a) PROVE WaitingIsUntouched'
  BY <1>6 DEF RemoveWaiter
<1>7. ASSUME NEW a \in Asks, RemoveRequest(a) PROVE WaitingIsUntouched'
  BY <1>7 DEF RemoveRequest
<1>8. ASSUME NEW a \in Asks, DropAsk(a) PROVE WaitingIsUntouched'
  BY <1>8 DEF DropAsk
<1>9. ASSUME NEW h \in Handlers, ReceiveReply(h) PROVE WaitingIsUntouched'
  BY <1>9, Received DEF Only, KeepsRequest, KeepsSelection
<1>10. ASSUME NEW h \in Handlers, Resolve(h) PROVE WaitingIsUntouched'
  <2> SUFFICES ASSUME NEW b \in Asks, ask'[b] = "idle" \/ b \in waiters' PROVE Untouched(b)'
    OBVIOUS
  <2>1. waiters' \subseteq waiters /\ ask' = ask /\ answer' = answer /\ replied' = replied
    BY <1>10, Resolved
  <2>2. Untouched(b)
    BY <2>1
  <2>3. b \notin handler'[h].taken /\ b \notin swept'
    BY <1>10, <2>1, <2>2, Resolved DEF KeepsSelection
  <2>4. \A k \in Handlers : b \notin handler'[k].taken
    BY <1>10, <2>2, <2>3, Resolved DEF Only
  <2> QED BY <2>1, <2>2, <2>3, <2>4
<1>11. ASSUME NEW h \in Handlers, AnswerOne(h) PROVE WaitingIsUntouched'
  BY <1>11, Answered DEF Only, KeepsRequest, KeepsSelection
<1>12. ASSUME NEW h \in Handlers, PublishReplied(h) PROVE WaitingIsUntouched'
  BY <1>12, Published DEF Only, KeepsRequest, KeepsSelection
<1>13. ASSUME NEW h \in Handlers, SavePermission(h) PROVE WaitingIsUntouched'
  BY <1>13, Saved DEF Only, KeepsRequest, KeepsSelection
<1>14. ASSUME NEW h \in Handlers, RemoveStale(h) PROVE WaitingIsUntouched'
  BY <1>14, RemovedStale DEF Only, KeepsRequest, KeepsSelection
<1>15. CASE UNCHANGED vars
  BY <1>15 DEF vars
<1> QED
  BY <1>1, <1>2, <1>3, <1>4, <1>5, <1>6, <1>7, <1>8,
     <1>9, <1>10, <1>11, <1>12, <1>13, <1>14, <1>15
  DEF Next, AskStep, HandlerStep

(* Nobody inserts a waiter, or lists a request, for an ask on its way out. *)
LEMMA CleanedStep ==
  ASSUME GateInv, [Next]_vars
  PROVE  CleanedUp'
<1> USE DEF GateInv, TypeOK, HandlerStates, HandlerPCs, ReplyValues, AskPCs, Outcomes, CleanedUp, askVars, historyVars
<1>1. ASSUME NEW a \in Asks, Gate(a) PROVE CleanedUp'
  BY <1>1 DEF Gate
<1>2. ASSUME NEW a \in Asks, ListRequest(a) PROVE CleanedUp'
  BY <1>2 DEF ListRequest
<1>3. ASSUME NEW a \in Asks, CheckAnswer(a) PROVE CleanedUp'
  BY <1>3 DEF CheckAnswer, Leave
<1>4. ASSUME NEW a \in Asks, Listen(a) PROVE CleanedUp'
  BY <1>4 DEF Listen
<1>5. ASSUME NEW a \in Asks, TimeOut(a) PROVE CleanedUp'
  BY <1>5 DEF TimeOut, Leave
<1>6. ASSUME NEW a \in Asks, RemoveWaiter(a) PROVE CleanedUp'
  BY <1>6 DEF RemoveWaiter
<1>7. ASSUME NEW a \in Asks, RemoveRequest(a) PROVE CleanedUp'
  BY <1>7 DEF RemoveRequest
<1>8. ASSUME NEW a \in Asks, DropAsk(a) PROVE CleanedUp'
  BY <1>8 DEF DropAsk
<1>9. ASSUME NEW h \in Handlers, ReceiveReply(h) PROVE CleanedUp'
  BY <1>9, Received DEF Only, KeepsRequest, KeepsSelection
<1>10. ASSUME NEW h \in Handlers, Resolve(h) PROVE CleanedUp'
  BY <1>10, Resolved DEF Only, KeepsRequest, KeepsSelection
<1>11. ASSUME NEW h \in Handlers, AnswerOne(h) PROVE CleanedUp'
  BY <1>11, Answered DEF Only, KeepsRequest, KeepsSelection
<1>12. ASSUME NEW h \in Handlers, PublishReplied(h) PROVE CleanedUp'
  BY <1>12, Published DEF Only, KeepsRequest, KeepsSelection
<1>13. ASSUME NEW h \in Handlers, SavePermission(h) PROVE CleanedUp'
  BY <1>13, Saved DEF Only, KeepsRequest, KeepsSelection
<1>14. ASSUME NEW h \in Handlers, RemoveStale(h) PROVE CleanedUp'
  BY <1>14, RemovedStale DEF Only, KeepsRequest, KeepsSelection
<1>15. CASE UNCHANGED vars
  BY <1>15 DEF vars
<1> QED
  BY <1>1, <1>2, <1>3, <1>4, <1>5, <1>6, <1>7, <1>8,
     <1>9, <1>10, <1>11, <1>12, <1>13, <1>14, <1>15
  DEF Next, AskStep, HandlerStep

(* A handler keeps its selection, its request and its reply.               *)
LEMMA SoundStep ==
  ASSUME GateInv, [Next]_vars
  PROVE  SelectionsAreSound'
<1> USE DEF GateInv, TypeOK, HandlerStates, HandlerPCs, ReplyValues, AskPCs, Outcomes, SelectionsAreSound, Allows, askVars, historyVars
<1>1. ASSUME NEW a \in Asks, Gate(a) \/ AskStep(a) \/ DropAsk(a) PROVE SelectionsAreSound'
  BY <1>1, AskSteps
<1>2. ASSUME NEW h \in Handlers, ReceiveReply(h) PROVE SelectionsAreSound'
  BY <1>2, Received DEF Only, KeepsRequest, KeepsSelection
<1>3. ASSUME NEW h \in Handlers, Resolve(h) PROVE SelectionsAreSound'
  BY <1>3, Resolved DEF Only, KeepsRequest, KeepsSelection
<1>4. ASSUME NEW h \in Handlers, AnswerOne(h) PROVE SelectionsAreSound'
  BY <1>4, Answered DEF Only, KeepsRequest, KeepsSelection
<1>5. ASSUME NEW h \in Handlers, PublishReplied(h) PROVE SelectionsAreSound'
  BY <1>5, Published DEF Only, KeepsRequest, KeepsSelection
<1>6. ASSUME NEW h \in Handlers, SavePermission(h) PROVE SelectionsAreSound'
  BY <1>6, Saved DEF Only, KeepsRequest, KeepsSelection
<1>7. ASSUME NEW h \in Handlers, RemoveStale(h) PROVE SelectionsAreSound'
  BY <1>7, RemovedStale DEF Only, KeepsRequest, KeepsSelection
<1>8. CASE UNCHANGED vars
  BY <1>8 DEF vars
<1> QED BY <1>1, <1>2, <1>3, <1>4, <1>5, <1>6, <1>7, <1>8 DEF Next, HandlerStep

(* Two selections are disjoint, the second one being made of what the      *)
(* first one has left in the waiters.                                      *)
LEMMA DisjointStep ==
  ASSUME GateInv, [Next]_vars
  PROVE  SelectionsAreDisjoint'
<1> USE DEF GateInv, TypeOK, HandlerStates, HandlerPCs, ReplyValues, AskPCs, Outcomes, SelectionsAreDisjoint, SelectionsAreSound, WaitingIsUntouched, Untouched, askVars, historyVars
<1>1. ASSUME NEW a \in Asks, Gate(a) \/ AskStep(a) \/ DropAsk(a) PROVE SelectionsAreDisjoint'
  BY <1>1, AskSteps
<1>2. ASSUME NEW h \in Handlers, ReceiveReply(h) PROVE SelectionsAreDisjoint'
  BY <1>2, Received DEF Only, KeepsRequest, KeepsSelection
<1>3. ASSUME NEW h \in Handlers, Resolve(h) PROVE SelectionsAreDisjoint'
  BY <1>3, Resolved DEF Only, KeepsRequest, KeepsSelection
<1>4. ASSUME NEW h \in Handlers, AnswerOne(h) PROVE SelectionsAreDisjoint'
  BY <1>4, Answered DEF Only, KeepsRequest, KeepsSelection
<1>5. ASSUME NEW h \in Handlers, PublishReplied(h) PROVE SelectionsAreDisjoint'
  BY <1>5, Published DEF Only, KeepsRequest, KeepsSelection
<1>6. ASSUME NEW h \in Handlers, SavePermission(h) PROVE SelectionsAreDisjoint'
  BY <1>6, Saved DEF Only, KeepsRequest, KeepsSelection
<1>7. ASSUME NEW h \in Handlers, RemoveStale(h) PROVE SelectionsAreDisjoint'
  BY <1>7, RemovedStale DEF Only, KeepsRequest, KeepsSelection
<1>8. CASE UNCHANGED vars
  BY <1>8 DEF vars
<1> QED BY <1>1, <1>2, <1>3, <1>4, <1>5, <1>6, <1>7, <1>8 DEF Next, HandlerStep

(* So a request is announced once.                                         *)
LEMMA RepliedStep ==
  ASSUME GateInv, [Next]_vars
  PROVE  RepliedOnce'
<1> USE DEF GateInv, TypeOK, HandlerStates, HandlerPCs, ReplyValues, AskPCs, Outcomes, RepliedOnce, SelectionsAreDisjoint, SelectionsAreSound, WaitingIsUntouched, Untouched, askVars, historyVars
<1>1. ASSUME NEW a \in Asks, Gate(a) \/ AskStep(a) \/ DropAsk(a) PROVE RepliedOnce'
  BY <1>1, AskSteps
<1>2. ASSUME NEW h \in Handlers, ReceiveReply(h) PROVE RepliedOnce'
  BY <1>2, Received DEF Only, KeepsRequest, KeepsSelection
<1>3. ASSUME NEW h \in Handlers, Resolve(h) PROVE RepliedOnce'
  BY <1>3, Resolved DEF Only, KeepsRequest, KeepsSelection
<1>4. ASSUME NEW h \in Handlers, AnswerOne(h) PROVE RepliedOnce'
  BY <1>4, Answered DEF Only, KeepsRequest, KeepsSelection
<1>5. ASSUME NEW h \in Handlers, PublishReplied(h) PROVE RepliedOnce'
  <2>1. /\ handler'[h].pc \in {"saving", "done"}
        /\ \A k \in Handlers : handler'[k].taken = handler[k].taken
        /\ \A k \in Handlers \ {h} : handler'[k].pc = handler[k].pc
    BY <1>5, Published DEF Only, KeepsSelection
  <2>2. ASSUME NEW a \in Asks PROVE replied'[a] <= 1
    <3>1. /\ handler[h].pc = "publishing"
          /\ replied'[a] = replied[a] + IF a \in handler[h].taken THEN 1 ELSE 0
      BY <1>5, Published
    <3>2. replied[a] \in {0, 1} /\ (a \in handler[h].taken => replied[a] = 0)
      BY <3>1
    <3> QED BY <3>1, <3>2
  <2>3. ASSUME NEW a \in Asks, NEW k \in Handlers, a \in handler'[k].taken,
               handler'[k].pc \in {"answering", "publishing"}
        PROVE  replied'[a] = 0
    <3>1. k # h /\ a \in handler[k].taken /\ handler[k].pc \in {"answering", "publishing"}
      BY <2>1, <2>3
    <3>2. a \notin handler[h].taken /\ replied[a] = 0
      BY <3>1
    <3> QED BY <1>5, <3>2, Published
  <2> QED BY <2>2, <2>3
<1>6. ASSUME NEW h \in Handlers, SavePermission(h) PROVE RepliedOnce'
  BY <1>6, Saved DEF Only, KeepsRequest, KeepsSelection
<1>7. ASSUME NEW h \in Handlers, RemoveStale(h) PROVE RepliedOnce'
  BY <1>7, RemovedStale DEF Only, KeepsRequest, KeepsSelection
<1>8. CASE UNCHANGED vars
  BY <1>8 DEF vars
<1> QED BY <1>1, <1>2, <1>3, <1>4, <1>5, <1>6, <1>7, <1>8 DEF Next, HandlerStep

(* What is swept has no other answer, before or after.                     *)
LEMMA SweptStep ==
  ASSUME GateInv, [Next]_vars
  PROVE  SweptIsDenied'
<1> USE DEF GateInv, TypeOK, HandlerStates, HandlerPCs, ReplyValues, AskPCs, Outcomes, SweptIsDenied, SelectionsAreSound, WaitingIsUntouched, Untouched, VerdictsHaveReasons, CleanedUp, Allows, askVars, historyVars
<1>1. ASSUME NEW a \in Asks, Gate(a) PROVE SweptIsDenied'
  BY <1>1 DEF Gate
<1>2. ASSUME NEW a \in Asks, ListRequest(a) PROVE SweptIsDenied'
  BY <1>2 DEF ListRequest
<1>3. ASSUME NEW a \in Asks, CheckAnswer(a) PROVE SweptIsDenied'
  BY <1>3 DEF CheckAnswer, Leave
<1>4. ASSUME NEW a \in Asks, Listen(a) PROVE SweptIsDenied'
  BY <1>4 DEF Listen
<1>5. ASSUME NEW a \in Asks, TimeOut(a) PROVE SweptIsDenied'
  BY <1>5 DEF TimeOut, Leave
<1>6. ASSUME NEW a \in Asks, RemoveWaiter(a) PROVE SweptIsDenied'
  BY <1>6 DEF RemoveWaiter
<1>7. ASSUME NEW a \in Asks, RemoveRequest(a) PROVE SweptIsDenied'
  BY <1>7 DEF RemoveRequest
<1>8. ASSUME NEW a \in Asks, DropAsk(a) PROVE SweptIsDenied'
  BY <1>8 DEF DropAsk
<1>9. ASSUME NEW h \in Handlers, ReceiveReply(h) PROVE SweptIsDenied'
  BY <1>9, Received DEF Only, KeepsRequest, KeepsSelection
<1>10. ASSUME NEW h \in Handlers, Resolve(h) PROVE SweptIsDenied'
  BY <1>10, Resolved DEF Only, KeepsRequest, KeepsSelection
<1>11. ASSUME NEW h \in Handlers, AnswerOne(h) PROVE SweptIsDenied'
  BY <1>11, Answered DEF Only, KeepsRequest, KeepsSelection
<1>12. ASSUME NEW h \in Handlers, PublishReplied(h) PROVE SweptIsDenied'
  BY <1>12, Published DEF Only, KeepsRequest, KeepsSelection
<1>13. ASSUME NEW h \in Handlers, SavePermission(h) PROVE SweptIsDenied'
  BY <1>13, Saved DEF Only, KeepsRequest, KeepsSelection
<1>14. ASSUME NEW h \in Handlers, RemoveStale(h) PROVE SweptIsDenied'
  BY <1>14, RemovedStale DEF Only, KeepsRequest, KeepsSelection
<1>15. CASE UNCHANGED vars
  BY <1>15 DEF vars
<1> QED
  BY <1>1, <1>2, <1>3, <1>4, <1>5, <1>6, <1>7, <1>8,
     <1>9, <1>10, <1>11, <1>12, <1>13, <1>14, <1>15
  DEF Next, AskStep, HandlerStep

(* An accepted reply is a reason from then on.                             *)
LEMMA ReasonsPersist ==
  ASSUME NEW h \in Handlers, Only(h),
         handler[h].taken = {} \/ (KeepsRequest(h) /\ handler[h].taken \subseteq handler'[h].taken)
  PROVE  /\ \A k \in Handlers : \A a \in Asks : ApprovedBy(k, a) => ApprovedBy(k, a)'
         /\ \A k \in Handlers : \A pattern : SavedBy(k, pattern) => SavedBy(k, pattern)'
<1>1. ASSUME NEW k \in Handlers, Accepted(k)
      PROVE  /\ Accepted(k)'
             /\ handler'[k].target = handler[k].target /\ handler'[k].reply = handler[k].reply
  <2>1. CASE k # h
    BY <1>1, <2>1 DEF Accepted, Only
  <2>2. CASE k = h
    BY <1>1, <2>2 DEF Accepted, KeepsRequest
  <2> QED BY <2>1, <2>2
<1> QED BY <1>1 DEF ApprovedBy, SavedBy

(* So every verdict keeps its reason.                                      *)
LEMMA ReasonsStep ==
  ASSUME GateInv, [Next]_vars
  PROVE  VerdictsHaveReasons'
<1> USE DEF GateInv, TypeOK, HandlerStates, HandlerPCs, ReplyValues, AskPCs, Outcomes, VerdictsHaveReasons, ApprovedBy, SavedBy, Accepted, SelectionsAreSound, Allows, askVars, historyVars
<1>1. ASSUME NEW a \in Asks, Gate(a) PROVE VerdictsHaveReasons'
  BY <1>1 DEF Gate
<1>2. ASSUME NEW a \in Asks, ListRequest(a) PROVE VerdictsHaveReasons'
  BY <1>2 DEF ListRequest
<1>3. ASSUME NEW a \in Asks, CheckAnswer(a) PROVE VerdictsHaveReasons'
  BY <1>3 DEF CheckAnswer, Leave
<1>4. ASSUME NEW a \in Asks, Listen(a) PROVE VerdictsHaveReasons'
  BY <1>4 DEF Listen
<1>5. ASSUME NEW a \in Asks, TimeOut(a) PROVE VerdictsHaveReasons'
  BY <1>5 DEF TimeOut, Leave
<1>6. ASSUME NEW a \in Asks, RemoveWaiter(a) PROVE VerdictsHaveReasons'
  BY <1>6 DEF RemoveWaiter
<1>7. ASSUME NEW a \in Asks, RemoveRequest(a) PROVE VerdictsHaveReasons'
  BY <1>7 DEF RemoveRequest
<1>8. ASSUME NEW a \in Asks, DropAsk(a) PROVE VerdictsHaveReasons'
  BY <1>8 DEF DropAsk
<1>9. ASSUME NEW h \in Handlers, ReceiveReply(h) PROVE VerdictsHaveReasons'
  <2> HIDE DEF ApprovedBy, SavedBy, Accepted
  <2>1. /\ \A k \in Handlers : \A a \in Asks : ApprovedBy(k, a) => ApprovedBy(k, a)'
        /\ \A k \in Handlers : \A pattern : SavedBy(k, pattern) => SavedBy(k, pattern)'
    BY <1>9, Received, ReasonsPersist DEF KeepsSelection
  <2> QED BY <1>9, <2>1, Received
<1>10. ASSUME NEW h \in Handlers, Resolve(h) PROVE VerdictsHaveReasons'
  <2> HIDE DEF ApprovedBy, SavedBy, Accepted
  <2>1. /\ \A k \in Handlers : \A a \in Asks : ApprovedBy(k, a) => ApprovedBy(k, a)'
        /\ \A k \in Handlers : \A pattern : SavedBy(k, pattern) => SavedBy(k, pattern)'
    BY <1>10, Resolved, ReasonsPersist DEF KeepsSelection
  <2> QED BY <1>10, <2>1, Resolved
<1>11. ASSUME NEW h \in Handlers, AnswerOne(h) PROVE VerdictsHaveReasons'
  <2> HIDE DEF ApprovedBy, SavedBy, Accepted
  <2>1. /\ \A k \in Handlers : \A a \in Asks : ApprovedBy(k, a) => ApprovedBy(k, a)'
        /\ \A k \in Handlers : \A pattern : SavedBy(k, pattern) => SavedBy(k, pattern)'
    BY <1>11, Answered, ReasonsPersist DEF KeepsSelection
  <2>2. PICK a \in handler[h].todo :
          answer' = [answer EXCEPT ![a] = IF Allows(handler[h].reply) THEN "allow" ELSE "deny"]
    BY <1>11, Answered
  <2>3. a \in Asks /\ (Allows(handler[h].reply) => ApprovedBy(h, a))
    BY <2>2 DEF ApprovedBy, Accepted
  <2> QED BY <1>11, <2>1, <2>2, <2>3, Answered
<1>12. ASSUME NEW h \in Handlers, PublishReplied(h) PROVE VerdictsHaveReasons'
  <2> HIDE DEF ApprovedBy, SavedBy, Accepted
  <2>1. /\ \A k \in Handlers : \A a \in Asks : ApprovedBy(k, a) => ApprovedBy(k, a)'
        /\ \A k \in Handlers : \A pattern : SavedBy(k, pattern) => SavedBy(k, pattern)'
    BY <1>12, Published, ReasonsPersist DEF KeepsSelection
  <2> QED BY <1>12, <2>1, Published
<1>13. ASSUME NEW h \in Handlers, SavePermission(h) PROVE VerdictsHaveReasons'
  <2> HIDE DEF ApprovedBy, SavedBy, Accepted
  <2>1. /\ \A k \in Handlers : \A a \in Asks : ApprovedBy(k, a) => ApprovedBy(k, a)'
        /\ \A k \in Handlers : \A pattern : SavedBy(k, pattern) => SavedBy(k, pattern)'
    BY <1>13, Saved, ReasonsPersist DEF KeepsSelection
  <2>2. SavedBy(h, PatternOf[handler[h].target])
    BY <1>13, Saved DEF SavedBy, Accepted
  <2> QED BY <1>13, <2>1, <2>2, Saved
<1>14. ASSUME NEW h \in Handlers, RemoveStale(h) PROVE VerdictsHaveReasons'
  <2> HIDE DEF ApprovedBy, SavedBy, Accepted
  <2>1. /\ \A k \in Handlers : \A a \in Asks : ApprovedBy(k, a) => ApprovedBy(k, a)'
        /\ \A k \in Handlers : \A pattern : SavedBy(k, pattern) => SavedBy(k, pattern)'
    BY <1>14, RemovedStale, ReasonsPersist DEF KeepsSelection
  <2> QED BY <1>14, <2>1, RemovedStale
<1>15. CASE UNCHANGED vars
  BY <1>15 DEF vars
<1> QED
  BY <1>1, <1>2, <1>3, <1>4, <1>5, <1>6, <1>7, <1>8,
     <1>9, <1>10, <1>11, <1>12, <1>13, <1>14, <1>15
  DEF Next, AskStep, HandlerStep

LEMMA GateInit == Init => GateInv
<1> SUFFICES ASSUME Init PROVE GateInv
  OBVIOUS
<1>1. (CHOOSE a \in Asks : TRUE) \in Asks
  BY PermissionGateAssumption
<1>2. TypeOK
  BY <1>1 DEF Init, TypeOK, HandlerStates, HandlerPCs, ReplyValues, AskPCs, Outcomes
<1>3. WaitingIsUntouched /\ CleanedUp /\ SelectionsAreDisjoint /\ RepliedOnce
  BY DEF Init, WaitingIsUntouched, Untouched, CleanedUp, SelectionsAreDisjoint, RepliedOnce
<1>4. SelectionsAreSound /\ SweptIsDenied /\ VerdictsHaveReasons
  BY DEF Init, SelectionsAreSound, SweptIsDenied, VerdictsHaveReasons
<1> QED BY <1>2, <1>3, <1>4 DEF GateInv

LEMMA GateNext == GateInv /\ [Next]_vars => GateInv'
  BY TypeStep, UntouchedStep, CleanedStep, SoundStep, DisjointStep, RepliedStep, SweptStep,
     ReasonsStep
  DEF GateInv

-----------------------------------------------------------------------------
(* Every variable of the gate has the values it should.                    *)
THEOREM Typed == Spec => []TypeOK
<1>1. GateInv => TypeOK
  BY DEF GateInv
<1> QED BY <1>1, GateInit, GateNext, PTL DEF Spec

(* resolve_permission: no request is announced as replied twice, whichever *)
(* replies race for it.                                                    *)
THEOREM RepliesAreNotDuplicated == Spec => []NoDuplicateReply
<1>1. GateInv => NoDuplicateReply
  BY DEF GateInv, RepliedOnce, NoDuplicateReply
<1> QED BY <1>1, GateInit, GateNext, PTL DEF Spec

(* permission_gate lets a tool run only by a reply to its request, or by   *)
(* an earlier "always" to its pattern.                                     *)
THEOREM NothingRunsUnasked == Spec => []AllowedOnlyByReply
<1>1. GateInv => AllowedOnlyByReply
  BY DEF GateInv, VerdictsHaveReasons, AllowedOnlyByReply, ApprovedBy, SavedBy
<1> QED BY <1>1, GateInit, GateNext, PTL DEF Spec

(* A rejection denies all that was pending in its session, whichever other *)
(* replies are under way.                                                  *)
THEOREM RejectionsSweep == Spec => []RejectionSweeps
<1>1. GateInv => RejectionSweeps
  BY DEF GateInv, SweptIsDenied, RejectionSweeps
<1> QED BY <1>1, GateInit, GateNext, PTL DEF Spec

(* A call that has returned has left nothing in the waiters and the list.  *)
THEOREM CallsCleanUp == Spec => []NothingLeftBehind
<1>1. GateInv => NothingLeftBehind
  BY DEF GateInv, CleanedUp, NothingLeftBehind
<1> QED BY <1>1, GateInit, GateNext, PTL DEF Spec
=============================================================================
