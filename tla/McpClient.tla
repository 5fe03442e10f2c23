------------------------------ MODULE McpClient ------------------------------
(***************************************************************************)
(* The JSON-RPC client of one MCP server (oc-mcp/src/client.rs): the       *)
(* handshake, requests and tool calls with their permits, time limits and  *)
(* cancellations, the read loop that hands out the answers, and the close  *)
(* of the connection.                                                      *)
(*                                                                         *)
(* A call takes a permit, enters the pending map, is sent, and waits for   *)
(* its answer, its limit or its cancellation; these three race.  Whoever   *)
(* removes the entry from the map decides: the read loop answers the call, *)
(* and the call itself tells the server that it has given up.  The future  *)
(* of a call may be dropped whenever it waits.  An id is the call it was   *)
(* given to; the time that passes is not modelled, so that a limit may     *)
(* fire at any moment, and progress, which restarts it, is left out.       *)
(***************************************************************************)
EXTENDS Naturals, FiniteSets

CONSTANTS
  Handshake,    \* the call of initialize
  Requests,     \* other calls of request_inner
  Tools,        \* calls of call_tool_inner
  Cancellable,  \* the calls that are given a cancellation
  MaxInflight,  \* the permits
  MaxAnswers    \* bound: answers of the server

Calls == {Handshake} \union Requests \union Tools

ASSUME McpAssumption ==
  /\ IsFiniteSet(Calls)
  /\ Handshake \notin Requests \union Tools
  /\ Requests \intersect Tools = {}
  /\ Cancellable \subseteq Requests \union Tools
  /\ MaxInflight \in Nat \ {0}
  /\ MaxAnswers \in Nat

VARIABLES
  pc,           \* where a call is
  outcome,      \* how it ended
  reply,        \* its oneshot channel
  free,         \* the permits in the semaphore
  pending,      \* calls in the pending map
  progress,     \* calls in the map of progress tokens
  initialized,
  loop,         \* the read loop
  taken,        \* the entries it has taken and not answered
  open,         \* the transport can send
  flowing,      \* messages may still reach the read loop
  heard,        \* calls whose request has reached the server
  answers,      \* answers the server has given
  inbound,      \* answers on their way to the read loop
  notices       \* notifications/cancelled sent, by call

callVars == <<pc, outcome, free, progress, initialized>>
loopVars == <<loop, taken, reply>>
wireVars == <<open, flowing, heard, answers, inbound>>
vars == <<callVars, loopVars, wireVars, pending, notices>>

None == "none"
Answers == {"result", "error"}

(* Where a call holds its permit, and where its future waits.              *)
Holding == {"register", "insert", "send", "withdraw", "wait", "remove", "notify", "unregister"}
Waiting == Holding \union {"permit", "greet"}
Ended == {"done", "dropped"}

TypeOK ==
  /\ pc \in [Calls -> Waiting \union Ended \union {"idle"}]
  /\ outcome \in [Calls -> Answers \union
       {None, "closed", "rejected", "unsent", "timeout", "cancelled", "refused"}]
  /\ reply \in [Calls -> Answers \union {None, "closed"}]
  /\ free \in 0 .. MaxInflight
  /\ pending \subseteq Calls
  /\ progress \subseteq Tools
  /\ initialized \in BOOLEAN
  /\ loop \in Answers \union {"recv", "closing", "closed"}
  /\ taken \subseteq Calls
  /\ open \in BOOLEAN
  /\ flowing \in BOOLEAN
  /\ heard \subseteq Calls
  /\ answers \in 0 .. MaxAnswers
  /\ inbound \subseteq Calls \X Answers
  /\ notices \in [Calls -> Nat]

Init ==
  /\ pc = [c \in Calls |-> "idle"]
  /\ outcome = [c \in Calls |-> None]
  /\ reply = [c \in Calls |-> None]
  /\ free = MaxInflight
  /\ pending = {}
  /\ progress = {}
  /\ initialized = FALSE
  /\ loop = "recv"
  /\ taken = {}
  /\ open = TRUE
  /\ flowing = TRUE
  /\ heard = {}
  /\ answers = 0
  /\ inbound = {}
  /\ notices = [c \in Calls |-> 0]

-----------------------------------------------------------------------------
(* The calls.                                                              *)

Goto(c, label) == pc' = [pc EXCEPT ![c] = label]
Record(c, o) == outcome' = [outcome EXCEPT ![c] = o]

(* The call returns, and the guard gives the permit back.  A tool call     *)
(* removes its progress token before.                                      *)
Finish(c) ==
  IF c \in Tools
  THEN Goto(c, "unregister") /\ UNCHANGED free
  ELSE Goto(c, "done") /\ free' = free + 1

Release(c) == Goto(c, "done") /\ free' = free + 1

(* The client is handed out when it is initialized.                        *)
StartCall(c) ==
  /\ pc[c] = "idle"
  /\ c = Handshake \/ initialized
  /\ Goto(c, "permit")
  /\ UNCHANGED <<outcome, free, progress, initialized, loopVars, wireVars, pending, notices>>

\* Mutant: the permit is dropped as soon as it has been acquired.
AcquireNothing(c) ==
  /\ pc[c] = "permit"
  /\ free > 0
  /\ Goto(c, IF c \in Tools THEN "register" ELSE "insert")
  /\ UNCHANGED <<outcome, free, progress, initialized, loopVars, wireVars, pending, notices>>

AcquirePermit(c) ==
  /\ pc[c] = "permit"
  /\ free > 0
  /\ free' = free - 1
  /\ Goto(c, IF c \in Tools THEN "register" ELSE "insert")
  /\ UNCHANGED <<outcome, progress, initialized, loopVars, wireVars, pending, notices>>

\* Mutant: the permit is awaited without a limit.
RejectNever(c) == c \notin Calls /\ UNCHANGED vars

RejectCall(c) ==
  /\ pc[c] = "permit"
  /\ free = 0
  /\ Goto(c, "done")
  /\ Record(c, "rejected")
  /\ UNCHANGED <<free, progress, initialized, loopVars, wireVars, pending, notices>>

RegisterProgress(c) ==
  /\ pc[c] = "register"
  /\ progress' = progress \union {c}
  /\ Goto(c, "insert")
  /\ UNCHANGED <<outcome, free, initialized, loopVars, wireVars, pending, notices>>

InsertPending(c) ==
  /\ pc[c] = "insert"
  /\ pending' = pending \union {c}
  /\ Goto(c, "send")
  /\ UNCHANGED <<outcome, free, progress, initialized, loopVars, wireVars, notices>>

(* The server may hear the request, and answer it, before send returns.    *)
SendReturns(c) ==
  /\ pc[c] = "send"
  /\ open \/ c \in heard
  /\ Goto(c, "wait")
  /\ UNCHANGED <<outcome, free, progress, initialized, loopVars, wireVars, pending, notices>>

SendFails(c) ==
  /\ pc[c] = "send"
  /\ Goto(c, "withdraw")
  /\ Record(c, "unsent")
  /\ UNCHANGED <<free, progress, initialized, loopVars, wireVars, pending, notices>>

\* Mutant: a failed send returns without removing the entry.
ReturnUnsent(c) ==
  /\ pc[c] = "withdraw"
  /\ Finish(c)
  /\ UNCHANGED <<outcome, progress, initialized, loopVars, wireVars, pending, notices>>

WithdrawCall(c) ==
  /\ pc[c] = "withdraw"
  /\ pending' = pending \ {c}
  /\ Finish(c)
  /\ UNCHANGED <<outcome, progress, initialized, loopVars, wireVars, notices>>

(* initialize gives its permit back before it greets the server, and may   *)
(* find the protocol version of the answer unsupported.                    *)
ReceiveReply(c) ==
  /\ pc[c] = "wait"
  /\ reply[c] # None
  /\ UNCHANGED <<progress, initialized, loopVars, wireVars, pending, notices>>
  /\ \/ /\ c # Handshake \/ reply[c] # "result"
        /\ Record(c, reply[c])
        /\ Finish(c)
     \/ /\ c = Handshake
        /\ reply[c] = "result"
        /\ free' = free + 1
        /\ \/ Goto(c, "greet") /\ Record(c, "result")
           \/ Goto(c, "done") /\ Record(c, "refused")

(* Without a cancellation the answer is looked at before the limit.        *)
TimeOut(c) ==
  /\ pc[c] = "wait"
  /\ c \in Tools \union Cancellable \/ reply[c] = None
  /\ Goto(c, "remove")
  /\ Record(c, "timeout")
  /\ UNCHANGED <<free, progress, initialized, loopVars, wireVars, pending, notices>>

CancelCall(c) ==
  /\ pc[c] = "wait"
  /\ c \in Cancellable
  /\ Goto(c, "remove")
  /\ Record(c, "cancelled")
  /\ UNCHANGED <<free, progress, initialized, loopVars, wireVars, pending, notices>>

(* cancel_pending_request: only who removes the entry notifies, and        *)
(* initialize is never cancelled at the server.                            *)
\* Mutant: the server is notified whether or not the entry was there.
NotifiesAlways(c) == c # Handshake

Notifies(c) == c \in pending /\ c # Handshake

RemovePending(c) ==
  /\ pc[c] = "remove"
  /\ pending' = pending \ {c}
  /\ IF Notifies(c) THEN Goto(c, "notify") /\ UNCHANGED free ELSE Finish(c)
  /\ UNCHANGED <<outcome, progress, initialized, loopVars, wireVars, notices>>

SendNotice(c) ==
  /\ pc[c] = "notify"
  /\ notices' = [notices EXCEPT ![c] = IF open THEN @ + 1 ELSE @]
  /\ Finish(c)
  /\ UNCHANGED <<outcome, progress, initialized, loopVars, wireVars, pending>>

UnregisterProgress(c) ==
  /\ pc[c] = "unregister"
  /\ progress' = progress \ {c}
  /\ Release(c)
  /\ UNCHANGED <<outcome, initialized, loopVars, wireVars, pending, notices>>

Greet ==
  /\ pc[Handshake] = "greet"
  /\ Goto(Handshake, "done")
  /\ \/ open /\ initialized' = TRUE /\ UNCHANGED outcome
     \/ Record(Handshake, "unsent") /\ UNCHANGED initialized
  /\ UNCHANGED <<free, progress, loopVars, wireVars, pending, notices>>

(* The future is dropped where it waits: an aborted tool fiber, or a limit *)
(* around the handshake.  The guard gives the permit back; the entries of  *)
(* the maps stay.                                                          *)
DropCall(c) ==
  /\ pc[c] \in Waiting
  /\ Goto(c, "dropped")
  /\ free' = IF pc[c] \in Holding THEN free + 1 ELSE free
  /\ UNCHANGED <<outcome, progress, initialized, loopVars, wireVars, pending, notices>>

-----------------------------------------------------------------------------
(* The read loop.                                                          *)

(* An answer of a call that is not pending is thrown away.                 *)
TakeAnswer ==
  /\ loop = "recv"
  /\ \E m \in inbound :
       /\ inbound' = inbound \ {m}
       /\ pending' = pending \ {m[1]}
       /\ IF m[1] \in pending
          THEN loop' = m[2] /\ taken' = {m[1]}
          ELSE UNCHANGED <<loop, taken>>
  /\ UNCHANGED <<callVars, reply, open, flowing, heard, answers, notices>>

SendAnswer ==
  /\ loop \in Answers
  /\ \E c \in taken :
       /\ reply' = [reply EXCEPT ![c] = loop]
       /\ taken' = taken \ {c}
       /\ loop' = "recv"
  /\ UNCHANGED <<callVars, wireVars, pending, notices>>

(* The channel has ended and is empty: the loop calls onclose, takes the   *)
(* whole map, and answers each of its calls.                               *)
EndLoop ==
  /\ loop = "recv"
  /\ ~flowing
  /\ inbound = {}
  /\ loop' = "closing"
  /\ UNCHANGED <<callVars, taken, reply, wireVars, pending, notices>>

TakeAll ==
  /\ loop = "closing"
  /\ loop' = "closed"
  /\ taken' = pending
  /\ pending' = {}
  /\ UNCHANGED <<callVars, reply, wireVars, notices>>

SendClosed ==
  /\ loop = "closed"
  /\ \E c \in taken :
       /\ reply' = [reply EXCEPT ![c] = "closed"]
       /\ taken' = taken \ {c}
  /\ UNCHANGED <<callVars, loop, wireVars, pending, notices>>

-----------------------------------------------------------------------------
(* The transport and the server.                                           *)

HearRequest(c) ==
  /\ pc[c] = "send"
  /\ open
  /\ c \notin heard
  /\ heard' = heard \union {c}
  /\ UNCHANGED <<callVars, loopVars, open, flowing, answers, inbound, pending, notices>>

(* The server answers late, twice or never, in any order.                  *)
Respond(c) ==
  /\ c \in heard
  /\ flowing
  /\ answers < MaxAnswers
  /\ answers' = answers + 1
  /\ \E a \in Answers : inbound' = inbound \union {<<c, a>>}
  /\ UNCHANGED <<callVars, loopVars, open, flowing, heard, pending, notices>>

CloseTransport ==
  /\ open
  /\ open' = FALSE
  /\ UNCHANGED <<callVars, loopVars, flowing, heard, answers, inbound, pending, notices>>

(* The server's output ends, by itself or because of the close.            *)
EndOutput ==
  /\ flowing
  /\ flowing' = FALSE
  /\ UNCHANGED <<callVars, loopVars, open, heard, answers, inbound, pending, notices>>

-----------------------------------------------------------------------------
CallStep(c) ==
  \/ AcquirePermit(c)
  \/ RejectCall(c)
  \/ RegisterProgress(c)
  \/ InsertPending(c)
  \/ WithdrawCall(c)
  \/ ReceiveReply(c)
  \/ TimeOut(c)
  \/ RemovePending(c)
  \/ UnregisterProgress(c)

LoopStep == TakeAnswer \/ SendAnswer \/ EndLoop \/ TakeAll \/ SendClosed

Transport(c) == SendReturns(c) \/ SendFails(c) \/ SendNotice(c) \/ HearRequest(c) \/ Respond(c)

Next ==
  \/ \E c \in Calls : CallStep(c) \/ StartCall(c) \/ CancelCall(c) \/ DropCall(c) \/ Transport(c)
  \/ Greet
  \/ LoopStep
  \/ CloseTransport
  \/ EndOutput

Spec == Init /\ [][Next]_vars

(* A call is polled when it can go on, and its limits pass.  Nothing is    *)
(* assumed of the server, of the transport's sends, which have no limit,   *)
(* or of the caller.                                                       *)
FairSpec == Spec /\ \A c \in Calls : WF_vars(CallStep(c))
-----------------------------------------------------------------------------
(* Properties.                                                             *)

(* A call that has returned, whichever way, has left nothing in the two    *)
(* maps of the client, so that no late answer and no progress finds it     *)
(* (the removals after a failed send, a limit and an answer).  Only a      *)
(* dropped future leaves its entries behind.                               *)
EndedLeavesNothing == \A c \in Calls : pc[c] = "done" => c \notin pending \union progress

(* The map of pending calls holds at most as many calls with a caller as   *)
(* there are permits, whatever happens to the calls that had one before    *)
(* (the permit lives as long as the future that entered the map).          *)
PendingIsBounded == Cardinality({c \in pending : pc[c] # "dropped"}) <= MaxInflight

(* The server is told to cancel a request once at most, and never one      *)
(* whose answer has been taken, even if its caller reports a limit or a    *)
(* cancellation, and never initialize (cancel_pending_request).            *)
NoticeOnlyUnanswered ==
  \A c \in Calls :
    pc[c] = "notify" \/ notices[c] > 0 =>
      /\ c # Handshake
      /\ c \notin pending \union taken
      /\ reply[c] = None
      /\ notices[c] <= 1

(* A call ends, although the server never answers and the permits are      *)
(* taken, unless it is held up in a send of the transport, which no limit  *)
(* covers.                                                                 *)
EveryCallEnds ==
  \A c \in Calls :
    pc[c] \in Waiting ~> pc[c] \in Ended \union {"send", "notify", "greet"}

=============================================================================
