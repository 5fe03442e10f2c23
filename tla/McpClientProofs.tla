--------------------------- MODULE McpClientProofs ---------------------------
(***************************************************************************)
(* The client keeps its maps clean, its pending calls bounded and its      *)
(* cancel notices right for every number of calls, permits and answers.    *)
(*                                                                         *)
(* The permits are counted: those in the semaphore and those of the calls  *)
(* that hold one add up.  And the entry of a call in the pending map is    *)
(* its one chance: as long as it is there nobody has answered the call and *)
(* the server has been told nothing, and whoever removes it is the only    *)
(* one to do either.                                                       *)
(***************************************************************************)
EXTENDS McpClient, FiniteSetTheorems, TLAPS

Holders == {c \in Calls : pc[c] \in Holding}

PermitsAreCounted == free + Cardinality(Holders) = MaxInflight

(* What a call may have in the maps, by the place it has come to.          *)
EntriesHaveCalls ==
  /\ \A c \in pending : pc[c] \in {"send", "withdraw", "wait", "remove", "dropped"}
  /\ \A c \in progress : pc[c] \in (Holding \ {"register"}) \union {"dropped"}
  /\ \A c \in Calls : pc[c] = "register" => c \in Tools

(* A call that is still to be answered or to be given up.                  *)
Undecided(c) == c \notin taken /\ reply[c] = None /\ notices[c] = 0

FateIsDecidedOnce ==
  \A c \in Calls :
    /\ c \in pending \/ pc[c] \in {"idle", "permit", "register", "insert"} => Undecided(c)
    /\ c \in taken => reply[c] = None
    /\ c \in taken \/ reply[c] # None => notices[c] = 0 /\ pc[c] # "notify"
    /\ pc[c] = "notify" => c # Handshake /\ notices[c] = 0
    /\ notices[c] > 0 => /\ c # Handshake /\ notices[c] = 1
                         /\ pc[c] \in {"unregister", "done", "dropped"}

McpInv == TypeOK /\ PermitsAreCounted /\ EntriesHaveCalls /\ FateIsDecidedOnce

-----------------------------------------------------------------------------
(* The permits.                                                            *)

LEMMA HoldersFinite == IsFiniteSet(Holders) /\ Cardinality(Holders) \in Nat
<1>1. IsFiniteSet(Calls) /\ Holders \subseteq Calls
  BY McpAssumption DEF Holders
<1> QED BY <1>1, FS_Subset, FS_CardinalityType

(* A step that keeps, takes or gives back one permit keeps the sum.        *)
LEMMA CountStays ==
  ASSUME TypeOK, PermitsAreCounted, Holders' = Holders, free' = free
  PROVE  PermitsAreCounted' /\ free' \in 0 .. MaxInflight
BY DEF PermitsAreCounted, TypeOK

LEMMA CountTaken ==
  ASSUME TypeOK, PermitsAreCounted, NEW c \in Calls, c \notin Holders,
         Holders' = Holders \union {c}, free > 0, free' = free - 1
  PROVE  PermitsAreCounted' /\ free' \in 0 .. MaxInflight
<1>1. Cardinality(Holders') = Cardinality(Holders) + 1
  BY HoldersFinite, FS_AddElement
<1> QED BY <1>1, HoldersFinite, McpAssumption DEF PermitsAreCounted, TypeOK

LEMMA CountGiven ==
  ASSUME TypeOK, PermitsAreCounted, NEW c \in Calls, c \in Holders,
         Holders' = Holders \ {c}, free' = free + 1
  PROVE  PermitsAreCounted' /\ free' \in 0 .. MaxInflight
<1>1. Cardinality(Holders') = Cardinality(Holders) - 1
  BY HoldersFinite, FS_RemoveElement
<1>2. Cardinality(Holders) \in Nat /\ Cardinality(Holders') \in Nat
  <2>1. IsFiniteSet(Holders')
    BY HoldersFinite, FS_RemoveElement
  <2> QED BY <2>1, HoldersFinite, FS_CardinalityType
<1>3. free \in Nat /\ MaxInflight \in Nat
  BY McpAssumption DEF TypeOK
<1> QED BY <1>1, <1>2, <1>3 DEF PermitsAreCounted

LEMMA GotoHolders ==
  ASSUME TypeOK, NEW c \in Calls, NEW l, Goto(c, l)
  PROVE  /\ pc'[c] = l
         /\ \A d \in Calls : d # c => pc'[d] = pc[d]
         /\ Holders' = IF l \in Holding THEN Holders \union {c} ELSE Holders \ {c}
BY DEF TypeOK, Goto, Holders

LEMMA FinishMoves ==
  ASSUME TypeOK, NEW c \in Calls, Finish(c)
  PROVE  /\ pc' \in [Calls -> Waiting \union Ended \union {"idle"}]
         /\ pc'[c] = IF c \in Tools THEN "unregister" ELSE "done"
         /\ \A d \in Calls : d # c => pc'[d] = pc[d]
BY DEF TypeOK, Finish, Goto, Waiting, Holding, Ended

LEMMA FinishPermit ==
  ASSUME TypeOK, PermitsAreCounted, NEW c \in Calls, pc[c] \in Holding, Finish(c)
  PROVE  PermitsAreCounted' /\ free' \in 0 .. MaxInflight
<1>1. c \in Holders
  BY DEF Holders
<1>2. CASE c \in Tools
  <2>1. Goto(c, "unregister") /\ free' = free
    BY <1>2 DEF Finish
  <2>2. Holders' = Holders
    BY <2>1, <1>1, GotoHolders DEF Holding
  <2> QED BY <2>1, <2>2, CountStays
<1>3. CASE c \notin Tools
  <2>1. Goto(c, "done") /\ free' = free + 1
    BY <1>3 DEF Finish
  <2>2. Holders' = Holders \ {c}
    BY <2>1, GotoHolders DEF Holding
  <2> QED BY <2>1, <2>2, <1>1, CountGiven
<1> QED BY <1>2, <1>3

LEMMA PermitsStep ==
  ASSUME TypeOK, PermitsAreCounted, [Next]_vars
  PROVE  PermitsAreCounted' /\ free' \in 0 .. MaxInflight
<1> USE DEF Holding, Waiting, callVars
<1>0. ASSUME pc' = pc, free' = free
      PROVE  PermitsAreCounted' /\ free' \in 0 .. MaxInflight
  BY <1>0, CountStays DEF Holders
<1>1. ASSUME NEW c \in Calls, NEW l, Goto(c, l), free' = free, pc[c] \in Holding <=> l \in Holding
      PROVE  PermitsAreCounted' /\ free' \in 0 .. MaxInflight
  <2>1. Holders' = Holders
    BY <1>1, GotoHolders DEF Holders
  <2> QED BY <2>1, <1>1, CountStays
<1>2. ASSUME NEW c \in Calls, NEW l, Goto(c, l), free' = free + 1, pc[c] \in Holding, l \notin Holding
      PROVE  PermitsAreCounted' /\ free' \in 0 .. MaxInflight
  <2>1. Holders' = Holders \ {c} /\ c \in Holders
    BY <1>2, GotoHolders DEF Holders
  <2> QED BY <2>1, <1>2, CountGiven
<1>3. ASSUME NEW c \in Calls, CallStep(c)
      PROVE  PermitsAreCounted' /\ free' \in 0 .. MaxInflight
  <2>1. CASE AcquirePermit(c)
    <3> DEFINE l == IF c \in Tools THEN "register" ELSE "insert"
    <3>1. Goto(c, l) /\ l \in Holding /\ pc[c] = "permit" /\ free > 0 /\ free' = free - 1
      BY <2>1 DEF AcquirePermit
    <3>2. Holders' = Holders \union {c} /\ c \notin Holders
      BY <3>1, GotoHolders DEF Holders
    <3> QED BY <3>1, <3>2, CountTaken
  <2>2. CASE RejectCall(c)
    BY <2>2, <1>1 DEF RejectCall
  <2>3. CASE RegisterProgress(c)
    BY <2>3, <1>1 DEF RegisterProgress
  <2>4. CASE InsertPending(c)
    BY <2>4, <1>1 DEF InsertPending
  <2>5. CASE WithdrawCall(c)
    BY <2>5, FinishPermit DEF WithdrawCall
  <2>6. CASE ReceiveReply(c)
    <3>1. CASE Finish(c)
      BY <2>6, <3>1, FinishPermit DEF ReceiveReply
    <3>2. CASE free' = free + 1 /\ (Goto(c, "greet") \/ Goto(c, "done"))
      BY <2>6, <3>2, <1>2 DEF ReceiveReply
    <3> QED BY <2>6, <3>1, <3>2 DEF ReceiveReply
  <2>7. CASE TimeOut(c)
    BY <2>7, <1>1 DEF TimeOut
  <2>8. CASE RemovePending(c)
    <3>1. CASE Notifies(c)
      BY <2>8, <3>1, <1>1 DEF RemovePending
    <3>2. CASE ~Notifies(c)
      BY <2>8, <3>2, FinishPermit DEF RemovePending
    <3> QED BY <3>1, <3>2
  <2>9. CASE UnregisterProgress(c)
    BY <2>9, <1>2 DEF UnregisterProgress, Release
  <2> QED BY <1>3, <2>1, <2>2, <2>3, <2>4, <2>5, <2>6, <2>7, <2>8, <2>9 DEF CallStep
<1>4. ASSUME NEW c \in Calls, StartCall(c) \/ CancelCall(c) \/ DropCall(c) \/ Transport(c)
      PROVE  PermitsAreCounted' /\ free' \in 0 .. MaxInflight
  <2>1. CASE StartCall(c)
    BY <2>1, <1>1 DEF StartCall
  <2>2. CASE CancelCall(c)
    BY <2>2, <1>1 DEF CancelCall
  <2>3. CASE DropCall(c)
    <3>1. CASE pc[c] \in Holding
      BY <2>3, <3>1, <1>2 DEF DropCall
    <3>2. CASE pc[c] \notin Holding
      BY <2>3, <3>2, <1>1 DEF DropCall
    <3> QED BY <3>1, <3>2
  <2>4. CASE SendReturns(c)
    BY <2>4, <1>1 DEF SendReturns
  <2>5. CASE SendFails(c)
    BY <2>5, <1>1 DEF SendFails
  <2>6. CASE SendNotice(c)
    BY <2>6, FinishPermit DEF SendNotice
  <2>7. CASE HearRequest(c) \/ Respond(c)
    BY <2>7, <1>0 DEF HearRequest, Respond
  <2> QED BY <1>4, <2>1, <2>2, <2>3, <2>4, <2>5, <2>6, <2>7 DEF Transport
<1>5. CASE Greet
  <2>1. Handshake \in Calls
    BY DEF Calls
  <2> QED BY <1>5, <2>1, <1>1 DEF Greet
<1>6. CASE LoopStep \/ CloseTransport \/ EndOutput \/ UNCHANGED vars
  BY <1>6, <1>0 DEF LoopStep, TakeAnswer, SendAnswer, EndLoop, TakeAll, SendClosed, CloseTransport, EndOutput, vars
<1> QED BY <1>3, <1>4, <1>5, <1>6 DEF Next

-----------------------------------------------------------------------------
LEMMA TypeStep ==
  ASSUME McpInv, [Next]_vars
  PROVE  TypeOK'
<1> USE PermitsStep DEF McpInv, TypeOK, Goto, Record, Finish, Release, Notifies, callVars, loopVars, wireVars, Holding, Waiting, Ended, Answers, Calls
<1>1. ASSUME NEW c \in Calls, CallStep(c) \/ StartCall(c) \/ CancelCall(c) \/ DropCall(c) \/ Transport(c)
      PROVE  TypeOK'
  <2>1. CASE AcquirePermit(c)
    BY <2>1 DEF AcquirePermit
  <2>2. CASE RejectCall(c)
    BY <2>2 DEF RejectCall
  <2>3. CASE RegisterProgress(c)
    BY <2>3 DEF RegisterProgress, EntriesHaveCalls
  <2>4. CASE InsertPending(c)
    BY <2>4 DEF InsertPending
  <2>5. CASE WithdrawCall(c)
    BY <2>5 DEF WithdrawCall
  <2>6. CASE ReceiveReply(c)
    BY <2>6 DEF ReceiveReply
  <2>7. CASE TimeOut(c)
    BY <2>7 DEF TimeOut
  <2>8. CASE RemovePending(c)
    BY <2>8 DEF RemovePending
  <2>9. CASE UnregisterProgress(c)
    BY <2>9 DEF UnregisterProgress
  <2>10. CASE StartCall(c)
    BY <2>10 DEF StartCall
  <2>11. CASE CancelCall(c)
    BY <2>11 DEF CancelCall
  <2>12. CASE DropCall(c)
    BY <2>12 DEF DropCall
  <2>13. CASE SendReturns(c)
    BY <2>13 DEF SendReturns
  <2>14. CASE SendFails(c)
    BY <2>14 DEF SendFails
  <2>15. CASE SendNotice(c)
    BY <2>15 DEF SendNotice
  <2>16. CASE HearRequest(c)
    BY <2>16 DEF HearRequest
  <2>17. CASE Respond(c)
    <3>1. PICK a \in Answers : inbound' = inbound \union {<<c, a>>}
      BY <2>17 DEF Respond
    <3>2. inbound' \subseteq Calls \X Answers
      BY <3>1
    <3> QED BY <2>17, <3>2, McpAssumption DEF Respond
  <2> QED BY <1>1, <2>1, <2>2, <2>3, <2>4, <2>5, <2>6, <2>7, <2>8, <2>9, <2>10, <2>11, <2>12, <2>13, <2>14, <2>15, <2>16, <2>17 DEF CallStep, Transport
<1>2. CASE Greet
  BY <1>2 DEF Greet
<1>3. CASE TakeAnswer
  BY <1>3 DEF TakeAnswer
<1>4. CASE SendAnswer
  BY <1>4 DEF SendAnswer
<1>5. CASE EndLoop
  BY <1>5 DEF EndLoop
<1>6. CASE TakeAll
  BY <1>6 DEF TakeAll
<1>7. CASE SendClosed
  BY <1>7 DEF SendClosed
<1>8. CASE CloseTransport
  BY <1>8 DEF CloseTransport
<1>9. CASE EndOutput
  BY <1>9 DEF EndOutput
<1>10. CASE UNCHANGED vars
  BY <1>10 DEF vars
<1> QED BY <1>1, <1>2, <1>3, <1>4, <1>5, <1>6, <1>7, <1>8, <1>9, <1>10 DEF Next, LoopStep

(* A call that returns has no entry in the pending map, and a tool call    *)
(* still has to remove its token.                                          *)
LEMMA FinishEntries ==
  ASSUME McpInv, NEW c \in Calls, Finish(c), pc[c] \in Holding \ {"register"},
         c \notin pending', pending' \subseteq pending, progress' = progress
  PROVE  EntriesHaveCalls'
<1>1. /\ pc'[c] = IF c \in Tools THEN "unregister" ELSE "done"
      /\ \A d \in Calls : d # c => pc'[d] = pc[d]
  BY FinishMoves DEF McpInv
<1>2. pending \subseteq Calls /\ progress \subseteq Tools /\ Tools \subseteq Calls
  BY DEF McpInv, TypeOK, Calls
<1>3. \A d \in pending' : pc'[d] \in {"send", "withdraw", "wait", "remove", "dropped"}
  BY <1>1, <1>2 DEF McpInv, EntriesHaveCalls
<1>4. \A d \in progress' : pc'[d] \in (Holding \ {"register"}) \union {"dropped"}
  <2> SUFFICES ASSUME NEW d \in progress
               PROVE  pc'[d] \in (Holding \ {"register"}) \union {"dropped"}
    OBVIOUS
  <2>1. CASE d = c
    BY <2>1, <1>1, <1>2 DEF Holding
  <2>2. CASE d # c
    BY <2>2, <1>1, <1>2 DEF McpInv, EntriesHaveCalls
  <2> QED BY <2>1, <2>2
<1>5. \A d \in Calls : pc'[d] = "register" => d \in Tools
  BY <1>1 DEF McpInv, EntriesHaveCalls
<1> QED BY <1>3, <1>4, <1>5 DEF EntriesHaveCalls

LEMMA EntriesStep ==
  ASSUME McpInv, [Next]_vars
  PROVE  EntriesHaveCalls'
<1> USE DEF McpInv, TypeOK, EntriesHaveCalls, FateIsDecidedOnce, Undecided, Goto, Record, Release, Notifies, callVars, loopVars, wireVars, Holding, Waiting
<1>1. ASSUME NEW c \in Calls, CallStep(c) \/ StartCall(c) \/ CancelCall(c) \/ DropCall(c) \/ Transport(c)
      PROVE  EntriesHaveCalls'
  <2>1. CASE AcquirePermit(c)
    BY <2>1 DEF AcquirePermit
  <2>2. CASE RejectCall(c)
    BY <2>2 DEF RejectCall
  <2>3. CASE RegisterProgress(c)
    BY <2>3 DEF RegisterProgress
  <2>4. CASE InsertPending(c)
    BY <2>4 DEF InsertPending
  <2>5. CASE WithdrawCall(c)
    BY <2>5, FinishEntries DEF WithdrawCall
  <2>6. CASE ReceiveReply(c)
    <3>1. CASE Finish(c)
      BY <2>6, <3>1, FinishEntries DEF ReceiveReply
    <3>2. CASE c = Handshake /\ (Goto(c, "greet") \/ Goto(c, "done"))
      <4>1. c \notin pending /\ c \notin progress
        BY <2>6, <3>2, McpAssumption DEF ReceiveReply
      <4>2. pending' = pending /\ progress' = progress
        BY <2>6 DEF ReceiveReply
      <4>3. /\ pc'[c] \in {"greet", "done"}
            /\ \A d \in Calls : d # c => pc'[d] = pc[d]
        BY <3>2
      <4>4. pending \subseteq Calls /\ progress \subseteq Calls
        BY DEF Calls
      <4> QED BY <4>1, <4>2, <4>3, <4>4
    <3> QED BY <2>6, <3>1, <3>2 DEF ReceiveReply
  <2>7. CASE TimeOut(c)
    BY <2>7 DEF TimeOut
  <2>8. CASE RemovePending(c)
    <3>1. CASE Notifies(c)
      <4>1. Goto(c, "notify") /\ pc[c] = "remove" /\ pending' = pending \ {c} /\ progress' = progress
        BY <2>8, <3>1 DEF RemovePending
      <4> QED BY <4>1
    <3>2. CASE ~Notifies(c)
      BY <2>8, <3>2, FinishEntries DEF RemovePending
    <3> QED BY <3>1, <3>2
  <2>9. CASE UnregisterProgress(c)
    BY <2>9 DEF UnregisterProgress
  <2>10. CASE StartCall(c)
    BY <2>10 DEF StartCall
  <2>11. CASE CancelCall(c)
    BY <2>11 DEF CancelCall
  <2>12. CASE DropCall(c)
    BY <2>12 DEF DropCall
  <2>13. CASE SendReturns(c)
    BY <2>13 DEF SendReturns
  <2>14. CASE SendFails(c)
    BY <2>14 DEF SendFails
  <2>15. CASE SendNotice(c)
    BY <2>15, FinishEntries DEF SendNotice
  <2>16. CASE HearRequest(c)
    BY <2>16 DEF HearRequest
  <2>17. CASE Respond(c)
    BY <2>17 DEF Respond
  <2> QED BY <1>1, <2>1, <2>2, <2>3, <2>4, <2>5, <2>6, <2>7, <2>8, <2>9, <2>10, <2>11, <2>12, <2>13, <2>14, <2>15, <2>16, <2>17 DEF CallStep, Transport
<1>2. CASE Greet
  BY <1>2 DEF Greet
<1>3. CASE TakeAnswer
  BY <1>3 DEF TakeAnswer
<1>4. CASE SendAnswer
  BY <1>4 DEF SendAnswer
<1>5. CASE EndLoop
  BY <1>5 DEF EndLoop
<1>6. CASE TakeAll
  BY <1>6 DEF TakeAll
<1>7. CASE SendClosed
  BY <1>7 DEF SendClosed
<1>8. CASE CloseTransport
  BY <1>8 DEF CloseTransport
<1>9. CASE EndOutput
  BY <1>9 DEF EndOutput
<1>10. CASE UNCHANGED vars
  BY <1>10 DEF vars
<1> QED BY <1>1, <1>2, <1>3, <1>4, <1>5, <1>6, <1>7, <1>8, <1>9, <1>10 DEF Next, LoopStep

LEMMA FateStep ==
  ASSUME McpInv, [Next]_vars
  PROVE  FateIsDecidedOnce'
<1> USE DEF McpInv, TypeOK, EntriesHaveCalls, FateIsDecidedOnce, Undecided, Goto, Record, Release, Notifies, callVars, loopVars, wireVars, Holding, Waiting, Answers, None
<1>1. ASSUME NEW c \in Calls, CallStep(c) \/ StartCall(c) \/ CancelCall(c) \/ DropCall(c) \/ Transport(c)
      PROVE  FateIsDecidedOnce'
  <2>1. CASE AcquirePermit(c)
    BY <2>1 DEF AcquirePermit
  <2>2. CASE RejectCall(c)
    BY <2>2 DEF RejectCall
  <2>3. CASE RegisterProgress(c)
    BY <2>3 DEF RegisterProgress
  <2>4. CASE InsertPending(c)
    BY <2>4 DEF InsertPending
  <2>5. CASE WithdrawCall(c)
    BY <2>5, FinishMoves DEF WithdrawCall
  <2>6. CASE ReceiveReply(c)
    <3>1. CASE Finish(c)
      BY <2>6, <3>1, FinishMoves DEF ReceiveReply
    <3>2. CASE Goto(c, "greet") \/ Goto(c, "done")
      BY <2>6, <3>2 DEF ReceiveReply
    <3> QED BY <2>6, <3>1, <3>2 DEF ReceiveReply
  <2>7. CASE TimeOut(c)
    BY <2>7 DEF TimeOut
  <2>8. CASE RemovePending(c)
    <3>1. CASE Notifies(c)
      BY <2>8, <3>1 DEF RemovePending
    <3>2. CASE ~Notifies(c)
      BY <2>8, <3>2, FinishMoves DEF RemovePending
    <3> QED BY <3>1, <3>2
  <2>9. CASE UnregisterProgress(c)
    BY <2>9 DEF UnregisterProgress
  <2>10. CASE StartCall(c)
    BY <2>10 DEF StartCall
  <2>11. CASE CancelCall(c)
    BY <2>11 DEF CancelCall
  <2>12. CASE DropCall(c)
    BY <2>12 DEF DropCall
  <2>13. CASE SendReturns(c)
    BY <2>13 DEF SendReturns
  <2>14. CASE SendFails(c)
    BY <2>14 DEF SendFails
  <2>15. CASE SendNotice(c)
    BY <2>15, FinishMoves DEF SendNotice
  <2>16. CASE HearRequest(c)
    BY <2>16 DEF HearRequest
  <2>17. CASE Respond(c)
    BY <2>17 DEF Respond
  <2> QED BY <1>1, <2>1, <2>2, <2>3, <2>4, <2>5, <2>6, <2>7, <2>8, <2>9, <2>10, <2>11, <2>12, <2>13, <2>14, <2>15, <2>16, <2>17 DEF CallStep, Transport
<1>2. CASE Greet
  BY <1>2 DEF Greet
<1>3. CASE TakeAnswer
  BY <1>3 DEF TakeAnswer
<1>4. CASE SendAnswer
  BY <1>4 DEF SendAnswer
<1>5. CASE EndLoop
  BY <1>5 DEF EndLoop
<1>6. CASE TakeAll
  BY <1>6 DEF TakeAll
<1>7. CASE SendClosed
  BY <1>7 DEF SendClosed
<1>8. CASE CloseTransport
  BY <1>8 DEF CloseTransport
<1>9. CASE EndOutput
  BY <1>9 DEF EndOutput
<1>10. CASE UNCHANGED vars
  BY <1>10 DEF vars
<1> QED BY <1>1, <1>2, <1>3, <1>4, <1>5, <1>6, <1>7, <1>8, <1>9, <1>10 DEF Next, LoopStep

THEOREM InvHolds == Spec => []McpInv
<1>1. Init => McpInv
  <2> SUFFICES ASSUME Init PROVE McpInv
    OBVIOUS
  <2>1. TypeOK
    <3>1. free \in 0 .. MaxInflight /\ answers \in 0 .. MaxAnswers
      BY McpAssumption DEF Init
    <3>2. /\ pc \in [Calls -> Waiting \union Ended \union {"idle"}]
          /\ reply \in [Calls -> Answers \union {None, "closed"}]
          /\ notices \in [Calls -> Nat]
      BY DEF Init
    <3>3. outcome \in [Calls -> Answers \union
            {None, "closed", "rejected", "unsent", "timeout", "cancelled", "refused"}]
      BY DEF Init
    <3> QED BY <3>1, <3>2, <3>3 DEF Init, TypeOK
  <2>2. Holders = {}
    BY DEF Init, Holders, Holding
  <2>3. PermitsAreCounted
    BY <2>2, FS_EmptySet, McpAssumption DEF Init, PermitsAreCounted
  <2>4. EntriesHaveCalls /\ FateIsDecidedOnce
    BY DEF Init, EntriesHaveCalls, FateIsDecidedOnce, Undecided, None
  <2> QED BY <2>1, <2>3, <2>4 DEF McpInv
<1>2. McpInv /\ [Next]_vars => McpInv'
  BY TypeStep, PermitsStep, EntriesStep, FateStep DEF McpInv
<1> QED BY <1>1, <1>2, PTL DEF Spec

(* The maps are clean behind every call that has returned.                 *)
THEOREM CallsCleanUp == Spec => []EndedLeavesNothing
<1>1. McpInv => EndedLeavesNothing
  BY DEF McpInv, EntriesHaveCalls, EndedLeavesNothing, Holding
<1> QED BY <1>1, InvHolds, PTL

(* The map of pending calls is bounded by the permits, as far as its calls *)
(* have callers.                                                           *)
THEOREM PermitsBoundPending == Spec => []PendingIsBounded
<1>1. McpInv => PendingIsBounded
  <2> SUFFICES ASSUME McpInv PROVE PendingIsBounded
    OBVIOUS
  <2> DEFINE live == {c \in pending : pc[c] # "dropped"}
  <2>1. live \subseteq Holders
    BY DEF McpInv, TypeOK, EntriesHaveCalls, Holders, Holding
  <2>2. IsFiniteSet(live) /\ Cardinality(live) \in Nat /\ Cardinality(live) <= Cardinality(Holders)
    BY <2>1, HoldersFinite, FS_Subset, FS_CardinalityType
  <2>3. Cardinality(Holders) <= MaxInflight
    BY HoldersFinite, McpAssumption DEF McpInv, TypeOK, PermitsAreCounted
  <2>4. Cardinality(live) <= MaxInflight
    BY <2>2, <2>3, HoldersFinite, McpAssumption
  <2> QED BY <2>4 DEF PendingIsBounded
<1> QED BY <1>1, InvHolds, PTL

(* No answered call and no handshake is cancelled at the server, and none  *)
(* twice.                                                                  *)
THEOREM NoticesAreRight == Spec => []NoticeOnlyUnanswered
<1>1. McpInv => NoticeOnlyUnanswered
  BY DEF McpInv, TypeOK, EntriesHaveCalls, FateIsDecidedOnce, Undecided, NoticeOnlyUnanswered, Answers, None
<1> QED BY <1>1, InvHolds, PTL
=============================================================================
