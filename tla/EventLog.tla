------------------------------ MODULE EventLog ------------------------------
(***************************************************************************)
(* What the durable event store promises: one log of events per aggregate  *)
(* (a session), numbered from zero, and at most one owner per aggregate,   *)
(* whose events alone are accepted when they are replayed from another     *)
(* server.  It is the event service of the original (event.ts), in which   *)
(* every operation is one transaction on the database; EventStore is the   *)
(* port, with a copy of the tables in memory, and implements it.           *)
(*                                                                         *)
(* next[a] is the sequence number of the next event of a: zero stands for  *)
(* an aggregate without a row in the sequence table.  strictOwner makes an *)
(* error of an event that is ignored otherwise, so it changes no state.    *)
(***************************************************************************)
EXTENDS EventData

VARIABLES
  rows,   \* the event table
  next,   \* the sequence table: the number the next event gets
  owner   \* the sequence table: the owner

logVars == <<rows, next, owner>>

Rows == [aggregate : Aggregates, seq : Nat, event : Events]

Row(n, e) == [aggregate |-> AggregateOf[e], seq |-> n, event |-> e]

LogTypeOK ==
  /\ rows \subseteq Rows
  /\ next \in [Aggregates -> Nat]
  /\ owner \in [Aggregates -> Owners \union {None}]

LogInit ==
  /\ rows = {}
  /\ next = [a \in Aggregates |-> 0]
  /\ owner = [a \in Aggregates |-> None]

\* A commit: the event gets the next number, and the aggregate o as its
\* owner if it has none.
AppendRow(e, o) ==
  LET a == AggregateOf[e] IN
  /\ \A r \in rows : IdOf[r.event] # IdOf[e]
  /\ rows' = rows \union {Row(next[a], e)}
  /\ next' = [next EXCEPT ![a] = @ + 1]
  /\ owner' = [owner EXCEPT ![a] = IF @ = None THEN o ELSE @]

\* publish: an event that arises here, whoever owns the aggregate.
PublishEvent(e) == AppendRow(e, None)

\* replay of the event whose number is next, for the owner or a first owner.
ReplayNew(e, o) ==
  /\ owner[AggregateOf[e]] \in {None, o}
  /\ AppendRow(e, o)

\* replay of an event the log has: it may only give an owner.
ReplayStored(r, o) ==
  /\ owner[r.aggregate] = None
  /\ owner' = [owner EXCEPT ![r.aggregate] = o]
  /\ UNCHANGED <<rows, next>>

ClaimAggregate(a, o) ==
  /\ next[a] > 0
  /\ owner' = [owner EXCEPT ![a] = o]
  /\ UNCHANGED <<rows, next>>

RemoveAggregate(a) ==
  /\ rows' = {r \in rows : r.aggregate # a}
  /\ next' = [next EXCEPT ![a] = 0]
  /\ owner' = [owner EXCEPT ![a] = None]

LogNext ==
  \/ \E e \in Events : PublishEvent(e)
  \/ \E e \in Events, o \in Owners \union {None} : ReplayNew(e, o)
  \/ \E r \in rows, o \in Owners : ReplayStored(r, o)
  \/ \E a \in Aggregates, o \in Owners : ClaimAggregate(a, o)
  \/ \E a \in Aggregates : RemoveAggregate(a)

LogSpec == LogInit /\ [][LogNext]_logVars

-----------------------------------------------------------------------------
(* The numbers of an aggregate's events are those below next, each given   *)
(* to one event, of this aggregate.                                        *)
NumbersAreDense ==
  \A a \in Aggregates :
    {r.seq : r \in {q \in rows : q.aggregate = a}} = 0 .. next[a] - 1

OneEventPerNumber ==
  \A r, q \in rows : r.aggregate = q.aggregate /\ r.seq = q.seq => r = q

OneRowPerId ==
  \A r, q \in rows : IdOf[r.event] = IdOf[q.event] => r = q

(* A log is what a reader with a cursor may rely on: no number is missing  *)
(* or given twice, and no event is stored twice.                           *)
LogIsSound ==
  /\ NumbersAreDense
  /\ OneEventPerNumber
  /\ OneRowPerId
  /\ \A r \in rows : r.aggregate = AggregateOf[r.event]
  /\ \A a \in Aggregates : next[a] = 0 => owner[a] = None
=============================================================================
