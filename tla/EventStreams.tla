---------------------------- MODULE EventStreams ----------------------------
(***************************************************************************)
(* Who follows the event store.  A stream of `durable` reads the history   *)
(* of its aggregate and subscribes to its wakes, and reads on after every  *)
(* wake; the sender of the wakes goes when a wake finds at most one        *)
(* subscriber, and its streams end.  A client of the server's session      *)
(* event endpoint reads a page of the history, if it names a cursor, and   *)
(* subscribes to the server's event bus, on which emit_event puts an event *)
(* after it has published it to the store.                                 *)
(*                                                                         *)
(* A commit is the step of EventStore; the wake and the emission are later *)
(* steps of the same call, so a call in progress is a record in `calls`.   *)
(* Neither channel is filled to its capacity (16 wakes, the bus of the     *)
(* server): no receiver lags.  emit_event also emits an event the store    *)
(* refuses, without a number; `got` holds the numbered events.             *)
(***************************************************************************)
EXTENDS EventStore, Sequences, FiniteSets, SequencesExt

CONSTANTS
  Streams,   \* calls of durable
  Clients,   \* requests for the events of a session
  PageSize   \* what a client gets of the history

ASSUME EventStreamsAssumption == PageSize \in Nat \ {0}

VARIABLES
  calls,    \* commits whose call has not returned
  stream,   \* pc ("idle", "read", "live", "ended"), aggregate, and
            \*   from    the first number asked for
            \*   cursor  the next number to read
            \*   got     the numbers delivered
            \*   since   history: the log's length when it subscribed
            \*   wired   its channel's sender is there
            \*   wakes   wakes received and not handled yet
  client    \* pc ("idle", "read", "live", "closed"), aggregate, from, got

followVars == <<calls, stream, client>>
vars == <<storeVars, followVars>>

Init ==
  /\ StoreInit
  /\ calls = {}
  /\ stream = [s \in Streams |-> [pc |-> "idle", aggregate |-> None, from |-> 0, cursor |-> 0,
                                  got |-> <<>>, since |-> 0, wired |-> FALSE, wakes |-> 0]]
  /\ client = [c \in Clients |-> [pc |-> "idle", aggregate |-> None, from |-> 0, got |-> <<>>]]

-----------------------------------------------------------------------------
(* Commits.                                                                *)

Begin(e, emits) ==
  calls' = calls \union {[seq |-> memory.next[AggregateOf[e]], event |-> e,
                          emits |-> emits, woken |-> FALSE]}

\* emit_event publishes to the store, and will emit on the bus.
EmitEvent(e) ==
  /\ Publish(e)
  /\ Begin(e, TRUE)
  /\ UNCHANGED <<stream, client>>

ReplayEvent(e, n, o) ==
  /\ ReplayNext(e, n, o)
  /\ Begin(e, FALSE)
  /\ UNCHANGED <<stream, client>>

\* What nobody is told of.
SilentStep ==
  /\ \/ \E e \in Events, o \in Owners : \E n \in 0 .. memory.next[AggregateOf[e]] : ReplayAgain(e, n, o)
     \/ \E c \in Claims : FinishClaim(c) \/ \E a \in Aggregates, o \in Owners : PersistClaim(c, a, o)
     \/ \E r \in Removals : FinishRemoval(r) \/ \E a \in Aggregates : PersistRemoval(r, a)
  /\ UNCHANGED followVars

\* Mutant: one of the subscribers takes the wake.
WakeOne(k) ==
  LET wired == {s \in Streams : stream[s].wired /\ stream[s].aggregate = AggregateOf[k.event]} IN
  /\ ~k.woken
  /\ wired # {}
  /\ \E s \in wired : stream' = [stream EXCEPT ![s].wakes = @ + 1]
  /\ calls' = (calls \ {k}) \union (IF k.emits THEN {[k EXCEPT !.woken = TRUE]} ELSE {})
  /\ UNCHANGED <<storeVars, client>>

\* wake_aggregate, after the mutex is released.
Wake(k) ==
  LET wired == {s \in Streams : stream[s].wired /\ stream[s].aggregate = AggregateOf[k.event]} IN
  /\ ~k.woken
  /\ stream' = [s \in Streams |->
       IF s \in wired THEN [stream[s] EXCEPT !.wakes = @ + 1, !.wired = Cardinality(wired) > 1]
                      ELSE stream[s]]
  /\ calls' = (calls \ {k}) \union (IF k.emits THEN {[k EXCEPT !.woken = TRUE]} ELSE {})
  /\ UNCHANGED <<storeVars, client>>

\* The end of emit_event: the bus passes the event to who listens.
Emit(k) ==
  /\ k.woken
  /\ calls' = calls \ {k}
  /\ client' = [c \in Clients |->
       IF client[c].pc = "live" /\ client[c].aggregate = AggregateOf[k.event]
         THEN [client[c] EXCEPT !.got = Append(@, [seq |-> k.seq, event |-> k.event])]
         ELSE client[c]]
  /\ UNCHANGED <<storeVars, stream>>

-----------------------------------------------------------------------------
(* Streams and clients.                                                    *)

\* read_after: the rows of a from number n on, in order; i - 1 of them come
\* before the i-th.
ReadFrom(a, n) ==
  LET page == {r \in memory.rows : r.aggregate = a /\ r.seq >= n}
  IN  [i \in 1 .. Cardinality(page) |->
         CHOOSE r \in page : Cardinality({q \in page : q.seq < r.seq}) = i - 1]

Numbers(events) == [i \in DOMAIN events |-> events[i].seq]

\* Mutant: the cursor is left where it was.
DeliverAgain(str) ==
  LET events == ReadFrom(str.aggregate, str.cursor)
  IN  [str EXCEPT !.got = @ \o Numbers(events)]

\* Reads on: the cursor follows the last event read.
Deliver(str) ==
  LET events == ReadFrom(str.aggregate, str.cursor)
  IN  [str EXCEPT !.got = @ \o Numbers(events),
                  !.cursor = IF events = <<>> THEN @ ELSE Last(events).seq + 1]

\* durable: the history first, the subscription second.
OpenStream(s, a, n) ==
  /\ stream[s].pc = "idle"
  /\ stream' = [stream EXCEPT ![s] =
       Deliver([@ EXCEPT !.pc = "read", !.aggregate = a, !.from = n, !.cursor = n])]
  /\ UNCHANGED <<storeVars, calls, client>>

SubscribeStream(s) ==
  /\ stream[s].pc = "read"
  /\ stream' = [stream EXCEPT ![s] =
       [@ EXCEPT !.pc = "live", !.wired = TRUE, !.since = memory.next[stream[s].aggregate]]]
  /\ UNCHANGED <<storeVars, calls, client>>

ReadOn(s) ==
  /\ stream[s].pc = "live"
  /\ stream[s].wakes > 0
  /\ stream' = [stream EXCEPT ![s] = [Deliver(stream[s]) EXCEPT !.wakes = stream[s].wakes - 1]]
  /\ UNCHANGED <<storeVars, calls, client>>

\* The sender is gone, or the consumer drops the stream.
EndStream(s) ==
  /\ stream[s].pc = "live"
  /\ stream' = [stream EXCEPT ![s] = [@ EXCEPT !.pc = "ended", !.wired = FALSE, !.wakes = 0]]
  /\ UNCHANGED <<storeVars, calls, client>>

\* session_event_stream: a page of the history after a cursor, or none.
OpenClient(c, a, n) ==
  LET events == ReadFrom(a, n)
      page   == SubSeq(events, 1, IF Len(events) < PageSize THEN Len(events) ELSE PageSize)
  IN
  /\ client[c].pc = "idle"
  /\ client' = [client EXCEPT ![c] =
       [pc |-> "read", aggregate |-> a, from |-> n,
        got |-> [i \in DOMAIN page |-> [seq |-> page[i].seq, event |-> page[i].event]]]]
  /\ UNCHANGED <<storeVars, calls, stream>>

OpenClientLive(c, a) ==
  /\ client[c].pc = "idle"
  /\ client' = [client EXCEPT ![c] = [@ EXCEPT !.pc = "read", !.aggregate = a]]
  /\ UNCHANGED <<storeVars, calls, stream>>

SubscribeClient(c) ==
  /\ client[c].pc = "read"
  /\ client' = [client EXCEPT ![c].pc = "live"]
  /\ UNCHANGED <<storeVars, calls, stream>>

CloseClient(c) ==
  /\ client[c].pc = "live"
  /\ client' = [client EXCEPT ![c].pc = "closed"]
  /\ UNCHANGED <<storeVars, calls, stream>>

-----------------------------------------------------------------------------
\* A restart ends the calls, the streams and the connections.
Restart ==
  /\ RestartStore
  /\ calls' = {}
  /\ stream' = [s \in Streams |->
       IF stream[s].pc = "idle" THEN stream[s]
       ELSE [stream[s] EXCEPT !.pc = "ended", !.wired = FALSE, !.wakes = 0]]
  /\ client' = [c \in Clients |->
       IF client[c].pc = "idle" THEN client[c] ELSE [client[c] EXCEPT !.pc = "closed"]]

Next ==
  \/ \E e \in Events : EmitEvent(e)
  \/ \E e \in Events, o \in Owners \union {None} :
       \E n \in 0 .. memory.next[AggregateOf[e]] : ReplayEvent(e, n, o)
  \/ SilentStep
  \/ \E k \in calls : Wake(k) \/ Emit(k)
  \/ \E s \in Streams, a \in Aggregates :
       \E n \in 0 .. memory.next[a] : OpenStream(s, a, n)
  \/ \E s \in Streams : SubscribeStream(s) \/ ReadOn(s) \/ EndStream(s)
  \/ \E c \in Clients, a \in Aggregates :
       OpenClientLive(c, a) \/ \E n \in 0 .. memory.next[a] : OpenClient(c, a, n)
  \/ \E c \in Clients : SubscribeClient(c) \/ CloseClient(c)
  \/ Restart

Spec == Init /\ [][Next]_vars

-----------------------------------------------------------------------------
(* Properties.                                                             *)

(* A durable stream delivers the events after its cursor in order, none    *)
(* twice and none left out in between, whatever commits and wakes come     *)
(* between its reads, and across the removal of its aggregate.             *)
StreamInOrder ==
  \A s \in Streams : \A i \in DOMAIN stream[s].got : stream[s].got[i] = stream[s].from + i - 1

(* The wakes are enough: a live stream that has handled its wakes lacks,   *)
(* of the events committed since it subscribed, only those whose commit    *)
(* has not sent its wake yet.                                              *)
StreamIsCaughtUp ==
  \A s \in Streams :
    stream[s].pc = "live" /\ stream[s].wired /\ stream[s].wakes = 0 =>
      \A r \in memory.rows :
        r.aggregate = stream[s].aggregate /\ r.seq >= stream[s].since =>
          \/ r.seq < stream[s].cursor
          \/ \E k \in calls : ~k.woken /\ k.event = r.event

(* What a client has seen is not taken back: an event shown to a client    *)
(* with a number is stored in SQLite under this number, so that a restart  *)
(* finds it again, unless its session has been removed.                    *)
ShownIsStored ==
  \A c \in Clients : \A i \in DOMAIN client[c].got :
    LET shown == client[c].got[i] IN
    \/ Row(shown.seq, shown.event) \in disk.rows
    \/ \E r \in Removals : removal[r].aggregate = client[c].aggregate
=============================================================================
