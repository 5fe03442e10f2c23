---------------------------- MODULE SessionInbox ----------------------------
(***************************************************************************)
(* What the inboxes of the sessions promise: a durable queue with a single *)
(* consumer per session.  The operations are those of the server's state,  *)
(* enqueue_session_input to mark_session_inputs_promoted, and the loading  *)
(* of the rows at the start of the server.                                 *)
(*                                                                         *)
(* A prompt is recorded, gets its row and then its place in the inbox.     *)
(* The consumer takes inputs out, the oldest queued one or a batch of      *)
(* steers, and marks their rows; until it has done so it takes no more, so *)
(* inputs are promoted in the order in which they are taken.  A crash puts *)
(* back what was taken and not marked.  There is no word here of who       *)
(* consumes: SessionRuns, where any number of scheduler tasks, aborts and  *)
(* interruptions compete for a session, is shown to be a single consumer.  *)
(***************************************************************************)
EXTENDS Naturals

CONSTANTS
  Sessions,   \* session ids
  Prompts,    \* prompts that may be submitted
  SessionOf   \* the session a prompt is addressed to

VARIABLES
  exists,     \* stores.sessions contains the session
  count,      \* the number of prompts among the session's messages
  stage,      \* how far the prompt has come: see Stages
  delivery,   \* "steer" or "queue"
  seq,        \* admitted_seq
  row,        \* session_input table: "none", "pending" or "promoted"
  inbox,      \* pending_inputs: session -> prompts
  taken       \* inputs the consumer of the session has taken and not marked

admission == <<exists, count, stage, delivery, seq>>
inboxVars == <<exists, count, stage, delivery, seq, row, inbox, taken>>

(* "over" is a prompt that is in the inbox or beyond, or never gets there. *)
Stages == {"new", "recorded", "entering", "over"}

InboxInit ==
  /\ exists = [s \in Sessions |-> TRUE]
  /\ count = [s \in Sessions |-> 0]
  /\ stage = [p \in Prompts |-> "new"]
  /\ delivery = [p \in Prompts |-> "steer"]
  /\ seq = [p \in Prompts |-> 0]
  /\ row = [p \in Prompts |-> "none"]
  /\ inbox = [s \in Sessions |-> {}]
  /\ taken = [s \in Sessions |-> {}]

-----------------------------------------------------------------------------
(* The way into the inbox.                                                 *)

Advance(p, from, to) == stage[p] = from /\ stage' = [stage EXCEPT ![p] = to]

\* The message gets its number; only a session that exists takes it.
Record(p) ==
  LET s == SessionOf[p] IN
  /\ exists[s]
  /\ Advance(p, "new", "recorded")
  /\ count' = [count EXCEPT ![s] = @ + 1]
  /\ seq' = [seq EXCEPT ![p] = count[s] + 1]
  /\ \E d \in {"steer", "queue"} : delivery' = [delivery EXCEPT ![p] = d]
  /\ UNCHANGED <<exists, row, inbox, taken>>

\* enqueue_session_input, first half
Persist(p) ==
  /\ Advance(p, "recorded", "entering")
  /\ row' = [row EXCEPT ![p] = "pending"]
  /\ UNCHANGED <<exists, count, delivery, seq, inbox, taken>>

\* enqueue_session_input, second half
Enter(p) ==
  /\ Advance(p, "entering", "over")
  /\ inbox' = [inbox EXCEPT ![SessionOf[p]] = @ \union {p}]
  /\ UNCHANGED <<exists, count, delivery, seq, row, taken>>

\* The client is gone between the halves: the row is left for the next start.
Withdraw(p) ==
  /\ Advance(p, "entering", "over")
  /\ UNCHANGED <<exists, count, delivery, seq, row, inbox, taken>>

-----------------------------------------------------------------------------
(* The consumer.                                                           *)

Waiting(s, d) == {p \in inbox[s] : delivery[p] = d}

\* It takes a batch only with empty hands.
Take(s, batch) ==
  /\ taken[s] = {}
  /\ inbox' = [inbox EXCEPT ![s] = @ \ batch]
  /\ taken' = [taken EXCEPT ![s] = batch]
  /\ UNCHANGED <<admission, row>>

\* promote_next_session_queue: the oldest queued input.
TakeQueued(s) ==
  \E p \in Waiting(s, "queue") :
    /\ \A q \in Waiting(s, "queue") : seq[p] <= seq[q]
    /\ Take(s, {p})

\* promote_session_steers: some steers, and every one that is not newer.
TakeSteers(s) ==
  \E batch \in SUBSET Waiting(s, "steer") :
    /\ \A p \in batch, q \in Waiting(s, "steer") : seq[q] <= seq[p] => q \in batch
    /\ Take(s, batch)

\* mark_session_inputs_promoted
MarkTaken(s) ==
  /\ row' = [p \in Prompts |-> IF p \in taken[s] /\ row[p] # "none" THEN "promoted" ELSE row[p]]
  /\ taken' = [taken EXCEPT ![s] = {}]
  /\ UNCHANGED <<admission, inbox>>

-----------------------------------------------------------------------------
\* session_delete: the rows go, and so do the messages that were counted.
Delete(s) ==
  /\ exists[s]
  /\ exists' = [exists EXCEPT ![s] = FALSE]
  /\ count' = [count EXCEPT ![s] = 0]
  /\ row' = [p \in Prompts |-> IF SessionOf[p] = s THEN "none" ELSE row[p]]
  /\ UNCHANGED <<stage, delivery, seq, inbox, taken>>

\* load_persisted_sessions: the inbox is what the pending rows say.
Reload ==
  /\ inbox' = [s \in Sessions |-> {p \in Prompts : SessionOf[p] = s /\ row[p] = "pending"}]
  /\ taken' = [s \in Sessions |-> {}]
  /\ stage' = [p \in Prompts |-> IF stage[p] = "new" THEN "new" ELSE "over"]
  /\ UNCHANGED <<exists, count, delivery, seq, row>>

InboxNext ==
  \/ \E p \in Prompts : Record(p) \/ Persist(p) \/ Enter(p) \/ Withdraw(p)
  \/ \E s \in Sessions : TakeQueued(s) \/ TakeSteers(s) \/ MarkTaken(s) \/ Delete(s)
  \/ Reload

InboxSpec == InboxInit /\ [][InboxNext]_inboxVars
=============================================================================
