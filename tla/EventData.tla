----------------------------- MODULE EventData ------------------------------
(***************************************************************************)
(* The events of the durable store.  An event stands for its id, its type  *)
(* and its data; the data names the aggregate (a session) it belongs to,   *)
(* and two events may bear one id.                                         *)
(***************************************************************************)
EXTENDS Integers

CONSTANTS
  Aggregates,
  Events,
  Owners,       \* workspaces and directories
  None,
  AggregateOf,  \* the aggregate an event's data names
  IdOf          \* the id of an event

ASSUME EventAssumption ==
  /\ AggregateOf \in [Events -> Aggregates]
  /\ None \notin Owners
=============================================================================
