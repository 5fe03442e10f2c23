---------------------------- MODULE MCEventStore ----------------------------
(* One session and two events of it, in any calls of the store.            *)
EXTENDS EventStore

CONSTANTS a1, e1, e2

MCAggregateOf == [e \in Events |-> a1]
MCIdOf == [e \in Events |-> e]
=============================================================================
