-------------------------- MODULE MCRunCoordinator --------------------------
(* All calls are about one key.                                            *)
EXTENDS RunCoordinator

CONSTANTS k1, r1, r2, w1, w2, i1

MCKeyOf == [c \in Runs \union Wakes \union Interrupts |-> k1]
=============================================================================
