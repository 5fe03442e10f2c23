-------------------------- MODULE MCPermissionGate --------------------------
(* Two asks of one session that share a pattern.                           *)
EXTENDS PermissionGate

CONSTANTS a1, a2, h1, h2

MCSessionOf == [a \in Asks |-> "s"]
MCPatternOf == [a \in Asks |-> "p"]
=============================================================================
