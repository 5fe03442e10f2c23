--------------------------- MODULE MCSessionRuns ---------------------------
(* Finite instances of SessionRuns: every prompt goes to the one session.  *)
EXTENDS SessionRuns, TLC

MCSessionOf == [p \in Prompts |-> CHOOSE s \in Sessions : TRUE]
PromptSymmetry == Permutations(Prompts)
=============================================================================
