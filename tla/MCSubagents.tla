---------------------------- MODULE MCSubagents -----------------------------
(* One child session: two starts of its background job, two prompts, one   *)
(* foreground run, one request to cancel.                                  *)
EXTENDS Subagents, TLC

CONSTANTS i1, c1, c2, p1, p2, f1, r1

MCIdOf == [c \in Segments \union Waits \union Watches |-> i1]
MCChildOf == [x \in Prompts \union Foregrounds \union Routes |-> i1]

RunnerSymmetry == Permutations(Starts) \union Permutations(Prompts)
=============================================================================
