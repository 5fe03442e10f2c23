-------------------------- MODULE MCTurnSettlement --------------------------
(***************************************************************************)
(* Two calls in two requests and two drains: a call that fails, declines   *)
(* or is aborted beside another, and a later request or drain after it.    *)
(* The calls are alike, so c1 is the one that is announced first.  Two     *)
(* calls in one drain have the first drain for it: a second one with two   *)
(* calls of its own and none from before is the same again.                *)
(***************************************************************************)
EXTENDS TurnSettlement

CONSTANTS c1, c2

MCCalls == {c1, c2}

InOrder ==
  tool[c2].turn > 0 => tool[c1].turn > 0 /\ (run.drain > 1 => tool[c1].turn < run.first)

MCSpec == Init /\ [][Next /\ InOrder']_vars /\ Fairness
=============================================================================
