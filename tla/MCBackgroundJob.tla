--------------------------- MODULE MCBackgroundJob --------------------------
(* All calls are about one job id.  Besides two starts and an extension,   *)
(* one more caller takes part: a second extension, a wait, or a wait for   *)
(* the promotion.                                                          *)
EXTENDS BackgroundJob, TLC

CONSTANTS j1, c1, c2, e1, e2, w1, v1

MCIdOf == [c \in Segments \union Waits \union Watches |-> j1]

Called ==
  {c \in Segments : segment[c].pc # "idle"} \union {w \in Waits : wait[w].pc # "idle"}
     \union {w \in Watches : watch[w].pc # "idle"}

OneMoreCaller == Cardinality(Called' \ {c1, c2, e1}) <= 1

MCSpec == JobInit /\ [][JobNext /\ OneMoreCaller]_jobVars /\ JobFairness
=============================================================================
