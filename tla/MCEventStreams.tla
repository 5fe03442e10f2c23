--------------------------- MODULE MCEventStreams ---------------------------
(* Two sessions: the events e1 and e2 are of a1; x1 is of a2 and bears the *)
(* id of e1.  The callers are about a1, and at most MaxCallers of the      *)
(* claims, removals, streams, clients and restarts take part in a          *)
(* behaviour, in every combination.                                        *)
EXTENDS EventStreams, TLC

CONSTANTS a1, a2, e1, e2, x1, MaxCallers

MCAggregateOf == [e \in Events |-> IF e = x1 THEN a2 ELSE a1]
MCIdOf == [e \in Events |-> IF e = x1 THEN e1 ELSE e]

Callers ==
  Cardinality({c \in Claims : claim[c].pc # "idle"})
    + Cardinality({r \in Removals : removal[r].pc # "idle"})
    + Cardinality({s \in Streams : stream[s].pc # "idle"})
    + Cardinality({c \in Clients : client[c].pc # "idle"})
    + restarts

AboutFirst ==
  \A call \in {claim[c] : c \in Claims} \union {removal[r] : r \in Removals}
                \union {stream[s] : s \in Streams} \union {client[c] : c \in Clients} :
    call.aggregate \in {a1, None}

MCSpec == Init /\ [][Next /\ Callers' <= MaxCallers /\ AboutFirst']_vars

CallerSymmetry == Permutations(Claims) \union Permutations(Streams) \union Permutations(Owners)
=============================================================================
