--------------------------- MODULE MCOrchestrator ---------------------------
(* Instances of Orchestrator for TLC.                                      *)
EXTENDS Orchestrator

CONSTANTS a, b, c, d, ghost

(* Chains, forks, joins and diamonds over four steps, with the cycles,     *)
(* self-loops and names of missing steps that depends_on may hold.         *)
ManyGraphs ==
  {[t \in Tasks |-> CASE t = a -> da [] t = b -> db [] t = c -> dc [] t = d -> dd] :
     da \in {{}, {d}, {ghost}},
     db \in SUBSET {a, b, c},
     dc \in SUBSET {a, b, d},
     dd \in SUBSET {a, b, c}}

RetryA == [t \in Tasks |-> IF t = a THEN 1 ELSE 0]

(* a -> b -> c                                                             *)
Chain == {[t \in Tasks |-> CASE t = a -> {} [] t = b -> {a} [] t = c -> {b}]}
=============================================================================
