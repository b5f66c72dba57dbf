---------------------------- MODULE MCOperations ----------------------------
EXTENDS Operations, TLC

CONSTANTS p1, p2, s1, s2

(* A write that lives for two ticks, and one without a time to live.       *)
MCLifetimes == {2, Forever}

Swap == Permutations({p1, p2}) \union Permutations({s1, s2})
=============================================================================
