---------------------------- MODULE MCToolAccess ----------------------------
(* Instances of ToolAccess for TLC.                                        *)
EXTENDS ToolAccess, TLC

CONSTANTS r1, r2

(* Runs are interchangeable.                                               *)
Swap == Permutations(Runs)
=============================================================================
