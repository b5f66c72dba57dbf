----------------------------- MODULE MCRegistry -----------------------------
(* Instances of Registry for TLC.                                          *)
EXTENDS Registry, TLC

CONSTANTS p1, p2

(* Actors are interchangeable.                                             *)
Swap == Permutations(Actors)
=============================================================================
