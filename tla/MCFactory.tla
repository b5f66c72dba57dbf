------------------------------ MODULE MCFactory ------------------------------
EXTENDS Factory, TLC

CONSTANTS r1, r2, d1, d2, a1, a2, i1, i2

(* A finding of low risk, ready to approve; one of high risk without data. *)
Clear == [type |-> "rework_pattern", impact |-> 2, risks |-> 0, systems |-> 2,
          enterprise |-> FALSE, notes |-> FALSE]
Severe == [type |-> "control_gap", impact |-> 1, risks |-> 5, systems |-> 0,
           enterprise |-> FALSE, notes |-> TRUE]

MCFindings == {Clear}
(* One that permits an agent, one that does not, and an invalid one.       *)
MCDocuments ==
  {[ok |-> TRUE, permits |-> TRUE, design |-> d1, risk |-> "low",
    finding |-> Clear, missing |-> "none"],
   [ok |-> TRUE, permits |-> FALSE, design |-> d2, risk |-> "low",
    finding |-> Clear, missing |-> "tools"],
   [ok |-> FALSE, permits |-> TRUE, design |-> d1, risk |-> "low",
    finding |-> Clear, missing |-> "none"]}

MCBodies == {[design |-> d2, risk |-> "unsent", missing |-> "unsent"],
             [design |-> d1, risk |-> "blocked", missing |-> "none"]}

Swap == Permutations({r1, r2}) \union Permutations({a1, a2}) \union Permutations({i1, i2})
=============================================================================
