---------------------------- MODULE MCGovernance ----------------------------
(* Instances of Governance for TLC.                                        *)
EXTENDS Governance

CONSTANTS x1, x2, d1, d2, u1, u2, r1
=============================================================================
