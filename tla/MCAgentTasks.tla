---------------------------- MODULE MCAgentTasks ----------------------------
(* Instances of AgentTasks for TLC.                                        *)
EXTENDS AgentTasks

CONSTANTS w1, w2, q1, q2, q3, k1

(* Two submits retry under one key, the others carry none.                 *)
SomeKeys == [q \in Requests |-> IF q \in {q1, q2} THEN k1 ELSE NoKey]
=============================================================================
