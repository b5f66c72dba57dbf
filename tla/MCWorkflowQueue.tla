-------------------------- MODULE MCWorkflowQueue --------------------------
(* Instances of WorkflowQueue for TLC.                                     *)
EXTENDS WorkflowQueue

CONSTANTS w1, w2, w3, o1, o2, q1, q2, k1, s1, s2, s3

(* No request carries a key; two requests retry under one key.             *)
Unkeyed == [q \in Requests |-> NoKey]
KeyedPair == [q \in {q1, q2} |-> k1]
=============================================================================
