--------------------------- MODULE MCAgentRuntime ---------------------------
(* Instances of AgentRuntime for TLC.                                      *)
EXTENDS AgentRuntime

CONSTANTS r1, r2, r3

NoCapValue == -1
CapValues == {NoCapValue, 0, 1}
OneCap == {1}
TwoCaps == {0, 1}
=============================================================================
