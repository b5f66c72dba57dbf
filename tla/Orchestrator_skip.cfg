SPECIFICATION Spec
CONSTANTS
  a = a
  b = b
  c = c
  d = d
  ghost = ghost
  Tasks = {a, b, c}
  Graphs <- Chain
  Agentless = {}
  RetryLimit <- RetryA
  MaxParallel = 2
INVARIANT DownstreamSkipped
CHECK_DEADLOCK FALSE
