SPECIFICATION FairSpec
CONSTANTS
  a = a
  b = b
  c = c
  d = d
  ghost = ghost
  Tasks = {a, b, c, d}
  Graphs <- ManyGraphs
  Agentless = {b}
  RetryLimit <- RetryA
  MaxParallel = 2
INVARIANT DependenciesFirst
INVARIANT CompletedIsComplete
INVARIANT FailureAccountsForAll
INVARIANT StallHasCause
INVARIANT RecordsConsistent
PROPERTY Ends
CHECK_DEADLOCK FALSE
