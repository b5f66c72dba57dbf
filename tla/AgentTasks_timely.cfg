SPECIFICATION FairSpec
CONSTANTS
  w1 = w1
  w2 = w2
  q1 = q1
  q2 = q2
  q3 = q3
  k1 = k1
  NoKey = NoKey
  NoExecutor = NoExecutor
  KeyOf <- SomeKeys
  MaxTasks = 2
  Workers = {w1, w2}
  Requests = {q1, q2, q3}
  MaxAttempts = 2
  Backends = {"db", "celery"}
  SlowRuns = FALSE
INVARIANT OneTaskPerKey
INVARIANT OneExecutor
PROPERTY AnswersStand
PROPERTY SettledOrStranded
PROPERTY ImplementsLifecycle
CHECK_DEADLOCK FALSE
