SPECIFICATION Spec
CONSTANTS
  w1 = w1
  w2 = w2
  w3 = w3
  o1 = o1
  o2 = o2
  q1 = q1
  q2 = q2
  k1 = k1
  s1 = s1
  s2 = s2
  s3 = s3
  NoKey = NoKey
  NoWorker = NoWorker
  MaxRuns = 2
  DbWorkers = {w1}
  TaskWorkers = {w2, w3}
  InlineRunners = {}
  Operators = {o1}
  Requests = {q1, q2}
  KeyOf <- KeyedPair
  Steps = {s1, s2, s3}
  Agentless = {s3}
  MaxAttempts = 2
  Broker = TRUE
  SlowSteps = FALSE
INVARIANT OneExecutor
INVARIANT RunningIsRecoverable
INVARIANT CompletedHasAllOutputs
INVARIANT OneRunPerKey
PROPERTY SettledStays
PROPERTY OutputsSurvive
PROPERTY ImplementsLifecycle
CHECK_DEADLOCK FALSE
