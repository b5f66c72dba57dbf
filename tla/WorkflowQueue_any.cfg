SPECIFICATION Spec
CONSTANTS
  w1 = w1
  w2 = w2
  w3 = w3
  o1 = o1
  o2 = o2
  q1 = q1
  q2 = q2
  k1 = k1
  s1 = s1
  s2 = s2
  s3 = s3
  NoKey = NoKey
  NoWorker = NoWorker
  MaxRuns = 1
  DbWorkers = {w1}
  TaskWorkers = {w2}
  InlineRunners = {w3}
  Operators = {o1, o2}
  Requests = {q1}
  KeyOf <- Unkeyed
  Steps = {s1}
  Agentless = {}
  MaxAttempts = 2
  Broker = TRUE
  SlowSteps = TRUE
INVARIANT PoisonBounded
CHECK_DEADLOCK FALSE
