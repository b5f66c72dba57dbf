SPECIFICATION FairRuntimeSpec
CONSTANTS
  r1 = r1
  r2 = r2
  r3 = r3
  Runs = {r1, r2}
  Platforms = {"django_runtime"}
  Levels = {"block"}
  Telemetry = {TRUE}
  Caps <- OneCap
  NoCap <- NoCapValue
  MaxMonth = 2
  Faults = TRUE
INVARIANT StoriesAgree
INVARIANT SerialConversation
INVARIANT NoLeakStored
PROPERTY BudgetFlagConverges
CHECK_DEADLOCK FALSE
