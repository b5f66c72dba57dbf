SPECIFICATION Spec
CONSTANTS
  r1 = r1
  r2 = r2
  Runs = {r1, r2}
  Tools = {"t"}
  Connectors = {"conn"}
  Threshold = 2
  Boundary = {TRUE, FALSE}
  BlockPrivate = FALSE
  McpEnabled = TRUE
  Retarget = FALSE
SYMMETRY Swap
INVARIANT CallsSanctioned
INVARIANT BreakerExact
PROPERTY DisabledStaysUnbound
