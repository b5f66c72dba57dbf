SPECIFICATION Spec
CONSTANT p1 = p1
CONSTANT p2 = p2
CONSTANT s1 = s1
CONSTANT s2 = s2
CONSTANT Processes = {p1, p2}
CONSTANT Spans = {s1, s2}
CONSTANT Interval = 2
CONSTANT Limit = 1
CONSTANT TriggerLimit = 1
CONSTANT Window = 2
CONSTANT Lifetimes <- MCLifetimes
CONSTANT MaxTime = 6
CONSTANT MaxStarts = 3
SYMMETRY Swap
INVARIANT QuotaHolds
INVARIANT MemoryFresh
INVARIANT ExportedArrived
PROPERTY RunsSpaced
CHECK_DEADLOCK FALSE
