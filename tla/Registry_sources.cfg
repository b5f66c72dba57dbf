SPECIFICATION Spec
CONSTANTS
  p1 = p1
  p2 = p2
  Actors = {p1, p2}
  Platforms = {"bedrock"}
  Manual = {"manual"}
  Reviewed = {"bedrock"}
  MaxDisturbed = 1
  Faults = TRUE
SYMMETRY Swap
INVARIANT EntryFollowsSource
INVARIANT NeverLiveNeverFound
PROPERTY VerdictStands
