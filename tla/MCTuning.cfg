\* Four models, every machine over four memory limits.
CONSTANTS
  GGUFs <- MCGGUFs
  Capacities <- MCCapacities
SPECIFICATION FairSpec
CHECK_DEADLOCK FALSE
INVARIANTS TypeOK TunedBest LadderDescends ProbesDoNotOverlap FallbackOnlyOnDeadline
PROPERTY TuningTerminates
