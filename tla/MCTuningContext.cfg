\* The instance that a successful tuning run returns.
CONSTANTS
  GGUFs <- MCGGUFs
  Capacities <- MCCapacities
SPECIFICATION Spec
CHECK_DEADLOCK FALSE
INVARIANT ReturnedInstanceSurvives
