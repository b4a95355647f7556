\* Two models, two loads, two machines, and two disturbances.
CONSTANTS
  Models = {m1, m2}
  Loads = {l1, l2}
  Files <- MCFiles
  Hardware = {h1, h2}
  Blind = Blind
  None = None
  MaxFaults = 2
SPECIFICATION Spec
SYMMETRY Symmetry
CHECK_DEADLOCK FALSE
INVARIANTS CachedConfigMeasuredHere ResetSticks SavedEntrySurvives
