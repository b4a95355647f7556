\* Two callers of Stop, three lines through a pipe that holds two.
CONSTANTS
  Stoppers = {s1, s2}
  PipeCap = 2
  MaxLines = 3
SPECIFICATION FairSpec
CHECK_DEADLOCK FALSE
INVARIANT OOMReachesTuner
PROPERTY StopEndsChild
