\* One line through the pipe, and the race of cmd.Wait with its reader.
CONSTANTS
  Stoppers = {s1}
  PipeCap = 1
  MaxLines = 1
SPECIFICATION Spec
CHECK_DEADLOCK FALSE
INVARIANT OOMClassified
