\* A rescan whose client leaves while the directories are walked.
CONSTANTS
  NumPlaces = 2
  Content <- MCContent
  Is <- MCIs
  Clients = {c1}
  MaxChanges = 0
SPECIFICATION Spec
CHECK_DEADLOCK FALSE
INVARIANT RescanKeepsPresentModels
