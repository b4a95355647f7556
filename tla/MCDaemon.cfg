\* Two places, one change, the timer and one request to rescan.
CONSTANTS
  NumPlaces = 2
  Content <- MCContent
  Is <- MCIs
  Clients = {c1}
  MaxChanges = 1
SPECIFICATION FairSpec
CHECK_DEADLOCK FALSE
INVARIANTS RescanOnlyEvictsOrphans ExitLeavesNoneRegistered
PROPERTIES CatalogueConverges ShutdownCompletes
