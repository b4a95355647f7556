\* A request that resolved its model before a rescan removed it.
CONSTANTS
  Models = {m1}
  Requests = {r1}
  None = None
  MaxInstances = 0
  Slots = 1
  Evictable = {m1}
  Unloading = {}
SPECIFICATION Spec
CHECK_DEADLOCK FALSE
INVARIANT NoGhost
