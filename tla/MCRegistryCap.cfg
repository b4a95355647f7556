\* Two models that share one place, three requests.
CONSTANTS
  Models = {m1, m2}
  Requests = {r1, r2, r3}
  None = None
  MaxInstances = 1
  Slots = 1
  Evictable = {}
  Unloading = {}
SPECIFICATION Spec
SYMMETRY Symmetry
CHECK_DEADLOCK FALSE
INVARIANTS TypeOK ResidentCap SingleFlight ProcessAccounted SlotlessOnlyWhenClosing SilentOnlyIfCancelled
