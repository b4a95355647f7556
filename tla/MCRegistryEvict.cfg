\* One model whose file comes and goes, evictions, and two requests,
\* one of which unloads it when it ends.
CONSTANTS
  Models = {m1}
  Requests = {r1, r2}
  None = None
  MaxInstances = 0
  Slots = 1
  Evictable = {m1}
  Unloading = {r1}
SPECIFICATION FairSpec
CHECK_DEADLOCK FALSE
INVARIANT SilentOnlyIfCancelled
PROPERTIES RequestAnswered EvictedLoadDies KeepAliveZeroUnloads
