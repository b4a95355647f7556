\* One slot (a configured 0 is clamped to 1), two requests, two goroutines that
\* drain or carry a timer callback.
CONSTANTS
  Callers = {c1, c2}
  Drainers = {d1, d2}
  Slots = 0
SPECIFICATION SchedSpec
INVARIANTS TypeOK SlotAccounting DrainSparesInFlight NoLostWakeup IdleHasWayOut ProcessOwned
PROPERTIES ImplementsGate CancelledWaiterReturns DrainCompletes IdleEventuallyStops UnregisteredProcessExits
