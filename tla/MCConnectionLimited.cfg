CONSTANTS
  InRequests = {r1, r2}
  Notes = {n1}
  OutRequests = {o1}
  MaxParallelism = 1
  FailingWrites = {"result", "error", "request", "undispatched"}
SPECIFICATION Spec
SYMMETRY Symmetry
INVARIANTS TypeOK NoLostWakeup InFlightExact NoOrphanPromise CancelsAndRepliesExact
CHECK_DEADLOCK FALSE
