\* Two requests with concurrent cancels and one repository fault; no
\* symmetry, as TLC's liveness checking does not support it soundly.
CONSTANTS
  o1 = o1
  o2 = o2
  o3 = o3
  NoHolder = NoHolder
  Orders <- MCOrders2
  MaxDbFaults = 1
SPECIFICATION Spec
PROPERTY EveryRequestReturns
\* All requests served: the workload is finite, so the system stops.
CHECK_DEADLOCK FALSE
