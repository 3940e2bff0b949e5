\* Three concurrent POST /orders requests, each order possibly canceled,
\* one repository call allowed to exhaust its retries.
CONSTANTS
  o1 = o1
  o2 = o2
  o3 = o3
  NoHolder = NoHolder
  Orders <- MCOrders3
  MaxDbFaults = 1
SPECIFICATION Spec
SYMMETRY OrderSymmetry
INVARIANT TypeOK
INVARIANT BrokerAgreement
 
\* All requests served: the workload is finite, so the system stops.
CHECK_DEADLOCK FALSE
