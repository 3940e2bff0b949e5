\* Expected violation of ReturnedOrderCurrent.
CONSTANTS
  o1 = o1
  o2 = o2
  o3 = o3
  NoHolder = NoHolder
  Orders <- MCOrders2
  MaxDbFaults = 1
SPECIFICATION Spec
PROPERTY ReturnedOrderCurrent
CHECK_DEADLOCK FALSE
