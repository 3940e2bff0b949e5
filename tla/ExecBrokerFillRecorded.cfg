\* Expected violation of BrokerFillRecorded.
CONSTANTS
  o1 = o1
  o2 = o2
  o3 = o3
  NoHolder = NoHolder
  Orders <- MCOrders2
  MaxDbFaults = 0
SPECIFICATION Spec
PROPERTY BrokerFillRecorded
CHECK_DEADLOCK FALSE
