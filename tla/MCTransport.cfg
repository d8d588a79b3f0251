SPECIFICATION Spec
CONSTANTS
  Offers <- MCOffers
  NodeCnt = 2
  SendThreadCnt = 2
  RemThreadCnt = 2
  MaxSent = 2
INVARIANTS
  TypeOK
  
PROPERTIES
  ImplementsNetwork
  EventuallyHandled
CHECK_DEADLOCK FALSE
