SPECIFICATION FairSpec
CONSTANTS
  Calls = {call1, call2, call3}
  Conns = {conn1, conn2, conn3, conn4}
  NoConn = NoConn
  Max = 1
  Retries = 1
  MaxGivenUp = 1
INVARIANTS
  TypeOK
  Exclusive
  NoWastedCapacity
  ClosedPoolDrains
PROPERTIES
  WaiterIsServed
CHECK_DEADLOCK FALSE
