SPECIFICATION Spec
CONSTANTS
  k1 = k1
  k2 = k2
  l1 = l1
  l2 = l2
  l3 = l3
  Clients = {k1,k2}
  Leases = {l1,l2,l3}
  OwnerOf <- MCOwnerOf
  MaxConnects = 2
  MaxCalls = 3
  MaxFaults = 1
  Latency = FALSE
  None = None
INVARIANTS
  OneRuntimeInUse
  ResponseUnderWay
  
  Exclusive
CHECK_DEADLOCK FALSE
