SPECIFICATION Spec
CONSTANTS
  Instances = {i1, i2}
  Addresses = {a, b}
  Resources <- MCResources
  Requests <- MCRequests
  Callers = {c1}
  MaxRpcs = 1
  Precision = 1000
INVARIANTS
  TypeOK
  SlotFollowsCall
  SparsestCalled
PROPERTIES
  CallsEnd
CHECK_DEADLOCK FALSE
