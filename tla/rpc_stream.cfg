SPECIFICATION Spec
CONSTANTS
  Clients = {k1}
  Users = {u1}
  CSlots = {n1, n2}
  Slots = {n3, n4}
  MaxUpdates = 1
  Capacity = 1
  MaxOps = 2
INVARIANTS
  RelayedInOrder
PROPERTIES
  CallsReturn
  RequestsHandled
CHECK_DEADLOCK FALSE
