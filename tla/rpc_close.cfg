SPECIFICATION Spec
CONSTANTS
  Clients = {k1}
  Users = {u1}
  CSlots = {n1, n2}
  Slots = {n3}
  MaxUpdates = 0
  Capacity = 1
  MaxOps = 2
PROPERTIES
  CloseUnsubscribes
CHECK_DEADLOCK FALSE
