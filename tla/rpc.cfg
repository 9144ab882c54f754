SPECIFICATION Spec
CONSTANTS
  Clients = {k1}
  Users = {u1, u2}
  CSlots = {n1, n2}
  Slots = {n2, n3}
  MaxUpdates = 0
  Capacity = 1
  MaxOps = 2
INVARIANTS
  TypeOK
  OneSlotPerQueue
  OneAnswer
PROPERTIES
  CallsReturn
  ReportsArrive
CHECK_DEADLOCK FALSE
