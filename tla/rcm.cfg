SPECIFICATION Spec
CONSTANTS
  Resources = {cpu, mem}
  Requests = {q1, q2}
  Amounts = {1, 2}
  MaxAdded = 2
INVARIANTS
  TypeOK
  Conservation
PROPERTIES
  FullyProvisioned
  Decided
CHECK_DEADLOCK FALSE
