SPECIFICATION Spec
CONSTANTS
  Resources = {cpu, mem}
  Requests = {q1, q2}
  Amounts = {1, 2}
  MaxAdded = 2
INVARIANT NeverOverfull
CHECK_DEADLOCK FALSE
