SPECIFICATION EndingSpec
CONSTANTS
  Calls = {c1, c2}
  Queries = {q1}
  Slots = {s1, s2}
  Methods = {m1}
  Capacity = 1
  MaxUpdates = 1
INVARIANTS
  TypeOK
  KnownSlot
  LastRecorded
PROPERTIES
  NoResultWhileRunning
  FinalRecorded
  Answered
  ImplementsTasks
