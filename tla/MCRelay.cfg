CONSTANTS
  Posts = {p1, p2}
  Streams = {s1}
  Notes = {n1, n2}
  MaxTraffic = 3
  Capacity = 1
  Backlog = 1
  Closers = {front}
  Pump = pump
  None = none
SPECIFICATION Spec
INVARIANT Conserved
PROPERTIES KeepsPromise StreamsEnd AnswerArrives
CHECK_DEADLOCK FALSE
