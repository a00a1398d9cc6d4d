CONSTANTS
  Posts = {p1}
  Streams = {s1}
  Notes = {n1}
  MaxTraffic = 2
  Capacity = 1
  Backlog = 1
  Closers = {front}
  Pump = pump
  None = none
SPECIFICATION Safety
INVARIANT KeptUntilStream
CHECK_DEADLOCK FALSE
