CONSTANTS
  a = a
  b = b
  Namespaces = {a, b}
  Root = root
  Conns = {c1}
  Lists <- MCFew
  Limit = 1
  MaxChanges = 1
SPECIFICATION Safety
INVARIANTS StopEndsAll
CHECK_DEADLOCK FALSE
