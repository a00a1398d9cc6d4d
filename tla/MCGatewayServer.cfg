CONSTANTS
  a = a
  b = b
  Namespaces = {a, b}
  Root = root
  Conns = {c1, c2}
  Lists <- MCLists
  Limit = 1
  MaxChanges = 1
SPECIFICATION Spec
CHECK_DEADLOCK FALSE
INVARIANTS CapHeld AllAccounted
PROPERTIES UnchangedKept ChangedEnds
