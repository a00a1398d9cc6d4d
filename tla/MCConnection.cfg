CONSTANTS
  MaxConnects = 2
  MaxChanges = 2
  Capacity = 2
SPECIFICATION Spec
INVARIANT ConnectionSound
PROPERTIES SessionKept Settles ListsSettle
CHECK_DEADLOCK FALSE
