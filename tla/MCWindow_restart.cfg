SPECIFICATION MCSpec
CONSTANTS
  Lists = {1, 2, 3}  Unbuildable = {3}  Ports = {8, 9}  MaxActions = 3
  Ids = {1, 2, 3}  Stored <- MCStored  MaxDoings = 3
  Contents = {"a", "b", "partial"}  Unread = {"partial"}  Takers = {1, 2, 3}
  Base = 2  MaxTime = 2
  Keys = {"k", "l"}  MaxKeyringJobs = 4
  Servers = {"s", "t"}  Paths = {"p", "q"}  Plans <- MCPlans
  Conns = {"c"}  PathOf <- MCPathOf  Calls = {"x", "y"}  ConnOf <- MCConnOf
  MaxPending = 1  MaxRuns = 2
INVARIANT NeverInItsOwnWay
CHECK_DEADLOCK FALSE
