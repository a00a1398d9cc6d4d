SPECIFICATION Spec
CONSTANTS
  r1 = r1  r2 = r2  u = u  p = p
  N = 2
  Requests = {r1, r2}
  URIs = {u}
  Patterns = {p}
  Expands <- ExpandsOf
  MaxLinked = 1
  Scenes <- ScenesOf
  Target <- TargetOf
  Serving <- ServingOf
  Offering <- OfferingOf
  MaxInflight = 1
  MaxPages = 1
INVARIANTS RootSound CancelFinds
PROPERTIES KeepsPromise ReadsFindServer WorkEnds GoneAnswered RootEnds
CHECK_DEADLOCK FALSE
