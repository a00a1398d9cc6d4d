CONSTANTS
  Keys = {resource, replay}
  Resource = resource
  Replays = {replay}
  MaxCalls = 2
  MaxSessions = 2
  MaxVersion = 2
  MaxToggles = 1
  Callers = {a, b, c}
  Uris = {u, v}
  Lists = lists_changed
  Buffered = 1
  NoChange = none
  Made = {old, new, agent}
  Agents = {agent}
  Before = {old}
  Limit = 2
  AgentLimit = 1
  Waiters = {export}
  MaxRemovals = 2
  NoCall = none
SPECIFICATION AnswersSpec
INVARIANTS CallsSound ListenerSound ListSound NoneLost
PROPERTIES CallsRest CallersFreed WaitersFreed
CHECK_DEADLOCK FALSE
