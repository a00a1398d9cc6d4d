CONSTANTS
  Requests = {sub}
  Timed = {sub}
  ServerIds = {}
  Ping = ping
SPECIFICATION Spec
PROPERTIES SilentServerFailed
CHECK_DEADLOCK FALSE
