CONSTANTS
  Requests = {call, sub}
  Timed = {sub}
  ServerIds = {call}
  Ping = ping
SPECIFICATION Spec
CHECK_DEADLOCK FALSE
INVARIANTS QuietEndIsAsked
PROPERTIES SlowCallIsNotSilence SilentServerFound EndIsWhole
