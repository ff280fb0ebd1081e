SPECIFICATION Spec
CONSTANTS
  Keys = {11}
  Threads = {}
  NsPerMs = 10
  Day = 2
  Cut = 16
  MaxTime = 40
  MaxMessages = 0
INVARIANTS SessionsExpire
CHECK_DEADLOCK FALSE
