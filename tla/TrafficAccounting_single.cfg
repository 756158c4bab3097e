\* One fair flusher, restarts and failures anywhere.
CONSTANTS
  Users = {alice}
  Dirs = {"up", "down"}
  Flushers = {daemon}
  MaxSent = 3
  MaxRestarts = 2
  MaxFails = 1
SPECIFICATION FairSpec
INVARIANTS TypeOK NoOvercharge
PROPERTIES ImplementsMetering CatchesUp
