\* A second flusher commits an older snapshot after a newer one.
CONSTANTS
  Users = {alice}
  Dirs = {"up", "down"}
  Flushers = {daemon, tui}
  MaxSent = 2
  MaxRestarts = 0
  MaxFails = 0
SPECIFICATION Spec
INVARIANTS NoOvercharge
