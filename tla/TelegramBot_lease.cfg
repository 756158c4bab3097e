\* The daemon and the TUI; time in steps of about 25 seconds, one failed heartbeat allowed
\* for. MaxNap lets the lease go stale during a nap.
CONSTANTS
  Procs = {daemon, tui}
  NoOwner = NoOwner
  Gone = Gone
  Beat = 1
  Stale = 4
  MaxStart = 1
  Slack = 1
  MaxUpdates = 2
  MaxRuns = 3
  MaxFaults = 2
  MaxNap = 4
SPECIFICATION FairSpec
INVARIANTS TypeOK LeaseHeld NoneSkipped
PROPERTIES LoserStops Served
CHECK_DEADLOCK FALSE
