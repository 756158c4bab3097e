\* Every pair of keys, reports of the supervisor and external commands.
CONSTANTS
  UserNames <- TwoNames
  TagNames <- OneTag
  StartUsers = {"alice"}
  StartTags = {"tokyo"}
  Ops <- AllOps
  MaxTasks = 2
  UiCap = 1
  TrafficCap = 1
  MaxSteps = 2
  MaxUsed = 1
SPECIFICATION FairSpec
INVARIANTS TypeOK OneWriteAtATime NoPhantomBusy
PROPERTIES BusyEnds SupervisorHeard
CHECK_DEADLOCK FALSE
