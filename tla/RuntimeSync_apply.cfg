\* A supervisor and two administrators share config.json and the runtime lock.
\* The administrators stop after MaxOps commands, hence no deadlock check.
CONSTANTS
  Users = {alice}
  Tags = {n1}
  Ports = {p1, p2}
  Supervisors = {daemon}
  Admins = {cli, tui}
  NoProc = NoProc
  NoFile = NoFile
  MaxOps = 3
  MaxFaults = 1
SPECIFICATION FairSpec
INVARIANTS TypeOK MainConfigValid NoLostEdit ConfigCarried RunningCarried
PROPERTIES Enforced
CHECK_DEADLOCK FALSE
