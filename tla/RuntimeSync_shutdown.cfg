\* A process shuts down while its closure writes config.json.
CONSTANTS
  Users = {alice}
  Tags = {n1}
  Ports = {p1}
  Supervisors = {daemon}
  Admins = {cli}
  NoProc = NoProc
  NoFile = NoFile
  MaxOps = 2
  MaxFaults = 1
SPECIFICATION ShutdownSpec
INVARIANT MainConfigValid
CHECK_DEADLOCK FALSE
