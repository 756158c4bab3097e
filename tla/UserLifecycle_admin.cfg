\* One user, two supervisors (daemon and TUI) and an administrator.
CONSTANTS
  Users = {alice}
  Supervisors = {daemon, tui}
  Admins = {cli}
  Commands = {"set", "reset", "package"}
  Calendar <- MCCalendar
  LastDate <- FirstOfSecond
  Quotas = {1}
  ResetDays = {1}
  Expiries = {0, 1}
  MaxUsed = 1
  MaxFaults = 1
SYMMETRY SupervisorSymmetry
SPECIFICATION Spec
INVARIANTS TypeOK AutoImpliesDisabled QuietOffSticks DisabledForCause
