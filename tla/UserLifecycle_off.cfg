\* sb off around an automatic disable and the monthly reset.
CONSTANTS
  Users = {alice}
  Supervisors = {daemon}
  Admins = {cli}
  Commands = {"set"}
  Calendar <- MCCalendar
  LastDate <- FirstOfSecond
  Quotas = {1}
  ResetDays = {1}
  Expiries = {0}
  MaxUsed = 1
  MaxFaults = 0
SPECIFICATION Spec
INVARIANTS ManualOffSticks
