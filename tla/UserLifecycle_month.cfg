\* A fair supervisor that may fault, two months and a busy administrator.
CONSTANTS
  Users = {alice}
  Supervisors = {daemon}
  Admins = {cli}
  Commands = {"toggle", "set", "add"}
  Calendar <- MCCalendar
  LastDate <- TwoMonths
  Quotas = {1}
  ResetDays = {1, 3, 32}
  Expiries = {0, 3}
  MaxUsed = 1
  MaxFaults = 1
SPECIFICATION FairSpec
PROPERTIES ResetOncePerMonth CutOff
