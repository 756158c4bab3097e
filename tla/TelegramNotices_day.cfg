\* One user (users do not meet) over two days of two minutes.
CONSTANTS
  Users = {alice}
  Percents = {0, 85, 95}
  AlertPct = 80
  DayLen = 2
  LastMinute = 2
  MaxChanges = 4
  MaxFaults = 2
SPECIFICATION Spec
INVARIANTS TypeOK AlertOnce AlertTold ReportOnce
CHECK_DEADLOCK FALSE
