SPECIFICATION Spec
CONSTANTS
  r1 = r1
  Runs = {r1}
  MaxEvents = 3
  Programs = 2
  MaxEnds = 1
INVARIANTS
  TypeOK
  SettingsAgree
  DriverHasKey
  LogKept
CHECK_DEADLOCK FALSE
