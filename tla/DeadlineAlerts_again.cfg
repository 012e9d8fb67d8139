SPECIFICATION Spec
CONSTANTS
  Offsets = {0, 2}
  Repeat = 2
  MaxDay = 6
  DueDates = {2, 6}
  MaxRenewals = 1
  Manager = {m1, m2}
  Scan = {s1}
  None = None
  RenewDuringScan = FALSE
  StalePages = FALSE
INVARIANT WarnedInTime
SYMMETRY Symmetry
CHECK_DEADLOCK FALSE
