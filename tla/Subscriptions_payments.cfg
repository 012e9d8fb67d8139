SPECIFICATION Spec
CONSTANTS
  Payment = {p1, p2}
  Manual = {p2}
  Duration <- MCDuration
  TrialDays = 1
  GraceDays = 1
  RetentionDays = 1
  LastAct = 3
  MaxDay = 4
  Job = {j1, j2}
  None = None
  Overlap = TRUE
  AdjustTo = {}
INVARIANT PaidDaysAreKept
CHECK_DEADLOCK FALSE
