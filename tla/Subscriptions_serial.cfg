\* Transactions one at a time.
SPECIFICATION Spec
CONSTANTS
  Payment = {p1, p2, p3}
  Manual = {p3}
  Duration <- MCDuration
  TrialDays = 1
  GraceDays = 1
  RetentionDays = 1
  LastAct = 3
  MaxDay = 6
  Job = {j1}
  None = None
  Overlap = FALSE
  AdjustTo = {"active", None}
INVARIANTS PaidDaysAreKept PaymentsAreDecidedOnce StatusFollowsDates
CHECK_DEADLOCK FALSE
