\* Scans at once, repeated, aborted or missed; renewals between scans.
SPECIFICATION Spec
CONSTANTS
  Offsets = {0, 2}
  Repeat = 2
  MaxDay = 3
  DueDates = {0, 2}
  MaxRenewals = 1
  Manager = {m1, m2}
  Scan = {s1, s2}
  None = None
  RenewDuringScan = FALSE
  StalePages = FALSE
INVARIANTS FirstDateWatched NotifiedOnce OpenAlertsAreCurrent
SYMMETRY Symmetry
CHECK_DEADLOCK FALSE
