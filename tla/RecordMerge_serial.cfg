\* A creation and three updates with different values, sent in any order and
\* again, one request at a time.  Everything may have been sent: deadlock is
\* not an error.
CONSTANTS
  due = due
  plain = plain
  u1 = u1
  u2 = u2
  Field <- MCField
  DeadlineField = {due}
  Value = {create, u1, u2, u3}
  ValueOf <- MCDistinct
  Update = {u1, u2, u3}
  Create = create
  Req = {r1, r2, r3, r4, r5}
  None = None
  Payloads <- MCPayloads
  Concurrent = FALSE
  OfflineEdits = FALSE
SYMMETRY Symmetry
SPECIFICATION Spec
CHECK_DEADLOCK FALSE
INVARIANTS NewestWriteWins ConflictsAreReal DeadlinesFollowData
PROPERTIES UpdatesApplyOnce LossesAreJournaled
