\* Two devices wrote the same value, a third one wrote another in between.
CONSTANTS
  due = due
  plain = plain
  u1 = u1
  u2 = u2
  Field <- MCDueOnly
  DeadlineField = {due}
  Value = {create, u1, u2, u3}
  ValueOf <- MCShared
  Update = {u1, u2, u3}
  Create = create
  Req = {r1, r2, r3, r4}
  None = None
  Payloads <- MCOneField
  Concurrent = FALSE
  OfflineEdits = FALSE
SYMMETRY ReqSymmetry
SPECIFICATION Spec
CHECK_DEADLOCK FALSE
INVARIANT NewestWriteWins
