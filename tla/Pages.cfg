\* One page after the other.  The bounds of a page stop it: deadlock is not an error.
SPECIFICATION AllSpec
CONSTANTS
  Item = {i1, i2}
  Kinds = {"text", "number", "date", "boolean", "select", "multi",
           "position", "link", "document", "photo", "due", "site"}
  MaxFields = 3
  Suggested <- MCSuggested
  ValidLines <- MCValidLines
  Value = {u1}
  ValueOf <- MCValueOf
  MaxPreviews = 3
  MaxCommits = 2
  Key = {k1, k2}
  TitleKey = {k1}
  f1 = f1
  f2 = f2
  m1 = m1
  m2 = m2
  u1 = u1
  File = {f1, f2}
  Mapping = {m1, m2}
  Undef = Undef
  Null = Null
  None = None
  Unknown = Unknown
  MaxQty = 1
  MaxGestures = 2
  MaxEvents = 3
INVARIANTS OwnChangesAreShown OffersAreHonoured GesturesCountOnce AttachmentsAreSaved StagedAreKept
PROPERTIES ImportsAsAnnounced FormAgreesWithServer SaveIsExact MovesAreExact
CHECK_DEADLOCK FALSE
