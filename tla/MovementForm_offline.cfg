\* A movement entered without network, and the tab is closed.
SPECIFICATION Spec
CONSTANTS
  MaxQty = 1
  MaxGestures = 2
  MaxEvents = 3
  Unknown = Unknown
INVARIANT OfflineGesturesAreKept
CHECK_DEADLOCK FALSE
