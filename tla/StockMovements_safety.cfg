\* Three requests for up to three operations: every operation may be sent again
\* after it ended, or meet another one at any of its steps.  Requests that have
\* all ended leave nothing to do: deadlock is not an error.
CONSTANTS
  d1 = d1
  d2 = d2
  Depot <- MCDepot
  Op = {o1, o2, o3}
  Req = {r1, r2, r3}
  NoReq = NoReq
  NoOp = NoOp
  NoRow = NoRow
  Opening <- MCOpening
  Payloads <- MCPayloads
  Overlapping = FALSE
SYMMETRY Symmetry
SPECIFICATION Spec
INVARIANTS LevelsMatchLedger AppliedAtMostOnce TransfersBalance
PROPERTIES ExitsNeverOverdraw ImplementsLedger
CHECK_DEADLOCK FALSE
