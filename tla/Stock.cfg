\* Movements, lots, thresholds and packaging of one article; no symmetry, one
\* property is a liveness property.  Requests and units are bounded: deadlock is
\* not an error.
SPECIFICATION AllSpec
CONSTANTS
  d1 = d1
  d2 = d2
  Op = {o1, o2}
  Request = {r1, r2, r3}
  Lot = {1, 2}
  Expiry = {1, 2}
  MaxUnits = 3
  LotRequest = {1, 2}
  InStock = 1
  MaxLevel = 2
  MaxWeek = 1
  Threshold = {0, 1}
  Req = {1, 2}
  Overlap = FALSE
  NoReq = NoReq
  NoOp = NoOp
  NoRow = NoRow
  None = None
INVARIANTS StockIsCounted LowStockIsReminded
PROPERTIES RequestsEnd ExitsTakeTheOldest AlertsClose
CHECK_DEADLOCK FALSE
