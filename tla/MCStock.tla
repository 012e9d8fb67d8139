------------------------------- MODULE MCStock -------------------------------
(***************************************************************************)
(* The stock of one article variant, one part after the other: the initial   *)
(* state chooses it, and the others stay where they start.                    *)
(*   "movements"   exits and opposite transfers that wait for each other     *)
(*   "lots"        FIFO exits overlap; entries, named exits, scans do not    *)
(*   "thresholds"  movements overlap; scans and settings do not              *)
(*   "packaging"   one action after the other                                *)
(* StockThresholds is extended, LowStockIsReminded is stated there.            *)
(***************************************************************************)
EXTENDS StockThresholds

CONSTANTS d1, d2, Op, NoOp, NoRow,
          Request,                            \* of the movements and of the packaging
          Lot, Expiry, MaxUnits, LotRequest,  \* of the lots
          InStock                             \* units of the packaging at first

VARIABLES on,
          payload, levels, ledger, depotLock, pc, opOf, seen, inserted,
          lots, lotAlert, entered, taken, lotLock, lotTx, lotScan,
          packaging, stock, asked, audited, packLock, packTx

movementVars  == <<payload, levels, ledger, depotLock, pc, opOf, seen, inserted>>
lotVars       == <<lots, lotAlert, entered, taken, lotLock, lotTx, lotScan>>
packagingVars == <<packaging, stock, asked, audited, packLock, packTx>>
allVars       == <<on, movementVars, lotVars, vars, packagingVars>>

Depots == {d1, d2}

Ask(k, d, e) == [kind |-> k, depot |-> d, dest |-> e, qty |-> 1, keyed |-> TRUE]
Contended == {Ask("exit", d1, d1), Ask("transfer", d1, d2), Ask("transfer", d2, d1)}

Opening == [d \in Depots |-> IF d = d1 THEN 2 ELSE NoRow]

Movements == INSTANCE StockMovements
               WITH Depot <- Depots, Payloads <- Contended, Overlapping <- FALSE, Req <- Request,
                    level <- levels, lock <- depotLock
Lots == INSTANCE StockLots
          WITH Req <- LotRequest, Overlap <- FALSE,
               alert <- lotAlert, lock <- lotLock, tx <- lotTx, scan <- lotScan
Packaging == INSTANCE Consignment
               WITH Opening <- InStock, Overlap <- FALSE, Req <- Request,
                    row <- packaging, level <- stock, lock <- packLock, tx <- packTx

ASSUME StockAssumption ==
  /\ ConstantsAssumption /\ Lots!ConstantsAssumption /\ Packaging!ConstantsAssumption
  /\ NoOp \notin Op /\ NoRow \notin Int
-----------------------------------------------------------------------------
\* The parts that do not run stay in one initial state.
AllInit ==
  /\ on \in {"movements", "lots", "thresholds", "packaging"}
  /\ Movements!Init /\ Lots!Init /\ Init /\ Packaging!Init
  /\ on # "movements" => payload = [o \in Op |-> Ask("exit", d1, d1)]
  /\ on # "thresholds" => level = 0 /\ default = None

InMovements  == on = "movements" /\ UNCHANGED <<on, lotVars, vars, packagingVars>>
InLots       == on = "lots" /\ UNCHANGED <<on, movementVars, vars, packagingVars>>
InThresholds == on = "thresholds" /\ UNCHANGED <<on, movementVars, lotVars, packagingVars>>
InPackaging  == on = "packaging" /\ UNCHANGED <<on, movementVars, lotVars, vars>>

AllNext == \/ InMovements /\ Movements!Next
           \/ InLots /\ Lots!Next
           \/ InThresholds /\ Next
           \/ InPackaging /\ Packaging!Next

\* The fairness of StockMovements: the server runs a request it received.
AllSpec == /\ AllInit /\ [][AllNext]_allVars
           /\ \A r \in Request : WF_allVars(InMovements /\ Movements!Work(r))
-----------------------------------------------------------------------------
\* Every request the server received comes to an end: opposite transfers that
\* lock each other's depots are told apart by the database.
RequestsEnd == on = "movements" => Movements!RequestsEnd

\* Nothing is counted twice or forgotten: what is left of a lot is what was
\* entered less what left, whatever exits overlap, and never below zero; each
\* delivery or return of packaging counts once, however often it was sent.
StockIsCounted == Lots!LotsMatchMovements /\ Packaging!PackagingIsCounted

\* "Les sorties se font au plus ancien", whatever exits overlap.
ExitsTakeTheOldest == [][on = "lots" => Lots!OldestStep]_allVars

\* An alert closes with its cause: a movement that leaves the level above the
\* threshold, but an adjustment that found it low, and an exit that empties a
\* lot, leave none open.
AlertsClose == [][/\ on = "thresholds" => RecoveryStep
                  /\ on = "lots" => Lots!ExhaustionStep]_allVars
=============================================================================
