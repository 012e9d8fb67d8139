--------------------------- MODULE StockThresholds ---------------------------
(***************************************************************************)
(* The threshold of one variant in one depot: the scans that alert on a      *)
(* level at or below it, once a week (alerts/engine.py), and the movements    *)
(* that close the alerts when the level is above it                           *)
(* (StockService._resolve_threshold_if_needed).                              *)
(*                                                                         *)
(* A movement closes them by the quantity that its ORM session holds.  An    *)
(* exit and an adjustment have loaded the level before the trigger changed    *)
(* it, and the session does not load it again.                                *)
(***************************************************************************)
EXTENDS Integers

CONSTANTS MaxLevel, MaxWeek,  \* bounds
          Threshold,          \* the thresholds an administrator sets
          None,               \* no threshold, no quantity in the session
          Req, NoReq,
          Overlap             \* may scans and settings meet a movement?

ConstantsAssumption ==
  /\ MaxLevel \in Nat /\ MaxWeek \in Nat /\ Threshold \subseteq Nat
  /\ None \notin Int /\ NoReq \notin Req /\ Overlap \in BOOLEAN

VARIABLES week, level,  \* today's week, the committed level
          own, default, \* thresholds of the depot and of the variant
          alerts,       \* committed alert of each week
          lock,         \* the movement that holds the row of the level
          tx, scan,     \* where each movement is, and the scan
          scanned,      \* the week of the last scan, or None
          low           \* history: has the level been low all the week?

vars == <<week, level, own, default, alerts, lock, tx, scan, scanned, low>>

Week == 0..MaxWeek
Idle == [pc |-> "idle", kind |-> "none", delta |-> 0, seen |-> None, closes |-> {}]
NoScan == [pc |-> "idle", week |-> 0, new |-> FALSE, closes |-> {}]

Effective == IF own # None THEN own ELSE default
IsLow == Effective # None /\ level <= Effective
Opened == {w \in Week : alerts[w] = "open"}
Closed(ws) == [w \in Week |-> IF w \in ws THEN "resolved" ELSE alerts[w]]

Init ==
  /\ week = 0
  /\ level \in 0..MaxLevel
  /\ own = None /\ default \in Threshold \cup {None}
  /\ alerts = [w \in Week |-> "none"]
  /\ lock = NoReq
  /\ tx = [r \in Req |-> Idle]
  /\ scan = NoScan /\ scanned = None
  /\ low = IsLow

StaysLow == low' = (low /\ IsLow')

NextWeek ==
  /\ week < MaxWeek
  /\ week' = week + 1 /\ low' = IsLow
  /\ UNCHANGED <<level, own, default, alerts, lock, tx, scan, scanned>>

\* A threshold is set, never taken away.
SetThreshold(t) ==
  /\ Overlap \/ \A r \in Req : tx[r].pc = "idle"
  /\ \/ own' = t /\ UNCHANGED default
     \/ default' = t /\ UNCHANGED own
  /\ UNCHANGED <<week, level, alerts, lock, tx, scan, scanned>>
  /\ StaysLow
-----------------------------------------------------------------------------
(* A movement.  Exits lock the row before they look at it, adjustments do    *)
(* not; both leave the quantity in the session.                              *)

MayStart(r) == tx[r].pc = "idle" /\ (Overlap \/ scan.pc = "idle")
Goes(r, to) == tx' = [tx EXCEPT ![r] = to]

Start(r, kind, delta, seen) ==
  Goes(r, [pc |-> "started", kind |-> kind, delta |-> delta, seen |-> seen, closes |-> {}])

\* An entry, or the incoming half of a transfer.
Adds(r, q) ==
  /\ MayStart(r)
  /\ Start(r, "in", q, None)
  /\ UNCHANGED <<week, level, own, default, alerts, lock, scan, scanned, low>>

\* The outgoing half of a transfer, a delivery of packaging: no check.
Removes(r, q) ==
  /\ MayStart(r)
  /\ Start(r, "out", -q, None)
  /\ UNCHANGED <<week, level, own, default, alerts, lock, scan, scanned, low>>

RecordExit(r, q) ==
  /\ MayStart(r) /\ lock = NoReq
  /\ level >= q
  /\ lock' = r
  /\ Start(r, "exit", -q, level)
  /\ UNCHANGED <<week, level, own, default, alerts, scan, scanned, low>>

RecordAdjustment(r, counted) ==
  /\ MayStart(r)
  /\ Start(r, "adjustment", counted - level, level)
  /\ UNCHANGED <<week, level, own, default, alerts, lock, scan, scanned, low>>

\* Mutant: the quantity before the movement decides for every kind.
QuantityBefore(r) == level

Quantity(r) == IF tx[r].seen = None THEN level + tx[r].delta ELSE tx[r].seen

\* The INSERT: the trigger takes the row and holds it until the commit.  Then
\* _resolve_threshold_if_needed.
Insert(r) ==
  /\ tx[r].pc = "started" /\ lock \in {NoReq, r}
  /\ level + tx[r].delta \in -1..MaxLevel
  /\ lock' = r
  /\ Goes(r, [tx[r] EXCEPT !.pc = "decided",
                           !.closes = IF Effective # None /\ Quantity(r) > Effective
                                      THEN Opened ELSE {}])
  /\ UNCHANGED <<week, level, own, default, alerts, scan, scanned, low>>

Commit(r) ==
  /\ tx[r].pc = "decided"
  /\ level' = level + tx[r].delta
  /\ alerts' = Closed(tx[r].closes)
  /\ lock' = NoReq /\ Goes(r, Idle)
  /\ UNCHANGED <<week, own, default, scan, scanned>>
  /\ StaysLow

Rollback(r) ==
  /\ tx[r].pc # "idle"
  /\ lock' = (IF lock = r THEN NoReq ELSE lock) /\ Goes(r, Idle)
  /\ UNCHANGED <<week, level, own, default, alerts, scan, scanned, low>>
-----------------------------------------------------------------------------
(* scan_organization_stock_thresholds *)

\* Mutant: one alert for ever.
OnceForAll(w) == 0

WeeklyPalier(w) == w

ScanRead ==
  /\ scan.pc = "idle"
  /\ Overlap \/ \A r \in Req : tx[r].pc = "idle"
  /\ scan' = [pc |-> "read", week |-> week, new |-> IsLow,
              closes |-> IF Effective # None /\ ~IsLow THEN Opened ELSE {}]
  /\ UNCHANGED <<week, level, own, default, alerts, lock, tx, scanned, low>>

\* ON CONFLICT DO NOTHING: an alert of the week that was closed stays closed.
ScanCommit ==
  LET p == WeeklyPalier(scan.week) IN
  /\ scan.pc = "read"
  /\ alerts' = IF scan.new THEN [alerts EXCEPT ![p] = IF @ = "none" THEN "open" ELSE @]
               ELSE Closed(scan.closes)
  /\ scanned' = scan.week /\ scan' = NoScan
  /\ UNCHANGED <<week, level, own, default, lock, tx, low>>

\* The job fails and is tried again on another night.
ScanFails ==
  /\ scan.pc = "read"
  /\ scan' = NoScan
  /\ UNCHANGED <<week, level, own, default, alerts, lock, tx, scanned, low>>

Next ==
  \/ NextWeek \/ \E t \in Threshold : SetThreshold(t)
  \/ \E r \in Req, q \in 1..2 : Adds(r, q) \/ Removes(r, q) \/ RecordExit(r, q)
  \/ \E r \in Req, n \in 0..MaxLevel : RecordAdjustment(r, n)
  \/ \E r \in Req : Insert(r) \/ Commit(r) \/ Rollback(r)
  \/ ScanRead \/ ScanCommit \/ ScanFails

Spec == Init /\ [][Next]_vars
-----------------------------------------------------------------------------
TypeOK ==
  /\ week \in Week /\ level \in Int
  /\ {own, default} \subseteq Threshold \cup {None}
  /\ alerts \in [Week -> {"none", "open", "resolved"}]
  /\ lock \in Req \cup {NoReq}
  /\ \A r \in Req : tx[r].pc \in {"idle", "started", "decided"}
  /\ scan.pc \in {"idle", "read"} /\ scanned \in Week \cup {None}

\* A movement that leaves the level above the threshold.
RisesAbove(r) ==
  /\ tx[r].pc = "decided" /\ tx'[r].pc = "idle" /\ level' # level
  /\ Effective # None /\ level' > Effective

\* An adjustment that loaded a level at or below the threshold.
FoundLow(r) == tx[r].kind = "adjustment" /\ tx[r].seen <= Effective

\* A movement that leaves the level above the threshold leaves no alert open,
\* whatever movements ran beside it, an adjustment that raises the level above
\* it from below excepted: it decides on the quantity it loaded.
RecoveryStep ==
  \A r \in Req :
    RisesAbove(r) /\ ~FoundLow(r)
      => \A w \in Week : alerts'[w] # "open"

\* "refermer l'alerte dès que le stock repasse au-dessus du seuil, sans attendre
\* le prochain balayage nocturne": whatever movement brings it there.
RecoveryClosesAlerts ==
  [][\A r \in Req : RisesAbove(r) => \A w \in Week : alerts'[w] # "open"]_vars

\* "Alerte au franchissement, puis rappel hebdomadaire tant que la situation
\* dure": low since the week began, and scanned since, has this week's alert.
LowStockIsReminded == low /\ scanned = week => alerts[week] = "open"
=============================================================================
