------------------------------ MODULE StockLots ------------------------------
(***************************************************************************)
(* The lots of one variant in one depot (StockService, "suivi de lots"):     *)
(* entries that name a lot, exits that take the oldest ones (FIFO) or a lot  *)
(* that is named, and the nightly scan that alerts on lots near their date.   *)
(*                                                                         *)
(* Each is one transaction.  A FIFO exit locks every lot that has units left *)
(* and then decides; an entry and a named exit decide on a row they read     *)
(* without a lock, and their UPDATE, which waits for the row, writes what    *)
(* they computed from it.  Adjustments, transfers and deliveries of packaging *)
(* leave the lots alone; StockMovements has the levels and the replays.      *)
(***************************************************************************)
EXTENDS Naturals, Sequences, FiniteSets, Functions

CONSTANTS Lot,       \* lot numbers
          Expiry,    \* dates of expiry
          MaxUnits,  \* bound on the units ever entered in a lot
          Req,       \* requests that may run at the same time
          NoReq,
          Overlap    \* may entries, named exits and scans meet another request?

ConstantsAssumption ==
  /\ Expiry \subseteq Nat /\ Lot \subseteq Nat /\ IsFiniteSet(Lot) /\ MaxUnits \in Nat
  /\ NoReq \notin Req /\ Overlap \in BOOLEAN

VARIABLES lots,   \* committed stock_lots rows
          alert,  \* committed alert of each lot
          entered, taken,  \* the units of the committed movements of each lot
          lock,   \* the request that holds the row of a lot
          tx,     \* where each request is, and what it has read
          scan    \* the lots that the scan under way has found

vars == <<lots, alert, entered, taken, lock, tx, scan>>

NoLot == [left |-> 0, expiry |-> 0, exists |-> FALSE]
Row(left, expiry) == [left |-> left, expiry |-> expiry, exists |-> TRUE]
Idle == [pc |-> "idle", kind |-> "none", lot |-> 0, qty |-> 0, seen |-> NoLot, new |-> NoLot,
         todo |-> <<>>, got |-> <<>>]

Available == {l \in Lot : lots[l].left > 0}

Init ==
  /\ lots = [l \in Lot |-> NoLot]
  /\ alert = [l \in Lot |-> "none"]
  /\ entered = [l \in Lot |-> 0] /\ taken = [l \in Lot |-> 0]
  /\ lock = [l \in Lot |-> NoReq]
  /\ tx = [r \in Req |-> Idle]
  /\ scan = {}
-----------------------------------------------------------------------------
MayStart(r, kind) ==
  /\ tx[r].pc = "idle"
  /\ \/ Overlap
     \/ scan = {} /\ \A s \in Req : tx[s].pc = "idle" \/ {kind, tx[s].kind} = {"fifo"}

Goes(r, to) == tx' = [tx EXCEPT ![r] = to]

Released(r) == [l \in Lot |-> IF lock[l] = r THEN NoReq ELSE lock[l]]

\* An exception, an insufficient stock, the death of the process.
Rollback(r) ==
  /\ tx[r].pc # "idle"
  /\ Goes(r, Idle) /\ lock' = Released(r)
  /\ UNCHANGED <<lots, alert, entered, taken, scan>>

-----------------------------------------------------------------------------
(* _add_to_lot and _consume_specific_lot: the row is read, changed, written. *)

Reads(kind, l, q, new) ==
  [pc |-> "read", kind |-> kind, lot |-> l, qty |-> q, seen |-> lots[l], new |-> new,
   todo |-> <<>>, got |-> <<>>]

AddToLot(r, l, q, date) ==
  /\ MayStart(r, "entry")
  /\ entered[l] + q <= MaxUnits
  /\ Goes(r, Reads("entry", l, q, Row(lots[l].left + q, date)))
  /\ UNCHANGED <<lots, alert, entered, taken, lock, scan>>

ConsumeSpecificLot(r, l, q) ==
  /\ MayStart(r, "named")
  /\ lots[l].left >= q
  /\ Goes(r, Reads("named", l, q, [lots[l] EXCEPT !.left = @ - q]))
  /\ UNCHANGED <<lots, alert, entered, taken, lock, scan>>

\* The UPDATE waits for the row; so does the INSERT of a lot that another one
\* is inserting, and it fails on a lot that exists by then (uq_stock_lot).
Flush(r) ==
  LET l == tx[r].lot IN
  /\ tx[r].pc = "read" /\ lock[l] = NoReq
  /\ lots[l].exists => tx[r].seen.exists
  /\ lock' = [lock EXCEPT ![l] = r]
  /\ Goes(r, [tx[r] EXCEPT !.pc = "flushed"])
  /\ UNCHANGED <<lots, alert, entered, taken, scan>>

\* An exhausted lot has no reason to alert any more.
Exhausted(left) == left = 0

\* The columns that the request changed are those that it writes.
Written(r) == [tx[r].new EXCEPT !.expiry = IF @ = tx[r].seen.expiry THEN lots[tx[r].lot].expiry ELSE @]

Commit(r) ==
  LET l == tx[r].lot
      q == tx[r].qty
      out == tx[r].kind = "named"
  IN /\ tx[r].pc = "flushed"
     /\ lots' = [lots EXCEPT ![l] = Written(r)]
     /\ entered' = IF out THEN entered ELSE [entered EXCEPT ![l] = @ + q]
     /\ taken' = IF out THEN [taken EXCEPT ![l] = @ + q] ELSE taken
     /\ alert' = [alert EXCEPT ![l] = IF out /\ Exhausted(tx[r].new.left) /\ @ = "open"
                                      THEN "resolved" ELSE @]
     /\ lock' = Released(r) /\ Goes(r, Idle)
     /\ UNCHANGED scan
-----------------------------------------------------------------------------
(* _consume_lots_fifo. *)

\* Mutant: by lot number.
FirstIn(l, m) == l < m

\* "au plus ancien": by date of expiry.
Before(l, m) == lots[l].expiry < lots[m].expiry

\* The orders that the query may return the lots in.
Oldest == {s \in [1..Cardinality(Available) -> Available] :
             /\ \A l \in Available : \E i \in DOMAIN s : s[i] = l
             /\ \A i, j \in DOMAIN s : i < j => ~Before(s[j], s[i])}

Locks(q, s) ==
  [pc |-> "locking", kind |-> "fifo", lot |-> 0, qty |-> q, seen |-> NoLot, new |-> NoLot,
   todo |-> s, got |-> <<>>]

\* lock_available_lots_fifo: the rows of the snapshot, then one lock after the other.
ConsumeLotsFifo(r, q) ==
  /\ MayStart(r, "fifo")
  /\ \E s \in Oldest : Goes(r, Locks(q, s))
  /\ UNCHANGED <<lots, alert, entered, taken, lock, scan>>

\* Mutant: no FOR UPDATE.
AnyRow(l) == TRUE

FreeRow(l) == lock[l] = NoReq

\* A row that had to be waited for is read again, and left out if it is empty.
LockLot(r) ==
  LET l == Head(tx[r].todo) IN
  /\ tx[r].pc = "locking" /\ tx[r].todo # <<>>
  /\ FreeRow(l)
  /\ lock' = [lock EXCEPT ![l] = r]
  /\ Goes(r, [tx[r] EXCEPT !.todo = Tail(@),
                           !.got = IF lots[l].left > 0 THEN Append(@, [lot |-> l, left |-> lots[l].left])
                                   ELSE @])
  /\ UNCHANGED <<lots, alert, entered, taken, scan>>

Smaller(a, b) == IF a < b THEN a ELSE b
Lefts(got) == [i \in DOMAIN got |-> got[i].left]
UnitsIn(got, n) == SumFunctionOnSet(Lefts(got), 1..n)

\* What is taken from the lot at place i: what the older ones do not have.
Take(got, q, i) ==
  LET older == UnitsIn(got, i - 1) IN IF older >= q THEN 0 ELSE Smaller(got[i].left, q - older)

\* The places of a lot among those that were locked: one, or none.
Places(got, l) == {i \in DOMAIN got : got[i].lot = l}
TakenFrom(got, q, l) == SumFunctionOnSet([i \in DOMAIN got |-> Take(got, q, i)], Places(got, l))
LeftIn(got, q, l) == SumFunctionOnSet(Lefts(got), Places(got, l)) - TakenFrom(got, q, l)

\* With too few units in all the exit is refused: Rollback.
CommitFifo(r) ==
  LET got == tx[r].got
      q == tx[r].qty
      From(l) == TakenFrom(got, q, l)
      Left(l) == LeftIn(got, q, l)
  IN /\ tx[r].pc = "locking" /\ tx[r].todo = <<>>
     /\ UnitsIn(got, Len(got)) >= q
     /\ lots' = [l \in Lot |-> IF From(l) > 0 THEN [lots[l] EXCEPT !.left = Left(l)] ELSE lots[l]]
     /\ taken' = [l \in Lot |-> taken[l] + From(l)]
     /\ alert' = [l \in Lot |-> IF From(l) > 0 /\ Exhausted(Left(l)) /\ alert[l] = "open"
                                THEN "resolved" ELSE alert[l]]
     /\ lock' = Released(r) /\ Goes(r, Idle)
     /\ UNCHANGED <<entered, scan>>
-----------------------------------------------------------------------------
(* scan_organization_lot_expiries: every lot is near its date here; the      *)
(* levels of a date that comes closer are those of DeadlineAlerts.           *)

ScanRead ==
  /\ scan = {} /\ Available # {}
  /\ Overlap \/ \A r \in Req : tx[r].pc = "idle"
  /\ scan' = Available
  /\ UNCHANGED <<lots, alert, entered, taken, lock, tx>>

ScanCommit ==
  /\ scan # {}
  /\ alert' = [l \in Lot |-> IF l \in scan /\ alert[l] = "none" THEN "open" ELSE alert[l]]
  /\ scan' = {}
  /\ UNCHANGED <<lots, entered, taken, lock, tx>>

Next ==
  \/ \E r \in Req, l \in Lot, q \in 1..2 :
       ConsumeSpecificLot(r, l, q) \/ \E date \in Expiry : AddToLot(r, l, q, date)
  \/ \E r \in Req, q \in 1..2 : ConsumeLotsFifo(r, q)
  \/ \E r \in Req : Flush(r) \/ Commit(r) \/ LockLot(r) \/ CommitFifo(r) \/ Rollback(r)
  \/ ScanRead \/ ScanCommit

Spec == Init /\ [][Next]_vars
-----------------------------------------------------------------------------
TypeOK ==
  /\ \A l \in Lot : lots[l].left \in Nat /\ lots[l].expiry \in Expiry \cup {0}
  /\ alert \in [Lot -> {"none", "open", "resolved"}]
  /\ lock \in [Lot -> Req \cup {NoReq}]
  /\ \A r \in Req : tx[r].pc \in {"idle", "read", "flushed", "locking"}

\* What is left of a lot is what was entered less what left under its number:
\* no unit is consumed twice, whatever exits run at the same time, and no lot
\* gives more than it has.
LotsMatchMovements ==
  \A l \in Lot : lots[l].left >= 0 /\ lots[l].left + taken[l] = entered[l]

\* "Les sorties se font au plus ancien": an exit takes nothing from a lot while
\* one that expires earlier keeps units.
OldestStep ==
  \A r \in Req : tx[r].kind = "fifo" /\ taken' # taken /\ tx'[r].pc = "idle" =>
    \A l, m \in Lot :
      taken'[m] > taken[m] /\ lots[l].expiry < lots[m].expiry => lots'[l].left = 0
ExitsTakeTheOldest == [][OldestStep]_vars

\* The alert on a lot is closed by the exit that empties it.
ExhaustionStep ==
  \A l \in Lot : lots[l].left > 0 /\ lots'[l].left = 0 => alert'[l] # "open"
=============================================================================
