----------------------------- MODULE StockLedger -----------------------------
(***************************************************************************)
(* What the stock service promises its callers, with no request, lock or   *)
(* transaction in sight: every operation changes the quantities of the     *)
(* depots in one atomic step, an exit is served only from stock that is    *)
(* there, a transfer moves a quantity without creating or losing any, and  *)
(* an operation that carries a client_operation_id is applied once.        *)
(*                                                                         *)
(* StockMovements implements this specification.                           *)
(***************************************************************************)
EXTENDS Integers

CONSTANTS Depot,   \* the depots of one article variant
          Op       \* the operations the clients ask for

VARIABLES payload, \* what each operation asks for, fixed by the client
          stock,   \* [Depot -> Int], the quantity of each depot
          applied  \* the keyed operations already applied

lvars == <<payload, stock, applied>>

\* An operation with a client_operation_id is recorded, and applied only once.
Once(o) ==
  /\ payload[o].keyed => o \notin applied
  /\ applied' = IF payload[o].keyed THEN applied \cup {o} ELSE applied
  /\ UNCHANGED payload

Entry(o) ==
  /\ payload[o].kind = "entry"
  /\ stock' = [stock EXCEPT ![payload[o].depot] = @ + payload[o].qty]
  /\ Once(o)

Exit(o) ==
  /\ payload[o].kind = "exit"
  /\ stock[payload[o].depot] >= payload[o].qty
  /\ stock' = [stock EXCEPT ![payload[o].depot] = @ - payload[o].qty]
  /\ Once(o)

\* A correction changes the counted depot, and no other.
Adjust(o) ==
  /\ payload[o].kind = "adjustment"
  /\ stock' \in [Depot -> Int]
  /\ \A d \in Depot \ {payload[o].depot} : stock'[d] = stock[d]
  /\ Once(o)

Transfer(o) ==
  /\ payload[o].kind = "transfer"
  /\ payload[o].depot # payload[o].dest
  /\ stock' = [stock EXCEPT ![payload[o].depot] = @ - payload[o].qty,
                            ![payload[o].dest]  = @ + payload[o].qty]
  /\ Once(o)

LInit == /\ stock \in [Depot -> Int]
         /\ applied = {}

LNext == \E o \in Op : Entry(o) \/ Exit(o) \/ Adjust(o) \/ Transfer(o)

LSpec == LInit /\ [][LNext]_lvars
=============================================================================
