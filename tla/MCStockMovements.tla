-------------------------- MODULE MCStockMovements --------------------------
(***************************************************************************)
(* Small instances of StockMovements: two depots, one with two units and   *)
(* one that never held the article.                                        *)
(***************************************************************************)
EXTENDS StockMovements, TLC

CONSTANTS d1, d2

MCDepot   == {d1, d2}
MCOpening == d1 :> 2 @@ d2 :> NoRow

Ask(k, d, e, q) == [kind |-> k, depot |-> d, dest |-> e, qty |-> q, keyed |-> TRUE]

\* Every kind of movement, a transfer to the same depot included.
MCPayloads ==
  {Ask("entry", d, d, 1) : d \in MCDepot}
    \cup {Ask("exit", d, d, q) : d \in MCDepot, q \in 1..2}
    \cup {Ask("adjustment", d, d, 1) : d \in MCDepot}
    \cup {Ask("transfer", d, e, 1) : d \in MCDepot, e \in MCDepot}
    \cup {[Ask("exit", d1, d1, 2) EXCEPT !.keyed = FALSE]}

Symmetry == Permutations(Req) \cup Permutations(Op)
=============================================================================
