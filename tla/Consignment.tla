----------------------------- MODULE Consignment -----------------------------
(***************************************************************************)
(* The packaging of one consigned article in one depot: the bottles delivered *)
(* full and returned empty (StockService.record_consignment_action).         *)
(*                                                                         *)
(* An action is one transaction.  Its counters are read without a lock and   *)
(* written as they were computed, unlike the level of the stock, which the   *)
(* trigger changes.  The journal of audit tells what was already applied.    *)
(***************************************************************************)
EXTENDS Integers, Functions

CONSTANTS Op,        \* operations, by their client_operation_id
          Req, NoReq,
          None,      \* no row, no action asked yet
          Opening,   \* units in stock at first
          Overlap    \* may a request meet another one?

ConstantsAssumption ==
  /\ Opening \in Nat /\ NoReq \notin Req /\ Overlap \in BOOLEAN
  /\ None \notin [out : Nat, empty : Nat]

VARIABLES row,      \* committed consignment_levels row
          level,    \* committed level of the stock
          asked,    \* what each operation asks for
          audited,  \* the operations in the journal
          lock,     \* the request that holds the row
          tx        \* where each request is, and the row it has read

vars == <<row, level, asked, audited, lock, tx>>

Empty == [out |-> 0, empty |-> 0]
Idle == [pc |-> "idle", op |-> None, seen |-> None]
Actions == {"deliver_full", "return_empty"}

Init ==
  /\ row = None /\ level = Opening
  /\ asked = [o \in Op |-> None] /\ audited = {}
  /\ lock = NoReq /\ tx = [r \in Req |-> Idle]

Goes(r, to) == tx' = [tx EXCEPT ![r] = to]

\* find_by_client_operation_id
Replayed(o) == o \in audited

\* The same operation may be asked again, for as long as the client likes.
Ask(r, o, action, qty) ==
  /\ tx[r].pc = "idle"
  /\ Overlap \/ \A s \in Req : tx[s].pc = "idle"
  /\ asked[o] \in {None, [action |-> action, qty |-> qty]}
  /\ ~Replayed(o)
  /\ asked' = [asked EXCEPT ![o] = [action |-> action, qty |-> qty]]
  /\ Goes(r, [pc |-> "read", op |-> o, seen |-> row])
  /\ UNCHANGED <<row, level, audited, lock>>

\* The INSERT of the first row fails when another request inserted it.
Flush(r) ==
  /\ tx[r].pc = "read" /\ lock = NoReq
  /\ tx[r].seen = None => row = None
  /\ lock' = r
  /\ Goes(r, [tx[r] EXCEPT !.pc = "flushed", !.seen = IF @ = None THEN Empty ELSE @])
  /\ UNCHANGED <<row, level, asked, audited>>

Less(a, b) == IF a > b THEN a - b ELSE 0

\* The columns that the request changed are those that it writes.  Nothing is
\* compared with the level, which may become negative.
Commit(r) ==
  LET o == tx[r].op
      q == asked[o].qty
      seen == tx[r].seen
      now == IF row = None THEN Empty ELSE row
  IN /\ tx[r].pc = "flushed"
     /\ IF asked[o].action = "deliver_full"
        THEN /\ row' = [now EXCEPT !.out = seen.out + q]
             /\ level' = level - q
        ELSE /\ row' = [out   |-> IF seen.out = 0 THEN now.out ELSE Less(seen.out, q),
                        empty |-> seen.empty + q]
             /\ UNCHANGED level
     /\ audited' = audited \cup {o}
     /\ lock' = NoReq /\ Goes(r, Idle)
     /\ UNCHANGED asked

Rollback(r) ==
  /\ tx[r].pc # "idle"
  /\ lock' = (IF lock = r THEN NoReq ELSE lock) /\ Goes(r, Idle)
  /\ UNCHANGED <<row, level, asked, audited>>

Next ==
  \/ \E r \in Req, o \in Op, a \in Actions, q \in 1..2 : Ask(r, o, a, q)
  \/ \E r \in Req : Flush(r) \/ Commit(r) \/ Rollback(r)

Spec == Init /\ [][Next]_vars
-----------------------------------------------------------------------------
TypeOK ==
  /\ row = None \/ row \in [out : Nat, empty : Nat]
  /\ level \in Int /\ audited \subseteq Op
  /\ lock \in Req \cup {NoReq}
  /\ \A r \in Req : tx[r].pc \in {"idle", "read", "flushed"}

Given(action) == {o \in audited : asked[o].action = action}
Units(action) == SumFunction([o \in Given(action) |-> asked[o].qty])

\* Each action in the journal counts once, in the stock and in the packaging,
\* however often it was asked; more returned than delivered is not a debt.
PackagingIsCounted ==
  LET given == Units("deliver_full")
      back  == Units("return_empty")
      held  == IF row = None THEN Empty ELSE row
  IN /\ level = Opening - given
     /\ held.empty = back
     /\ held.out \in (given - back)..given
=============================================================================
