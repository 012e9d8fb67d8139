--------------------------- MODULE StockMovements ---------------------------
(***************************************************************************)
(* StockService: the four movement routes (entry, exit, adjustment,        *)
(* transfer) of one article variant without lot tracking, as concurrent    *)
(* HTTP requests, each of them one PostgreSQL transaction (core/database:  *)
(* get_db) at isolation READ COMMITTED.                                    *)
(*                                                                         *)
(* A request reads what is committed, takes row locks of stock_levels that *)
(* it holds until it ends, inserts its movements, and becomes visible all  *)
(* at once at its commit.  The level rows are written by the trigger       *)
(* apply_stock_movement only.  A client whose request got no answer sends  *)
(* the same operation again, with the same client_operation_id.            *)
(***************************************************************************)
EXTENDS Integers, FiniteSets, Functions

CONSTANTS Depot,       \* the depots of the variant
          Op,          \* the operations the clients ask for
          Req,         \* the requests the server receives, the bound on retries
          NoReq,       \* the holder of a lock nobody holds
          NoOp,        \* the operation of a request not sent yet
          NoRow,       \* the level of a depot that has no stock_levels row
          Opening,     \* the levels left by the movements committed before Init
          Payloads,    \* what an operation may ask for
          Overlapping  \* may a client resend an operation still being processed?

Kinds == {"entry", "exit", "adjustment", "transfer"}

\* schemas/stock.py: a quantity is positive and a counted quantity is not
\* negative; "qty" stands for both.  Only a transfer uses "dest".
PayloadType == [kind : Kinds, depot : Depot, dest : Depot, qty : Nat, keyed : BOOLEAN]

ASSUME ConstantsAssumption ==
  /\ NoReq \notin Req
  /\ NoOp \notin Op
  /\ NoRow \notin Int
  /\ Opening \in [Depot -> Int \cup {NoRow}]
  /\ Payloads \subseteq PayloadType
  /\ \A p \in Payloads : p.kind # "adjustment" => p.qty > 0
  /\ Overlapping \in BOOLEAN

VARIABLES payload,   \* [Op -> Payloads], what the client asks for, never changed
          level,     \* committed stock_levels rows
          ledger,    \* committed stock_movements rows
          lock,      \* the request that holds the row lock of a depot's level
          pc,        \* where each request is
          opOf,      \* the operation a request carries
          seen,      \* the quantity an adjustment read
          inserted   \* how many of its movements a request has inserted

vars == <<payload, level, ledger, lock, pc, opOf, seen, inserted>>

Held(q) == IF q = NoRow THEN 0 ELSE q

InFlight == {"received", "admitted", "ready"}
Ended    == {"done", "replayed", "refused", "aborted"}

Job(r) == payload[opOf[r]]

\* A transfer writes two movements, the outgoing one first; the others one.
Width(r) == IF Job(r).kind = "transfer" THEN 2 ELSE 1

Target(r, i) == IF i = 1 THEN Job(r).depot ELSE Job(r).dest

Delta(r, i) ==
  CASE Job(r).kind = "entry"      -> Job(r).qty
    [] Job(r).kind = "exit"       -> -Job(r).qty
    [] Job(r).kind = "adjustment" -> Job(r).qty - seen[r]
    [] OTHER                      -> IF i = 1 THEN -Job(r).qty ELSE Job(r).qty

Movement(r, i) == [req |-> r, op |-> opOf[r], depot |-> Target(r, i), delta |-> Delta(r, i)]

Touched(r) == {Target(r, i) : i \in 1..Width(r)}

\* What the trigger adds to the level of a depot for a request's movements.
Change(r, d) == IF d = Target(r, 1) THEN Delta(r, 1) ELSE Delta(r, 2)

Free(r, d)  == lock[d] \in {NoReq, r}
\* Mutant: a connection goes back to its pool with its transaction open.
ReleasedNothing(r) == lock

Released(r) == [d \in Depot |-> IF lock[d] = r THEN NoReq ELSE lock[d]]

Init ==
  /\ payload \in [Op -> Payloads]
  /\ level = Opening
  /\ ledger = {}
  /\ lock = [d \in Depot |-> NoReq]
  /\ pc = [r \in Req |-> "idle"]
  /\ opOf = [r \in Req |-> NoOp]
  /\ seen = [r \in Req |-> 0]
  /\ inserted = [r \in Req |-> 0]

-----------------------------------------------------------------------------
\* A client sends operation o, for the first time or again.  The queue of a
\* device waits for the end of a request before it replays its operation;
\* Overlapping lets a resubmission catch up with a request that is still
\* running after its connection was lost.
Submit(r, o) ==
  /\ pc[r] = "idle"
  /\ Overlapping \/ \A s \in Req : opOf[s] = o => pc[s] \in Ended
  /\ pc' = [pc EXCEPT ![r] = "received"]
  /\ opOf' = [opOf EXCEPT ![r] = o]
  /\ UNCHANGED <<payload, level, ledger, lock, seen, inserted>>

\* Mutant: the lookup is done by request, not by operation.
KnownByRequest(r) == Job(r).keyed /\ \E m \in ledger : m.req = r

\* A movement with the operation's client_operation_id is already committed.
Known(r) == Job(r).keyed /\ \E m \in ledger : m.op = opOf[r]

\* Mutant: a transfer does not compare its depots.
CheckIdempotentOnly(r) ==
  /\ pc[r] = "received"
  /\ pc' = [pc EXCEPT ![r] =
              IF Known(r) THEN "replayed"
              ELSE IF Job(r).kind \in {"exit", "adjustment"} THEN "admitted"
              ELSE "ready"]
  /\ UNCHANGED <<payload, level, ledger, lock, opOf, seen, inserted>>

\* _check_idempotent, after a transfer's test that its depots differ: a known
\* operation is answered with the movements it wrote, and has no effect.
CheckIdempotent(r) ==
  /\ pc[r] = "received"
  /\ pc' = [pc EXCEPT ![r] =
              IF Job(r).kind = "transfer" /\ Job(r).depot = Job(r).dest THEN "refused"
              ELSE IF Known(r) THEN "replayed"
              ELSE IF Job(r).kind \in {"exit", "adjustment"} THEN "admitted"
              ELSE "ready"]
  /\ UNCHANGED <<payload, level, ledger, lock, opOf, seen, inserted>>

\* Mutant: SELECT without FOR UPDATE.
CheckUnlocked(r) ==
  /\ pc[r] = "admitted"
  /\ Job(r).kind = "exit"
  /\ pc' = [pc EXCEPT ![r] = IF Held(level[Job(r).depot]) < Job(r).qty
                              THEN "refused" ELSE "ready"]
  /\ UNCHANGED <<payload, level, ledger, lock, opOf, seen, inserted>>

\* record_exit, get_stock_level_for_update: SELECT ... FOR UPDATE waits for the
\* holder of the row and returns what is committed then; a row that is missing
\* cannot be locked and counts as an empty stock.
LockAndCheck(r) ==
  /\ pc[r] = "admitted"
  /\ Job(r).kind = "exit"
  /\ level[Job(r).depot] # NoRow => Free(r, Job(r).depot)
  /\ IF Held(level[Job(r).depot]) < Job(r).qty
       THEN /\ pc' = [pc EXCEPT ![r] = "refused"]
            /\ UNCHANGED lock
       ELSE /\ pc' = [pc EXCEPT ![r] = "ready"]
            /\ lock' = [lock EXCEPT ![Job(r).depot] = r]
  /\ UNCHANGED <<payload, level, ledger, opOf, seen, inserted>>

\* record_adjustment reads the level without a lock; its delta is computed
\* from this reading, whatever is committed afterwards.
ReadLevel(r) ==
  /\ pc[r] = "admitted"
  /\ Job(r).kind = "adjustment"
  /\ seen' = [seen EXCEPT ![r] = Held(level[Job(r).depot])]
  /\ pc' = [pc EXCEPT ![r] = "ready"]
  /\ UNCHANGED <<payload, level, ledger, lock, opOf, inserted>>

\* The flush inserts the next movement; its trigger upserts the level row and
\* so waits for, then takes, the row lock.
Insert(r) ==
  /\ pc[r] = "ready"
  /\ inserted[r] < Width(r)
  /\ Free(r, Target(r, inserted[r] + 1))
  /\ lock' = [lock EXCEPT ![Target(r, inserted[r] + 1)] = r]
  /\ inserted' = [inserted EXCEPT ![r] = @ + 1]
  /\ UNCHANGED <<payload, level, ledger, pc, opOf, seen>>

\* Mutant: an adjustment writes the counted quantity over the level.
CommitCounted(r) ==
  /\ pc[r] = "ready"
  /\ inserted[r] = Width(r)
  /\ level' = [d \in Depot |->
                  IF d \notin Touched(r) THEN level[d]
                  ELSE IF Job(r).kind = "adjustment" THEN Job(r).qty
                  ELSE Held(level[d]) + Change(r, d)]
  /\ ledger' = ledger \cup {Movement(r, i) : i \in 1..Width(r)}
  /\ lock' = Released(r)
  /\ pc' = [pc EXCEPT ![r] = "done"]
  /\ UNCHANGED <<payload, opOf, seen, inserted>>

\* Mutant: each movement is committed on its own, the first one first.
CommitFirst(r) ==
  /\ pc[r] = "ready"
  /\ inserted[r] = 1
  /\ level' = [level EXCEPT ![Target(r, 1)] = Held(@) + Delta(r, 1)]
  /\ ledger' = ledger \cup {Movement(r, 1)}
  /\ lock' = Released(r)
  /\ pc' = [pc EXCEPT ![r] = "done"]
  /\ UNCHANGED <<payload, opOf, seen, inserted>>

\* The request returns: get_db commits, movements and level rows appear
\* together and the locks are released.
Commit(r) ==
  /\ pc[r] = "ready"
  /\ inserted[r] = Width(r)
  /\ level' = [d \in Depot |-> IF d \in Touched(r) THEN Held(level[d]) + Change(r, d)
                                                   ELSE level[d]]
  /\ ledger' = ledger \cup {Movement(r, i) : i \in 1..Width(r)}
  /\ lock' = Released(r)
  /\ pc' = [pc EXCEPT ![r] = "done"]
  /\ UNCHANGED <<payload, opOf, seen, inserted>>

\* Any exception (role, unknown variant, lost connection) or the death of the
\* process: get_db rolls the transaction back.
Rollback(r) ==
  /\ pc[r] \in InFlight
  /\ lock' = Released(r)
  /\ pc' = [pc EXCEPT ![r] = "aborted"]
  /\ UNCHANGED <<payload, level, ledger, opOf, seen, inserted>>

\* r waits, in Insert or in LockAndCheck, for a lock that s holds.
WaitsFor(r, s) ==
  \/ /\ pc[r] = "ready"
     /\ inserted[r] < Width(r)
     /\ lock[Target(r, inserted[r] + 1)] = s
  \/ /\ pc[r] = "admitted"
     /\ Job(r).kind = "exit"
     /\ level[Job(r).depot] # NoRow
     /\ lock[Job(r).depot] = s

\* PostgreSQL aborts a request that is part of a cycle of waits.
DeadlockAbort(r) ==
  /\ \E S \in SUBSET Req :
        /\ r \in S
        /\ \A x \in S : \E y, z \in S \ {x} : WaitsFor(x, y) /\ WaitsFor(z, x)
  /\ lock' = Released(r)
  /\ pc' = [pc EXCEPT ![r] = "aborted"]
  /\ UNCHANGED <<payload, level, ledger, opOf, seen, inserted>>

Work(r) == \/ CheckIdempotent(r) \/ LockAndCheck(r) \/ ReadLevel(r)
           \/ Insert(r) \/ Commit(r) \/ DeadlockAbort(r)

Next == \/ \E r \in Req, o \in Op : Submit(r, o)
        \/ \E r \in Req : Work(r) \/ Rollback(r)

Spec == Init /\ [][Next]_vars

\* The server runs a request it received; nothing makes a client send one, and
\* nothing makes a request fail.
FairSpec == Spec /\ \A r \in Req : WF_vars(Work(r))
-----------------------------------------------------------------------------
TypeOK ==
  /\ payload \in [Op -> Payloads]
  /\ level \in [Depot -> Int \cup {NoRow}]
  /\ ledger \subseteq [req : Req, op : Op, depot : Depot, delta : Int]
  /\ lock \in [Depot -> Req \cup {NoReq}]
  /\ pc \in [Req -> {"idle"} \cup InFlight \cup Ended]
  /\ opOf \in [Req -> Op \cup {NoOp}]
  /\ \A r \in Req : pc[r] # "idle" => opOf[r] \in Op
  /\ seen \in [Req -> Int]
  /\ inserted \in [Req -> 0..2]

\* The level rows, which the application never writes itself, are at all times
\* the sum of the immutable movements: concurrent movements add up and none is
\* lost (StockLevel, StockMovement; PRODUCT.md 11.3).
LevelsMatchLedger ==
  \A d \in Depot :
    LET moves == {m \in ledger : m.depot = d}
    IN /\ Held(level[d]) = Held(Opening[d]) + SumFunction([m \in moves |-> m.delta])
       /\ level[d] = NoRow => moves = {}

\* Two requests of the same keyed operation never both write: a resubmission
\* after a lost answer has no effect (_check_idempotent).
AppliedAtMostOnce ==
  \A m, n \in ledger : (m.op = n.op /\ payload[m.op].keyed) => m.req = n.req

\* The two halves of a transfer are committed together or not at all: the
\* movements of each transfer cancel out (record_transfer).
TransfersBalance ==
  \A m \in ledger : payload[m.op].kind = "transfer" =>
    \E n \in ledger : /\ n.req = m.req
                      /\ n.depot # m.depot
                      /\ n.delta = -m.delta

\* The commit of an exit never leaves its depot below zero, whatever was
\* committed between its check and its insertion (record_exit's locked check).
ExitsNeverOverdraw ==
  [][\A r \in Req :
        (pc[r] = "ready" /\ pc'[r] = "done" /\ Job(r).kind = "exit")
           => level'[Job(r).depot] >= 0]_vars

\* Every request the server received comes to an end: opposite transfers that
\* lock each other's depots are told apart by the database.
RequestsEnd == \A r \in Req : pc[r] = "received" ~> pc[r] \in Ended

AppliedOps == {o \in Op : payload[o].keyed /\ \E m \in ledger : m.op = o}

Ledger == INSTANCE StockLedger
            WITH stock   <- [d \in Depot |-> Held(level[d])],
                 applied <- AppliedOps

\* The requests, locks and retries implement the atomic operations of
\* StockLedger.
ImplementsLedger == Ledger!LSpec
=============================================================================
