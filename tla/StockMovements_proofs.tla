------------------------ MODULE StockMovements_proofs ------------------------
(***************************************************************************)
(* Proofs about StockMovements, for every set of depots, operations and    *)
(* requests, every opening stock and every set of payloads.                *)
(*                                                                         *)
(* The inductive invariant says what a request has secured by the time it  *)
(* is about to write: the row locks of what it inserted and, for an exit,  *)
(* the lock of a row that still holds enough.                              *)
(***************************************************************************)
EXTENDS StockMovements, FiniteSetTheorems, WellFoundedInduction, TLAPS

\* What a request holds.  Nothing is inserted before the request is ready.
SecuredBy(r) ==
  /\ pc[r] \in {"idle", "received", "admitted"} => inserted[r] = 0
  /\ pc[r] = "ready" =>
       /\ inserted[r] <= Width(r)
       /\ \A i \in 1..inserted[r] : lock[Target(r, i)] = r
       /\ Job(r).kind = "transfer" => Job(r).depot # Job(r).dest
       /\ Job(r).kind = "exit" =>
            /\ lock[Job(r).depot] = r
            /\ Held(level[Job(r).depot]) >= Job(r).qty

Secured == \A r \in Req : SecuredBy(r)

LockInv == TypeOK /\ Secured

\* An operation runs in one request at a time, and a request that passed the
\* idempotency check still has nothing of its operation in the ledger.
Exclusive ==
  /\ \A r, s \in Req :
       (pc[r] \in InFlight /\ pc[s] \in InFlight /\ opOf[r] = opOf[s]) => r = s
  /\ \A r \in Req : pc[r] \in {"admitted", "ready"} => ~Known(r)

OnceInv == TypeOK /\ Exclusive /\ AppliedAtMostOnce

\* The sum of the weights w over S, as the fold computes it: one of them, then the others.
Total(w, S) == SumFunctionOnSet(w, S)
Chosen(S) == CHOOSE m \in S : TRUE
Others(S) == S \ {Chosen(S)}
Body(w, T, g) == IF T = {} THEN 0 ELSE w[Chosen(T)] + g[Others(T)]
Solves(w, S, g) == \A T \in SUBSET S : g[T] = Body(w, T, g)
Sums(w, S) == CHOOSE g : g = [T \in SUBSET S |-> Body(w, T, g)]

\* What the movements S add to a level.
Deltas(S) == SumFunction([m \in S |-> m.delta])
Moves(d) == {m \in ledger : m.depot = d}

\* The ledger holds the movements of the requests that ended well, the levels their sums.
LedgerInv ==
  /\ LockInv
  /\ IsFiniteSet(ledger)
  /\ \A m \in ledger : pc[m.req] = "done"
  /\ \A d \in Depot : /\ Held(level[d]) = Held(Opening[d]) + Deltas(Moves(d))
                      /\ level[d] = NoRow => Moves(d) = {}
-----------------------------------------------------------------------------
\* The payload of a request that was sent is well formed.
LEMMA JobType ==
  ASSUME TypeOK, NEW r \in Req, pc[r] # "idle"
  PROVE  /\ opOf[r] \in Op
         /\ Job(r) \in PayloadType
         /\ Width(r) \in 1..2
         /\ \A i \in 1..2 : Target(r, i) \in Depot /\ Delta(r, i) \in Int
         /\ \A d \in Depot : Change(r, d) \in Int
<1>1. opOf[r] \in Op
  BY DEF TypeOK
<1>2. Job(r) \in PayloadType
  BY <1>1, ConstantsAssumption DEF TypeOK, Job
<1>3. Width(r) \in 1..2
  BY DEF Width
<1>4. ASSUME NEW i \in 1..2 PROVE Target(r, i) \in Depot
  BY <1>2 DEF Target, PayloadType
<1>5. Job(r).qty \in Int /\ seen[r] \in Int
  BY <1>2 DEF PayloadType, TypeOK
<1>6. ASSUME NEW i \in 1..2 PROVE Delta(r, i) \in Int
  BY <1>5 DEF Delta
<1>7. \A d \in Depot : Change(r, d) \in Int
  BY <1>6 DEF Change
<1>. QED
  BY <1>1, <1>2, <1>3, <1>4, <1>6, <1>7

\* Giving locks back keeps the lock table well formed, and takes nothing from
\* the other requests.
LEMMA ReleasedType ==
  ASSUME TypeOK, NEW r \in Req
  PROVE  /\ Released(r) \in [Depot -> Req \cup {NoReq}]
         /\ \A d \in Depot : \A s \in Req \ {r} : lock[d] = s => Released(r)[d] = s
BY DEF TypeOK, Released

LEMMA TypeInit == Init => TypeOK
BY ConstantsAssumption DEF Init, TypeOK

LEMMA TypeStep == TypeOK /\ [Next]_vars => TypeOK'
<1> SUFFICES ASSUME TypeOK, [Next]_vars PROVE TypeOK'
  OBVIOUS
<1>1. ASSUME NEW r \in Req, NEW o \in Op, Submit(r, o) PROVE TypeOK'
  BY <1>1 DEF TypeOK, Submit, InFlight, Ended
<1>2. ASSUME NEW r \in Req, CheckIdempotent(r) PROVE TypeOK'
  BY <1>2 DEF TypeOK, CheckIdempotent, InFlight, Ended
<1>3. ASSUME NEW r \in Req, LockAndCheck(r) PROVE TypeOK'
  <2>1. Job(r).depot \in Depot
    BY <1>3, JobType DEF LockAndCheck, PayloadType
  <2>. QED
    BY <1>3, <2>1 DEF TypeOK, LockAndCheck, InFlight, Ended
<1>4. ASSUME NEW r \in Req, ReadLevel(r) PROVE TypeOK'
  <2>1. Held(level[Job(r).depot]) \in Int
    BY <1>4, JobType DEF ReadLevel, PayloadType, TypeOK, Held
  <2>. QED
    BY <1>4, <2>1 DEF TypeOK, ReadLevel, InFlight, Ended
<1>5. ASSUME NEW r \in Req, Insert(r) PROVE TypeOK'
  <2>1. inserted[r] + 1 \in 0..2
    BY <1>5, JobType DEF Insert, TypeOK
  <2>. QED
    BY <1>5, <2>1 DEF TypeOK, Insert, InFlight, Ended
<1>6. ASSUME NEW r \in Req, Commit(r) PROVE TypeOK'
  <2>1. level' \in [Depot -> Int \cup {NoRow}]
    <3>1. \A d \in Depot : Held(level[d]) \in Int /\ Change(r, d) \in Int
      BY <1>6, JobType DEF Commit, TypeOK, Held
    <3>. QED
      BY <1>6, <3>1 DEF Commit, TypeOK
  <2>2. \A i \in 1..Width(r) : Movement(r, i) \in [req : Req, op : Op, depot : Depot, delta : Int]
    BY <1>6, JobType DEF Commit, Movement
  <2>3. ledger' \subseteq [req : Req, op : Op, depot : Depot, delta : Int]
    BY <1>6, <2>2 DEF Commit, TypeOK
  <2>4. lock' \in [Depot -> Req \cup {NoReq}]
    BY <1>6, ReleasedType DEF Commit
  <2>. QED
    BY <1>6, <2>1, <2>3, <2>4 DEF TypeOK, Commit, InFlight, Ended
<1>7. ASSUME NEW r \in Req, Rollback(r) PROVE TypeOK'
  BY <1>7, ReleasedType DEF TypeOK, Rollback, InFlight, Ended
<1>8. ASSUME NEW r \in Req, DeadlockAbort(r) PROVE TypeOK'
  <2>1. pc[r] # "idle"
    BY <1>8 DEF DeadlockAbort, WaitsFor
  <2>2. /\ pc' = [pc EXCEPT ![r] = "aborted"] /\ lock' = Released(r)
        /\ UNCHANGED <<payload, level, ledger, opOf, seen, inserted>>
    BY <1>8 DEF DeadlockAbort
  <2>. QED
    BY <2>1, <2>2, ReleasedType DEF TypeOK, InFlight, Ended
<1>9. CASE UNCHANGED vars
  BY <1>9 DEF TypeOK, vars
<1>. QED
  BY <1>1, <1>2, <1>3, <1>4, <1>5, <1>6, <1>7, <1>8, <1>9 DEF Next, Work

\* Every variable keeps its type, in particular a level is always an integer or
\* a missing row, and a request never inserts more than two movements.
THEOREM TypeCorrect == Spec => []TypeOK
BY TypeInit, TypeStep, PTL DEF Spec
-----------------------------------------------------------------------------
LEMMA SecuredInit == Init => Secured
BY DEF Init, Secured, SecuredBy

\* A step of another request disturbs nothing a request has secured, as long
\* as it takes no lock the request holds and changes no level it locked.
LEMMA SecuredFrame ==
  ASSUME LockInv, NEW s \in Req, UNCHANGED payload,
         pc'[s] = pc[s], opOf'[s] = opOf[s], inserted'[s] = inserted[s],
         \A d \in Depot : lock[d] = s => lock'[d] = s /\ level'[d] = level[d]
  PROVE  SecuredBy(s)'
<1>1. CASE pc[s] # "ready"
  BY <1>1 DEF LockInv, Secured, SecuredBy
<1>2. CASE pc[s] = "ready"
  <2>1. /\ Job(s)' = Job(s) /\ Width(s)' = Width(s)
        /\ \A i \in 1..2 : Target(s, i)' = Target(s, i)
    BY DEF Job, Width, Target
  <2>2. /\ Job(s).depot \in Depot
        /\ \A i \in 1..2 : Target(s, i) \in Depot
        /\ inserted[s] \in 0..2
    BY <1>2, JobType DEF LockInv, PayloadType, TypeOK
  <2>3. SecuredBy(s)
    BY DEF LockInv, Secured
  <2>4. \A i \in 1..inserted[s] : lock'[Target(s, i)'] = s
    <3>. SUFFICES ASSUME NEW i \in 1..inserted[s] PROVE lock'[Target(s, i)'] = s
      OBVIOUS
    <3>1. i \in 1..2
      BY <2>2
    <3>. QED
      BY <1>2, <3>1, <2>1, <2>2, <2>3 DEF SecuredBy
  <2>5. Job(s).kind = "exit" =>
             /\ lock'[Job(s).depot] = s
             /\ Held(level'[Job(s).depot]) >= Job(s).qty
    BY <1>2, <2>2, <2>3 DEF SecuredBy
  <2>. QED
    BY <1>2, <2>1, <2>3, <2>4, <2>5 DEF SecuredBy
<1>. QED
  BY <1>1, <1>2

\* A request that inserted everything holds the lock of every depot it touches.
LEMMA TouchedLocked ==
  ASSUME LockInv, NEW r \in Req, pc[r] = "ready", inserted[r] = Width(r)
  PROVE  \A d \in Touched(r) : lock[d] = r
BY DEF LockInv, Secured, SecuredBy, Touched

LEMMA SecuredStep == LockInv /\ [Next]_vars => Secured'
<1> SUFFICES ASSUME LockInv, [Next]_vars PROVE Secured'
  OBVIOUS
<1>t. TypeOK
  BY DEF LockInv
<1>1. ASSUME NEW r \in Req, NEW o \in Op, Submit(r, o) PROVE Secured'
  <2>1. SecuredBy(r)'
    BY <1>1, <1>t DEF Submit, TypeOK, LockInv, Secured, SecuredBy
  <2>2. ASSUME NEW s \in Req \ {r} PROVE SecuredBy(s)'
    BY <1>1, <1>t, SecuredFrame DEF Submit, TypeOK
  <2>. QED
    BY <2>1, <2>2 DEF Secured
<1>2. ASSUME NEW r \in Req, CheckIdempotent(r) PROVE Secured'
  <2>1. SecuredBy(r)'
    <3>1. Job(r)' = Job(r) /\ Width(r)' = Width(r)
      BY <1>2 DEF CheckIdempotent, Job, Width
    <3>2. inserted'[r] = 0 /\ Width(r) >= 0
      BY <1>2 DEF CheckIdempotent, LockInv, Secured, SecuredBy, Width
    <3>3. pc'[r] = "ready" => /\ Job(r).kind # "exit"
                              /\ Job(r).kind = "transfer" => Job(r).depot # Job(r).dest
      BY <1>2, <1>t DEF CheckIdempotent, TypeOK
    <3>. QED
      BY <3>1, <3>2, <3>3 DEF SecuredBy
  <2>2. ASSUME NEW s \in Req \ {r} PROVE SecuredBy(s)'
    BY <1>2, <1>t, SecuredFrame DEF CheckIdempotent, TypeOK
  <2>. QED
    BY <2>1, <2>2 DEF Secured
<1>3. ASSUME NEW r \in Req, LockAndCheck(r) PROVE Secured'
  <2>1. /\ Job(r).depot \in Depot /\ Job(r).qty \in Int
        /\ Held(level[Job(r).depot]) \in Int
    BY <1>3, <1>t, JobType DEF LockAndCheck, PayloadType, TypeOK, Held
  <2>2. SecuredBy(r)'
    <3>1. Job(r)' = Job(r) /\ Width(r)' = Width(r) /\ Width(r) >= 0
      BY <1>3 DEF LockAndCheck, Job, Width
    <3>2. inserted'[r] = 0
      BY <1>3 DEF LockAndCheck, LockInv, Secured, SecuredBy
    <3>3. CASE Held(level[Job(r).depot]) < Job(r).qty
      BY <1>3, <1>t, <3>3 DEF LockAndCheck, TypeOK, SecuredBy
    <3>4. CASE Held(level[Job(r).depot]) >= Job(r).qty
      <4>1. lock'[Job(r).depot] = r /\ level' = level
        BY <1>3, <1>t, <2>1, <3>4 DEF LockAndCheck, TypeOK
      <4>. QED
        BY <1>3, <3>1, <3>2, <3>4, <4>1 DEF LockAndCheck, SecuredBy
    <3>. QED
      BY <2>1, <3>3, <3>4
  <2>3. ASSUME NEW s \in Req \ {r} PROVE SecuredBy(s)'
    <3>1. \A d \in Depot : lock[d] = s => lock'[d] = s /\ level'[d] = level[d]
      <4>1. CASE Held(level[Job(r).depot]) < Job(r).qty
        BY <1>3, <4>1 DEF LockAndCheck
      <4>2. CASE Held(level[Job(r).depot]) >= Job(r).qty
        <5>1. level[Job(r).depot] # NoRow => lock[Job(r).depot] # s
          BY <1>3, ConstantsAssumption DEF LockAndCheck, Free
        <5>2. level[Job(r).depot] # NoRow
          <6>1. Job(r).qty > 0
            BY <1>3, <1>t, JobType, ConstantsAssumption DEF LockAndCheck, Job, TypeOK, PayloadType
          <6>. QED
            BY <6>1, <2>1, <4>2 DEF Held
        <5>. QED
          BY <1>3, <1>t, <2>1, <5>1, <5>2, <4>2 DEF LockAndCheck, TypeOK
      <4>. QED
        BY <2>1, <4>1, <4>2
    <3>. QED
      BY <1>3, <1>t, <3>1, SecuredFrame DEF LockAndCheck, TypeOK
  <2>. QED
    BY <2>2, <2>3 DEF Secured
<1>4. ASSUME NEW r \in Req, ReadLevel(r) PROVE Secured'
  <2>1. SecuredBy(r)'
    <3>1. /\ Job(r)' = Job(r) /\ Width(r)' = Width(r) /\ Width(r) >= 0
          /\ Job(r).kind = "adjustment"
      BY <1>4 DEF ReadLevel, Job, Width
    <3>2. inserted'[r] = 0
      BY <1>4 DEF ReadLevel, LockInv, Secured, SecuredBy
    <3>. QED
      BY <1>4, <1>t, <3>1, <3>2 DEF SecuredBy, ReadLevel, TypeOK
  <2>2. ASSUME NEW s \in Req \ {r} PROVE SecuredBy(s)'
    BY <1>4, <1>t, SecuredFrame DEF ReadLevel, TypeOK
  <2>. QED
    BY <2>1, <2>2 DEF Secured
<1>5. ASSUME NEW r \in Req, Insert(r) PROVE Secured'
  <2> DEFINE n == inserted[r] + 1
  <2>1. /\ n \in 1..2 /\ inserted[r] \in 0..1 /\ n <= Width(r)
        /\ Target(r, n) \in Depot
    BY <1>5, <1>t, JobType DEF Insert, TypeOK
  <2>2. /\ lock' = [lock EXCEPT ![Target(r, n)] = r] /\ inserted'[r] = n
        /\ lock'[Target(r, n)] = r
        /\ \A d \in Depot : lock[d] = r => lock'[d] = r
    BY <1>5, <1>t, <2>1 DEF Insert, TypeOK
  <2>3. SecuredBy(r)'
    <3>1. /\ Job(r)' = Job(r) /\ Width(r)' = Width(r)
          /\ \A i \in 1..2 : Target(r, i)' = Target(r, i)
      BY <1>5 DEF Insert, Job, Width, Target
    <3>2. ASSUME NEW i \in 1..n PROVE lock'[Target(r, i)] = r
      <4>1. CASE i = n
        BY <2>2, <4>1
      <4>2. CASE i # n
        <5>1. i \in 1..inserted[r] /\ i \in 1..2
          BY <2>1, <4>2
        <5>2. lock[Target(r, i)] = r /\ Target(r, i) \in Depot
          BY <1>5, <1>t, <5>1, JobType DEF Insert, LockInv, Secured, SecuredBy
        <5>. QED
          BY <2>2, <5>2
      <4>. QED
        BY <4>1, <4>2
    <3>3. Job(r).depot \in Depot
      BY <1>5, <1>t, JobType DEF Insert, PayloadType
    <3>4. \A i \in 1..n : i \in 1..2
      BY <2>1
    <3>5. SecuredBy(r) /\ pc[r] = "ready" /\ pc' = pc /\ level' = level
      BY <1>5 DEF Insert, LockInv, Secured
    <3>. QED
      BY <2>1, <2>2, <3>1, <3>2, <3>3, <3>4, <3>5 DEF SecuredBy
  <2>4. ASSUME NEW s \in Req \ {r} PROVE SecuredBy(s)'
    <3>1. lock[Target(r, n)] # s
      BY <1>5, ConstantsAssumption DEF Insert, Free
    <3>2. \A d \in Depot : lock[d] = s => lock'[d] = s /\ level'[d] = level[d]
      BY <1>5, <1>t, <2>2, <3>1 DEF Insert, TypeOK
    <3>. QED
      BY <1>5, <1>t, <3>2, SecuredFrame DEF Insert, TypeOK
  <2>. QED
    BY <2>3, <2>4 DEF Secured
<1>6. ASSUME NEW r \in Req, Commit(r) PROVE Secured'
  <2>1. SecuredBy(r)'
    BY <1>6, <1>t DEF Commit, TypeOK, SecuredBy
  <2>2. ASSUME NEW s \in Req \ {r} PROVE SecuredBy(s)'
    <3>1. \A d \in Depot : lock[d] = s => d \notin Touched(r)
      BY <1>6, TouchedLocked DEF Commit
    <3>2. \A d \in Depot : lock[d] = s => lock'[d] = s /\ level'[d] = level[d]
      BY <1>6, <1>t, <3>1, ReleasedType DEF Commit, TypeOK
    <3>. QED
      BY <1>6, <1>t, <3>2, SecuredFrame DEF Commit, TypeOK
  <2>. QED
    BY <2>1, <2>2 DEF Secured
<1>7. ASSUME NEW r \in Req, Rollback(r) \/ DeadlockAbort(r) PROVE Secured'
  <2>0. /\ lock' = Released(r) /\ pc' = [pc EXCEPT ![r] = "aborted"]
        /\ UNCHANGED <<payload, level, opOf, inserted>>
    BY <1>7 DEF Rollback, DeadlockAbort
  <2>1. SecuredBy(r)'
    BY <2>0, <1>t DEF TypeOK, SecuredBy
  <2>2. ASSUME NEW s \in Req \ {r} PROVE SecuredBy(s)'
    BY <2>0, <1>t, ReleasedType, SecuredFrame DEF TypeOK
  <2>. QED
    BY <2>1, <2>2 DEF Secured
<1>8. CASE UNCHANGED vars
  BY <1>8 DEF vars, LockInv, Secured, SecuredBy, Width, Target, Job
<1>. QED
  BY <1>1, <1>2, <1>3, <1>4, <1>5, <1>6, <1>7, <1>8 DEF Next, Work

LEMMA LockInvariant == Spec => []LockInv
<1>1. Init => LockInv
  BY TypeInit, SecuredInit DEF LockInv
<1>2. LockInv /\ [Next]_vars => LockInv'
  BY TypeStep, SecuredStep DEF LockInv
<1>. QED
  BY <1>1, <1>2, PTL DEF Spec

\* The commit of a request that secured its exit leaves the depot at zero or
\* above: nothing else was committed on the row it locked.
LEMMA ExitStep ==
  ASSUME LockInv, NEW r \in Req, Commit(r), Job(r).kind = "exit"
  PROVE  level'[Job(r).depot] = Held(level[Job(r).depot]) - Job(r).qty
         /\ Held(level[Job(r).depot]) >= Job(r).qty
<1>1. TypeOK /\ pc[r] = "ready"
  BY DEF LockInv, Commit
<1>2. Job(r).depot \in Depot /\ Job(r).qty \in Int
  BY <1>1, JobType DEF PayloadType
<1>3. Width(r) = 1 /\ Target(r, 1) = Job(r).depot /\ Delta(r, 1) = -Job(r).qty
  BY DEF Width, Target, Delta
<1>4. Job(r).depot \in Touched(r) /\ Change(r, Job(r).depot) = -Job(r).qty
  BY <1>3 DEF Touched, Change
<1>5. Held(level[Job(r).depot]) \in Int
  BY <1>1, <1>2 DEF TypeOK, Held
<1>. QED
  BY <1>1, <1>2, <1>4, <1>5 DEF Commit, LockInv, Secured, SecuredBy

\* A request that becomes done does so by its own Commit.
LEMMA DoneByCommit ==
  ASSUME TypeOK, [Next]_vars, NEW r \in Req, pc[r] = "ready", pc'[r] = "done"
  PROVE  Commit(r)
<1>1. CASE UNCHANGED vars
  BY <1>1 DEF vars
<1>2. ASSUME NEW s \in Req, NEW o \in Op, Submit(s, o) PROVE Commit(r)
  BY <1>2 DEF Submit, TypeOK
<1>3. ASSUME NEW s \in Req, CheckIdempotent(s) \/ LockAndCheck(s) \/ ReadLevel(s)
      PROVE  Commit(r)
  BY <1>3 DEF CheckIdempotent, LockAndCheck, ReadLevel, TypeOK
<1>4. ASSUME NEW s \in Req, Insert(s) \/ Rollback(s) \/ DeadlockAbort(s)
      PROVE  Commit(r)
  <2>1. CASE Insert(s)
    BY <2>1 DEF Insert, TypeOK
  <2>2. CASE Rollback(s)
    BY <2>2 DEF Rollback, TypeOK
  <2>3. CASE DeadlockAbort(s)
    BY <2>3 DEF DeadlockAbort, TypeOK
  <2>. QED
    BY <1>4, <2>1, <2>2, <2>3
<1>5. ASSUME NEW s \in Req, Commit(s) PROVE Commit(r)
  <2>1. pc' = [pc EXCEPT ![s] = "done"] /\ pc \in [Req -> InFlight \cup Ended \cup {"idle"}]
    BY <1>5 DEF Commit, TypeOK
  <2>2. s = r
    BY <2>1
  <2>. QED
    BY <1>5, <2>2
<1>. QED
  BY <1>1, <1>2, <1>3, <1>4, <1>5 DEF Next, Work

\* No exit ever leaves its depot below zero, whatever runs at the same time:
\* the lock taken by the check is held until the commit.
THEOREM ExitsAreCovered == Spec => ExitsNeverOverdraw
<1>1. LockInv /\ [Next]_vars =>
        [\A r \in Req :
           (pc[r] = "ready" /\ pc'[r] = "done" /\ Job(r).kind = "exit")
              => level'[Job(r).depot] >= 0]_vars
  <2> SUFFICES ASSUME LockInv, [Next]_vars, NEW r \in Req,
                      pc[r] = "ready", pc'[r] = "done", Job(r).kind = "exit"
               PROVE  level'[Job(r).depot] >= 0
    OBVIOUS
  <2>1. TypeOK
    BY DEF LockInv
  <2>2. Commit(r)
    BY <2>1, DoneByCommit
  <2>3. Held(level[Job(r).depot]) \in Int /\ Job(r).qty \in Int
    BY <2>1, JobType DEF TypeOK, Held, PayloadType
  <2>. QED
    BY <2>2, <2>3, ExitStep
<1>. QED
  BY <1>1, LockInvariant, PTL DEF Spec, ExitsNeverOverdraw
-----------------------------------------------------------------------------
LEMMA OnceInit == Init => Exclusive /\ AppliedAtMostOnce
BY DEF Init, Exclusive, AppliedAtMostOnce, InFlight, Known

LEMMA OnceStep ==
  ASSUME ~Overlapping, OnceInv, [Next]_vars
  PROVE  Exclusive' /\ AppliedAtMostOnce'
<1>t. TypeOK /\ Exclusive /\ AppliedAtMostOnce
  BY DEF OnceInv
<1>1. ASSUME NEW r \in Req, NEW o \in Op, Submit(r, o)
      PROVE  Exclusive' /\ AppliedAtMostOnce'
  <2>1. \A s \in Req : pc[s] \in InFlight => opOf[s] # o
    BY <1>1 DEF Submit, InFlight, Ended
  <2>2. \A s \in Req : s # r => pc'[s] = pc[s] /\ opOf'[s] = opOf[s]
    BY <1>1, <1>t DEF Submit, TypeOK
  <2>3. pc'[r] = "received" /\ opOf'[r] = o
    BY <1>1, <1>t DEF Submit, TypeOK
  <2>4. \A p, q \in Req :
          (pc'[p] \in InFlight /\ pc'[q] \in InFlight /\ opOf'[p] = opOf'[q]) => p = q
    BY <1>t, <2>1, <2>2, <2>3 DEF Exclusive
  <2>5. \A s \in Req : pc'[s] \in {"admitted", "ready"} => ~Known(s)'
    BY <1>1, <1>t, <2>2, <2>3 DEF Submit, Exclusive, Known, Job
  <2>. QED
    BY <1>1, <1>t, <2>4, <2>5 DEF Submit, Exclusive, AppliedAtMostOnce, InFlight
<1>2. ASSUME NEW r \in Req, CheckIdempotent(r)
      PROVE  Exclusive' /\ AppliedAtMostOnce'
  <2>1. \A s \in Req : pc'[s] \in InFlight => pc[s] \in InFlight
    BY <1>2, <1>t DEF CheckIdempotent, TypeOK, InFlight
  <2>2. \A s \in Req : Known(s)' = Known(s)
    BY <1>2 DEF CheckIdempotent, Known, Job
  <2>3. pc'[r] \in {"admitted", "ready"} => ~Known(r)
    BY <1>2, <1>t DEF CheckIdempotent, TypeOK
  <2>4. \A s \in Req : s # r => pc'[s] = pc[s]
    BY <1>2, <1>t DEF CheckIdempotent, TypeOK
  <2>5. \A s \in Req : pc'[s] \in {"admitted", "ready"} => ~Known(s)'
    BY <1>t, <2>2, <2>3, <2>4 DEF Exclusive
  <2>6. \A p, q \in Req :
          (pc'[p] \in InFlight /\ pc'[q] \in InFlight /\ opOf'[p] = opOf'[q]) => p = q
    BY <1>2, <1>t, <2>1 DEF CheckIdempotent, Exclusive
  <2>. QED
    BY <1>2, <1>t, <2>5, <2>6 DEF CheckIdempotent, Exclusive, AppliedAtMostOnce, InFlight
<1>3. ASSUME NEW r \in Req, LockAndCheck(r) \/ ReadLevel(r) \/ Insert(r)
      PROVE  Exclusive' /\ AppliedAtMostOnce'
  <2>1. /\ UNCHANGED <<payload, ledger, opOf>>
        /\ pc[r] \in {"admitted", "ready"}
        /\ \A s \in Req : pc'[s] # pc[s] => s = r
        /\ pc'[r] \in {"refused", "ready"}
    BY <1>3, <1>t DEF LockAndCheck, ReadLevel, Insert, TypeOK
  <2>2. \A s \in Req : pc'[s] \in InFlight => pc[s] \in InFlight
    BY <2>1 DEF InFlight
  <2>3. \A s \in Req : Known(s)' = Known(s)
    BY <2>1 DEF Known, Job
  <2>4. \A s \in Req : pc'[s] \in {"admitted", "ready"} => ~Known(s)'
    BY <1>t, <2>1, <2>3 DEF Exclusive
  <2>5. \A p, q \in Req :
          (pc'[p] \in InFlight /\ pc'[q] \in InFlight /\ opOf'[p] = opOf'[q]) => p = q
    BY <1>t, <2>1, <2>2 DEF Exclusive
  <2>. QED
    BY <1>t, <2>1, <2>4, <2>5 DEF Exclusive, AppliedAtMostOnce, InFlight
<1>4. ASSUME NEW r \in Req, Commit(r)
      PROVE  Exclusive' /\ AppliedAtMostOnce'
  <2>1. /\ UNCHANGED <<payload, opOf>>
        /\ pc[r] = "ready" /\ pc'[r] = "done"
        /\ \A s \in Req : s # r => pc'[s] = pc[s]
    BY <1>4, <1>t DEF Commit, TypeOK
  <2>2. \A p, q \in Req :
          (pc'[p] \in InFlight /\ pc'[q] \in InFlight /\ opOf'[p] = opOf'[q]) => p = q
    BY <1>t, <2>1 DEF Exclusive, InFlight
  <2>3. \A m \in ledger' : m \in ledger \/ (m.req = r /\ m.op = opOf[r])
    BY <1>4 DEF Commit, Movement
  <2>4. ASSUME NEW s \in Req, pc'[s] \in {"admitted", "ready"} PROVE ~Known(s)'
    <3>1. s # r /\ pc[s] = pc'[s] /\ ~Known(s)
      BY <1>t, <2>1, <2>4 DEF Exclusive
    <3>2. opOf[s] # opOf[r]
      BY <1>t, <2>1, <2>4, <3>1 DEF Exclusive, InFlight
    <3>. QED
      BY <2>1, <2>3, <3>1, <3>2 DEF Known, Job
  <2>5. Job(r).keyed => \A m \in ledger : m.op # opOf[r]
    BY <1>t, <2>1 DEF Exclusive, Known
  <2>6. AppliedAtMostOnce'
    <3>. SUFFICES ASSUME NEW m \in ledger', NEW n \in ledger',
                         m.op = n.op, payload[m.op].keyed
                  PROVE  m.req = n.req
      BY <2>1 DEF AppliedAtMostOnce
    <3>. QED
      BY <1>t, <2>3, <2>5 DEF AppliedAtMostOnce, Job
  <2>. QED
    BY <2>2, <2>4, <2>6 DEF Exclusive, InFlight
<1>5. ASSUME NEW r \in Req, Rollback(r) \/ DeadlockAbort(r)
      PROVE  Exclusive' /\ AppliedAtMostOnce'
  <2>1. /\ UNCHANGED <<payload, ledger, opOf>>
        /\ \A s \in Req : pc'[s] = pc[s] \/ pc'[s] = "aborted"
    BY <1>5, <1>t DEF Rollback, DeadlockAbort, TypeOK
  <2>2. \A p, q \in Req :
          (pc'[p] \in InFlight /\ pc'[q] \in InFlight /\ opOf'[p] = opOf'[q]) => p = q
    BY <1>t, <2>1 DEF Exclusive, InFlight
  <2>3. \A s \in Req : pc'[s] \in {"admitted", "ready"} => ~Known(s)'
    BY <1>t, <2>1 DEF Exclusive, Known, Job
  <2>. QED
    BY <1>t, <2>1, <2>2, <2>3 DEF Exclusive, AppliedAtMostOnce, InFlight
<1>6. CASE UNCHANGED vars
  BY <1>6, <1>t DEF vars, Exclusive, AppliedAtMostOnce, InFlight, Known, Job
<1>. QED
  BY <1>1, <1>2, <1>3, <1>4, <1>5, <1>6 DEF Next, Work

LEMMA OnceInvariant ==
  ASSUME ~Overlapping
  PROVE  Spec => []OnceInv
<1>1. Init => OnceInv
  BY TypeInit, OnceInit DEF OnceInv
<1>2. OnceInv /\ [Next]_vars => OnceInv'
  BY TypeStep, OnceStep DEF OnceInv
<1>. QED
  BY <1>1, <1>2, PTL DEF Spec

\* A device that replays its operations one after the other has each of them
\* applied at most once, whichever answers were lost and however often it
\* tries.  The hypothesis is needed: README, section 4.
THEOREM ReplaysHaveNoEffect ==
  ASSUME ~Overlapping
  PROVE  Spec => []AppliedAtMostOnce
BY OnceInvariant, PTL DEF OnceInv
-----------------------------------------------------------------------------
\* Both halves of a transfer enter the ledger at its commit.
LEMMA BalanceStep ==
  ASSUME LockInv, TransfersBalance, [Next]_vars
  PROVE  TransfersBalance'
<1>t. TypeOK
  BY DEF LockInv
<1>1. ASSUME NEW r \in Req, Commit(r) PROVE TransfersBalance'
  <2>1. pc[r] = "ready" /\ UNCHANGED payload
        /\ ledger' = ledger \cup {Movement(r, i) : i \in 1..Width(r)}
    BY <1>1 DEF Commit
  <2>2. Job(r).depot \in Depot /\ Job(r).qty \in Int /\ opOf[r] \in Op
    BY <1>t, <2>1, JobType DEF PayloadType
  <2>3. ASSUME NEW m \in ledger', m \notin ledger, payload[m.op].kind = "transfer"
        PROVE  \E n \in ledger' : n.req = m.req /\ n.depot # m.depot /\ n.delta = -m.delta
    <3>1. PICK i \in 1..Width(r) : m = Movement(r, i)
      BY <2>1, <2>3
    <3>2. Job(r).kind = "transfer" /\ Width(r) = 2
      BY <2>3, <3>1 DEF Movement, Job, Width
    <3>3. Movement(r, 1) \in ledger' /\ Movement(r, 2) \in ledger'
      BY <2>1, <3>2
    <3>4. Target(r, 1) = Job(r).depot /\ Target(r, 2) = Job(r).dest
          /\ Job(r).depot # Job(r).dest
      BY <2>1, <3>2 DEF Target, LockInv, Secured, SecuredBy
    <3>5. Delta(r, 1) = -Job(r).qty /\ Delta(r, 2) = Job(r).qty
      BY <3>2 DEF Delta
    <3>6. CASE i = 1
      BY <2>2, <3>1, <3>3, <3>4, <3>5, <3>6 DEF Movement
    <3>7. CASE i = 2
      BY <2>2, <3>1, <3>3, <3>4, <3>5, <3>7 DEF Movement
    <3>. QED
      BY <3>1, <3>2, <3>6, <3>7
  <2>4. ASSUME NEW m \in ledger, payload[m.op].kind = "transfer"
        PROVE  \E n \in ledger' : n.req = m.req /\ n.depot # m.depot /\ n.delta = -m.delta
    BY <2>1, <2>4 DEF TransfersBalance
  <2>. QED
    BY <2>1, <2>3, <2>4 DEF TransfersBalance
<1>2. CASE \A r \in Req : ~Commit(r)
  <2>1. UNCHANGED <<payload, ledger>>
    BY <1>2 DEF Next, Work, Submit, CheckIdempotent, LockAndCheck, ReadLevel,
                Insert, Rollback, DeadlockAbort, vars
  <2>. QED
    BY <2>1 DEF TransfersBalance
<1>. QED
  BY <1>1, <1>2

\* A transfer is committed whole or not at all, even when the database chose
\* it as the victim of a deadlock or the process died between its two halves.
THEOREM TransfersAreWhole == Spec => []TransfersBalance
<1>1. Init => TransfersBalance
  BY DEF Init, TransfersBalance
<1>2. LockInv /\ TransfersBalance /\ [Next]_vars => TransfersBalance'
  BY BalanceStep
<1>. QED
  BY <1>1, <1>2, LockInvariant, PTL DEF Spec
-----------------------------------------------------------------------------
(* The sum of weights over a finite set.  The  library's induction on finite   *)
(* sets takes the property as a parameter; here a smallest counterexample,    *)
(* which exists because sizes are natural numbers, stands for it.             *)

LEMMA TotalIsAFold == ASSUME NEW w, NEW S PROVE Total(w, S) = Sums(w, S)[S]
BY DEF Total, SumFunctionOnSet, FoldFunctionOnSet, MapThenFoldSet, Sums, Body, Chosen, Others

LEMMA NaturalsAreWellOrdered ==
  IsWellFoundedOn({p \in Nat \X Nat : p[1] < p[2]}, Nat)
BY NatLessThanWellFounded, Zenon DEF OpToRel

\* Induction on the size of a set: some set of D has no smaller one in D.
LEMMA SmallestExists ==
  ASSUME NEW D, \A S \in D : IsFiniteSet(S), D # {}
  PROVE  \E S \in D : \A T \in D : ~(Cardinality(T) < Cardinality(S))
<1> DEFINE Sizes == {n \in Nat : \E S \in D : Cardinality(S) = n}
<1>1. Sizes # {} /\ Sizes \in SUBSET Nat
  BY FS_CardinalityType
<1>2. PICK n \in Sizes : \A k \in Sizes : ~(<<k, n>> \in {p \in Nat \X Nat : p[1] < p[2]})
  BY <1>1, NaturalsAreWellOrdered, WFMin
<1>3. PICK S \in D : Cardinality(S) = n
  BY <1>2
<1>4. ASSUME NEW T \in D, Cardinality(T) < Cardinality(S) PROVE FALSE
  <2>1. Cardinality(T) \in Sizes /\ Cardinality(T) \in Nat /\ n \in Nat
    BY FS_CardinalityType
  <2>2. <<Cardinality(T), n>> \in Nat \X Nat
        /\ <<Cardinality(T), n>>[1] = Cardinality(T) /\ <<Cardinality(T), n>>[2] = n
    BY <2>1
  <2>3. <<Cardinality(T), n>> \in {p \in Nat \X Nat : p[1] < p[2]}
    BY <2>2, <1>3, <1>4
  <2>. QED
    BY <1>2, <2>1, <2>3
<1>. QED
  BY <1>4

LEMMA SubsetsAreFinite == ASSUME NEW S, IsFiniteSet(S) PROVE \A T \in SUBSET S : IsFiniteSet(T)
BY FS_Subset

LEMMA ChosenIsMember ==
  ASSUME NEW S, S # {}, IsFiniteSet(S)
  PROVE  /\ Chosen(S) \in S /\ Others(S) \in SUBSET S /\ IsFiniteSet(Others(S))
         /\ S = Others(S) \cup {Chosen(S)} /\ Chosen(S) \notin Others(S)
         /\ Cardinality(Others(S)) < Cardinality(S)
<1>1. Chosen(S) \in S
  BY DEF Chosen
<1>2. IsFiniteSet(Others(S)) /\ Cardinality(Others(S)) = Cardinality(S) - 1
  BY <1>1, FS_RemoveElement DEF Others
<1>3. Cardinality(S) \in Nat
  BY FS_CardinalityType
<1>. QED
  BY <1>1, <1>2, <1>3 DEF Others

\* Two functions that solve the equation agree.
LEMMA SolutionsAgree ==
  ASSUME NEW w, NEW S, IsFiniteSet(S), NEW g, NEW h, Solves(w, S, g), Solves(w, S, h)
  PROVE  \A T \in SUBSET S : g[T] = h[T]
<1> DEFINE Apart == {T \in SUBSET S : g[T] # h[T]}
<1> SUFFICES ASSUME Apart # {} PROVE FALSE
  OBVIOUS
<1>1. \A T \in Apart : IsFiniteSet(T)
  BY SubsetsAreFinite
<1>2. PICK T \in Apart : \A U \in Apart : ~(Cardinality(U) < Cardinality(T))
  BY <1>1, SmallestExists
<1>3. T # {}
  BY <1>2 DEF Body, Solves
<1>4. Others(T) \in SUBSET S /\ Others(T) \notin Apart
  BY <1>1, <1>2, <1>3, ChosenIsMember
<1>. QED
  BY <1>2, <1>3, <1>4 DEF Body, Solves

\* The equation has a solution, which gives the sum of a set from the sum of the others.
LEMMA TotalSolves ==
  ASSUME NEW w, NEW S, IsFiniteSet(S)
  PROVE  Total(w, S) = (IF S = {} THEN 0 ELSE w[Chosen(S)] + Total(w, Others(S)))
<1> DEFINE Solved(T) == Sums(w, T) = [U \in SUBSET T |-> Body(w, U, Sums(w, T))]
           Unsolved == {T \in SUBSET S : ~Solved(T)}
<1>1. ASSUME NEW T \in SUBSET S, Solved(T), NEW U \in SUBSET T, Solved(U)
      PROVE  Sums(w, T)[U] = Total(w, U)
  <2>1. IsFiniteSet(U)
    BY <1>1, SubsetsAreFinite
  <2>2. Solves(w, U, Sums(w, T)) /\ Solves(w, U, Sums(w, U))
    BY <1>1 DEF Solves
  <2>3. Sums(w, T)[U] = Sums(w, U)[U]
    BY <2>1, <2>2, SolutionsAgree
  <2>. QED
    BY <2>3, TotalIsAFold
<1>2. ASSUME NEW T \in SUBSET S, \A U \in SUBSET T : U # T => Solved(U)
      PROVE  Solved(T)
  <2> DEFINE g == [U \in SUBSET T |-> IF U = {} THEN 0 ELSE w[Chosen(U)] + Total(w, Others(U))]
  <2>1. ASSUME NEW U \in SUBSET T PROVE g[U] = Body(w, U, g)
    <3>1. CASE U = {}
      BY <3>1 DEF Body
    <3>2. CASE U # {}
      <4>1. Others(U) \in SUBSET U /\ Others(U) # U /\ IsFiniteSet(U)
        BY <3>2, ChosenIsMember, SubsetsAreFinite
      <4> DEFINE V == Others(U)
      <4>2. V \in SUBSET T /\ V # T /\ Solved(V) /\ V \in SUBSET S
        BY <4>1, <1>2
      <4>3. g[V] = Total(w, V)
        <5>1. Total(w, V) = Body(w, V, Sums(w, V))
          BY <4>2, TotalIsAFold
        <5>2. CASE V = {}
          BY <5>1, <5>2, <4>2 DEF Body
        <5>3. CASE V # {}
          <6>1. Others(V) \in SUBSET V /\ Others(V) # V
            BY <4>2, <5>3, ChosenIsMember, SubsetsAreFinite
          <6>2. Solved(Others(V))
            BY <6>1, <4>2, <1>2
          <6>3. Sums(w, V)[Others(V)] = Total(w, Others(V))
            BY <6>1, <6>2, <4>2, <1>1
          <6>. QED
            BY <5>1, <5>3, <6>3, <4>2 DEF Body
        <5>. QED
          BY <5>2, <5>3
      <4>. QED
        BY <3>2, <4>2, <4>3 DEF Body
    <3>. QED
      BY <3>1, <3>2
  <2>2. g = [U \in SUBSET T |-> Body(w, U, g)]
    BY <2>1
  <2>. QED
    BY <2>2 DEF Sums
<1>3. Unsolved = {}
  <2> SUFFICES ASSUME Unsolved # {} PROVE FALSE
    OBVIOUS
  <2>1. \A T \in Unsolved : IsFiniteSet(T)
    BY SubsetsAreFinite
  <2>2. PICK T \in Unsolved : \A U \in Unsolved : ~(Cardinality(U) < Cardinality(T))
    BY <2>1, SmallestExists
  <2>3. ASSUME NEW U \in SUBSET T, U # T PROVE Solved(U)
    <3>1. Cardinality(U) < Cardinality(T)
      <4>1. IsFiniteSet(T) /\ IsFiniteSet(U)
        BY <2>1, <2>3, FS_Subset
      <4>2. Cardinality(U) \in Nat /\ Cardinality(T) \in Nat
        BY <4>1, FS_CardinalityType
      <4>3. Cardinality(U) <= Cardinality(T) /\ Cardinality(U) # Cardinality(T)
        BY <4>1, <2>3, FS_Subset
      <4>. QED
        BY <4>2, <4>3
    <3>. QED
      BY <2>2, <3>1
  <2>. QED
    BY <2>2, <2>3, <1>2
<1>4. \A T \in SUBSET S : Solved(T)
  BY <1>3
<1>5. Total(w, S) = Body(w, S, Sums(w, S))
  BY <1>4, TotalIsAFold
<1>6. ASSUME S # {} PROVE Sums(w, S)[Others(S)] = Total(w, Others(S))
  <2>1. Others(S) \in SUBSET S
    BY <1>6, ChosenIsMember
  <2>. QED
    BY <1>1, <1>4, <2>1
<1>. QED
  BY <1>5, <1>6 DEF Body

\* The order in which the weights are added does not matter.
LEMMA TotalAdds ==
  ASSUME NEW w, NEW S, IsFiniteSet(S), \A m \in S : w[m] \in Int
  PROVE  /\ Total(w, S) \in Int
         /\ \A m \in S : Total(w, S) = w[m] + Total(w, S \ {m})
<1> DEFINE Right(T) == /\ Total(w, T) \in Int
                       /\ \A m \in T : Total(w, T) = w[m] + Total(w, T \ {m})
           Wrong == {T \in SUBSET S : ~Right(T)}
<1> SUFFICES ASSUME Wrong # {} PROVE FALSE
  OBVIOUS
<1>1. \A T \in SUBSET S : IsFiniteSet(T)
  BY SubsetsAreFinite
<1>2. PICK T \in Wrong : \A U \in Wrong : ~(Cardinality(U) < Cardinality(T))
  BY <1>1, SmallestExists
<1>3. ASSUME NEW m \in T PROVE Right(T \ {m})
  <2>1. Cardinality(T \ {m}) = Cardinality(T) - 1 /\ Cardinality(T) \in Nat
    BY <1>1, FS_RemoveElement, FS_CardinalityType
  <2>2. T \ {m} \in SUBSET S /\ Cardinality(T \ {m}) < Cardinality(T)
    BY <2>1
  <2>3. T \ {m} \notin Wrong
    BY <1>2, <2>2
  <2> HIDE DEF Right
  <2>. QED
    BY <2>2, <2>3
<1>4. T # {}
  <2>1. IsFiniteSet({}) /\ Total(w, {}) = 0
    BY TotalSolves, FS_EmptySet
  <2>2. Right({})
    BY <2>1
  <2> HIDE DEF Right
  <2>. QED
    BY <2>2
<1> DEFINE c == Chosen(T)
<1>5. c \in T /\ Others(T) = T \ {c} /\ Total(w, T) = w[c] + Total(w, T \ {c}) /\ w[c] \in Int
  BY <1>1, <1>4, ChosenIsMember, TotalSolves DEF Others
<1>6. Total(w, T) \in Int
  BY <1>3, <1>5
<1>7. ASSUME NEW m \in T, m # c PROVE Total(w, T) = w[m] + Total(w, T \ {m})
  <2>1. Total(w, T \ {c}) = w[m] + Total(w, (T \ {c}) \ {m})
    BY <1>3, <1>5, <1>7
  <2>2. Total(w, T \ {m}) = w[c] + Total(w, (T \ {m}) \ {c})
    BY <1>3, <1>5, <1>7
  <2>3. (T \ {m}) \ {c} = (T \ {c}) \ {m}
    OBVIOUS
  <2>4. Total(w, (T \ {c}) \ {m}) \in Int /\ w[m] \in Int
    <3>1. Right(T \ {c}) /\ Cardinality((T \ {c}) \ {m}) = Cardinality(T \ {c}) - 1
      <4>1. IsFiniteSet(T \ {c}) /\ m \in T \ {c}
        BY <1>1, <1>2, <1>7
      <4>. QED
        BY <1>3, <1>5, <4>1, FS_RemoveElement
    <3>2. Cardinality(T \ {c}) = Cardinality(T) - 1 /\ Cardinality(T) \in Nat
      BY <1>1, <1>5, FS_RemoveElement, FS_CardinalityType
    <3>. QED
      BY <1>2, <3>1, <3>2
  <2>5. Total(w, T) = w[c] + (w[m] + Total(w, (T \ {c}) \ {m}))
    BY <1>5, <2>1
  <2>6. Total(w, T \ {m}) = w[c] + Total(w, (T \ {c}) \ {m})
    BY <2>2, <2>3
  <2> HIDE DEF c
  <2>. QED
    BY <1>5, <2>4, <2>5, <2>6
<1>. QED
  BY <1>2, <1>5, <1>6, <1>7

\* A sum depends on the weights of the elements only.
LEMMA TotalsAgree ==
  ASSUME NEW v, NEW w, NEW S, IsFiniteSet(S), \A m \in S : v[m] \in Int /\ v[m] = w[m]
  PROVE  Total(v, S) = Total(w, S)
<1> DEFINE Apart == {T \in SUBSET S : Total(v, T) # Total(w, T)}
<1> SUFFICES ASSUME Apart # {} PROVE FALSE
  OBVIOUS
<1>1. \A T \in Apart : IsFiniteSet(T)
  BY SubsetsAreFinite
<1>2. PICK T \in Apart : \A U \in Apart : ~(Cardinality(U) < Cardinality(T))
  BY <1>1, SmallestExists
<1>3. T # {}
  <2>1. Total(v, {}) = 0 /\ Total(w, {}) = 0
    BY TotalSolves, FS_EmptySet
  <2>. QED
    BY <1>2, <2>1
<1>4. /\ Chosen(T) \in T /\ T \ {Chosen(T)} = Others(T)
      /\ Others(T) \in SUBSET S /\ Others(T) \notin Apart
  BY <1>1, <1>2, <1>3, ChosenIsMember DEF Others
<1>5. /\ Total(v, T) = v[Chosen(T)] + Total(v, Others(T))
      /\ Total(w, T) = w[Chosen(T)] + Total(w, Others(T))
  BY <1>1, <1>2, <1>3, TotalSolves
<1>. QED
  BY <1>2, <1>4, <1>5

LEMMA DeltasAdd ==
  ASSUME NEW S, IsFiniteSet(S), \A m \in S : m.delta \in Int
  PROVE  /\ Deltas(S) \in Int
         /\ \A m \in S : Deltas(S) = m.delta + Deltas(S \ {m})
<1> DEFINE Weights(T) == [m \in T |-> m.delta]
<1>1. \A T \in SUBSET S : Deltas(T) = Total(Weights(T), T)
  BY DEF Deltas, SumFunction, Total
<1>2. \A m \in S : Weights(S)[m] \in Int /\ Weights(S)[m] = m.delta
  OBVIOUS
<1>3. ASSUME NEW T \in SUBSET S PROVE Total(Weights(T), T) = Total(Weights(S), T)
  <2>1. IsFiniteSet(T) /\ \A m \in T : Weights(T)[m] \in Int /\ Weights(T)[m] = Weights(S)[m]
    BY SubsetsAreFinite
  <2> HIDE DEF Weights
  <2>. QED
    BY <2>1, TotalsAgree
<1> HIDE DEF Weights
<1>4. /\ Total(Weights(S), S) \in Int
      /\ \A m \in S : Total(Weights(S), S) = Weights(S)[m] + Total(Weights(S), S \ {m})
  <2>1. \A w : (\A m \in S : w[m] \in Int) =>
          Total(w, S) \in Int /\ \A m \in S : Total(w, S) = w[m] + Total(w, S \ {m})
    BY TotalAdds
  <2>2. \A m \in S : Weights(S)[m] \in Int
    BY <1>2
  <2>. QED
    BY <2>1, <2>2
<1>. QED
  BY <1>1, <1>2, <1>3, <1>4

LEMMA NoDelta == Deltas({}) = 0
BY TotalSolves, FS_EmptySet DEF Deltas, SumFunction, Total

LEMMA LevelsAreTotals ==
  LevelsMatchLedger <=>
    \A d \in Depot : /\ Held(level[d]) = Held(Opening[d]) + Deltas(Moves(d))
                     /\ level[d] = NoRow => Moves(d) = {}
<1> DEFINE Matches(d) ==
             LET moves == {m \in ledger : m.depot = d}
             IN /\ Held(level[d]) = Held(Opening[d]) + SumFunction([m \in moves |-> m.delta])
                /\ level[d] = NoRow => moves = {}
<1>1. LevelsMatchLedger <=> \A d \in Depot : Matches(d)
  BY DEF LevelsMatchLedger
<1>2. ASSUME NEW d \in Depot
      PROVE  Matches(d) <=> /\ Held(level[d]) = Held(Opening[d]) + Deltas(Moves(d))
                            /\ level[d] = NoRow => Moves(d) = {}
  BY DEF Deltas, Moves
<1> HIDE DEF Matches
<1>. QED
  BY <1>1, <1>2

LEMMA MovesHaveTotals ==
  ASSUME TypeOK, IsFiniteSet(ledger), NEW d \in Depot
  PROVE  IsFiniteSet(Moves(d)) /\ (\A m \in Moves(d) : m.delta \in Int)
         /\ Deltas(Moves(d)) \in Int
<1>1. Moves(d) \in SUBSET ledger /\ \A m \in ledger : m.delta \in Int
  BY DEF Moves, TypeOK
<1>2. IsFiniteSet(Moves(d))
  BY <1>1, FS_Subset
<1>. QED
  BY <1>1, <1>2, DeltasAdd

LEMMA LedgerInit == Init => LedgerInv
<1> SUFFICES ASSUME Init PROVE LedgerInv
  OBVIOUS
<1>1. LockInv /\ ledger = {} /\ level = Opening
  BY TypeInit, SecuredInit DEF LockInv, Init
<1>2. IsFiniteSet({}) /\ Deltas({}) = 0
  BY FS_EmptySet, NoDelta
<1>3. ASSUME NEW d \in Depot
      PROVE  Moves(d) = {} /\ Held(level[d]) = Held(Opening[d]) + Deltas(Moves(d))
  <2>1. Moves(d) = {} /\ Held(Opening[d]) \in Int
    BY <1>1, ConstantsAssumption DEF Moves, Held
  <2>. QED
    BY <1>1, <1>2, <2>1
<1>. QED
  BY <1>1, <1>2, <1>3 DEF LedgerInv

\* A commit adds one movement to each depot it touches, and its delta to the level.
LEMMA CommitAddsUp ==
  ASSUME LedgerInv, NEW r \in Req, Commit(r), NEW d \in Depot
  PROVE  /\ Held(level'[d]) = Held(Opening[d]) + Deltas(Moves(d)')
         /\ level'[d] = NoRow => Moves(d)' = {}
<1>1. /\ TypeOK /\ IsFiniteSet(ledger) /\ pc[r] = "ready"
      /\ Job(r).kind = "transfer" => Job(r).depot # Job(r).dest
  BY DEF LedgerInv, LockInv, Secured, SecuredBy, Commit
<1>2. /\ Width(r) \in 1..2 /\ Change(r, d) \in Int
      /\ \A i \in 1..2 : Target(r, i) \in Depot /\ Delta(r, i) \in Int
  BY <1>1, JobType
<1>3. /\ level'[d] = (IF d \in Touched(r) THEN Held(level[d]) + Change(r, d) ELSE level[d])
      /\ ledger' = ledger \cup {Movement(r, i) : i \in 1..Width(r)}
  BY DEF Commit
<1>4. Held(level[d]) = Held(Opening[d]) + Deltas(Moves(d)) /\ (level[d] = NoRow => Moves(d) = {})
  BY DEF LedgerInv
<1>5. \A i \in 1..Width(r) : /\ Movement(r, i).depot = Target(r, i)
                             /\ Movement(r, i).delta = Delta(r, i)
                             /\ Movement(r, i).req = r
  BY DEF Movement
<1>6. CASE d \notin Touched(r)
  <2>1. Moves(d)' = Moves(d)
    BY <1>3, <1>5, <1>6 DEF Moves, Touched
  <2>. QED
    BY <1>3, <1>4, <1>6, <2>1
<1>7. CASE d \in Touched(r)
  <2>1. PICK i \in 1..Width(r) : /\ d = Target(r, i) /\ Delta(r, i) = Change(r, d)
                                 /\ \A j \in 1..Width(r) : Target(r, j) = d => j = i
    <3>1. PICK i \in 1..Width(r) : d = Target(r, i)
      BY <1>7 DEF Touched
    <3>2. Width(r) = 2 => Target(r, 1) # Target(r, 2)
      BY <1>1 DEF Width, Target
    <3>. QED
      BY <1>2, <3>1, <3>2 DEF Change
  <2> DEFINE n == Movement(r, i)
  <2>2. n.delta = Change(r, d) /\ n.depot = d /\ n \notin Moves(d)
    BY <1>1, <1>5, <2>1 DEF LedgerInv, Moves
  <2>3. Moves(d)' = Moves(d) \cup {n}
    BY <1>3, <1>5, <2>1, <2>2 DEF Moves
  <2> HIDE DEF n
  <2>4. /\ IsFiniteSet(Moves(d)) /\ (\A m \in Moves(d) : m.delta \in Int)
        /\ Deltas(Moves(d)) \in Int
    BY <1>1, MovesHaveTotals
  <2>5. Deltas(Moves(d) \cup {n}) = n.delta + Deltas(Moves(d))
    <3>1. IsFiniteSet(Moves(d) \cup {n}) /\ \A m \in Moves(d) \cup {n} : m.delta \in Int
      BY <1>2, <2>2, <2>4, FS_AddElement
    <3>2. (Moves(d) \cup {n}) \ {n} = Moves(d)
      BY <2>2
    <3>3. Deltas(Moves(d) \cup {n}) = n.delta + Deltas((Moves(d) \cup {n}) \ {n})
      BY <3>1, DeltasAdd
    <3>. QED
      BY <3>2, <3>3
  <2>6. Held(Opening[d]) \in Int /\ Held(level[d]) \in Int
    BY <1>1, ConstantsAssumption DEF Held, TypeOK
  <2>7. level'[d] = Held(level[d]) + Change(r, d) /\ level'[d] \in Int
    BY <1>2, <1>3, <1>7, <2>6
  <2>8. Held(level'[d]) = level'[d] /\ level'[d] # NoRow
    BY <2>7, ConstantsAssumption DEF Held
  <2>. QED
    BY <1>2, <1>4, <2>2, <2>3, <2>4, <2>5, <2>6, <2>7, <2>8
<1>. QED
  BY <1>6, <1>7

LEMMA LedgerStep == LedgerInv /\ [Next]_vars => LedgerInv'
<1> SUFFICES ASSUME LedgerInv, [Next]_vars PROVE LedgerInv'
  OBVIOUS
<1>1. LockInv' /\ TypeOK
  BY TypeStep, SecuredStep DEF LedgerInv, LockInv
<1>2. ASSUME NEW r \in Req, Commit(r) PROVE LedgerInv'
  <2>1. /\ ledger' = ledger \cup {Movement(r, i) : i \in 1..Width(r)}
        /\ pc' = [pc EXCEPT ![r] = "done"] /\ pc[r] = "ready"
    BY <1>2 DEF Commit
  <2>2. IsFiniteSet({Movement(r, i) : i \in 1..Width(r)})
    <3>1. Width(r) \in 1..2
      BY <1>1, <2>1, JobType
    <3>2. {Movement(r, i) : i \in 1..Width(r)} \subseteq {Movement(r, 1), Movement(r, 2)}
      BY <3>1
    <3>3. IsFiniteSet({Movement(r, 1), Movement(r, 2)})
      <4>1. IsFiniteSet({Movement(r, 1)}) /\ IsFiniteSet({Movement(r, 2)})
        BY FS_Singleton
      <4>2. {Movement(r, 1), Movement(r, 2)} = {Movement(r, 1)} \cup {Movement(r, 2)}
        OBVIOUS
      <4>. QED
        BY <4>1, <4>2, FS_Union
    <3>. QED
      BY <3>2, <3>3, FS_Subset
  <2>3. IsFiniteSet(ledger')
    BY <2>1, <2>2, FS_Union DEF LedgerInv
  <2>4. \A m \in ledger' : pc'[m.req] = "done"
    BY <1>1, <2>1 DEF LedgerInv, Movement, TypeOK
  <2>. QED
    BY <1>1, <1>2, <2>3, <2>4, CommitAddsUp DEF LedgerInv
<1>3. CASE \A r \in Req : ~Commit(r)
  <2>1. UNCHANGED <<level, ledger>>
    BY <1>3 DEF Next, Work, Submit, CheckIdempotent, LockAndCheck, ReadLevel,
                Insert, Rollback, DeadlockAbort, vars
  <2>2. \A r \in Req : pc[r] = "done" => pc'[r] = "done"
    BY <1>1, <1>3 DEF Next, Work, Submit, CheckIdempotent, LockAndCheck, ReadLevel, InFlight,
                Insert, Rollback, DeadlockAbort, WaitsFor, vars, TypeOK
  <2>3. \A m \in ledger : m.req \in Req
    BY <1>1 DEF TypeOK
  <2>. QED
    BY <1>1, <2>1, <2>2, <2>3 DEF LedgerInv, Moves
<1>. QED
  BY <1>2, <1>3

\* The level rows, which only the trigger writes, are at all times the sum of the
\* movements, for any number of requests that add to them at once (StockLevel).
THEOREM LevelsAreTheLedger == Spec => []LevelsMatchLedger
<1>1. LedgerInv => LevelsMatchLedger
  BY LevelsAreTotals DEF LedgerInv
<1>. QED
  BY <1>1, LedgerInit, LedgerStep, PTL DEF Spec
-----------------------------------------------------------------------------
\* A commit is one operation of the ledger.
LEMMA CommitImplements ==
  ASSUME LockInv, OnceInv, NEW r \in Req, Commit(r)
  PROVE  Ledger!LNext
<1> DEFINE stock == [d \in Depot |-> Held(level[d])]
           o == opOf[r]
           p == payload[o]
<1>t. TypeOK /\ pc[r] = "ready" /\ UNCHANGED payload
  BY DEF LockInv, Commit
<1>1. /\ o \in Op /\ p = Job(r) /\ p \in PayloadType
      /\ p.depot \in Depot /\ p.dest \in Depot /\ p.qty \in Int /\ p.kind \in Kinds
  BY <1>t, JobType DEF Job, PayloadType
<1>2. /\ \A d \in Depot : Held(level[d]) \in Int /\ Change(r, d) \in Int
      /\ \A d \in Depot : stock[d] = Held(level[d])
  BY <1>t, JobType DEF TypeOK, Held
<1>3. \A d \in Depot : stock[d]' = IF d \in Touched(r) THEN stock[d] + Change(r, d)
                                                      ELSE stock[d]
  <2>1. ASSUME NEW d \in Depot, d \in Touched(r)
        PROVE  Held(level'[d]) = Held(level[d]) + Change(r, d)
    BY <1>2, <2>1, ConstantsAssumption DEF Commit, Held
  <2>2. ASSUME NEW d \in Depot, d \notin Touched(r)
        PROVE  Held(level'[d]) = Held(level[d])
    BY <2>2 DEF Commit, Held
  <2>. QED
    BY <2>1, <2>2
<1>4. Ledger!Once(o)
  <2>1. p.keyed => o \notin AppliedOps
    BY <1>t, <1>1 DEF OnceInv, Exclusive, Known, AppliedOps
  <2>2. ledger' = ledger \cup {Movement(r, i) : i \in 1..Width(r)}
    BY DEF Commit
  <2>3. /\ Movement(r, 1) \in ledger'
        /\ Movement(r, 1).op = o
        /\ \A i \in 1..2 : Movement(r, i).op = o
    BY <2>2 DEF Width, Movement
  <2>4. \A m \in ledger' : m \in ledger \/ m.op = o
    BY <2>2 DEF Movement
  <2>5. AppliedOps' = IF p.keyed THEN AppliedOps \cup {o} ELSE AppliedOps
    <3>1. AppliedOps' = {x \in Op : payload[x].keyed /\ \E m \in ledger' : m.op = x}
      BY <1>t DEF AppliedOps
    <3>2. \A x \in Op : (\E m \in ledger' : m.op = x) <=> (x = o \/ \E m \in ledger : m.op = x)
      BY <2>2, <2>3, <2>4
    <3>. QED
      BY <1>1, <3>1, <3>2 DEF AppliedOps
  <2>. QED
    BY <1>t, <2>1, <2>5 DEF Ledger!Once
<1>5. CASE p.kind = "entry"
  <2>1. Touched(r) = {p.depot} /\ Change(r, p.depot) = p.qty
    BY <1>1, <1>5 DEF Touched, Width, Target, Change, Delta
  <2>2. stock' = [stock EXCEPT ![p.depot] = @ + p.qty]
    BY <1>1, <1>2, <1>3, <2>1
  <2>. QED
    BY <1>1, <1>4, <1>5, <2>2 DEF Ledger!LNext, Ledger!Entry
<1>6. CASE p.kind = "exit"
  <2>1. Touched(r) = {p.depot} /\ Change(r, p.depot) = -p.qty
    BY <1>1, <1>6 DEF Touched, Width, Target, Change, Delta
  <2>2. stock' = [stock EXCEPT ![p.depot] = @ - p.qty]
    BY <1>1, <1>2, <1>3, <2>1
  <2>3. stock[p.depot] >= p.qty
    BY <1>t, <1>1, <1>2, <1>6 DEF LockInv, Secured, SecuredBy
  <2>. QED
    BY <1>1, <1>4, <1>6, <2>2, <2>3 DEF Ledger!LNext, Ledger!Exit
<1>7. CASE p.kind = "adjustment"
  <2>1. Touched(r) = {p.depot}
    BY <1>1, <1>7 DEF Touched, Width, Target
  <2>2. /\ stock' \in [Depot -> Int]
        /\ \A d \in Depot \ {p.depot} : stock[d]' = stock[d]
    BY <1>2, <1>3, <2>1
  <2>. QED
    BY <1>1, <1>4, <1>7, <2>2 DEF Ledger!LNext, Ledger!Adjust
<1>8. CASE p.kind = "transfer"
  <2>1. p.depot # p.dest
    BY <1>t, <1>1, <1>8 DEF LockInv, Secured, SecuredBy
  <2>2. Width(r) = 2 /\ Target(r, 1) = p.depot /\ Target(r, 2) = p.dest
    BY <1>1, <1>8 DEF Width, Target
  <2>3. Touched(r) = {p.depot, p.dest}
    BY <2>2 DEF Touched
  <2>4. Change(r, p.depot) = -p.qty /\ Change(r, p.dest) = p.qty
    <3>1. Delta(r, 1) = -p.qty /\ Delta(r, 2) = p.qty
      BY <1>1, <1>8 DEF Delta
    <3>. QED
      BY <2>1, <2>2, <3>1 DEF Change
  <2>5. stock' = [stock EXCEPT ![p.depot] = @ - p.qty, ![p.dest] = @ + p.qty]
    BY <1>1, <1>2, <1>3, <2>1, <2>3, <2>4
  <2>. QED
    BY <1>1, <1>4, <1>8, <2>1, <2>5 DEF Ledger!LNext, Ledger!Transfer
<1>. QED
  BY <1>1, <1>5, <1>6, <1>7, <1>8 DEF Kinds

\* The concurrent requests, their locks, retries and failures implement the
\* atomic ledger, as long as a device replays its operations one at a time.
THEOREM MovementsImplementLedger ==
  ASSUME ~Overlapping
  PROVE  Spec => ImplementsLedger
<1>1. Init => Ledger!LInit
  <2> SUFFICES ASSUME Init PROVE Ledger!LInit
    OBVIOUS
  <2>1. \A d \in Depot : Held(level[d]) \in Int
    BY ConstantsAssumption DEF Init, Held
  <2>2. AppliedOps = {}
    BY DEF Init, AppliedOps
  <2>. QED
    BY <2>1, <2>2 DEF Ledger!LInit
<1>2. LockInv /\ OnceInv /\ [Next]_vars => [Ledger!LNext]_(Ledger!lvars)
  <2> SUFFICES ASSUME LockInv, OnceInv, [Next]_vars
               PROVE  Ledger!LNext \/ UNCHANGED Ledger!lvars
    OBVIOUS
  <2>1. CASE \E r \in Req : Commit(r)
    BY <2>1, CommitImplements
  <2>2. CASE \A r \in Req : ~Commit(r)
    <3>1. UNCHANGED <<payload, ledger, level>>
      BY <2>2 DEF Next, Work, Submit, CheckIdempotent, LockAndCheck, ReadLevel,
                  Insert, Rollback, DeadlockAbort, vars
    <3>. QED
      BY <3>1 DEF Ledger!lvars, AppliedOps, Held
  <2>. QED
    BY <2>1, <2>2
<1>. QED
  BY <1>1, <1>2, LockInvariant, OnceInvariant, PTL DEF Spec, ImplementsLedger, Ledger!LSpec
-----------------------------------------------------------------------------
(* Deadlocks.  A request that waits while another one waits for it has written  *)
(* the first movement of a transfer, and the requests on the server are never  *)
(* all waiting without a cycle that the database can break.                    *)

Holds(s, d) ==
  /\ pc[s] = "ready"
  /\ \/ \E i \in 1..inserted[s] : d = Target(s, i)
     \/ Job(s).kind = "exit" /\ d = Job(s).depot

HolderInv ==
  /\ \A r \in Req : pc[r] = "admitted" => Job(r).kind \in {"exit", "adjustment"}
  /\ \A s \in Req, d \in Depot : lock[d] = s => Holds(s, d)

HalfDone(r) == pc[r] = "ready" /\ Job(r).kind = "transfer" /\ inserted[r] = 1

\* What DeadlockAbort looks for.
Deadlock(S) == \A x \in S : \E y, z \in S \ {x} : WaitsFor(x, y) /\ WaitsFor(z, x)

\* The guards of Work(r), together.
CanGoOn(r) ==
  \/ pc[r] = "received"
  \/ /\ pc[r] = "admitted" /\ Job(r).kind = "exit"
     /\ level[Job(r).depot] # NoRow => Free(r, Job(r).depot)
  \/ pc[r] = "admitted" /\ Job(r).kind = "adjustment"
  \/ pc[r] = "ready" /\ (inserted[r] < Width(r) => Free(r, Target(r, inserted[r] + 1)))
  \/ \E S \in SUBSET Req : r \in S /\ Deadlock(S)

\* As long as a request is on the server, one of them can take its next step.
SomebodyGoesOn == (\E r \in Req : pc[r] \in InFlight) => \E r \in Req : CanGoOn(r)

LEMMA HolderInit == Init => HolderInv
BY ConstantsAssumption DEF Init, HolderInv

\* A request that holds nothing more than before, and whose operation is the same.
LEMMA HolderFrame ==
  ASSUME HolderInv, NEW s \in Req, UNCHANGED payload,
         pc'[s] = pc[s], opOf'[s] = opOf[s], inserted'[s] = inserted[s],
         \A d \in Depot : lock'[d] = s => lock[d] = s
  PROVE  /\ pc'[s] = "admitted" => Job(s)'.kind \in {"exit", "adjustment"}
         /\ \A d \in Depot : lock'[d] = s => Holds(s, d)'
<1>1. Job(s)' = Job(s) /\ \A i : Target(s, i)' = Target(s, i)
  BY DEF Job, Target
<1>. QED
  BY <1>1 DEF HolderInv, Holds

LEMMA HolderStep == LockInv /\ HolderInv /\ [Next]_vars => HolderInv'
<1> SUFFICES ASSUME LockInv, HolderInv, [Next]_vars PROVE HolderInv'
  OBVIOUS
<1>t. TypeOK
  BY DEF LockInv
<1> DEFINE Fine(s) == /\ pc[s] = "admitted" => Job(s).kind \in {"exit", "adjustment"}
                      /\ \A d \in Depot : lock[d] = s => Holds(s, d)
<1>f. (\A s \in Req : Fine(s)') => HolderInv'
  BY DEF HolderInv
<1>1. ASSUME NEW r \in Req, NEW o \in Op, Submit(r, o) PROVE HolderInv'
  <2>1. Fine(r)'
    BY <1>1, <1>t DEF Submit, TypeOK, HolderInv, Holds
  <2>2. ASSUME NEW s \in Req \ {r} PROVE Fine(s)'
    BY <1>1, <1>t, HolderFrame DEF Submit, TypeOK
  <2>. QED
    BY <1>f, <2>1, <2>2
<1>2. ASSUME NEW r \in Req, CheckIdempotent(r) PROVE HolderInv'
  <2>1. Job(r)' = Job(r)
    BY <1>2 DEF CheckIdempotent, Job
  <2>2. Fine(r)'
    BY <1>2, <1>t, <2>1 DEF CheckIdempotent, TypeOK, HolderInv, Holds
  <2>3. ASSUME NEW s \in Req \ {r} PROVE Fine(s)'
    BY <1>2, <1>t, HolderFrame DEF CheckIdempotent, TypeOK
  <2>. QED
    BY <1>f, <2>2, <2>3
<1>3. ASSUME NEW r \in Req, LockAndCheck(r) PROVE HolderInv'
  <2>1. Job(r)' = Job(r) /\ Job(r).kind = "exit" /\ pc' = [pc EXCEPT ![r] = pc'[r]]
        /\ pc'[r] \in {"refused", "ready"} /\ UNCHANGED <<payload, opOf, inserted>>
    BY <1>3, <1>t DEF LockAndCheck, Job, TypeOK
  <2>2. \A d \in Depot : lock[d] # r
    BY <1>3 DEF LockAndCheck, HolderInv, Holds
  <2>3. \/ lock' = lock
        \/ pc'[r] = "ready" /\ lock' = [lock EXCEPT ![Job(r).depot] = r]
    BY <1>3, <1>t DEF LockAndCheck, TypeOK
  <2>4. Fine(r)'
    BY <1>t, <2>1, <2>2, <2>3 DEF TypeOK, Holds
  <2>5. ASSUME NEW s \in Req \ {r} PROVE Fine(s)'
    BY <1>t, <2>1, <2>3, HolderFrame DEF TypeOK
  <2>. QED
    BY <1>f, <2>4, <2>5
<1>4. ASSUME NEW r \in Req, ReadLevel(r) PROVE HolderInv'
  <2>1. Fine(r)'
    BY <1>4, <1>t DEF ReadLevel, TypeOK, HolderInv, Holds
  <2>2. ASSUME NEW s \in Req \ {r} PROVE Fine(s)'
    BY <1>4, <1>t, HolderFrame DEF ReadLevel, TypeOK
  <2>. QED
    BY <1>f, <2>1, <2>2
<1>5. ASSUME NEW r \in Req, Insert(r) PROVE HolderInv'
  <2> DEFINE n == inserted[r] + 1
  <2>1. n \in 1..2 /\ inserted[r] \in 0..1 /\ Target(r, n) \in Depot
    BY <1>5, <1>t, JobType DEF Insert, TypeOK
  <2>2. /\ lock' = [lock EXCEPT ![Target(r, n)] = r] /\ inserted' = [inserted EXCEPT ![r] = n]
        /\ inserted'[r] = n /\ pc[r] = "ready" /\ UNCHANGED <<payload, pc, opOf>>
    BY <1>5, <1>t DEF Insert, TypeOK
  <2>3. Job(r)' = Job(r) /\ \A i : Target(r, i)' = Target(r, i)
    BY <2>2 DEF Job, Target
  <2>4. ASSUME NEW d \in Depot, lock'[d] = r PROVE Holds(r, d)'
    <3>1. CASE d = Target(r, n)
      BY <2>1, <2>2, <2>3, <3>1 DEF Holds
    <3>2. CASE d # Target(r, n)
      <4>1. Holds(r, d)
        BY <1>t, <2>1, <2>2, <2>4, <3>2 DEF TypeOK, HolderInv
      <4>2. \A i \in 1..inserted[r] : i \in 1..n
        BY <2>1
      <4>. QED
        BY <2>2, <2>3, <4>1, <4>2 DEF Holds
    <3>. QED
      BY <3>1, <3>2
  <2>5. Fine(r)'
    BY <2>2, <2>4
  <2>6. ASSUME NEW s \in Req \ {r} PROVE Fine(s)'
    BY <1>t, <2>1, <2>2, HolderFrame DEF TypeOK
  <2>. QED
    BY <1>f, <2>5, <2>6
<1>6. ASSUME NEW r \in Req, Commit(r) \/ Rollback(r) \/ DeadlockAbort(r) PROVE HolderInv'
  <2>1. /\ lock' = Released(r) /\ pc' = [pc EXCEPT ![r] = pc'[r]] /\ pc'[r] \in {"done", "aborted"}
        /\ UNCHANGED <<payload, opOf, inserted>>
    BY <1>6, <1>t DEF Commit, Rollback, DeadlockAbort, TypeOK
  <2>2. \A d \in Depot : lock'[d] # r /\ \A s \in Req \ {r} : lock'[d] = s => lock[d] = s
    BY <2>1, ConstantsAssumption DEF Released
  <2>3. Fine(r)'
    BY <2>1, <2>2
  <2>4. ASSUME NEW s \in Req \ {r} PROVE Fine(s)'
    BY <1>t, <2>1, <2>2, HolderFrame DEF TypeOK
  <2>. QED
    BY <1>f, <2>3, <2>4
<1>7. CASE UNCHANGED vars
  BY <1>7 DEF vars, HolderInv, Holds, Job, Target
<1>. QED
  BY <1>1, <1>2, <1>3, <1>4, <1>5, <1>6, <1>7 DEF Next, Work

LEMMA HolderInvariant == Spec => [](LockInv /\ HolderInv)
BY HolderInit, HolderStep, LockInvariant, PTL DEF Spec

\* Who waits while it holds a lock has written the first movement of a transfer.
LEMMA WaiterIsHalfDone ==
  ASSUME LockInv, HolderInv, NEW x \in Req, NEW y \in Req \ {x}, NEW z \in Req,
         WaitsFor(x, y), WaitsFor(z, x)
  PROVE  HalfDone(x)
<1>1. PICK d \in Depot : lock[d] = x
  <2>1. pc[z] # "idle" /\ TypeOK
    BY DEF WaitsFor, LockInv
  <2>2. Job(z).depot \in Depot /\ \A i \in 1..2 : Target(z, i) \in Depot
    BY <2>1, JobType DEF PayloadType
  <2>3. pc[z] = "ready" /\ inserted[z] < Width(z) => inserted[z] + 1 \in 1..2
    BY <2>1, JobType DEF TypeOK
  <2>. QED
    BY <2>2, <2>3 DEF WaitsFor
<1>2. Holds(x, d) /\ pc[x] = "ready"
  BY <1>1 DEF HolderInv, Holds
<1>3. inserted[x] < Width(x) /\ lock[Target(x, inserted[x] + 1)] # x /\ inserted[x] \in 0..2
      /\ Width(x) \in 1..2
  BY <1>2, JobType DEF WaitsFor, LockInv, TypeOK
<1>4. CASE inserted[x] = 0
  <2>1. Job(x).kind = "exit" /\ d = Target(x, 1)
    BY <1>2, <1>4 DEF Holds, Target
  <2>. QED
    BY <1>1, <1>3, <1>4, <2>1
<1>5. CASE inserted[x] # 0
  BY <1>2, <1>3, <1>5 DEF HalfDone, Width
<1>. QED
  BY <1>4, <1>5

\* Only a transfer that has written its outgoing movement is given up to break a
\* deadlock: entries, exits and adjustments never meet one (stock_service.py, the row
\* lock of record_exit and the one of the trigger).
THEOREM DeadlocksAreOfTransfers ==
  Spec => [][\A r \in Req : DeadlockAbort(r) => HalfDone(r)]_vars
<1>1. LockInv /\ HolderInv /\ [Next]_vars
        => [\A r \in Req : DeadlockAbort(r) => HalfDone(r)]_vars
  <2> SUFFICES ASSUME LockInv, HolderInv, NEW r \in Req, DeadlockAbort(r) PROVE HalfDone(r)
    OBVIOUS
  <2>1. PICK S \in SUBSET Req : r \in S /\ \A x \in S : \E y, z \in S \ {x} : WaitsFor(x, y) /\ WaitsFor(z, x)
    BY DEF DeadlockAbort
  <2>2. PICK y, z \in S \ {r} : WaitsFor(r, y) /\ WaitsFor(z, r)
    BY <2>1
  <2>. QED
    BY <2>2, WaiterIsHalfDone
<1>. QED
  BY <1>1, HolderInvariant, PTL DEF Spec

\* A request on the server that cannot go on waits for another one, which is there too.
LEMMA StuckWaits ==
  ASSUME LockInv, HolderInv, NEW x \in Req, pc[x] \in InFlight, ~CanGoOn(x)
  PROVE  \E y \in Req \ {x} : WaitsFor(x, y) /\ pc[y] \in InFlight
<1>0. TypeOK /\ pc[x] # "idle"
  BY DEF LockInv, InFlight
<1>1. \A d \in Depot : ~Free(x, d) => lock[d] \in Req \ {x}
  BY <1>0 DEF Free, TypeOK
<1>2. \A d \in Depot : lock[d] \in Req => pc[lock[d]] \in InFlight
  BY DEF HolderInv, Holds, InFlight
<1>3. CASE pc[x] = "admitted"
  <2>1. Job(x).kind = "exit" /\ level[Job(x).depot] # NoRow /\ ~Free(x, Job(x).depot)
    BY <1>3 DEF CanGoOn, HolderInv
  <2>2. Job(x).depot \in Depot
    BY <1>0, JobType DEF PayloadType
  <2>. QED
    BY <1>1, <1>2, <1>3, <2>1, <2>2 DEF WaitsFor
<1>4. CASE pc[x] = "ready"
  <2>1. inserted[x] < Width(x) /\ ~Free(x, Target(x, inserted[x] + 1))
    BY <1>4 DEF CanGoOn
  <2>2. inserted[x] + 1 \in 1..2
    BY <1>0, <2>1, JobType DEF TypeOK
  <2>3. Target(x, inserted[x] + 1) \in Depot
    BY <1>0, <2>2, JobType
  <2>. QED
    BY <1>1, <1>2, <1>4, <2>1, <2>3 DEF WaitsFor
<1>. QED
  BY <1>3, <1>4 DEF InFlight, CanGoOn

\* Where everybody waits for one of them, the smallest such set is a deadlock.
LEMMA WaitersHaveACycle ==
  ASSUME NEW All \in SUBSET Req, IsFiniteSet(All), All # {},
         \A x \in All : \E y \in All \ {x} : WaitsFor(x, y)
  PROVE  \E S \in SUBSET All : S # {} /\ Deadlock(S)
<1> DEFINE Closed == {T \in SUBSET All : T # {} /\ \A x \in T : \E y \in T \ {x} : WaitsFor(x, y)}
<1>1. Closed # {} /\ \A T \in Closed : IsFiniteSet(T)
  BY SubsetsAreFinite
<1>2. PICK T \in Closed : \A U \in Closed : ~(Cardinality(U) < Cardinality(T))
  BY <1>1, SmallestExists
<1>3. ASSUME NEW x \in T PROVE \E z \in T \ {x} : WaitsFor(z, x)
  <2> SUFFICES ASSUME \A z \in T \ {x} : ~WaitsFor(z, x) PROVE FALSE
    OBVIOUS
  <2>1. T \ {x} # {}
    OBVIOUS
  <2>2. ASSUME NEW w \in T \ {x} PROVE \E y \in (T \ {x}) \ {w} : WaitsFor(w, y)
    BY <2>2
  <2>3. T \ {x} \in Closed
    BY <2>1, <2>2
  <2>4. Cardinality(T \ {x}) < Cardinality(T)
    <3>1. Cardinality(T) \in Nat /\ Cardinality(T \ {x}) = Cardinality(T) - 1
      BY <1>1, <1>3, FS_RemoveElement, FS_CardinalityType
    <3>. QED
      BY <3>1
  <2>. QED
    BY <1>2, <2>3, <2>4
<1>4. Deadlock(T)
  BY <1>3 DEF Deadlock
<1>. QED
  BY <1>4

\* The requests on the server never all wait for each other in a way the database does
\* not see: one of them has its next step free, or is in a cycle of waits that
\* PostgreSQL breaks.  For any number of requests, depots and operations.
THEOREM NobodyIsStuck ==
  ASSUME IsFiniteSet(Req)
  PROVE  Spec => []SomebodyGoesOn
<1>1. LockInv /\ HolderInv => SomebodyGoesOn
  <2> SUFFICES ASSUME LockInv, HolderInv, NEW r \in Req, pc[r] \in InFlight,
                      \A x \in Req : ~CanGoOn(x)
               PROVE  FALSE
    BY DEF SomebodyGoesOn
  <2> DEFINE All == {x \in Req : pc[x] \in InFlight}
  <2>1. \A x \in All : \E y \in All \ {x} : WaitsFor(x, y)
    BY StuckWaits
  <2>2. All \in SUBSET Req /\ All # {} /\ IsFiniteSet(All)
    BY SubsetsAreFinite
  <2>3. PICK S \in SUBSET All : S # {} /\ Deadlock(S)
    BY <2>1, <2>2, WaitersHaveACycle
  <2>4. PICK x \in S : x \in Req
    BY <2>3
  <2>. QED
    BY <2>2, <2>3, <2>4 DEF CanGoOn
<1>. QED
  BY <1>1, HolderInvariant, PTL
=============================================================================
