----------------------------- MODULE Stock_proofs -----------------------------
(***************************************************************************)
(* Proofs about the thresholds, the lots and the packaging of MCStock, for    *)
(* every number of requests, of lots, of weeks and of operations, and then of *)
(* the properties of its run.                                                *)
(*   thresholds  movements overlap each other, scans and settings of the      *)
(*               threshold do not meet one (~Overlap)                        *)
(*   lots        exits by FIFO overlap each other; the others do not          *)
(*   packaging   one action after the other                                  *)
(***************************************************************************)
EXTENDS MCStock, FiniteSetTheorems, SequenceTheorems, TLAPS

(* The thresholds. *)

TxType   == [pc : {"idle", "started", "decided"},
             kind : {"none", "in", "out", "exit", "adjustment"},
             delta : Int, seen : Int \cup {None}, closes : SUBSET Week]
ScanType == [pc : {"idle", "read"}, week : Week, new : BOOLEAN, closes : SUBSET Week]

TypeInv ==
  /\ TypeOK
  /\ tx \in [Req -> TxType] /\ scan \in ScanType /\ low \in BOOLEAN

Active(r) == tx[r].pc # "idle"

\* Nothing is said of a week that has not begun.
Past ==
  /\ \A w \in Week : w > week => alerts[w] = "none"
  /\ scan.pc = "read" => scan.week <= week
  /\ \A w \in scan.closes : w <= scan.week
  /\ scanned # None => scanned <= week
  /\ \A r \in Req : \A w \in tx[r].closes : w <= week

\* What a movement knows of the level, and the row it holds.
Moves ==
  /\ scan.pc = "read" => \A r \in Req : ~Active(r)
  /\ \A r \in Req :
       /\ tx[r].pc = "decided" => lock = r
       /\ Active(r) => tx[r].kind # "none"
       /\ Active(r) /\ tx[r].kind \in {"in", "out"} => tx[r].seen = None
       /\ Active(r) /\ tx[r].kind = "exit" =>
            lock = r /\ tx[r].seen = level /\ tx[r].delta <= 0
       /\ Active(r) /\ tx[r].kind = "adjustment" => tx[r].seen # None

\* An alert of a week that has been low from its first day is not closed, and
\* nothing is about to close it.
Reminded ==
  /\ low => IsLow
  /\ low => alerts[week] # "resolved"
  /\ LowStockIsReminded
  /\ low /\ scan.pc = "read" /\ scan.week = week => scan.new
  /\ \A r \in Req :
       /\ Active(r) /\ tx[r].kind = "adjustment" /\ Effective # None
            /\ tx[r].seen > Effective /\ low => alerts[week] = "none"
       /\ tx[r].pc = "decided" /\ week \in tx[r].closes =>
            Effective # None /\ (low => level + tx[r].delta > Effective)

\* A movement that takes the level above the threshold closes every alert, but an
\* adjustment that found it low.
Recovers ==
  \A r \in Req :
    tx[r].pc = "decided" /\ Effective # None /\ ~FoundLow(r)
      /\ level + tx[r].delta > Effective => Opened \subseteq tx[r].closes

ThresholdInv == TypeInv /\ Past /\ Moves /\ Reminded /\ Recovers

-----------------------------------------------------------------------------
LEMMA StartType ==
  ASSUME TypeInv, NEW r \in Req, NEW kind \in {"in", "out", "exit", "adjustment"},
         NEW delta \in Int, NEW read \in Int \cup {None}, Start(r, kind, delta, read)
  PROVE  /\ tx' \in [Req -> TxType]
         /\ tx'[r].pc = "started" /\ tx'[r].kind = kind /\ tx'[r].delta = delta
         /\ tx'[r].seen = read /\ tx'[r].closes = {}
         /\ \A s \in Req : s # r => tx'[s] = tx[s]
<1> DEFINE new == [pc |-> "started", kind |-> kind, delta |-> delta, seen |-> read,
                   closes |-> {}]
<1>1. new \in TxType
  BY DEF TxType
<1>2. tx' = [tx EXCEPT ![r] = new]
  BY DEF Start, Goes
<1>. QED
  BY <1>1, <1>2 DEF TypeInv

LEMMA IdleType ==
  ASSUME TypeInv, ConstantsAssumption, NEW r \in Req, Goes(r, Idle)
  PROVE  /\ tx' \in [Req -> TxType] /\ tx'[r] = Idle /\ Idle \in TxType /\ Idle.pc = "idle"
         /\ \A s \in Req : s # r => tx'[s] = tx[s]
<1>1. Idle \in TxType /\ Idle.pc = "idle"
  BY DEF Idle, TxType
<1>. QED
  BY <1>1 DEF Goes, TypeInv

\* What a movement that begins does.
Begins(r, kind, delta, read) ==
  /\ MayStart(r) /\ Start(r, kind, delta, read)
  /\ UNCHANGED <<week, level, own, default, alerts, scan, scanned, low>>

LEMMA Beginnings ==
  ASSUME ConstantsAssumption, TypeInv, NEW r \in Req
  PROVE  /\ \A q \in 1..2 : Adds(r, q) => Begins(r, "in", q, None) /\ UNCHANGED lock
         /\ \A q \in 1..2 : Removes(r, q) => Begins(r, "out", -q, None) /\ UNCHANGED lock
         /\ \A q \in 1..2 : RecordExit(r, q) =>
              Begins(r, "exit", -q, level) /\ lock = NoReq /\ lock' = r
         /\ \A n \in 0..MaxLevel : RecordAdjustment(r, n) =>
              Begins(r, "adjustment", n - level, level) /\ UNCHANGED lock
BY DEF Adds, Removes, RecordExit, RecordAdjustment, Begins

LEMMA InsertType ==
  ASSUME ConstantsAssumption, TypeInv, NEW r \in Req, Insert(r)
  PROVE  /\ tx' \in [Req -> TxType]
         /\ tx'[r].pc = "decided" /\ tx'[r].kind = tx[r].kind /\ tx'[r].delta = tx[r].delta
         /\ tx'[r].seen = tx[r].seen
         /\ tx'[r].closes = IF Effective # None /\ Quantity(r) > Effective THEN Opened ELSE {}
         /\ \A s \in Req : s # r => tx'[s] = tx[s]
<1> DEFINE to == [tx[r] EXCEPT !.pc = "decided",
                               !.closes = IF Effective # None /\ Quantity(r) > Effective
                                          THEN Opened ELSE {}]
<1>1. tx' = [tx EXCEPT ![r] = to] /\ tx[r] \in TxType /\ Opened \subseteq Week
  BY DEF Insert, Goes, TypeInv, Opened
<1>2. to \in TxType
  BY <1>1 DEF TxType
<1>. QED
  BY <1>1, <1>2 DEF TypeInv, TxType

LEMMA TypeStep == ASSUME ConstantsAssumption PROVE TypeInv /\ [Next]_vars => TypeInv'
<1> SUFFICES ASSUME TypeInv, [Next]_vars PROVE TypeInv'
  OBVIOUS
<1>0. /\ week \in Nat /\ week \in Week /\ level \in Int /\ {own, default} \subseteq Threshold \cup {None}
      /\ Threshold \subseteq Nat /\ MaxLevel \in Nat /\ MaxWeek \in Nat
      /\ alerts \in [Week -> {"none", "open", "resolved"}]
      /\ lock \in Req \cup {NoReq} /\ scanned \in Week \cup {None}
      /\ tx \in [Req -> TxType] /\ scan \in ScanType /\ low \in BOOLEAN
      /\ IsLow \in BOOLEAN /\ IsLow' \in BOOLEAN /\ Opened \subseteq Week
  BY DEF TypeInv, TypeOK, ConstantsAssumption, IsLow, Opened, Week
<1>1. ASSUME tx' \in [Req -> TxType], scan' \in ScanType, low' \in BOOLEAN, week' \in Week,
             level' \in Int, {own', default'} \subseteq Threshold \cup {None},
             alerts' \in [Week -> {"none", "open", "resolved"}],
             lock' \in Req \cup {NoReq}, scanned' \in Week \cup {None}
      PROVE  TypeInv'
  BY <1>1 DEF TypeInv, TypeOK, TxType, ScanType
<1>2. ASSUME NEW r \in Req, NEW kind \in {"in", "out", "exit", "adjustment"},
             NEW delta \in Int, NEW read \in Int \cup {None},
             Begins(r, kind, delta, read), lock' \in {lock, r}
      PROVE  TypeInv'
  BY <1>0, <1>1, <1>2, StartType DEF Begins
<1>3. CASE NextWeek
  <2>1. week' \in Week /\ low' \in BOOLEAN
    BY <1>0, <1>3 DEF NextWeek, Week
  <2>. QED
    BY <1>0, <1>1, <1>3, <2>1 DEF NextWeek
<1>4. ASSUME NEW t \in Threshold, SetThreshold(t) PROVE TypeInv'
  BY <1>0, <1>1, <1>4 DEF SetThreshold, StaysLow
<1>5. ASSUME NEW r \in Req, NEW q \in 1..2, Adds(r, q) \/ Removes(r, q) \/ RecordExit(r, q)
      PROVE  TypeInv'
  <2>1. q \in Int /\ -q \in Int /\ None \in Int \cup {None} /\ level \in Int \cup {None}
    BY <1>0
  <2>2. \/ Begins(r, "in", q, None) /\ lock' = lock
        \/ Begins(r, "out", -q, None) /\ lock' = lock
        \/ Begins(r, "exit", -q, level) /\ lock' = r
    BY <1>5, Beginnings
  <2>. QED
    BY <1>2, <2>1, <2>2
<1>6. ASSUME NEW r \in Req, NEW n \in 0..MaxLevel, RecordAdjustment(r, n) PROVE TypeInv'
  BY <1>0, <1>2, <1>6, Beginnings
<1>7. ASSUME NEW r \in Req, Insert(r) PROVE TypeInv'
  BY <1>0, <1>1, <1>7, InsertType DEF Insert
<1>8. ASSUME NEW r \in Req, Commit(r) PROVE TypeInv'
  <2>1. /\ tx' \in [Req -> TxType] /\ lock' = NoReq /\ low' \in BOOLEAN
        /\ UNCHANGED <<week, own, default, scan, scanned>>
    BY <1>0, <1>8, IdleType DEF Commit, StaysLow
  <2>2. level' \in Int
    BY <1>0, <1>8 DEF Commit, TxType
  <2>3. alerts' \in [Week -> {"none", "open", "resolved"}]
    BY <1>0, <1>8 DEF Commit, Closed
  <2>. QED
    BY <1>0, <1>1, <2>1, <2>2, <2>3
<1>9. ASSUME NEW r \in Req, Rollback(r) PROVE TypeInv'
  BY <1>0, <1>1, <1>9, IdleType DEF Rollback
<1>10. CASE ScanRead
  <2>1. scan' \in ScanType
    BY <1>0, <1>10 DEF ScanRead, ScanType
  <2>. QED
    BY <1>0, <1>1, <1>10, <2>1 DEF ScanRead
<1>11. CASE ScanCommit \/ ScanFails
  <2>1. scan.week \in Week /\ NoScan \in ScanType
    BY <1>0 DEF ScanType, NoScan, Week
  <2>2. alerts' \in [Week -> {"none", "open", "resolved"}]
    BY <1>0, <1>11, <2>1 DEF ScanCommit, ScanFails, WeeklyPalier, Closed
  <2>. QED
    BY <1>0, <1>1, <1>11, <2>1, <2>2 DEF ScanCommit, ScanFails
<1>12. CASE UNCHANGED vars
  BY <1>0, <1>1, <1>12 DEF vars
<1>. QED
  BY <1>3, <1>4, <1>5, <1>6, <1>7, <1>8, <1>9, <1>10, <1>11, <1>12 DEF Next

LEMMA Kinds ==
  ASSUME ConstantsAssumption, TypeInv
  PROVE  /\ week \in Nat /\ week \in Week /\ level \in Int /\ Week \subseteq Nat
         /\ own \in Threshold \cup {None} /\ default \in Threshold \cup {None}
         /\ Effective \in Int \cup {None} /\ None \notin Int
         /\ alerts \in [Week -> {"none", "open", "resolved"}]
         /\ scanned \in Week \cup {None}
         /\ tx \in [Req -> TxType] /\ scan \in ScanType /\ low \in BOOLEAN
         /\ IsLow \in BOOLEAN /\ Opened \subseteq Week
<1>1. /\ week \in Week /\ level \in Int /\ None \notin Int /\ Threshold \subseteq Nat
      /\ own \in Threshold \cup {None} /\ default \in Threshold \cup {None}
      /\ alerts \in [Week -> {"none", "open", "resolved"}]
      /\ scanned \in Week \cup {None}
      /\ tx \in [Req -> TxType] /\ scan \in ScanType /\ low \in BOOLEAN
  BY DEF TypeInv, TypeOK, ConstantsAssumption
<1>2. Week \subseteq Nat /\ Opened \subseteq Week /\ IsLow \in BOOLEAN
  BY DEF Opened, Week, IsLow, ConstantsAssumption
<1>3. Effective \in Int \cup {None}
  BY <1>1 DEF Effective
<1>. QED
  BY <1>1, <1>2, <1>3

LEMMA PastStep ==
  ASSUME ConstantsAssumption PROVE TypeInv /\ Past /\ [Next]_vars => Past'
<1> SUFFICES ASSUME TypeInv, Past, [Next]_vars PROVE Past'
  OBVIOUS
<1>0. /\ week \in Nat /\ week \in Week /\ Week \subseteq Nat /\ None \notin Int
      /\ alerts \in [Week -> {"none", "open", "resolved"}]
      /\ scanned \in Week \cup {None}
      /\ tx \in [Req -> TxType] /\ scan \in ScanType /\ scan.week \in Week
      /\ \A r \in Req : tx[r].closes \subseteq Week
      /\ scan.closes \subseteq Week /\ \A w \in Week : w \in Int
  BY Kinds DEF ScanType, TxType
<1>a. scan.week \in Int /\ \A r \in Req : \A w \in tx[r].closes : w \in Int
  BY <1>0
<1>1. Opened \subseteq Week /\ \A w \in Opened : w <= week
  BY <1>0 DEF Opened, Past
<1>2. ASSUME NEW r \in Req, NEW kind \in {"in", "out", "exit", "adjustment"},
             NEW delta \in Int, NEW read \in Int \cup {None},
             Begins(r, kind, delta, read)
      PROVE  Past'
  BY <1>0, <1>2, StartType DEF Begins, Past
<1>3. CASE NextWeek
  <2>1. week' = week + 1 /\ UNCHANGED <<alerts, tx, scan, scanned>>
    BY <1>3 DEF NextWeek
  <2>2. /\ \A w \in Int : w > week' => w > week
        /\ \A w \in Int : w <= week => w <= week'
    BY <1>0, <2>1
  <2>3. \A w \in Week : w > week' => alerts[w] = "none"
    BY <1>0, <2>2 DEF Past
  <2>4. \A r \in Req : \A w \in tx[r].closes : w <= week'
    BY <1>a, <2>2 DEF Past
  <2>5. /\ scan.week <= week => scan.week <= week'
        /\ scanned # None /\ scanned <= week => scanned <= week'
    BY <1>0, <1>a, <2>2
  <2>. QED
    BY <2>1, <2>2, <2>3, <2>4, <2>5 DEF Past
<1>4. ASSUME NEW t \in Threshold, SetThreshold(t) PROVE Past'
  BY <1>0, <1>4 DEF SetThreshold, Past
<1>5. ASSUME NEW r \in Req, NEW q \in 1..2, Adds(r, q) \/ Removes(r, q) \/ RecordExit(r, q)
      PROVE  Past'
  <2>1. q \in Int /\ -q \in Int /\ None \in Int \cup {None} /\ level \in Int \cup {None}
    BY Kinds
  <2>. QED
    BY <1>2, <1>5, <2>1, Beginnings
<1>6. ASSUME NEW r \in Req, NEW n \in 0..MaxLevel, RecordAdjustment(r, n) PROVE Past'
  <2>1. n - level \in Int /\ level \in Int \cup {None}
    BY Kinds DEF ConstantsAssumption
  <2>. QED
    BY <1>2, <1>6, <2>1, Beginnings
<1>7. ASSUME NEW r \in Req, Insert(r) PROVE Past'
  <2>1. tx'[r].closes \subseteq Opened /\ \A s \in Req : s # r => tx'[s] = tx[s]
    BY <1>7, InsertType
  <2>. QED
    BY <1>0, <1>1, <1>7, <2>1 DEF Insert, Past
<1>8. ASSUME NEW r \in Req, Commit(r) PROVE Past'
  <2>1. /\ tx'[r] = Idle /\ Idle.closes = {} /\ \A s \in Req : s # r => tx'[s] = tx[s]
        /\ UNCHANGED <<week, scan, scanned>>
    BY <1>8, IdleType DEF Commit, Idle
  <2>2. \A w \in Week : w > week => w \notin tx[r].closes
    <3>1. \A w \in tx[r].closes : w <= week
      BY DEF Past
    <3>. QED
      BY <1>0, <3>1
  <2>3. \A w \in Week : w > week => alerts'[w] = "none"
    BY <1>8, <2>2 DEF Commit, Closed, Past
  <2>. QED
    BY <1>0, <2>1, <2>3 DEF Past
<1>9. ASSUME NEW r \in Req, Rollback(r) PROVE Past'
  <2>1. /\ tx'[r] = Idle /\ Idle.closes = {} /\ \A s \in Req : s # r => tx'[s] = tx[s]
    BY <1>9, IdleType DEF Rollback, Idle
  <2>. QED
    BY <1>0, <1>9, <2>1 DEF Rollback, Past
<1>10. CASE ScanRead
  <2>1. scan'.week = week /\ scan'.closes \subseteq Opened
        /\ UNCHANGED <<week, alerts, tx, scanned>>
    BY <1>10 DEF ScanRead
  <2>2. \A w \in scan'.closes : w <= week
    BY <1>1, <2>1
  <2>3. week <= week
    BY <1>0
  <2>. QED
    BY <2>1, <2>2, <2>3 DEF Past
<1>11. CASE ScanCommit
  <2>1. /\ scan.week <= week /\ scanned' = scan.week
        /\ scan'.pc = "idle" /\ scan'.closes = {} /\ UNCHANGED <<week, tx>>
    BY <1>11 DEF ScanCommit, NoScan, Past
  <2>2. \A w \in Week : w > week => alerts'[w] = "none"
    <3>1. CASE scan.new
      <4>1. \A w \in Week : w # scan.week => alerts'[w] = alerts[w]
        BY <1>0, <1>11, <3>1 DEF ScanCommit, WeeklyPalier
      <4>2. \A w \in Week : w > week => w # scan.week
        <5> SUFFICES ASSUME NEW w \in Week, w > week, w = scan.week PROVE FALSE
          OBVIOUS
        <5>1. w <= week /\ w \in Int /\ week \in Int
          BY <1>0, <2>1
        <5>. QED
          BY <5>1
      <4>3. \A w \in Week : w > week => alerts[w] = "none"
        BY DEF Past
      <4>. QED
        BY <4>1, <4>2, <4>3
    <3>2. CASE ~scan.new
      <4>1. \A w \in Int : w <= scan.week => ~(w > week)
        BY <1>0, <1>a, <2>1
      <4>2. \A w \in scan.closes : w \in Int /\ w <= scan.week
        BY <1>0 DEF Past
      <4>. QED
        BY <1>11, <3>2, <4>1, <4>2 DEF ScanCommit, Closed, Past
    <3>. QED
      BY <3>1, <3>2
  <2>. QED
    BY <1>0, <2>1, <2>2 DEF Past
<1>12. CASE ScanFails
  BY <1>0, <1>12 DEF ScanFails, NoScan, Past
<1>13. CASE UNCHANGED vars
  BY <1>13 DEF vars, Past
<1>. QED
  BY <1>3, <1>4, <1>5, <1>6, <1>7, <1>8, <1>9, <1>10, <1>11, <1>12, <1>13 DEF Next

LEMMA MovesStep ==
  ASSUME ConstantsAssumption, ~Overlap PROVE TypeInv /\ Moves /\ [Next]_vars => Moves'
<1> SUFFICES ASSUME TypeInv, Moves, [Next]_vars PROVE Moves'
  OBVIOUS
<1>0. /\ tx \in [Req -> TxType] /\ scan \in ScanType /\ level \in Int /\ None \notin Int
      /\ NoReq \notin Req /\ lock \in Req \cup {NoReq} /\ MaxLevel \in Nat
  BY Kinds DEF ConstantsAssumption, TypeInv, TypeOK
<1>1. ASSUME NEW r \in Req, NEW kind \in {"in", "out", "exit", "adjustment"},
             NEW delta \in Int, NEW read \in Int \cup {None}, Begins(r, kind, delta, read),
             kind \in {"in", "out"} => read = None,
             kind = "adjustment" => read # None,
             kind = "exit" => lock' = r /\ read = level /\ delta <= 0,
             lock' = lock \/ lock = NoReq
      PROVE  Moves'
  <2>1. scan.pc # "read" /\ UNCHANGED <<scan, level>> /\ tx[r].pc = "idle"
    BY <1>0, <1>1 DEF Begins, MayStart, ScanType
  <2>2. /\ tx'[r].pc = "started" /\ tx'[r].kind = kind /\ tx'[r].delta = delta
        /\ tx'[r].seen = read /\ \A s \in Req : s # r => tx'[s] = tx[s]
    BY <1>1, StartType DEF Begins
  <2>. QED
    BY <1>0, <1>1, <2>1, <2>2 DEF Moves, Active
<1>2. ASSUME NEW r \in Req, NEW q \in 1..2, Adds(r, q) \/ Removes(r, q) \/ RecordExit(r, q)
      PROVE  Moves'
  <2>1. q \in Int /\ -q \in Int /\ -q <= 0 /\ level \in Int \cup {None}
    BY <1>0
  <2>2. \/ Begins(r, "in", q, None) /\ lock' = lock
        \/ Begins(r, "out", -q, None) /\ lock' = lock
        \/ Begins(r, "exit", -q, level) /\ lock' = r /\ lock = NoReq
    BY <1>2, Beginnings
  <2>. QED
    BY <1>1, <2>1, <2>2
<1>3. ASSUME NEW r \in Req, NEW n \in 0..MaxLevel, RecordAdjustment(r, n) PROVE Moves'
  <2>1. n - level \in Int /\ level \in Int \cup {None} /\ level # None
    BY <1>0
  <2>2. Begins(r, "adjustment", n - level, level) /\ lock' = lock
    BY <1>3, Beginnings
  <2>. QED
    BY <1>1, <2>1, <2>2
<1>4. ASSUME NEW r \in Req, Insert(r) PROVE Moves'
  <2>1. /\ tx'[r].pc = "decided" /\ tx'[r].kind = tx[r].kind /\ tx'[r].delta = tx[r].delta
        /\ tx'[r].seen = tx[r].seen /\ \A s \in Req : s # r => tx'[s] = tx[s]
    BY <1>4, InsertType
  <2>2. lock \in {NoReq, r} /\ lock' = r /\ tx[r].pc = "started" /\ UNCHANGED <<level, scan>>
    BY <1>4 DEF Insert
  <2>. QED
    BY <1>0, <2>1, <2>2 DEF Moves, Active
<1>5. ASSUME NEW r \in Req, Commit(r) \/ Rollback(r) PROVE Moves'
  <2>1. /\ tx'[r].pc = "idle" /\ \A s \in Req : s # r => tx'[s] = tx[s]
        /\ scan' = scan
    BY <1>5, IdleType DEF Commit, Rollback
  <2>2. \/ lock = r /\ lock' = NoReq
        \/ lock # r /\ lock' = lock /\ level' = level
    BY <1>5 DEF Commit, Rollback, Moves
  <2>. QED
    BY <1>0, <2>1, <2>2 DEF Moves, Active
<1>6. CASE ScanRead
  BY <1>6 DEF ScanRead, Moves, Active
<1>7. CASE ScanCommit \/ ScanFails
  BY <1>7 DEF ScanCommit, ScanFails, NoScan, Moves, Active
<1>8. CASE UNCHANGED <<level, lock, tx, scan>>
  BY <1>8 DEF Moves, Active
<1>. QED
  BY <1>2, <1>3, <1>4, <1>5, <1>6, <1>7, <1>8 DEF Next, NextWeek, SetThreshold, vars

-----------------------------------------------------------------------------
\* What the threshold and the alerts are made of.
LEMMA Same ==
  /\ UNCHANGED <<own, default>> => Effective' = Effective
  /\ UNCHANGED <<own, default, level>> => IsLow' = IsLow
  /\ UNCHANGED alerts => Opened' = Opened
BY DEF Effective, IsLow, Opened

\* The four ways in which a movement begins.
LEMMA BeginStep ==
  ASSUME ConstantsAssumption, TypeInv, NEW r \in Req,
         \/ \E q \in 1..2 : Adds(r, q) \/ Removes(r, q) \/ RecordExit(r, q)
         \/ \E n \in 0..MaxLevel : RecordAdjustment(r, n)
  PROVE  /\ MayStart(r) /\ tx'[r].pc = "started" /\ tx'[r].closes = {}
         /\ tx'[r].kind = "adjustment" => tx'[r].seen = level
         /\ \A s \in Req : s # r => tx'[s] = tx[s]
         /\ UNCHANGED <<week, level, own, default, alerts, scan, scanned, low>>
<1>1. ASSUME NEW kind \in {"in", "out", "exit", "adjustment"}, NEW delta \in Int,
             NEW read \in Int \cup {None}, Begins(r, kind, delta, read),
             kind = "adjustment" => read = level
      PROVE  /\ MayStart(r) /\ tx'[r].pc = "started" /\ tx'[r].closes = {}
             /\ tx'[r].kind = "adjustment" => tx'[r].seen = level
             /\ \A s \in Req : s # r => tx'[s] = tx[s]
             /\ UNCHANGED <<week, level, own, default, alerts, scan, scanned, low>>
  BY <1>1, StartType DEF Begins
<1>2. ASSUME NEW q \in 1..2, Adds(r, q) \/ Removes(r, q) \/ RecordExit(r, q)
      PROVE  \E kind \in {"in", "out", "exit", "adjustment"}, delta \in Int,
                read \in Int \cup {None} :
               Begins(r, kind, delta, read) /\ (kind = "adjustment" => read = level)
  <2>1. q \in Int /\ -q \in Int /\ level \in Int
    BY Kinds
  <2>. QED
    BY <1>2, <2>1, Beginnings
<1>3. ASSUME NEW n \in 0..MaxLevel, RecordAdjustment(r, n)
      PROVE  Begins(r, "adjustment", n - level, level) /\ n - level \in Int /\ level \in Int
  BY <1>3, Beginnings, Kinds DEF ConstantsAssumption
<1>. QED
  BY <1>1, <1>2, <1>3

\* A decision holds until its commit: the row is locked, and nothing is set or scanned.
LEMMA RecoverStep ==
  ASSUME ConstantsAssumption, ~Overlap
  PROVE  TypeInv /\ Moves /\ Recovers /\ [Next]_vars => Recovers'
<1> SUFFICES ASSUME TypeInv, Moves, Recovers, [Next]_vars PROVE Recovers'
  OBVIOUS
<1>0. level \in Int /\ Effective \in Int \cup {None} /\ tx \in [Req -> TxType]
  BY Kinds
<1>1. ASSUME UNCHANGED <<level, own, default, alerts>>,
             \A s \in Req : tx'[s] = tx[s] \/ tx'[s].pc # "decided"
      PROVE  Recovers'
  BY <1>1, Same DEF Recovers, FoundLow
<1>2. ASSUME NEW r \in Req,
             \/ \E q \in 1..2 : Adds(r, q) \/ Removes(r, q) \/ RecordExit(r, q)
             \/ \E n \in 0..MaxLevel : RecordAdjustment(r, n)
      PROVE  Recovers'
  BY <1>1, <1>2, BeginStep
<1>3. ASSUME NEW r \in Req, Insert(r) PROVE Recovers'
  <2>1. /\ tx'[r].kind = tx[r].kind /\ tx'[r].delta = tx[r].delta
        /\ tx'[r].closes = IF Effective # None /\ Quantity(r) > Effective THEN Opened ELSE {}
        /\ \A s \in Req : s # r => tx'[s] = tx[s]
    BY <1>3, InsertType
  <2>2. /\ Effective' = Effective /\ Opened' = Opened /\ level' = level
        /\ tx[r].pc = "started"
    BY <1>3, Same DEF Insert
  <2>3. ASSUME ~FoundLow(r), Effective # None, level + tx[r].delta > Effective
        PROVE  Quantity(r) > Effective
    <3>1. tx[r].kind \in {"in", "out", "exit", "adjustment"} /\ tx[r].delta \in Int
      BY <1>0, <2>2, <2>3 DEF Moves, Active, TxType
    <3>2. CASE tx[r].kind = "exit"
      <4>1. tx[r].seen = level /\ tx[r].delta <= 0
        BY <2>2, <3>2 DEF Moves, Active
      <4>2. level > Effective /\ level # None
        BY <1>0, <2>3, <3>1, <4>1 DEF ConstantsAssumption
      <4>. QED
        BY <4>1, <4>2 DEF Quantity
    <3>3. CASE tx[r].kind \in {"in", "out"}
      BY <2>2, <2>3, <3>3 DEF Moves, Active, Quantity
    <3>4. CASE tx[r].kind = "adjustment"
      <4>1. tx[r].seen # None /\ tx[r].seen \in Int \cup {None}
        BY <1>0, <2>2, <3>4 DEF Moves, Active, TxType
      <4>2. ~(tx[r].seen <= Effective) /\ Effective \in Int /\ tx[r].seen \in Int
        BY <1>0, <2>3, <3>4, <4>1 DEF FoundLow
      <4>. QED
        BY <4>1, <4>2 DEF Quantity
    <3>. QED
      BY <3>1, <3>2, <3>3, <3>4
  <2>4. FoundLow(r)' <=> FoundLow(r)
    BY <2>1, <2>2, InsertType, <1>3 DEF FoundLow
  <2>5. \A s \in Req : s # r => (FoundLow(s)' <=> FoundLow(s))
    BY <2>1, <2>2 DEF FoundLow
  <2>. QED
    BY <2>1, <2>2, <2>3, <2>4, <2>5 DEF Recovers
<1>4. ASSUME NEW r \in Req, Commit(r) PROVE Recovers'
  <2>1. /\ tx[r].pc = "decided" /\ tx'[r].pc = "idle"
        /\ \A s \in Req : s # r => tx'[s] = tx[s]
    BY <1>4, IdleType DEF Commit
  <2>2. \A s \in Req : tx'[s].pc # "decided"
    BY <2>1 DEF Moves
  <2>. QED
    BY <2>2 DEF Recovers
<1>5. ASSUME NEW r \in Req, Rollback(r) PROVE Recovers'
  BY <1>1, <1>5, IdleType DEF Rollback
<1>6. ASSUME NEW t \in Threshold, SetThreshold(t) PROVE Recovers'
  BY <1>6 DEF SetThreshold, Recovers
<1>7. CASE ScanCommit
  BY <1>7 DEF ScanCommit, Moves, Active, Recovers
<1>8. CASE NextWeek \/ ScanRead \/ ScanFails \/ UNCHANGED vars
  BY <1>1, <1>8 DEF NextWeek, ScanRead, ScanFails, vars
<1>. QED
  BY <1>2, <1>3, <1>4, <1>5, <1>6, <1>7, <1>8 DEF Next

LEMMA RecoveryAction ==
  ASSUME ConstantsAssumption
  PROVE  TypeInv /\ Moves /\ Recovers /\ [Next]_vars => [RecoveryStep]_vars
<1> SUFFICES ASSUME TypeInv, Moves, Recovers, Next, NEW r \in Req,
                    tx[r].pc = "decided", tx'[r].pc = "idle", level' # level,
                    ~FoundLow(r), Effective # None, level' > Effective
             PROVE  \A w \in Week : alerts'[w] # "open"
  BY DEF RecoveryStep, RisesAbove
<1>1. PICK s \in Req : Commit(s)
  BY DEF Next, NextWeek, SetThreshold, Adds, Removes, RecordExit, RecordAdjustment, Insert,
         Rollback, ScanRead, ScanCommit, ScanFails
<1>2. s = r
  BY <1>1, IdleType DEF Commit
<1>3. level' = level + tx[r].delta /\ alerts' = Closed(tx[r].closes)
  BY <1>1, <1>2 DEF Commit
<1>4. Opened \subseteq tx[r].closes
  BY <1>3 DEF Recovers
<1>. QED
  BY <1>3, <1>4 DEF Closed, Opened

-----------------------------------------------------------------------------
LEMMA RemindedStep ==
  ASSUME ConstantsAssumption, ~Overlap
  PROVE  TypeInv /\ Past /\ Moves /\ Reminded /\ [Next]_vars => Reminded'
<1> SUFFICES ASSUME TypeInv, Past, Moves, Reminded, [Next]_vars PROVE Reminded'
  OBVIOUS
<1>0. /\ level \in Int /\ Effective \in Int \cup {None} /\ tx \in [Req -> TxType]
      /\ week \in Week /\ week \in Int /\ scan.week \in Int /\ None \notin Int
      /\ alerts \in [Week -> {"none", "open", "resolved"}] /\ low \in BOOLEAN
  BY Kinds DEF ScanType
<1>1. ASSUME UNCHANGED <<week, level, own, default, alerts, scanned, low>>,
             scan' = scan \/ scan'.pc = "idle" \/ scan'.new = IsLow,
             \A s \in Req : tx'[s] = tx[s] \/ tx'[s].pc = "idle"
      PROVE  Reminded'
  <2>1. Effective' = Effective /\ IsLow' = IsLow
    BY <1>1, Same
  <2>. QED
    BY <1>1, <2>1 DEF Reminded, LowStockIsReminded, Active
<1>2. ASSUME NEW r \in Req,
             \/ \E q \in 1..2 : Adds(r, q) \/ Removes(r, q) \/ RecordExit(r, q)
             \/ \E n \in 0..MaxLevel : RecordAdjustment(r, n)
      PROVE  Reminded'
  <2>1. /\ tx'[r].pc = "started" /\ tx'[r].closes = {}
        /\ tx'[r].kind = "adjustment" => tx'[r].seen = level
        /\ \A s \in Req : s # r => tx'[s] = tx[s]
        /\ UNCHANGED <<week, level, own, default, alerts, scan, scanned, low>>
    BY <1>2, BeginStep
  <2>2. Effective' = Effective /\ IsLow' = IsLow
    BY <2>1, Same
  \* The quantity that an adjustment reads is low when the week has been.
  <2>3. low /\ Effective # None => ~(level > Effective)
    BY <1>0 DEF Reminded, IsLow
  <2>. QED
    BY <2>1, <2>2, <2>3 DEF Reminded, LowStockIsReminded, Active
<1>3. ASSUME NEW r \in Req, Insert(r) PROVE Reminded'
  <2>1. /\ tx'[r].pc = "decided" /\ tx'[r].kind = tx[r].kind /\ tx'[r].delta = tx[r].delta
        /\ tx'[r].seen = tx[r].seen
        /\ tx'[r].closes = IF Effective # None /\ Quantity(r) > Effective THEN Opened ELSE {}
        /\ \A s \in Req : s # r => tx'[s] = tx[s]
    BY <1>3, InsertType
  <2>2. /\ tx[r].pc = "started" /\ Active(r)
        /\ UNCHANGED <<week, level, own, default, alerts, scan, scanned, low>>
    BY <1>3 DEF Insert, Active
  <2>3. Effective' = Effective /\ IsLow' = IsLow
    BY <2>2, Same
  <2>4. ASSUME week \in tx'[r].closes
        PROVE  Effective # None /\ (low => level + tx[r].delta > Effective)
    <3>1. Effective # None /\ Quantity(r) > Effective /\ alerts[week] = "open"
      BY <2>1, <2>4 DEF Opened
    <3>2. CASE tx[r].seen = None
      BY <3>1, <3>2 DEF Quantity
    <3>3. CASE tx[r].seen # None
      <4>1. tx[r].kind \in {"exit", "adjustment"} /\ tx[r].seen > Effective
        BY <1>0, <2>2, <3>1, <3>3 DEF Moves, TxType, Quantity
      <4>2. ~low
        <5>1. CASE tx[r].kind = "exit"
          <6>1. level > Effective
            BY <2>2, <4>1, <5>1 DEF Moves
          <6>. QED
            BY <1>0, <3>1, <6>1 DEF Reminded, IsLow
        <5>2. CASE tx[r].kind = "adjustment"
          BY <2>2, <3>1, <4>1, <5>2 DEF Reminded
        <5>. QED
          BY <4>1, <5>1, <5>2
      <4>. QED
        BY <3>1, <4>2
    <3>. QED
      BY <3>2, <3>3
  <2>. QED
    BY <2>1, <2>2, <2>3, <2>4 DEF Reminded, LowStockIsReminded, Active
<1>4. ASSUME NEW r \in Req, Commit(r) PROVE Reminded'
  <2>1. /\ tx[r].pc = "decided" /\ tx'[r].pc = "idle"
        /\ \A s \in Req : s # r => tx'[s] = tx[s]
        /\ level' = level + tx[r].delta /\ alerts' = Closed(tx[r].closes)
        /\ low' = (low /\ IsLow')
        /\ UNCHANGED <<week, own, default, scan, scanned>>
    BY <1>4, IdleType DEF Commit, StaysLow
  <2>2. \A s \in Req : tx'[s].pc # "decided"
    BY <2>1 DEF Moves
  <2>3. Effective' = Effective
    BY <2>1, Same
  <2>4. low' => low /\ IsLow' /\ week \notin tx[r].closes
    <3>1. week \in tx[r].closes /\ low => level' > Effective /\ Effective # None
      BY <2>1 DEF Reminded
    <3>2. level' \in Int
      BY <1>0, <2>1 DEF TxType
    <3>3. low' => low /\ IsLow'
      BY <1>0, <2>1
    <3>4. IsLow' => Effective # None /\ level' <= Effective
      BY <2>3 DEF IsLow
    <3>5. Effective # None => (level' <= Effective => ~(level' > Effective))
      BY <1>0, <3>2
    <3>. QED
      BY <3>1, <3>3, <3>4, <3>5
  <2>5. low' => alerts'[week] = alerts[week]
    BY <1>0, <2>1, <2>4 DEF Closed
  <2>. QED
    BY <2>1, <2>2, <2>3, <2>4, <2>5 DEF Reminded, LowStockIsReminded, Active
<1>5. ASSUME NEW r \in Req, Rollback(r) PROVE Reminded'
  <2>1. tx'[r].pc = "idle" /\ \A s \in Req : s # r => tx'[s] = tx[s]
    BY <1>5, IdleType DEF Rollback
  <2>. QED
    BY <1>1, <1>5, <2>1 DEF Rollback
\* A week begins without an alert of its own, and nothing knows of it yet.
<1>6. CASE NextWeek
  <2>1. /\ week' = week + 1 /\ week' \in Week /\ low' = IsLow
        /\ UNCHANGED <<level, own, default, alerts, tx, scan, scanned>>
    BY <1>0, <1>6, Kinds DEF NextWeek, Week, ConstantsAssumption
  <2>2. Effective' = Effective /\ IsLow' = IsLow
    BY <2>1, Same
  <2>3. week' > week /\ \A w \in Int : w <= week => w # week'
    BY <1>0, <2>1
  <2>4. alerts[week'] = "none" /\ \A s \in Req : week' \notin tx[s].closes
    BY <1>0, <2>1, <2>3 DEF Past
  <2>5. (scan.pc = "read" => scan.week # week') /\ scanned # week'
    <3>1. scanned \in Week \cup {None} /\ week' \in Int /\ Week \subseteq Nat
      BY <1>0, <2>1, Kinds
    <3>2. scanned # None => scanned <= week
      BY DEF Past
    <3>3. scanned = None => scanned # week'
      BY <1>0, <3>1
    <3>4. scanned # None => scanned \in Int
      BY <3>1
    <3>5. scan.pc = "read" => scan.week # week'
      BY <1>0, <2>3 DEF Past
    <3>. QED
      BY <2>3, <3>2, <3>3, <3>4, <3>5
  <2>. QED
    BY <2>1, <2>2, <2>4, <2>5 DEF Reminded, LowStockIsReminded, Active
<1>7. ASSUME NEW t \in Threshold, SetThreshold(t) PROVE Reminded'
  <2>1. /\ \A s \in Req : tx[s].pc = "idle"
        /\ low' = (low /\ IsLow') /\ UNCHANGED <<week, level, alerts, tx, scan, scanned>>
    BY <1>7 DEF SetThreshold, StaysLow
  <2>2. low' => low /\ IsLow'
    BY <2>1
  <2>. QED
    BY <2>1, <2>2 DEF Reminded, LowStockIsReminded, Active
<1>8. CASE ScanRead
  BY <1>1, <1>8 DEF ScanRead
<1>9. CASE ScanCommit
  <2>1. /\ scan.pc = "read" /\ scanned' = scan.week /\ scan'.pc = "idle"
        /\ UNCHANGED <<week, level, own, default, tx, low>>
        /\ \A s \in Req : ~Active(s)
    BY <1>9 DEF ScanCommit, NoScan, Moves
  <2>2. IsLow' = IsLow
    BY <2>1, Same
  <2>3. CASE scan.week = week /\ low
    <3>1. scan.new /\ alerts[week] # "resolved"
      BY <2>1, <2>3 DEF Reminded
    <3>2. alerts'[week] = "open"
      BY <1>0, <1>9, <2>3, <3>1 DEF ScanCommit, WeeklyPalier
    <3>. QED
      BY <2>1, <2>2, <3>2 DEF Reminded, LowStockIsReminded, Active
  <2>4. CASE scan.week # week
    <3>1. week \notin scan.closes
      BY <1>0, <2>1, <2>4 DEF Past
    <3>2. alerts'[week] = alerts[week]
      BY <1>0, <1>9, <2>4, <3>1 DEF ScanCommit, WeeklyPalier, Closed
    <3>. QED
      BY <2>1, <2>2, <2>4, <3>2 DEF Reminded, LowStockIsReminded, Active
  <2>5. CASE ~low
    BY <2>1, <2>5 DEF Reminded, LowStockIsReminded, Active
  <2>. QED
    BY <1>0, <2>3, <2>4, <2>5
<1>10. CASE ScanFails
  BY <1>1, <1>10 DEF ScanFails, NoScan
<1>11. CASE UNCHANGED vars
  BY <1>1, <1>11 DEF vars
<1>. QED
  BY <1>2, <1>3, <1>4, <1>5, <1>6, <1>7, <1>8, <1>9, <1>10, <1>11 DEF Next

LEMMA ThresholdInit == ASSUME ConstantsAssumption PROVE Init => ThresholdInv
<1> SUFFICES ASSUME Init PROVE ThresholdInv
  OBVIOUS
<1> USE DEF ConstantsAssumption
<1>1. /\ week = 0 /\ 0 \in Week /\ level \in Int /\ None \notin Int /\ Threshold \subseteq Nat
      /\ scan = NoScan /\ NoScan.pc = "idle" /\ NoScan.closes = {} /\ scanned = None
      /\ own = None /\ default \in Threshold \cup {None} /\ lock = NoReq
      /\ alerts = [w \in Week |-> "none"]
      /\ low = IsLow
  BY DEF Init, Week, NoScan
<1>2. \A r \in Req : tx[r] = Idle /\ tx[r].pc = "idle" /\ tx[r].closes = {}
  BY DEF Init, Idle
<1>3. TypeInv
  <2>1. Idle \in TxType /\ tx = [r \in Req |-> Idle]
    BY DEF Init, Idle, TxType
  <2>2. NoScan \in ScanType
    BY <1>1 DEF NoScan, ScanType
  <2>3. low \in BOOLEAN
    BY <1>1 DEF IsLow
  <2>4. TypeOK
    BY <1>1, <1>2 DEF TypeOK
  <2>. QED
    BY <1>1, <2>1, <2>2, <2>3, <2>4 DEF TypeInv
<1>4. Past
  BY <1>1, <1>2 DEF Past
<1>5. Moves /\ Recovers
  BY <1>1, <1>2 DEF Moves, Recovers, Active
<1>6. Reminded
  BY <1>1, <1>2 DEF Reminded, LowStockIsReminded, Active
<1>. QED
  BY <1>3, <1>4, <1>5, <1>6 DEF ThresholdInv

LEMMA ThresholdStep ==
  ASSUME ConstantsAssumption, ~Overlap PROVE ThresholdInv /\ [Next]_vars => ThresholdInv'
BY TypeStep, PastStep, MovesStep, RemindedStep, RecoverStep DEF ThresholdInv

\* Movements, scans and settings in any interleaving: every variable keeps its type.
THEOREM TypeCorrect == ASSUME ConstantsAssumption PROVE Spec => []TypeOK
<1>1. TypeInv => TypeOK
  BY DEF TypeInv
<1>2. Init => TypeInv
  BY ThresholdInit DEF ThresholdInv
<1>. QED
  BY <1>1, <1>2, TypeStep, PTL DEF Spec

\* Scans apart from movements: a level that has been low since the week began and that was
\* scanned since has the alert of the week (scan_organization_stock_thresholds).
THEOREM LowIsReminded ==
  ASSUME ConstantsAssumption, ~Overlap PROVE Spec => []LowStockIsReminded
<1>1. ThresholdInv => LowStockIsReminded
  BY DEF ThresholdInv, Reminded
<1>. QED
  BY <1>1, ThresholdInit, ThresholdStep, PTL DEF Spec

\* Scans apart from movements: a movement that takes the level above the threshold leaves no
\* alert open, whatever movements run beside it, an adjustment that found the level at or below
\* the threshold excepted (StockService._resolve_threshold_if_needed).
THEOREM RecoveryCloses ==
  ASSUME ConstantsAssumption, ~Overlap PROVE Spec => [][RecoveryStep]_vars
<1>1. ThresholdInv /\ [Next]_vars => [RecoveryStep]_vars
  BY RecoveryAction DEF ThresholdInv
<1>. QED
  BY <1>1, ThresholdInit, ThresholdStep, PTL DEF Spec
-----------------------------------------------------------------------------
(* The sums of the lots and of the packaging, by the lemmas of StockMovements. *)

MovementProofs == INSTANCE StockMovements_proofs
                    WITH Depot <- Depots, Payloads <- Contended, Overlapping <- FALSE, Req <- Request,
                         level <- levels, lock <- depotLock

\* What StockMovements assumes of its constants.
LEMMA MovementsAssumption ==
  /\ NoReq \notin Request /\ NoOp \notin Op /\ NoRow \notin Int
  /\ Opening \in [Depots -> Int \cup {NoRow}]
  /\ Contended \subseteq MovementProofs!PayloadType
  /\ \A p \in Contended : p.kind # "adjustment" => p.qty > 0
  /\ FALSE \in BOOLEAN
<1>1. NoReq \notin Request /\ NoOp \notin Op /\ NoRow \notin Int
  BY StockAssumption DEF Packaging!ConstantsAssumption
<1>2. Opening \in [Depots -> Int \cup {NoRow}]
  BY DEF Opening
<1>3. \A p \in Contended : p \in MovementProofs!PayloadType /\ p.qty > 0
  <2>1. ASSUME NEW k \in {"exit", "transfer"}, NEW d \in Depots, NEW e \in Depots
        PROVE  Ask(k, d, e) \in MovementProofs!PayloadType /\ Ask(k, d, e).qty > 0
    BY DEF Ask, MovementProofs!PayloadType, MovementProofs!Kinds
  <2>. QED
    BY <2>1 DEF Contended, Depots
<1>. QED
  BY <1>1, <1>2, <1>3

Sum(w, S) == MovementProofs!Total(w, S)

LEMMA SameSums ==
  ASSUME NEW w, NEW S
  PROVE  /\ Lots!SumFunctionOnSet(w, S) = Sum(w, S)
         /\ Packaging!SumFunctionOnSet(w, S) = Sum(w, S)
BY DEF Sum, MovementProofs!Total, MovementProofs!SumFunctionOnSet,
       MovementProofs!FoldFunctionOnSet, MovementProofs!MapThenFoldSet,
       Lots!SumFunctionOnSet, Lots!FoldFunctionOnSet, Lots!MapThenFoldSet,
       Packaging!SumFunctionOnSet, Packaging!FoldFunctionOnSet, Packaging!MapThenFoldSet

LEMMA SameFiniteness ==
  ASSUME NEW S PROVE IsFiniteSet(S) <=> MovementProofs!IsFiniteSet(S)
BY DEF IsFiniteSet, MovementProofs!IsFiniteSet

LEMMA NothingSums == ASSUME NEW w PROVE Sum(w, {}) = 0
BY FS_EmptySet, SameFiniteness, MovementsAssumption, MovementProofs!TotalSolves DEF Sum

LEMMA SumAdds ==
  ASSUME NEW w, NEW S, IsFiniteSet(S), \A m \in S : w[m] \in Int
  PROVE  /\ Sum(w, S) \in Int
         /\ \A m \in S : Sum(w, S) = w[m] + Sum(w, S \ {m})
BY SameFiniteness, MovementsAssumption, MovementProofs!TotalAdds DEF Sum

LEMMA SumsAgree ==
  ASSUME NEW v, NEW w, NEW S, IsFiniteSet(S), \A m \in S : v[m] \in Int /\ v[m] = w[m]
  PROVE  Sum(v, S) = Sum(w, S)
BY SameFiniteness, MovementsAssumption, MovementProofs!TotalsAgree DEF Sum

LEMMA SumOfOne ==
  ASSUME NEW w, NEW m, w[m] \in Int PROVE Sum(w, {m}) = w[m]
<1>1. IsFiniteSet({m}) /\ {m} \ {m} = {}
  BY FS_Singleton
<1>2. Sum(w, {m}) = w[m] + Sum(w, {})
  BY <1>1, SumAdds
<1>. QED
  BY <1>2, NothingSums

\* More elements of natural weights do not make a smaller sum.
LEMMA SumsGrow ==
  ASSUME NEW w, NEW S, IsFiniteSet(S), \A m \in S : w[m] \in Nat, NEW T \in SUBSET S
  PROVE  Sum(w, T) <= Sum(w, S)
<1> DEFINE Shrinks == {A \in SUBSET S : \E B \in SUBSET A : ~(Sum(w, B) <= Sum(w, A))}
<1> SUFFICES ASSUME Shrinks # {} PROVE FALSE
  OBVIOUS
<1>1. \A A \in SUBSET S : IsFiniteSet(A)
  BY FS_Subset
<1>2. PICK A \in Shrinks : \A C \in Shrinks : ~(Cardinality(C) < Cardinality(A))
  <2>1. \A C : MovementProofs!Cardinality(C) = Cardinality(C)
    BY DEF Cardinality, MovementProofs!Cardinality, IsFiniteSet, MovementProofs!IsFiniteSet
  <2>2. \A C \in Shrinks : MovementProofs!IsFiniteSet(C)
    BY <1>1, SameFiniteness
  <2>. QED
    BY <2>1, <2>2, MovementsAssumption, MovementProofs!SmallestExists
<1>3. PICK B \in SUBSET A : ~(Sum(w, B) <= Sum(w, A))
  OBVIOUS
<1>4. Sum(w, A) \in Int /\ Sum(w, B) \in Int
  BY <1>1, SumAdds
<1>5. PICK m \in A : m \notin B
  BY <1>3, <1>4
<1>6. B \in SUBSET (A \ {m}) /\ A \ {m} \in SUBSET S /\ A \ {m} \notin Shrinks
  <2>1. Cardinality(A \ {m}) = Cardinality(A) - 1 /\ Cardinality(A) \in Nat
    BY <1>1, FS_RemoveElement, FS_CardinalityType
  <2>. QED
    BY <1>2, <1>5, <2>1
<1>7. Sum(w, B) <= Sum(w, A \ {m}) /\ Sum(w, A \ {m}) \in Int
  BY <1>1, <1>6, SumAdds
<1>8. Sum(w, A) = w[m] + Sum(w, A \ {m}) /\ w[m] \in Nat
  BY <1>1, SumAdds
<1>. QED
  BY <1>3, <1>4, <1>7, <1>8

-----------------------------------------------------------------------------
(* The lots. *)

LotRow == [left : Int, expiry : Int, exists : BOOLEAN]
LotTx  == [pc : {"idle", "read", "flushed", "locking"},
           kind : {"none", "entry", "named", "fifo"},
           lot : Nat, qty : Int, seen : LotRow, new : LotRow,
           todo : Seq(Lot), got : Seq([lot : Lot, left : Int])]

Busy(r) == lotTx[r].pc # "idle"
Fifo(r) == lotTx[r].pc = "locking"
Writing(r) == lotTx[r].pc \in {"read", "flushed"}

LotTypes ==
  /\ lots \in [Lot -> LotRow]
  /\ lotAlert \in [Lot -> {"none", "open", "resolved"}]
  /\ entered \in [Lot -> Int] /\ taken \in [Lot -> Int]
  /\ lotLock \in [Lot -> LotRequest \cup {NoReq}]
  /\ lotTx \in [LotRequest -> LotTx]
  /\ \A r \in LotRequest :
       /\ Busy(r) => lotTx[r].qty > 0
       /\ Fifo(r) <=> lotTx[r].kind = "fifo"
       /\ Writing(r) => lotTx[r].kind \in {"entry", "named"} /\ lotTx[r].lot \in Lot

\* Exits by FIFO meet each other only.
Apart == \A r, s \in LotRequest : r # s /\ Busy(r) /\ Busy(s) => Fifo(r) /\ Fifo(s)

\* What an entry or a named exit is about to write.
WriteFits(r) ==
  LET left == lots[lotTx[r].lot].left IN
  Writing(r) => /\ lotTx[r].new.left >= 0
                /\ lotTx[r].kind = "entry" => lotTx[r].new.left = left + lotTx[r].qty
                /\ lotTx[r].kind = "named" => lotTx[r].new.left = left - lotTx[r].qty

Due(l) == lots[l].expiry

\* An exit by FIFO holds the lots it has locked, each once, has not left one with units out,
\* and goes through them by date.
Holds(r, got) ==
  /\ \A i \in DOMAIN got :
       lotLock[got[i].lot] = r /\ got[i].left = lots[got[i].lot].left /\ got[i].left > 0
  /\ \A i, j \in DOMAIN got : got[i].lot = got[j].lot => i = j
  /\ \A i, j \in DOMAIN got : i < j => Due(got[i].lot) <= Due(got[j].lot)

Awaits(got, todo) ==
  /\ \A i, j \in DOMAIN todo : todo[i] = todo[j] => i = j
  /\ \A i, j \in DOMAIN todo : i < j => Due(todo[i]) <= Due(todo[j])
  /\ \A i \in DOMAIN got, j \in DOMAIN todo :
       got[i].lot # todo[j] /\ Due(got[i].lot) <= Due(todo[j])

Covers(got, todo) ==
  \A l \in Lot : lots[l].left > 0 =>
    (\E i \in DOMAIN got : got[i].lot = l) \/ (\E i \in DOMAIN todo : todo[i] = l)

QueuedBy(r) ==
  LET t == lotTx[r] IN
  Fifo(r) => Holds(r, t.got) /\ Awaits(t.got, t.todo) /\ Covers(t.got, t.todo)

LotInv ==
  /\ LotTypes /\ Apart /\ Lots!LotsMatchMovements
  /\ \A r \in LotRequest : WriteFits(r) /\ QueuedBy(r)

LEMMA LotConstants ==
  /\ Lot \subseteq Nat /\ IsFiniteSet(Lot) /\ Expiry \subseteq Nat /\ NoReq \notin LotRequest
BY StockAssumption DEF Lots!ConstantsAssumption, Lots!IsFiniteSet, IsFiniteSet

\* An order of the query has each lot with units left once.
LEMMA OldestOrder ==
  ASSUME LotTypes, NEW s \in Lots!Oldest
  PROVE  s \in Seq(Lot) /\ Awaits(<<>>, s) /\ Covers(<<>>, s)
<1> DEFINE A == Lots!Available
           n == Cardinality(A)
<1>1. IsFiniteSet(A) /\ n \in Nat /\ A \subseteq Lot
  BY LotConstants, FS_Subset, FS_CardinalityType DEF Lots!Available
<1>2. Lots!Cardinality(A) = n
  BY DEF Cardinality, Lots!Cardinality, IsFiniteSet, Lots!IsFiniteSet
<1>3. /\ s \in [1..n -> A] /\ \A l \in A : \E i \in 1..n : s[i] = l
      /\ \A i, j \in 1..n : i < j => ~(lots[s[j]].expiry < lots[s[i]].expiry)
  BY <1>2 DEF Lots!Oldest, Lots!Before
<1> HIDE DEF n
<1>4. s \in Seq(Lot) /\ DOMAIN s = 1..n
  BY <1>1, <1>3, IsASeq
<1>5. s \in Surjection(1..n, A)
  BY <1>3 DEF Surjection
<1>6. IsFiniteSet(1..n) /\ Cardinality(1..n) = n
  BY <1>1, FS_Interval
<1>7. s \in Injection(1..n, A)
  BY <1>5, <1>6, FS_SurjSameCardinalityImpliesInj DEF n
<1>8. \A i, j \in 1..n : s[i] = s[j] => i = j
  BY <1>7 DEF Injection, IsInjective
<1>9. \A i, j \in 1..n : i < j => Due(s[i]) <= Due(s[j])
  BY <1>1, <1>3 DEF Due, LotTypes, LotRow
<1>10. Covers(<<>>, s)
  BY <1>3, <1>4 DEF Covers, Lots!Available
<1>. QED
  BY <1>4, <1>8, <1>9, <1>10 DEF Awaits

(* What an exit by FIFO takes. *)

LotsGot == Seq([lot : Lot, left : Int])

LEMMA GotType ==
  ASSUME NEW got \in LotsGot
  PROVE  /\ Len(got) \in Nat /\ DOMAIN got = 1..Len(got)
         /\ \A i \in 1..Len(got) : got[i].lot \in Lot /\ got[i].left \in Int
<1>1. Len(got) \in Nat /\ DOMAIN got = 1..Len(got)
  BY DEF LotsGot
<1>2. ASSUME NEW i \in 1..Len(got) PROVE got[i] \in [lot : Lot, left : Int]
  BY ElementOfSeq DEF LotsGot
<1>. QED
  BY <1>1, <1>2

LEMMA UnitsAdd ==
  ASSUME NEW got \in LotsGot, \A i \in DOMAIN got : got[i].left > 0
  PROVE  /\ \A n \in 0..Len(got) : Lots!UnitsIn(got, n) \in Nat
         /\ \A n \in 1..Len(got) : Lots!UnitsIn(got, n) = got[n].left + Lots!UnitsIn(got, n - 1)
         /\ \A m, n \in 0..Len(got) : m <= n => Lots!UnitsIn(got, m) <= Lots!UnitsIn(got, n)
<1> DEFINE w == Lots!Lefts(got)
<1>1. /\ DOMAIN got = 1..Len(got) /\ Len(got) \in Nat
      /\ \A i \in 1..Len(got) : w[i] \in Nat /\ w[i] = got[i].left
  BY GotType DEF Lots!Lefts
<1> HIDE DEF w
<1>2. \A n : Lots!UnitsIn(got, n) = Sum(w, 1..n)
  BY SameSums DEF Lots!UnitsIn, w
<1>3. ASSUME NEW n \in 0..Len(got)
      PROVE  IsFiniteSet(1..n) /\ \A i \in 1..n : w[i] \in Nat
  BY <1>1, <1>3, FS_Interval
<1>4. ASSUME NEW n \in 0..Len(got), NEW m \in 0..n PROVE Sum(w, 1..m) <= Sum(w, 1..n)
  <2>1. 1..m \in SUBSET (1..n)
    BY <1>1
  <2>. QED
    BY <1>3, <2>1, SumsGrow
<1>5. ASSUME NEW n \in 0..Len(got) PROVE Sum(w, 1..n) \in Nat
  <2>1. Sum(w, 1..n) \in Int
    BY <1>3, SumAdds
  <2>2. 1..0 = {} /\ 0 \in 0..n
    BY <1>1
  <2>3. Sum(w, 1..0) = 0
    BY <2>2, NothingSums
  <2>. QED
    BY <1>4, <2>1, <2>2, <2>3
<1>6. ASSUME NEW n \in 1..Len(got) PROVE Sum(w, 1..n) = got[n].left + Sum(w, 1..(n - 1))
  <2>1. (1..n) \ {n} = 1..(n - 1) /\ n \in 1..n /\ n \in 0..Len(got)
    BY <1>1
  <2>2. IsFiniteSet(1..n) /\ \A i \in 1..n : w[i] \in Int
    BY <1>3, <2>1
  <2>3. \A S : IsFiniteSet(S) /\ (\A i \in S : w[i] \in Int) =>
          \A i \in S : Sum(w, S) = w[i] + Sum(w, S \ {i})
    BY SumAdds
  <2>. QED
    BY <1>1, <2>1, <2>2, <2>3
<1>7. \A m, n \in 0..Len(got) : m <= n => m \in 0..n
  BY <1>1
<1>. QED
  BY <1>2, <1>4, <1>5, <1>6, <1>7

\* An exit takes a part of each lot, all of it while more is asked for.
LEMMA TakeBounds ==
  ASSUME NEW got \in LotsGot, \A i \in DOMAIN got : got[i].left > 0,
         NEW q \in Int, q > 0, NEW i \in 1..Len(got)
  PROVE  /\ Lots!Take(got, q, i) \in 0..got[i].left /\ got[i].left \in Nat
         /\ Lots!Take(got, q, i) > 0 => Lots!UnitsIn(got, i - 1) < q
         /\ Lots!UnitsIn(got, i) < q => Lots!Take(got, q, i) = got[i].left
<1> DEFINE older == Lots!UnitsIn(got, i - 1)
           here == got[i].left
<1>1. here \in Int /\ here > 0
  BY GotType
<1>2. older \in Nat /\ Lots!UnitsIn(got, i) = here + older
  <2>1. i - 1 \in 0..Len(got)
    BY DEF LotsGot
  <2>. QED
    BY <2>1, UnitsAdd
<1>3. Lots!Take(got, q, i) = IF older >= q THEN 0 ELSE IF here < q - older THEN here ELSE q - older
  BY DEF Lots!Take, Lots!Smaller
<1> HIDE DEF older, here
<1>4. Lots!Take(got, q, i) \in 0..here /\ here \in Nat
  BY <1>1, <1>2, <1>3
<1>5. Lots!Take(got, q, i) > 0 => older < q
  BY <1>1, <1>2, <1>3
<1>6. Lots!UnitsIn(got, i) < q => Lots!Take(got, q, i) = here
  BY <1>1, <1>2, <1>3
<1>. QED
  BY <1>4, <1>5, <1>6 DEF older, here

\* A lot is at one place at most, where its units are those of the place.
LEMMA OnePlace ==
  ASSUME NEW got \in LotsGot, \A i \in DOMAIN got : got[i].left > 0,
         \A i, j \in DOMAIN got : got[i].lot = got[j].lot => i = j,
         NEW q \in Int, q > 0, NEW l
  PROVE  /\ (\A i \in DOMAIN got : got[i].lot # l) => Lots!TakenFrom(got, q, l) = 0
         /\ \A i \in DOMAIN got : got[i].lot = l =>
              /\ Lots!TakenFrom(got, q, l) = Lots!Take(got, q, i)
              /\ Lots!LeftIn(got, q, l) = got[i].left - Lots!Take(got, q, i)
<1> DEFINE P == Lots!Places(got, l)
           w == Lots!Lefts(got)
           v == [i \in DOMAIN got |-> Lots!Take(got, q, i)]
<1>1. /\ Lots!TakenFrom(got, q, l) = Sum(v, P)
      /\ Lots!LeftIn(got, q, l) = Sum(w, P) - Sum(v, P)
  BY SameSums DEF Lots!TakenFrom, Lots!LeftIn
<1>2. ASSUME \A i \in DOMAIN got : got[i].lot # l PROVE Sum(v, P) = 0
  <2>1. P = {}
    BY <1>2 DEF Lots!Places
  <2> HIDE DEF P, v
  <2>. QED
    BY <2>1, NothingSums
<1>3. ASSUME NEW i \in DOMAIN got, got[i].lot = l
      PROVE  Sum(v, P) = Lots!Take(got, q, i) /\ Sum(w, P) = got[i].left
  <2>1. P = {i}
    BY <1>3 DEF Lots!Places
  <2>2. i \in 1..Len(got)
    BY DEF LotsGot
  <2>3. v[i] = Lots!Take(got, q, i) /\ w[i] = got[i].left
    BY <1>3 DEF Lots!Lefts
  <2>4. v[i] \in Int /\ w[i] \in Int
    BY <2>2, <2>3, TakeBounds
  <2> HIDE DEF P, v, w
  <2>. QED
    BY <2>1, <2>3, <2>4, SumOfOne
<1>. QED
  BY <1>1, <1>2, <1>3

(* One step of the lots. *)

\* Nothing that r does disturbs an exit by FIFO whose lots it leaves alone.
Spares(s) ==
  \A l \in Lot : /\ Due(l)' = Due(l) /\ lots'[l].left <= lots[l].left
                 /\ lotLock[l] = s => lotLock'[l] = s /\ lots'[l].left = lots[l].left

LEMMA SparedKeeps ==
  ASSUME LotTypes, LotTypes', NEW s \in LotRequest, lotTx'[s] = lotTx[s], Spares(s), QueuedBy(s)
  PROVE  QueuedBy(s)'
<1> SUFFICES ASSUME Fifo(s)'
             PROVE  QueuedBy(s)'
  BY DEF QueuedBy
<1>1. PICK got \in LotsGot, todo \in Seq(Lot) :
        /\ lotTx'[s].got = got /\ lotTx'[s].todo = todo
        /\ Holds(s, got) /\ Awaits(got, todo) /\ Covers(got, todo)
  BY DEF LotTypes, LotTx, QueuedBy, Fifo, LotsGot
<1>2. /\ \A i \in DOMAIN got : got[i].lot \in Lot
      /\ \A i \in DOMAIN todo : todo[i] \in Lot
  BY <1>1, GotType, ElementOfSeq
<1>3. Holds(s, got)'
  BY <1>1, <1>2 DEF Holds, Spares
<1>4. Awaits(got, todo)'
  BY <1>1, <1>2 DEF Awaits, Spares
<1>5. Covers(got, todo)'
  <2>1. \A l \in Lot : lots'[l].left > 0 => lots[l].left > 0
    BY DEF Spares, LotTypes, LotRow
  <2>. QED
    BY <1>1, <2>1 DEF Covers
<1>. QED
  BY <1>1, <1>3, <1>4, <1>5 DEF QueuedBy

LEMMA OneMoves ==
  ASSUME LotInv, LotTypes', Lots!LotsMatchMovements', NEW r \in LotRequest,
         \A s \in LotRequest : s # r => lotTx'[s] = lotTx[s] /\ (Busy(s) => Fifo(s) /\ Spares(s)),
         Busy(r)' => \A s \in LotRequest : s # r /\ Busy(s) => Fifo(r)',
         WriteFits(r)', QueuedBy(r)'
  PROVE  LotInv'
<1>1. LotTypes /\ Apart /\ \A s \in LotRequest : WriteFits(s) /\ QueuedBy(s)
  BY DEF LotInv
<1>2. \A s \in LotRequest : s # r => /\ Busy(s)' <=> Busy(s)
                                     /\ Fifo(s)' <=> Fifo(s)
                                     /\ Writing(s)' <=> Writing(s)
  BY DEF Busy, Fifo, Writing
<1>3. Apart'
  BY <1>1, <1>2 DEF Apart
<1>4. ASSUME NEW s \in LotRequest, s # r PROVE WriteFits(s)' /\ QueuedBy(s)'
  <2>1. CASE Busy(s)
    <3>1. Fifo(s) /\ Spares(s) /\ lotTx'[s] = lotTx[s]
      BY <1>4, <2>1
    <3>2. QueuedBy(s)'
      BY <1>1, <3>1, SparedKeeps
    <3>3. WriteFits(s)'
      BY <1>2, <1>4, <3>1 DEF WriteFits, Fifo, Writing
    <3>. QED
      BY <3>2, <3>3
  <2>2. CASE ~Busy(s)
    BY <1>2, <1>4, <2>2 DEF WriteFits, QueuedBy, Busy, Fifo, Writing
  <2>. QED
    BY <2>1, <2>2
<1>. QED
  BY <1>3, <1>4 DEF LotInv

\* The request r is where the step put it.
LEMMA Went ==
  ASSUME LotTypes, NEW r \in LotRequest, NEW to \in LotTx, Lots!Goes(r, to)
  PROVE  /\ lotTx' \in [LotRequest -> LotTx] /\ lotTx'[r] = to
         /\ \A s \in LotRequest : s # r => lotTx'[s] = lotTx[s]
BY DEF LotTypes, Lots!Goes

LEMMA LotIdle ==
  /\ Lots!Idle \in LotTx /\ Lots!Idle.pc = "idle" /\ Lots!Idle.kind = "none"
  /\ Lots!NoLot \in LotRow /\ Lots!Idle.todo = <<>> /\ Lots!Idle.got = <<>>
<1>1. Lots!NoLot \in LotRow
  BY DEF Lots!NoLot, LotRow
<1>2. \A S : <<>> \in Seq(S)
  OBVIOUS
<1>. QED
  BY <1>1, <1>2 DEF Lots!Idle, LotTx

LEMMA LotStart ==
  ASSUME LotInv, NEW r \in LotRequest, NEW kind, Lots!MayStart(r, kind)
  PROVE  /\ ~Busy(r)
         /\ \A s \in LotRequest : Busy(s) => Fifo(s) /\ kind = "fifo"
<1>1. ~Busy(r) /\ \A s \in LotRequest : lotTx[s].pc = "idle" \/ {kind, lotTx[s].kind} = {"fifo"}
  BY DEF Lots!MayStart, Busy
<1>. QED
  BY <1>1 DEF LotInv, LotTypes, Busy

LEMMA EntryStep ==
  ASSUME LotInv, NEW r \in LotRequest, NEW l \in Lot, NEW q \in 1..2,
         \/ Lots!ConsumeSpecificLot(r, l, q)
         \/ \E date \in Expiry : Lots!AddToLot(r, l, q, date)
  PROVE  LotInv'
<1>1. PICK kind \in {"entry", "named"}, new \in LotRow :
        /\ Lots!MayStart(r, kind) /\ UNCHANGED <<lots, lotAlert, entered, taken, lotLock, lotScan>>
        /\ Lots!Goes(r, Lots!Reads(kind, l, q, new))
        /\ new.left >= 0
        /\ kind = "entry" => new.left = lots[l].left + q
        /\ kind = "named" => new.left = lots[l].left - q
  <2>1. lots[l] \in LotRow /\ lots[l].left >= 0 /\ q > 0 /\ q \in Int
    BY DEF LotInv, LotTypes, Lots!LotsMatchMovements
  <2>2. CASE Lots!ConsumeSpecificLot(r, l, q)
    <3> DEFINE new == [lots[l] EXCEPT !.left = @ - q]
    <3>1. new \in LotRow /\ new.left = lots[l].left - q /\ lots[l].left >= q
      BY <2>1, <2>2 DEF LotRow, Lots!ConsumeSpecificLot
    <3>2. /\ Lots!MayStart(r, "named")
          /\ UNCHANGED <<lots, lotAlert, entered, taken, lotLock, lotScan>>
          /\ Lots!Goes(r, Lots!Reads("named", l, q, new))
      BY <2>2 DEF Lots!ConsumeSpecificLot
    <3>3. new.left >= 0
      BY <2>1, <3>1 DEF LotRow
    <3> HIDE DEF new
    <3>. QED
      BY <3>1, <3>2, <3>3
  <2>3. CASE \E date \in Expiry : Lots!AddToLot(r, l, q, date)
    <3>1. PICK date \in Expiry : Lots!AddToLot(r, l, q, date)
      BY <2>3
    <3> DEFINE new == Lots!Row(lots[l].left + q, date)
    <3>2. new \in LotRow /\ new.left = lots[l].left + q
      BY <2>1, LotConstants DEF LotRow, Lots!Row
    <3>3. /\ Lots!MayStart(r, "entry")
          /\ UNCHANGED <<lots, lotAlert, entered, taken, lotLock, lotScan>>
          /\ Lots!Goes(r, Lots!Reads("entry", l, q, new))
      BY <3>1 DEF Lots!AddToLot
    <3>4. new.left >= 0
      BY <2>1, <3>2 DEF LotRow
    <3> HIDE DEF new
    <3>. QED
      BY <3>2, <3>3, <3>4
  <2>. QED
    BY <2>2, <2>3
<1> DEFINE to == Lots!Reads(kind, l, q, new)
<1>2. LotTypes
  BY DEF LotInv
<1>3. /\ to \in LotTx /\ to.pc = "read" /\ to.kind = kind /\ to.lot = l /\ to.qty = q
      /\ to.new = new
  <2>1. to = [pc |-> "read", kind |-> kind, lot |-> l, qty |-> q, seen |-> lots[l], new |-> new,
              todo |-> <<>>, got |-> <<>>]
    BY DEF Lots!Reads
  <2>2. lots[l] \in LotRow /\ l \in Nat /\ q \in Int
    BY <1>2, LotConstants DEF LotTypes
  <2>3. <<>> \in Seq(Lot) /\ <<>> \in Seq([lot : Lot, left : Int])
    OBVIOUS
  <2> HIDE DEF to
  <2>. QED
    BY <2>1, <2>2, <2>3 DEF LotTx
<1> HIDE DEF to
<1>4. /\ lotTx' \in [LotRequest -> LotTx] /\ lotTx'[r] = to
      /\ \A s \in LotRequest : s # r => lotTx'[s] = lotTx[s]
  BY <1>1, <1>2, <1>3, Went DEF to
<1>5. \A s \in LotRequest : ~Busy(s)
  BY <1>1, LotStart
<1>6. LotTypes'
  BY <1>1, <1>2, <1>3, <1>4 DEF LotTypes, Busy, Fifo, Writing
<1>7. WriteFits(r)' /\ QueuedBy(r)'
  BY <1>1, <1>3, <1>4 DEF WriteFits, QueuedBy, Fifo
<1>8. Lots!LotsMatchMovements'
  BY <1>1 DEF LotInv, Lots!LotsMatchMovements
<1>. QED
  BY <1>4, <1>5, <1>6, <1>7, <1>8, OneMoves

LEMMA FifoStartStep ==
  ASSUME LotInv, NEW r \in LotRequest, NEW q \in 1..2, Lots!ConsumeLotsFifo(r, q)
  PROVE  LotInv'
<1>1. PICK todo \in Lots!Oldest : Lots!Goes(r, Lots!Locks(q, todo))
  BY DEF Lots!ConsumeLotsFifo
<1>2. LotTypes /\ UNCHANGED <<lots, lotAlert, entered, taken, lotLock, lotScan>>
  BY DEF LotInv, Lots!ConsumeLotsFifo
<1>3. todo \in Seq(Lot) /\ Awaits(<<>>, todo) /\ Covers(<<>>, todo)
  BY <1>2, OldestOrder
<1> DEFINE to == Lots!Locks(q, todo)
<1>4. /\ to \in LotTx /\ to.pc = "locking" /\ to.kind = "fifo" /\ to.qty = q
      /\ to.todo = todo /\ to.got = <<>>
  <2>1. to = [pc |-> "locking", kind |-> "fifo", lot |-> 0, qty |-> q, seen |-> Lots!NoLot,
              new |-> Lots!NoLot, todo |-> todo, got |-> <<>>]
    BY DEF Lots!Locks
  <2>2. <<>> \in Seq([lot : Lot, left : Int]) /\ q \in Int /\ Lots!NoLot \in LotRow
    BY LotIdle
  <2> HIDE DEF to
  <2>. QED
    BY <1>3, <2>1, <2>2 DEF LotTx
<1> HIDE DEF to
<1>5. /\ lotTx' \in [LotRequest -> LotTx] /\ lotTx'[r] = to
      /\ \A s \in LotRequest : s # r => lotTx'[s] = lotTx[s]
  BY <1>1, <1>2, <1>4, Went DEF to
<1>6. \A s \in LotRequest : s # r /\ Busy(s) => Fifo(s) /\ Spares(s)
  <2>1. Lots!MayStart(r, "fifo")
    BY DEF Lots!ConsumeLotsFifo
  <2>2. \A s : Spares(s)
    BY <1>2 DEF Spares, Due, LotTypes, LotRow
  <2>. QED
    BY <2>1, <2>2, LotStart
<1>7. LotTypes'
  <2>1. q > 0
    OBVIOUS
  <2>. QED
    BY <1>2, <1>4, <1>5, <2>1 DEF LotTypes, Busy, Fifo, Writing
<1>8. WriteFits(r)' /\ QueuedBy(r)'
  <2>1. Holds(r, <<>>)'
    BY DEF Holds
  <2>2. Awaits(<<>>, todo)' /\ Covers(<<>>, todo)'
    BY <1>2, <1>3 DEF Awaits, Covers, Due
  <2>. QED
    BY <1>4, <1>5, <2>1, <2>2 DEF WriteFits, QueuedBy, Writing
<1>9. Lots!LotsMatchMovements' /\ Fifo(r)'
  BY <1>2, <1>4, <1>5 DEF LotInv, Lots!LotsMatchMovements, Fifo
<1>. QED
  BY <1>5, <1>6, <1>7, <1>8, <1>9, OneMoves

\* The request r ends: it leaves its locks, and no lot grows when exits by FIFO run beside it.
LEMMA LotEnds ==
  ASSUME LotInv, NEW r \in LotRequest, Lots!Goes(r, Lots!Idle), lotLock' = Lots!Released(r),
         lots' \in [Lot -> LotRow], lotAlert' \in [Lot -> {"none", "open", "resolved"}],
         entered' \in [Lot -> Int], taken' \in [Lot -> Int],
         Lots!LotsMatchMovements', Busy(r),
         Fifo(r) => \A l \in Lot : /\ Due(l)' = Due(l) /\ lots'[l].left <= lots[l].left
                                   /\ lotLock[l] # r => lots'[l].left = lots[l].left
  PROVE  LotInv'
<1>1. LotTypes /\ Apart
  BY DEF LotInv
<1>2. /\ lotTx' \in [LotRequest -> LotTx] /\ lotTx'[r] = Lots!Idle
      /\ \A s \in LotRequest : s # r => lotTx'[s] = lotTx[s]
  BY <1>1, LotIdle, Went
<1>3. lotLock' \in [Lot -> LotRequest \cup {NoReq}] /\ \A l \in Lot, s \in LotRequest :
        s # r /\ lotLock[l] = s => lotLock'[l] = s
  BY <1>1 DEF Lots!Released, LotTypes
<1>4. ~Busy(r)' /\ ~Fifo(r)' /\ ~Writing(r)'
  BY <1>2, LotIdle DEF Busy, Fifo, Writing
<1>5. LotTypes'
  <2>1. /\ Busy(r)' => lotTx'[r].qty > 0
        /\ Fifo(r)' <=> lotTx'[r].kind = "fifo"
        /\ Writing(r)' => lotTx'[r].kind \in {"entry", "named"} /\ lotTx'[r].lot \in Lot
    BY <1>2, <1>4, LotIdle
  <2>2. ASSUME NEW s \in LotRequest, s # r
        PROVE  /\ Busy(s)' => lotTx'[s].qty > 0
               /\ Fifo(s)' <=> lotTx'[s].kind = "fifo"
               /\ Writing(s)' => lotTx'[s].kind \in {"entry", "named"} /\ lotTx'[s].lot \in Lot
    BY <1>1, <1>2, <2>2 DEF LotTypes, Busy, Fifo, Writing
  <2>. QED
    BY <1>2, <1>3, <2>1, <2>2 DEF LotTypes
<1>6. \A s \in LotRequest : s # r /\ Busy(s) => Fifo(s) /\ Spares(s)
  BY <1>1, <1>3 DEF Apart, Spares
<1>7. WriteFits(r)' /\ QueuedBy(r)'
  BY <1>4 DEF WriteFits, QueuedBy
<1>. QED
  BY <1>2, <1>4, <1>5, <1>6, <1>7, OneMoves

LEMMA FlushStep ==
  ASSUME LotInv, NEW r \in LotRequest, Lots!Flush(r)
  PROVE  LotInv'
<1> DEFINE l == lotTx[r].lot
           to == [lotTx[r] EXCEPT !.pc = "flushed"]
<1>1. /\ LotTypes /\ Apart /\ Writing(r) /\ Busy(r) /\ ~Fifo(r)
      /\ UNCHANGED <<lots, lotAlert, entered, taken, lotScan>>
      /\ lotLock' = [lotLock EXCEPT ![l] = r] /\ Lots!Goes(r, to) /\ lotTx[r] \in LotTx
      /\ WriteFits(r)
  BY DEF LotInv, LotTypes, Lots!Flush, Writing, Busy, Fifo
<1>2. /\ to \in LotTx /\ to.pc = "flushed" /\ to.kind = lotTx[r].kind /\ to.qty = lotTx[r].qty
      /\ to.lot = lotTx[r].lot /\ to.new = lotTx[r].new
  BY <1>1 DEF LotTx
<1> HIDE DEF to
<1>3. /\ lotTx' \in [LotRequest -> LotTx] /\ lotTx'[r] = to
      /\ \A s \in LotRequest : s # r => lotTx'[s] = lotTx[s]
  BY <1>1, <1>2, Went
<1>4. \A s \in LotRequest : s # r => ~Busy(s)
  BY <1>1 DEF Apart
<1>5. lotLock' \in [Lot -> LotRequest \cup {NoReq}]
  BY <1>1 DEF LotTypes
<1>6. LotTypes'
  BY <1>1, <1>2, <1>3, <1>5 DEF LotTypes, Busy, Fifo, Writing
<1>7. WriteFits(r)' /\ QueuedBy(r)'
  BY <1>1, <1>2, <1>3 DEF WriteFits, QueuedBy, Fifo, Writing
<1>8. Lots!LotsMatchMovements'
  BY <1>1 DEF LotInv, Lots!LotsMatchMovements
<1>. QED
  BY <1>3, <1>4, <1>6, <1>7, <1>8, OneMoves

LEMMA WriteStep ==
  ASSUME LotInv, NEW r \in LotRequest, Lots!Commit(r)
  PROVE  LotInv'
<1> DEFINE l == lotTx[r].lot
           q == lotTx[r].qty
           new == Lots!Written(r)
<1>1. /\ LotTypes /\ Writing(r) /\ Busy(r) /\ ~Fifo(r) /\ l \in Lot /\ lotTx[r] \in LotTx
      /\ q \in Int /\ lotTx[r].kind \in {"entry", "named"} /\ WriteFits(r)
      /\ Lots!LotsMatchMovements /\ lots[l] \in LotRow
  BY DEF LotInv, LotTypes, Lots!Commit, Writing, Busy, Fifo, LotTx
<1>2. new \in LotRow /\ new.left = lotTx[r].new.left
  BY <1>1 DEF Lots!Written, LotTx, LotRow
<1>3. /\ lots' = [lots EXCEPT ![l] = new] /\ lotLock' = Lots!Released(r)
      /\ Lots!Goes(r, Lots!Idle)
      /\ entered' = IF lotTx[r].kind = "named" THEN entered ELSE [entered EXCEPT ![l] = @ + q]
      /\ taken' = IF lotTx[r].kind = "named" THEN [taken EXCEPT ![l] = @ + q] ELSE taken
  BY DEF Lots!Commit
<1>4. lotAlert' \in [Lot -> {"none", "open", "resolved"}]
  BY <1>1 DEF Lots!Commit, LotTypes
<1> HIDE DEF new, q
<1>5. lots' \in [Lot -> LotRow] /\ entered' \in [Lot -> Int] /\ taken' \in [Lot -> Int]
  BY <1>1, <1>2, <1>3 DEF LotTypes
<1>6. Lots!LotsMatchMovements'
  <2>1. /\ new.left >= 0 /\ new.left \in Int /\ lots[l].left \in Int
        /\ entered[l] \in Int /\ taken[l] \in Int /\ lots[l].left + taken[l] = entered[l]
    BY <1>1, <1>2 DEF WriteFits, Lots!LotsMatchMovements, LotTypes, LotRow
  <2>2. lots'[l].left >= 0 /\ lots'[l].left + taken'[l] = entered'[l]
    <3>1. CASE lotTx[r].kind = "entry"
      <4>1. new.left = lots[l].left + q
        BY <1>1, <1>2, <3>1 DEF WriteFits, q
      <4>. QED
        BY <1>1, <1>3, <2>1, <3>1, <4>1 DEF LotTypes
    <3>2. CASE lotTx[r].kind = "named"
      <4>1. new.left = lots[l].left - q
        BY <1>1, <1>2, <3>2 DEF WriteFits, q
      <4>. QED
        BY <1>1, <1>3, <2>1, <3>2, <4>1 DEF LotTypes
    <3>. QED
      BY <1>1, <3>1, <3>2
  <2>3. \A m \in Lot : m # l => lots'[m] = lots[m] /\ taken'[m] = taken[m] /\ entered'[m] = entered[m]
    BY <1>1, <1>3 DEF LotTypes
  <2>. QED
    BY <1>1, <2>2, <2>3 DEF Lots!LotsMatchMovements
<1>. QED
  BY <1>1, <1>3, <1>4, <1>5, <1>6, LotEnds

LEMMA LotRollback ==
  ASSUME LotInv, NEW r \in LotRequest, Lots!Rollback(r)
  PROVE  LotInv'
<1>1. /\ LotTypes /\ Lots!LotsMatchMovements /\ Busy(r)
      /\ UNCHANGED <<lots, lotAlert, entered, taken, lotScan>>
      /\ Lots!Goes(r, Lots!Idle) /\ lotLock' = Lots!Released(r)
  BY DEF LotInv, Lots!Rollback, Busy
<1>2. Lots!LotsMatchMovements'
  BY <1>1 DEF Lots!LotsMatchMovements
<1>3. \A l \in Lot : Due(l)' = Due(l) /\ lots'[l].left <= lots[l].left /\ lots'[l].left = lots[l].left
  BY <1>1 DEF Due, LotTypes, LotRow
<1>. QED
  BY <1>1, <1>2, <1>3, LotEnds DEF LotTypes

\* The next lot is locked, and noted if units are left in it.
LEMMA LockStep ==
  ASSUME LotInv, NEW r \in LotRequest, Lots!LockLot(r)
  PROVE  LotInv'
<1>1. /\ LotTypes /\ Lots!LotsMatchMovements /\ Fifo(r) /\ Busy(r) /\ QueuedBy(r) /\ Apart
      /\ lotTx[r].todo # <<>> /\ lotTx[r] \in LotTx
      /\ UNCHANGED <<lots, lotAlert, entered, taken, lotScan>>
  BY DEF LotInv, LotTypes, Lots!LockLot, Fifo, Busy
<1>2. PICK got \in LotsGot, todo \in Seq(Lot) :
        /\ lotTx[r].got = got /\ lotTx[r].todo = todo /\ todo # <<>>
        /\ Holds(r, got) /\ Awaits(got, todo) /\ Covers(got, todo)
  BY <1>1 DEF LotTx, LotsGot, QueuedBy
<1>3. PICK l \in Lot, rest \in Seq(Lot), more \in LotsGot, to \in LotTx :
        /\ lotLock[l] = NoReq /\ lotLock' = [lotLock EXCEPT ![l] = r] /\ Lots!Goes(r, to)
        /\ l = todo[1] /\ rest = Tail(todo)
        /\ more = IF lots[l].left > 0 THEN Append(got, [lot |-> l, left |-> lots[l].left]) ELSE got
        /\ to.pc = "locking" /\ to.kind = lotTx[r].kind /\ to.qty = lotTx[r].qty
        /\ to.todo = rest /\ to.got = more
  <2> DEFINE l == Head(todo)
             rest == Tail(todo)
             more == IF lots[l].left > 0 THEN Append(got, [lot |-> l, left |-> lots[l].left])
                     ELSE got
             to == [lotTx[r] EXCEPT !.todo = rest, !.got = more]
  <2>1. lotLock[l] = NoReq /\ lotLock' = [lotLock EXCEPT ![l] = r] /\ Lots!Goes(r, to)
    BY <1>2 DEF Lots!LockLot, Lots!FreeRow
  <2>2. l \in Lot /\ l = todo[1] /\ rest \in Seq(Lot)
    BY <1>2, HeadTailProperties
  <2>3. more \in LotsGot
    <3>1. [lot |-> l, left |-> lots[l].left] \in [lot : Lot, left : Int]
      BY <1>1, <2>2 DEF LotTypes, LotRow
    <3>. QED
      BY <3>1, AppendProperties DEF LotsGot
  <2>4. /\ to \in LotTx /\ to.pc = "locking" /\ to.kind = lotTx[r].kind /\ to.qty = lotTx[r].qty
        /\ to.todo = rest /\ to.got = more
    <3> HIDE DEF rest, more
    <3>. QED
      BY <1>1, <2>2, <2>3 DEF LotTx, LotsGot, Fifo
  <2>5. more = IF lots[l].left > 0 THEN Append(got, [lot |-> l, left |-> lots[l].left]) ELSE got
    OBVIOUS
  <2>6. rest = Tail(todo)
    OBVIOUS
  <2> HIDE DEF l, rest, more, to
  <2>. QED
    BY <2>1, <2>2, <2>3, <2>4, <2>5, <2>6
<1>4. /\ Len(todo) \in Nat /\ Len(todo) > 0
      /\ DOMAIN todo = 1..Len(todo) /\ DOMAIN rest = 1..(Len(todo) - 1)
      /\ \A i \in 1..(Len(todo) - 1) : rest[i] = todo[i + 1]
      /\ \A i \in DOMAIN todo : todo[i] \in Lot
  BY <1>2, <1>3, HeadTailProperties, ElementOfSeq
<1>5. lots[l] \in LotRow /\ \A m \in Lot : Due(m) \in Int /\ Due(m)' = Due(m)
  BY <1>1 DEF LotTypes, LotRow, Due
<1>6. /\ Len(got) \in Nat /\ DOMAIN got = 1..Len(got) /\ \A i \in DOMAIN got : got[i].lot \in Lot
      /\ \/ more = got /\ ~(lots[l].left > 0)
         \/ /\ DOMAIN more = 1..(Len(got) + 1) /\ lots[l].left > 0
            /\ more[Len(got) + 1].lot = l /\ more[Len(got) + 1].left = lots[l].left
            /\ \A i \in 1..Len(got) : more[i] = got[i]
  <2>1. [lot |-> l, left |-> lots[l].left] \in [lot : Lot, left : Int]
    BY <1>5 DEF LotRow
  <2>2. Len(got) \in Nat /\ DOMAIN got = 1..Len(got) /\ \A i \in DOMAIN got : got[i].lot \in Lot
    BY GotType
  <2>3. CASE lots[l].left > 0
    <3> DEFINE e == [lot |-> l, left |-> lots[l].left]
    <3>1. more = Append(got, e) /\ e.lot = l /\ e.left = lots[l].left
      BY <1>3, <2>3
    <3>2. got \in Seq([lot : Lot, left : Int]) /\ e \in [lot : Lot, left : Int]
      BY <2>1 DEF LotsGot
    <3> HIDE DEF e
    <3>3. /\ Len(more) = Len(got) + 1 /\ more \in Seq([lot : Lot, left : Int])
          /\ more[Len(got) + 1] = e /\ \A i \in 1..Len(got) : more[i] = got[i]
      BY <3>1, <3>2, AppendProperties
    <3>4. DOMAIN more = 1..(Len(got) + 1)
      BY <3>3
    <3>. QED
      BY <2>2, <2>3, <3>1, <3>3, <3>4
  <2>4. CASE ~(lots[l].left > 0)
    BY <1>3, <2>2, <2>4
  <2>. QED
    BY <2>3, <2>4
<1>8. /\ lotTx' \in [LotRequest -> LotTx] /\ lotTx'[r] = to
      /\ \A s \in LotRequest : s # r => lotTx'[s] = lotTx[s]
  BY <1>1, <1>3, Went
<1>9. /\ lotLock' \in [Lot -> LotRequest \cup {NoReq}] /\ lotLock'[l] = r
      /\ \A m \in Lot : m # l => lotLock'[m] = lotLock[m]
  BY <1>1, <1>3 DEF LotTypes
<1>10. \A s \in LotRequest : s # r /\ Busy(s) => Fifo(s) /\ Spares(s)
  <2>1. \A s \in LotRequest : Spares(s)
    BY <1>1, <1>3, <1>9, LotConstants DEF Spares, Due, LotTypes, LotRow
  <2>. QED
    BY <1>1, <2>1 DEF Apart
<1>11. LotTypes'
  <2>1. lotTx[r].qty > 0 /\ lotTx[r].kind = "fifo"
    BY <1>1 DEF LotTypes
  <2>2. /\ Busy(r)' => lotTx'[r].qty > 0
        /\ Fifo(r)' <=> lotTx'[r].kind = "fifo"
        /\ Writing(r)' => lotTx'[r].kind \in {"entry", "named"} /\ lotTx'[r].lot \in Lot
    BY <1>3, <1>8, <2>1 DEF Busy, Fifo, Writing
  <2>3. ASSUME NEW s \in LotRequest, s # r
        PROVE  /\ Busy(s)' => lotTx'[s].qty > 0
               /\ Fifo(s)' <=> lotTx'[s].kind = "fifo"
               /\ Writing(s)' => lotTx'[s].kind \in {"entry", "named"} /\ lotTx'[s].lot \in Lot
    BY <1>1, <1>8, <2>3 DEF LotTypes, Busy, Fifo, Writing
  <2>. QED
    BY <1>1, <1>8, <1>9, <2>2, <2>3 DEF LotTypes
<1>12. Holds(r, more)'
  <2>1. \A i \in DOMAIN got : got[i].lot # l /\ Due(got[i].lot) <= Due(l)
    BY <1>2, <1>3, <1>4 DEF Awaits
  <2>3. Holds(r, got)'
    BY <1>1, <1>2, <1>5, <1>6, <1>9 DEF Holds
  <2>4. CASE more = got
    BY <2>3, <2>4
  <2>5. CASE more # got
    <3> DEFINE n == Len(got) + 1
    <3>1. /\ n \in Int /\ DOMAIN more = 1..n /\ more[n].lot = l
          /\ more[n].left = lots[l].left /\ lots[l].left > 0
          /\ \A i \in DOMAIN more : i = n \/ (i \in DOMAIN got /\ more[i] = got[i] /\ i < n)
      BY <1>6, <2>5
    <3> HIDE DEF n
    <3>2. /\ \A i \in DOMAIN got : /\ lotLock'[got[i].lot] = r
                                  /\ got[i].left = lots'[got[i].lot].left /\ got[i].left > 0
          /\ \A i, j \in DOMAIN got : got[i].lot = got[j].lot => i = j
          /\ \A i, j \in DOMAIN got : i < j => Due(got[i].lot)' <= Due(got[j].lot)'
      BY <2>3 DEF Holds
    <3>3. \A i \in DOMAIN more : /\ lotLock'[more[i].lot] = r
                               /\ more[i].left = lots'[more[i].lot].left /\ more[i].left > 0
      BY <1>1, <1>9, <3>1, <3>2
    <3>4. \A i, j \in DOMAIN more : more[i].lot = more[j].lot => i = j
      BY <2>1, <3>1, <3>2
    <3>5. \A i, j \in DOMAIN more : i < j => Due(more[i].lot)' <= Due(more[j].lot)'
      <4>1. ASSUME NEW i \in DOMAIN more, NEW j \in DOMAIN more, i < j
            PROVE  Due(more[i].lot)' <= Due(more[j].lot)'
        <5>1. i \in DOMAIN got /\ more[i] = got[i]
          BY <1>6, <3>1, <4>1
        <5>2. CASE j = n
          BY <1>5, <1>6, <2>1, <3>1, <5>1, <5>2
        <5>3. CASE j # n
          BY <3>1, <3>2, <4>1, <5>1, <5>3
        <5>. QED
          BY <5>2, <5>3
      <4>. QED
        BY <4>1
    <3>. QED
      BY <3>3, <3>4, <3>5 DEF Holds
  <2>. QED
    BY <2>4, <2>5
<1>13. Awaits(more, rest)'
  <2>1. \A j \in DOMAIN rest : j + 1 \in DOMAIN todo /\ rest[j] = todo[j + 1] /\ 1 < j + 1
    BY <1>4
  <2>2. /\ 1 \in DOMAIN todo
        /\ \A i, j \in DOMAIN todo : todo[i] = todo[j] => i = j
        /\ \A i, j \in DOMAIN todo : i < j => Due(todo[i]) <= Due(todo[j])
        /\ \A i \in DOMAIN got, j \in DOMAIN todo :
             got[i].lot # todo[j] /\ Due(got[i].lot) <= Due(todo[j])
    BY <1>2, <1>4 DEF Awaits
  <2>3. \A i \in DOMAIN more : more[i].lot = l \/ (i \in DOMAIN got /\ more[i] = got[i])
    BY <1>6
  <2>4. \A i, j \in DOMAIN rest : rest[i] = rest[j] => i = j
    BY <1>4, <2>1, <2>2
  <2>5. \A i, j \in DOMAIN rest : i < j => Due(rest[i])' <= Due(rest[j])'
    <3>1. ASSUME NEW i \in DOMAIN rest, NEW j \in DOMAIN rest, i < j
          PROVE  Due(rest[i])' <= Due(rest[j])'
      <4>1. i + 1 < j + 1 /\ todo[i + 1] \in Lot /\ todo[j + 1] \in Lot
        BY <1>4, <2>1, <3>1
      <4>2. Due(todo[i + 1]) <= Due(todo[j + 1])
        BY <2>1, <2>2, <4>1
      <4>. QED
        BY <1>5, <2>1, <4>1, <4>2
    <3>. QED
      BY <3>1
  <2>6. ASSUME NEW i \in DOMAIN more, NEW j \in DOMAIN rest
        PROVE  more[i].lot # rest[j] /\ Due(more[i].lot)' <= Due(rest[j])'
    <3>1. rest[j] = todo[j + 1] /\ j + 1 \in DOMAIN todo /\ 1 < j + 1 /\ rest[j] \in Lot
      BY <1>4, <2>1
    <3>2. CASE more[i].lot = l
      <4>1. l # rest[j] /\ Due(l) <= Due(rest[j])
        BY <1>3, <2>2, <3>1
      <4>. QED
        BY <1>5, <3>1, <3>2, <4>1
    <3>3. CASE i \in DOMAIN got /\ more[i] = got[i]
      BY <1>5, <1>6, <2>2, <3>1, <3>3
    <3>. QED
      BY <2>3, <3>2, <3>3
  <2>. QED
    BY <2>4, <2>5, <2>6 DEF Awaits
<1>14. Covers(more, rest)'
  <2> SUFFICES ASSUME NEW m \in Lot, lots[m].left > 0
               PROVE  (\E i \in DOMAIN more : more[i].lot = m) \/ (\E i \in DOMAIN rest : rest[i] = m)
    BY <1>1 DEF Covers
  <2>1. CASE m = l
    <3>1. Len(got) + 1 \in DOMAIN more
      BY <1>6, <2>1
    <3>. QED
      BY <1>6, <2>1, <3>1
  <2>2. CASE \E i \in DOMAIN got : got[i].lot = m
    BY <1>6, <2>2
  <2>3. CASE m # l /\ \E i \in DOMAIN todo : todo[i] = m
    <3>1. PICK i \in DOMAIN todo : todo[i] = m
      BY <2>3
    <3>2. i # 1
      BY <1>3, <2>3, <3>1
    <3>3. i - 1 \in DOMAIN rest /\ rest[i - 1] = m
      <4>1. i \in Int /\ i > 1 /\ i <= Len(todo)
        BY <1>4, <3>2
      <4>2. i - 1 \in 1..(Len(todo) - 1) /\ (i - 1) + 1 = i
        BY <1>4, <4>1
      <4>. QED
        BY <1>4, <3>1, <4>2
    <3>. QED
      BY <3>3
  <2>. QED
    BY <1>2, <2>1, <2>2, <2>3 DEF Covers
<1>15. WriteFits(r)' /\ QueuedBy(r)' /\ Fifo(r)'
  BY <1>3, <1>8, <1>12, <1>13, <1>14 DEF WriteFits, QueuedBy, Writing, Fifo
<1>16. Lots!LotsMatchMovements'
  BY <1>1 DEF Lots!LotsMatchMovements
<1>. QED
  BY <1>8, <1>10, <1>11, <1>15, <1>16, OneMoves


\* What the commit of an exit by FIFO makes of a lot.
LEMMA FifoTakes ==
  ASSUME LotInv, NEW r \in LotRequest, Lots!CommitFifo(r), NEW got \in LotsGot, NEW q \in Int,
         lotTx[r].got = got, lotTx[r].qty = q, NEW l \in Lot
  PROVE  /\ q > 0 /\ Fifo(r) /\ Holds(r, got) /\ \A i \in DOMAIN got : got[i].left > 0
         /\ lots'[l] \in LotRow /\ lots'[l].expiry = lots[l].expiry
         /\ lots'[l].left \in 0..lots[l].left
         /\ taken'[l] = taken[l] + (lots[l].left - lots'[l].left)
         /\ (\A i \in DOMAIN got : got[i].lot # l) => lots'[l] = lots[l]
         /\ \A i \in DOMAIN got : got[i].lot = l =>
              lots'[l].left = lots[l].left - Lots!Take(got, q, i)
<1> DEFINE from == Lots!TakenFrom(got, q, l)
           left == Lots!LeftIn(got, q, l)
<1>1. /\ Fifo(r) /\ Busy(r) /\ lots[l] \in LotRow /\ lots[l].left >= 0 /\ taken[l] \in Int
      /\ q > 0
  BY DEF LotInv, LotTypes, Lots!CommitFifo, Fifo, Busy, Lots!LotsMatchMovements
<1>2. Holds(r, got)
  BY <1>1 DEF LotInv, QueuedBy
<1>3. /\ \A i \in DOMAIN got : got[i].left > 0 /\ got[i].left = lots[got[i].lot].left
      /\ \A i, j \in DOMAIN got : got[i].lot = got[j].lot => i = j
  BY <1>2 DEF Holds
<1>4. /\ lots'[l] = IF from > 0 THEN [lots[l] EXCEPT !.left = left] ELSE lots[l]
      /\ taken'[l] = taken[l] + from
  BY DEF Lots!CommitFifo
<1>5. /\ (\A i \in DOMAIN got : got[i].lot # l) => from = 0
      /\ \A i \in DOMAIN got : got[i].lot = l =>
           from = Lots!Take(got, q, i) /\ left = got[i].left - Lots!Take(got, q, i)
  BY <1>1, <1>3, OnePlace
<1> HIDE DEF from, left
<1>6. CASE \A i \in DOMAIN got : got[i].lot # l
  BY <1>1, <1>2, <1>3, <1>4, <1>5, <1>6 DEF LotRow
<1>7. ASSUME NEW i \in DOMAIN got, got[i].lot = l
      PROVE  /\ lots'[l] \in LotRow /\ lots'[l].expiry = lots[l].expiry
             /\ lots'[l].left \in 0..lots[l].left
             /\ taken'[l] = taken[l] + (lots[l].left - lots'[l].left)
             /\ lots'[l].left = lots[l].left - Lots!Take(got, q, i)
  <2> DEFINE take == Lots!Take(got, q, i)
  <2>1. i \in 1..Len(got)
    BY DEF LotsGot
  <2>2. take \in 0..got[i].left
    BY <1>1, <1>3, <2>1, TakeBounds
  <2>3. from = take /\ left = lots[l].left - take /\ take \in 0..lots[l].left
    BY <1>3, <1>5, <1>7, <2>2
  <2> HIDE DEF take
  <2>4. lots[l].left \in Int /\ take \in Int
    BY <1>1, <2>3 DEF LotRow
  <2>5. /\ lots'[l] \in LotRow /\ lots'[l].expiry = lots[l].expiry
        /\ lots'[l].left = lots[l].left - take
    <3>1. CASE take > 0
      BY <1>1, <1>4, <2>3, <2>4, <3>1 DEF LotRow
    <3>2. CASE ~(take > 0)
      <4>1. take = 0 /\ lots'[l] = lots[l]
        BY <1>4, <2>3, <2>4, <3>2
      <4>. QED
        BY <1>1, <2>4, <4>1
    <3>. QED
      BY <3>1, <3>2
  <2>6. \A a, b, t, u \in Int : t \in 0..a /\ b = a - t => b \in 0..a /\ u + t = u + (a - b)
    OBVIOUS
  <2>7. lots'[l].left \in Int /\ taken'[l] = taken[l] + take
    BY <1>4, <2>3, <2>4, <2>5
  <2>8. /\ lots'[l].left \in 0..lots[l].left
        /\ taken'[l] = taken[l] + (lots[l].left - lots'[l].left)
    BY <1>1, <2>3, <2>4, <2>5, <2>6, <2>7
  <2>. QED
    BY <2>5, <2>8 DEF take
<1>. QED
  BY <1>1, <1>2, <1>3, <1>6, <1>7

LEMMA FifoCommitStep ==
  ASSUME LotInv, NEW r \in LotRequest, Lots!CommitFifo(r)
  PROVE  LotInv'
<1>1. /\ LotTypes /\ Lots!LotsMatchMovements /\ Fifo(r) /\ Busy(r)
      /\ Lots!Goes(r, Lots!Idle) /\ lotLock' = Lots!Released(r) /\ entered' = entered
  BY DEF LotInv, Lots!CommitFifo, Fifo, Busy
<1>2. PICK got \in LotsGot, q \in Int : lotTx[r].got = got /\ lotTx[r].qty = q
  BY <1>1 DEF LotTypes, LotTx, LotsGot
<1>3. \A l \in Lot :
        /\ lots'[l] \in LotRow /\ lots'[l].expiry = lots[l].expiry
        /\ lots'[l].left \in 0..lots[l].left
        /\ taken'[l] = taken[l] + (lots[l].left - lots'[l].left)
        /\ (\A i \in DOMAIN got : got[i].lot # l) => lots'[l] = lots[l]
        /\ \A i \in DOMAIN got : lotLock[got[i].lot] = r
  BY <1>2, FifoTakes DEF Holds
<1>4. /\ lots' = [l \in Lot |-> lots'[l]] /\ taken' = [l \in Lot |-> taken'[l]]
      /\ lotAlert' \in [Lot -> {"none", "open", "resolved"}]
  BY <1>1 DEF Lots!CommitFifo, LotTypes
<1>5. lots' \in [Lot -> LotRow]
  BY <1>3, <1>4
<1>6. \A l \in Lot : /\ lots[l].left \in Int /\ taken[l] \in Int /\ lots'[l].left \in Int
                     /\ taken'[l] \in Int /\ lots'[l].left >= 0
                     /\ lots'[l].left + taken'[l] = lots[l].left + taken[l]
                     /\ lots'[l].left <= lots[l].left
  BY <1>1, <1>3 DEF LotTypes, LotRow
<1>7. taken' \in [Lot -> Int]
  BY <1>4, <1>6
<1>8. Lots!LotsMatchMovements'
  BY <1>1, <1>6 DEF Lots!LotsMatchMovements
<1>9. \A l \in Lot : /\ Due(l)' = Due(l) /\ lots'[l].left <= lots[l].left
                     /\ lotLock[l] # r => lots'[l].left = lots[l].left
  BY <1>3, <1>6 DEF Due
<1>. QED
  BY <1>1, <1>4, <1>5, <1>7, <1>8, <1>9, LotEnds DEF LotTypes

LEMMA LotInit == ASSUME Lots!Init PROVE LotInv
<1>1. /\ lots \in [Lot -> LotRow] /\ lotTx \in [LotRequest -> LotTx]
      /\ \A r \in LotRequest : lotTx[r] = Lots!Idle
      /\ \A l \in Lot : lots[l].left = 0 /\ taken[l] = 0 /\ entered[l] = 0
  <2>1. Lots!NoLot.left = 0
    BY DEF Lots!NoLot
  <2>. QED
    BY <2>1, LotIdle DEF Lots!Init
<1>2. \A r \in LotRequest : ~Busy(r) /\ ~Fifo(r) /\ ~Writing(r) /\ lotTx[r].kind # "fifo"
  BY <1>1, LotIdle DEF Busy, Fifo, Writing
<1>3. LotTypes
  BY <1>1, <1>2 DEF LotTypes, Lots!Init
<1>4. Apart /\ Lots!LotsMatchMovements /\ \A r \in LotRequest : WriteFits(r) /\ QueuedBy(r)
  BY <1>1, <1>2 DEF Apart, Lots!LotsMatchMovements, WriteFits, QueuedBy
<1>. QED
  BY <1>3, <1>4 DEF LotInv

\* The scans change the alerts only.
LEMMA LotScanStep ==
  ASSUME LotInv, Lots!ScanRead \/ Lots!ScanCommit \/ UNCHANGED lotVars
  PROVE  LotInv'
<1>1. UNCHANGED <<lots, entered, taken, lotLock, lotTx>>
  BY DEF Lots!ScanRead, Lots!ScanCommit, lotVars
<1>2. lotAlert' \in [Lot -> {"none", "open", "resolved"}]
  BY DEF Lots!ScanRead, Lots!ScanCommit, lotVars, LotInv, LotTypes
<1>3. LotTypes'
  BY <1>1, <1>2 DEF LotInv, LotTypes, Busy, Fifo, Writing
<1>4. Apart' /\ Lots!LotsMatchMovements'
  BY <1>1 DEF LotInv, Apart, Lots!LotsMatchMovements, Busy, Fifo
<1>5. \A r \in LotRequest : WriteFits(r)' /\ QueuedBy(r)'
  BY <1>1 DEF LotInv, WriteFits, QueuedBy, Holds, Awaits, Covers, Due, Fifo, Writing
<1>. QED
  BY <1>3, <1>4, <1>5 DEF LotInv

LEMMA LotStep == ASSUME LotInv, Lots!Next \/ UNCHANGED lotVars PROVE LotInv'
<1>1. CASE \E r \in LotRequest, l \in Lot, q \in 1..2 :
             \/ Lots!ConsumeSpecificLot(r, l, q)
             \/ \E date \in Expiry : Lots!AddToLot(r, l, q, date)
  BY <1>1, EntryStep
<1>2. CASE \E r \in LotRequest, q \in 1..2 : Lots!ConsumeLotsFifo(r, q)
  BY <1>2, FifoStartStep
<1>3. CASE \E r \in LotRequest : Lots!Flush(r)
  BY <1>3, FlushStep
<1>4. CASE \E r \in LotRequest : Lots!Commit(r)
  BY <1>4, WriteStep
<1>5. CASE \E r \in LotRequest : Lots!LockLot(r)
  BY <1>5, LockStep
<1>6. CASE \E r \in LotRequest : Lots!CommitFifo(r)
  BY <1>6, FifoCommitStep
<1>7. CASE \E r \in LotRequest : Lots!Rollback(r)
  BY <1>7, LotRollback
<1>8. CASE Lots!ScanRead \/ Lots!ScanCommit \/ UNCHANGED lotVars
  BY <1>8, LotScanStep
<1>. QED
  BY <1>1, <1>2, <1>3, <1>4, <1>5, <1>6, <1>7, <1>8 DEF Lots!Next

(* What a step of the lots may not do. *)

\* Among the requests only an exit by FIFO that commits is one and ends with more taken.
LEMMA OldestFirst ==
  ASSUME LotInv, Lots!Next \/ UNCHANGED lotVars
  PROVE  Lots!OldestStep
<1> SUFFICES ASSUME NEW r \in LotRequest, lotTx[r].kind = "fifo", taken' # taken,
                    lotTx'[r].pc = "idle", NEW l \in Lot, NEW m \in Lot, taken'[m] > taken[m],
                    lots[l].expiry < lots[m].expiry
             PROVE  lots'[l].left = 0
  BY DEF Lots!OldestStep
<1>1. LotTypes /\ Apart /\ Lots!LotsMatchMovements /\ Fifo(r) /\ Busy(r)
  BY DEF LotInv, LotTypes, Fifo, Busy
<1>2. PICK s \in LotRequest : Lots!Commit(s) \/ Lots!CommitFifo(s)
  BY DEF Lots!Next, lotVars, Lots!ConsumeSpecificLot, Lots!AddToLot, Lots!ConsumeLotsFifo,
         Lots!Flush, Lots!LockLot, Lots!Rollback, Lots!ScanRead, Lots!ScanCommit
<1>3. s = r
  BY <1>1, <1>2 DEF Lots!Commit, Lots!CommitFifo, Lots!Goes, LotTypes, Fifo
<1>4. Lots!CommitFifo(r)
  BY <1>1, <1>2, <1>3 DEF Lots!Commit, Fifo
<1>5. PICK got \in LotsGot, q \in Int : lotTx[r].got = got /\ lotTx[r].qty = q
  BY <1>1 DEF LotTypes, LotTx, LotsGot
<1>6. /\ q > 0 /\ Holds(r, got) /\ \A i \in DOMAIN got : got[i].left > 0
      /\ lots[l] \in LotRow /\ lots[m] \in LotRow /\ taken[m] \in Int /\ lots[l].left >= 0
  BY <1>1, <1>4, <1>5, FifoTakes DEF LotTypes, Lots!LotsMatchMovements
<1>7. /\ taken'[m] = taken[m] + (lots[m].left - lots'[m].left)
      /\ (\A i \in DOMAIN got : got[i].lot # m) => lots'[m] = lots[m]
      /\ \A i \in DOMAIN got : got[i].lot = m =>
           lots'[m].left = lots[m].left - Lots!Take(got, q, i)
  BY <1>4, <1>5, FifoTakes
<1>8. /\ lots'[l].left \in 0..lots[l].left
      /\ \A i \in DOMAIN got : got[i].lot = l =>
           lots'[l].left = lots[l].left - Lots!Take(got, q, i)
  BY <1>4, <1>5, FifoTakes
<1>9. PICK j \in DOMAIN got : got[j].lot = m
  BY <1>6, <1>7 DEF LotRow
<1>10. DOMAIN got = 1..Len(got) /\ Len(got) \in Nat
  BY GotType
<1>11. Lots!Take(got, q, j) \in Int /\ Lots!Take(got, q, j) > 0 /\ Lots!UnitsIn(got, j - 1) < q
  <2>1. Lots!Take(got, q, j) \in Int
    BY <1>6, <1>10, TakeBounds
  <2>2. Lots!Take(got, q, j) > 0
    BY <1>6, <1>7, <1>9, <2>1 DEF LotRow
  <2>. QED
    BY <1>6, <1>10, <2>1, <2>2, TakeBounds
<1>12. CASE lots[l].left = 0
  BY <1>8, <1>12
<1>13. CASE lots[l].left > 0
  <2>1. lotTx[r].todo = <<>> /\ Covers(got, lotTx[r].todo)
    BY <1>1, <1>4, <1>5 DEF Lots!CommitFifo, LotInv, QueuedBy
  <2>2. PICK i \in DOMAIN got : got[i].lot = l
    BY <1>13, <2>1 DEF Covers
  <2>3. i < j
    <3>1. ~(j < i)
      BY <1>6, <1>9, <2>2 DEF Holds, Due, LotRow
    <3>2. i # j
      BY <1>6, <1>9, <2>2 DEF LotRow
    <3>. QED
      BY <1>10, <3>1, <3>2
  <2>4. Lots!UnitsIn(got, i) < q
    <3>1. i \in 0..Len(got) /\ j - 1 \in 0..Len(got) /\ i <= j - 1
      BY <1>10, <2>3
    <3>2. /\ Lots!UnitsIn(got, i) <= Lots!UnitsIn(got, j - 1)
          /\ Lots!UnitsIn(got, i) \in Nat /\ Lots!UnitsIn(got, j - 1) \in Nat
      BY <1>6, <3>1, UnitsAdd
    <3>. QED
      BY <1>11, <3>2
  <2>5. Lots!Take(got, q, i) = got[i].left /\ got[i].left = lots[l].left
    BY <1>6, <1>10, <2>2, <2>4, TakeBounds DEF Holds
  <2>. QED
    BY <1>6, <1>8, <2>2, <2>5 DEF LotRow
<1>. QED
  BY <1>6, <1>12, <1>13 DEF LotRow

\* A lot that a step empties is left by an exit, which closes its alert.
LEMMA ExhaustedCloses ==
  ASSUME LotInv, Lots!Next \/ UNCHANGED lotVars
  PROVE  Lots!ExhaustionStep
<1> SUFFICES ASSUME NEW l \in Lot, lots[l].left > 0, lots'[l].left = 0
             PROVE  lotAlert'[l] # "open"
  BY DEF Lots!ExhaustionStep
<1>1. LotTypes /\ lots[l] \in LotRow /\ lots'[l] # lots[l]
  BY DEF LotInv, LotTypes, LotRow
<1>2. PICK r \in LotRequest : Lots!Commit(r) \/ Lots!CommitFifo(r)
  BY <1>1 DEF Lots!Next, lotVars, Lots!ConsumeSpecificLot, Lots!AddToLot, Lots!ConsumeLotsFifo,
         Lots!Flush, Lots!LockLot, Lots!Rollback, Lots!ScanRead, Lots!ScanCommit
<1>3. CASE Lots!Commit(r)
  <2>1. /\ Writing(r) /\ lotTx[r].kind \in {"entry", "named"} /\ lotTx[r].lot \in Lot
        /\ lotTx[r].qty \in Int /\ lotTx[r].qty > 0 /\ lotTx[r] \in LotTx /\ WriteFits(r)
    BY <1>1, <1>3 DEF LotInv, LotTypes, LotTx, Lots!Commit, Writing, Busy
  <2>2. lotTx[r].lot = l
    BY <1>1, <1>3, <2>1 DEF Lots!Commit, LotTypes
  <2>3. lots'[l].left = lotTx[r].new.left
    <3>1. lots'[l] = Lots!Written(r)
      BY <1>1, <1>3, <2>2 DEF Lots!Commit, LotTypes
    <3>. QED
      BY <2>1, <3>1 DEF Lots!Written, LotTx, LotRow
  <2>4. lotTx[r].kind = "named"
    BY <1>1, <2>1, <2>2, <2>3 DEF WriteFits, LotRow
  <2>. QED
    BY <1>1, <1>3, <2>2, <2>3, <2>4 DEF Lots!Commit, Lots!Exhausted, LotTypes
<1>4. CASE Lots!CommitFifo(r)
  <2>1. PICK from, left :
          /\ lots'[l] = IF from > 0 THEN [lots[l] EXCEPT !.left = left] ELSE lots[l]
          /\ lotAlert'[l] = IF from > 0 /\ Lots!Exhausted(left) /\ lotAlert[l] = "open"
                            THEN "resolved" ELSE lotAlert[l]
    BY <1>4 DEF Lots!CommitFifo
  <2>2. from > 0 /\ left = 0
    BY <1>1, <2>1 DEF LotRow
  <2>. QED
    BY <2>1, <2>2 DEF Lots!Exhausted
<1>. QED
  BY <1>2, <1>3, <1>4


-----------------------------------------------------------------------------
(* The packaging. *)

PackRow == [out : Nat, empty : Nat]
Wish    == [action : {"deliver_full", "return_empty"}, qty : 1..2]
PackTx  == [pc : {"idle", "read", "flushed"}, op : Op \cup {None}, seen : PackRow \cup {None}]

HeldIn(row) == IF row = None THEN Packaging!Empty ELSE row

Packing(r) == packTx[r].pc # "idle"

PackTypes ==
  /\ packaging \in PackRow \cup {None} /\ stock \in Int
  /\ audited \subseteq Op /\ IsFiniteSet(audited)
  /\ asked \in [Op -> Wish \cup {None}] /\ \A o \in audited : asked[o] \in Wish
  /\ packTx \in [Request -> PackTx]

\* The request under way is the only one, so that what it read is still there.
ReadIsCurrent ==
  \A r \in Request : Packing(r) =>
    /\ \A s \in Request : s # r => ~Packing(s)
    /\ packTx[r].op \in Op \ audited /\ asked[packTx[r].op] \in Wish
    /\ packTx[r].pc = "read" => packTx[r].seen = packaging
    /\ packTx[r].pc = "flushed" => packTx[r].seen = HeldIn(packaging)

PackInv == PackTypes /\ ReadIsCurrent /\ Packaging!PackagingIsCounted

LEMMA PackConstants == InStock \in Nat /\ NoReq \notin Request /\ None \notin PackRow
BY StockAssumption DEF Packaging!ConstantsAssumption, PackRow

\* The operations of a set that ask for an action, and their units.
Asking(f, S, action) == {o \in S : f[o].action = action}
UnitsOf(f, S) == Sum([o \in S |-> f[o].qty], S)

LEMMA UnitsAre ==
  \A action :
    /\ Packaging!Units(action) = UnitsOf(asked, Asking(asked, audited, action))
    /\ Packaging!Units(action)' = UnitsOf(asked', Asking(asked', audited', action))
BY SameSums DEF Packaging!Units, Packaging!Given, Packaging!SumFunction, UnitsOf, Asking

LEMMA NoUnits == ASSUME NEW f PROVE UnitsOf(f, {}) = 0
BY NothingSums DEF UnitsOf

\* A new operation adds its units; what is asked by the others does not change.
LEMMA UnitsOfMore ==
  ASSUME NEW f, NEW S, IsFiniteSet(S), \A o \in S : f[o] \in Wish
  PROVE  /\ UnitsOf(f, S) \in Int
         /\ \A g : (\A o \in S : g[o] = f[o]) => UnitsOf(g, S) = UnitsOf(f, S)
         /\ \A o : o \notin S /\ f[o] \in Wish => UnitsOf(f, S \cup {o}) = f[o].qty + UnitsOf(f, S)
<1> DEFINE Qty(g, T) == [o \in T |-> g[o].qty]
<1>1. \A o \in S : Qty(f, S)[o] \in Int
  BY DEF Wish
<1>2. \A g, T : UnitsOf(g, T) = Sum(Qty(g, T), T)
  BY DEF UnitsOf
<1>3. Sum(Qty(f, S), S) \in Int
  <2> HIDE DEF Qty
  <2>. QED
    BY <1>1, SumAdds
<1>4. ASSUME NEW g, \A o \in S : g[o] = f[o]
      PROVE  Sum(Qty(g, S), S) = Sum(Qty(f, S), S)
  BY <1>4
<1>5. ASSUME NEW o, o \notin S, f[o] \in Wish
      PROVE  Sum(Qty(f, S \cup {o}), S \cup {o}) = f[o].qty + Sum(Qty(f, S), S)
  <2> DEFINE T == S \cup {o}
             w == Qty(f, T)
             v == Qty(f, S)
  <2>1. IsFiniteSet(T)
    BY FS_AddElement
  <2>2. \A x \in T : w[x] \in Int
    BY <1>5 DEF Wish
  <2>3. w[o] = f[o].qty /\ \A x \in S : v[x] \in Int /\ v[x] = w[x]
    BY <1>1
  <2>4. T \ {o} = S /\ o \in T
    BY <1>5
  <2> HIDE DEF w, v, T
  <2>5. Sum(w, T) = w[o] + Sum(w, T \ {o})
    BY <2>1, <2>2, <2>4, SumAdds
  <2>6. Sum(v, S) = Sum(w, S)
    BY <2>3, SumsAgree
  <2>. QED
    BY <2>3, <2>4, <2>5, <2>6 DEF w, v, T
<1>. QED
  <2> HIDE DEF Qty
  <2>. QED
    BY <1>2, <1>3, <1>4, <1>5

LEMMA PackInit == ASSUME Packaging!Init PROVE PackInv
<1>1. packaging = None /\ stock = InStock /\ audited = {}
      /\ asked = [o \in Op |-> None] /\ \A r \in Request : packTx[r] = Packaging!Idle
  BY DEF Packaging!Init
<1>2. Packaging!Idle \in PackTx /\ Packaging!Idle.pc = "idle"
  BY DEF Packaging!Idle, PackTx
<1>3. \A r \in Request : ~Packing(r)
  BY <1>1, <1>2 DEF Packing
<1>4. packTx \in [Request -> PackTx]
  BY <1>1, <1>2 DEF Packaging!Init
<1>5. PackTypes /\ ReadIsCurrent
  BY <1>1, <1>3, <1>4, PackConstants, FS_EmptySet DEF PackTypes, ReadIsCurrent
<1>6. \A action : Packaging!Units(action) = 0
  <2>1. \A action : Asking(asked, audited, action) = {}
    BY <1>1 DEF Asking
  <2>. QED
    BY <2>1, UnitsAre, NoUnits
<1>7. Packaging!PackagingIsCounted
  <2>1. HeldIn(packaging) = [out |-> 0, empty |-> 0]
    BY <1>1 DEF HeldIn, Packaging!Empty
  <2>. QED
    BY <1>1, <1>6, <2>1, PackConstants DEF Packaging!PackagingIsCounted, HeldIn, Packaging!Empty
<1>. QED
  BY <1>5, <1>7 DEF PackInv

\* The units of an action in the journal, before and after a step.
LEMMA UnitsKept ==
  ASSUME PackTypes, audited' = audited, \A o \in audited : asked'[o] = asked[o]
  PROVE  \A action : Packaging!Units(action)' = Packaging!Units(action)
<1> TAKE action
<1> DEFINE S == Asking(asked, audited, action)
<1>1. S \subseteq audited /\ IsFiniteSet(S) /\ \A o \in S : asked[o] \in Wish /\ asked'[o] = asked[o]
  BY FS_Subset DEF PackTypes, Asking
<1>2. Packaging!Units(action) = UnitsOf(asked, S)
  BY UnitsAre
<1>3. Packaging!Units(action)' = UnitsOf(asked', Asking(asked', audited', action))
  BY UnitsAre
<1>4. Asking(asked', audited', action) = S
  BY DEF Asking
<1> HIDE DEF S
<1>5. UnitsOf(asked', S) = UnitsOf(asked, S)
  BY <1>1, UnitsOfMore
<1>. QED
  BY <1>2, <1>3, <1>4, <1>5

LEMMA UnitsNow ==
  ASSUME PackInv
  PROVE  /\ Packaging!Units("deliver_full") \in Int /\ Packaging!Units("return_empty") \in Int
         /\ HeldIn(packaging) \in PackRow
         /\ stock = InStock - Packaging!Units("deliver_full")
         /\ HeldIn(packaging).empty = Packaging!Units("return_empty")
         /\ HeldIn(packaging).out >= Packaging!Units("deliver_full") - Packaging!Units("return_empty")
         /\ HeldIn(packaging).out <= Packaging!Units("deliver_full")
<1>1. ASSUME NEW action PROVE Packaging!Units(action) \in Int
  <2> DEFINE S == Asking(asked, audited, action)
  <2>1. IsFiniteSet(S) /\ \A o \in S : asked[o] \in Wish
    BY FS_Subset DEF PackInv, PackTypes, Asking
  <2> HIDE DEF S
  <2>2. UnitsOf(asked, S) \in Int
    BY <2>1, UnitsOfMore
  <2>. QED
    BY <2>2, UnitsAre DEF S
<1>2. HeldIn(packaging) \in PackRow
  BY DEF PackInv, PackTypes, HeldIn, PackRow, Packaging!Empty
<1>. QED
  BY <1>1, <1>2 DEF PackInv, Packaging!PackagingIsCounted, HeldIn, PackRow

LEMMA AskStep ==
  ASSUME PackInv, NEW r \in Request, NEW o \in Op,
         NEW a \in Packaging!Actions, NEW q \in 1..2, Packaging!Ask(r, o, a, q)
  PROVE  PackInv'
<1> DEFINE wish == [action |-> a, qty |-> q]
           to == [pc |-> "read", op |-> o, seen |-> packaging]
<1>1. /\ PackTypes /\ \A s \in Request : ~Packing(s)
      /\ o \notin audited /\ asked' = [asked EXCEPT ![o] = wish]
      /\ packTx' = [packTx EXCEPT ![r] = to] /\ UNCHANGED <<packaging, stock, audited, packLock>>
  BY DEF PackInv, Packaging!Ask, Packaging!Goes, Packaging!Replayed, Packing
<1>2. wish \in Wish /\ to \in PackTx /\ to.pc = "read" /\ to.op = o /\ to.seen = packaging
  BY <1>1 DEF Wish, PackTx, PackTypes, Packaging!Actions
<1> HIDE DEF wish, to
<1>3. PackTypes' /\ asked'[o] = wish /\ \A p \in audited : asked'[p] = asked[p]
  BY <1>1, <1>2 DEF PackTypes
<1>4. packTx'[r] = to /\ \A s \in Request : s # r => packTx'[s] = packTx[s]
  BY <1>1 DEF PackTypes
<1>5. ReadIsCurrent'
  BY <1>1, <1>2, <1>3, <1>4 DEF ReadIsCurrent, Packing
<1>6. Packaging!PackagingIsCounted'
  <2>1. \A action : Packaging!Units(action)' = Packaging!Units(action)
    BY <1>1, <1>3, UnitsKept
  <2>. QED
    BY <1>1, <2>1 DEF PackInv, Packaging!PackagingIsCounted
<1>. QED
  BY <1>3, <1>5, <1>6 DEF PackInv

LEMMA FlushPackStep ==
  ASSUME PackInv, NEW r \in Request, Packaging!Flush(r)
  PROVE  PackInv'
<1> DEFINE to == [packTx[r] EXCEPT !.pc = "flushed", !.seen = IF @ = None THEN Packaging!Empty ELSE @]
<1>1. /\ PackTypes /\ ReadIsCurrent /\ Packing(r) /\ packTx[r].pc = "read" /\ packTx[r] \in PackTx
      /\ packTx' = [packTx EXCEPT ![r] = to] /\ UNCHANGED <<packaging, stock, audited, asked>>
  BY DEF PackInv, PackTypes, Packaging!Flush, Packaging!Goes, Packing
<1>2. packTx[r].seen = packaging /\ \A s \in Request : s # r => ~Packing(s)
  BY <1>1 DEF ReadIsCurrent
<1>3. Packaging!Empty \in PackRow
  BY DEF PackRow, Packaging!Empty
<1>4. to \in PackTx /\ to.pc = "flushed" /\ to.op = packTx[r].op /\ to.seen = HeldIn(packaging)
  BY <1>1, <1>2, <1>3 DEF PackTx, HeldIn
<1> HIDE DEF to
<1>5. PackTypes' /\ packTx'[r] = to /\ \A s \in Request : s # r => packTx'[s] = packTx[s]
  BY <1>1, <1>4 DEF PackTypes
<1>6. ReadIsCurrent'
  BY <1>1, <1>2, <1>4, <1>5 DEF ReadIsCurrent, Packing
<1>7. Packaging!PackagingIsCounted'
  <2>1. \A action : Packaging!Units(action)' = Packaging!Units(action)
    BY <1>1, UnitsKept
  <2>. QED
    BY <1>1, <2>1 DEF PackInv, Packaging!PackagingIsCounted
<1>. QED
  BY <1>5, <1>6, <1>7 DEF PackInv

\* The request r ends, and nothing else is under way.
LEMMA PackEnds ==
  ASSUME PackInv, NEW r \in Request, Packing(r), Packaging!Goes(r, Packaging!Idle)
  PROVE  packTx' \in [Request -> PackTx] /\ \A s \in Request : ~Packing(s)'
<1>1. Packaging!Idle \in PackTx /\ Packaging!Idle.pc = "idle"
  BY DEF Packaging!Idle, PackTx
<1>2. packTx' \in [Request -> PackTx] /\ packTx'[r] = Packaging!Idle
      /\ \A s \in Request : s # r => packTx'[s] = packTx[s]
  BY <1>1 DEF PackInv, PackTypes, Packaging!Goes
<1>. QED
  BY <1>1, <1>2 DEF PackInv, ReadIsCurrent, Packing

LEMMA CommitPackStep ==
  ASSUME PackInv, NEW r \in Request, Packaging!Commit(r)
  PROVE  PackInv'
<1>1. PICK o \in Op \ audited, a \in {"deliver_full", "return_empty"}, q \in 1..2, row \in PackRow :
        /\ packTx[r].op = o /\ asked[o] \in Wish /\ asked[o].action = a /\ asked[o].qty = q
        /\ Packing(r) /\ packTx[r].seen = HeldIn(packaging) /\ HeldIn(packaging) = row
        /\ IsFiniteSet(audited) /\ audited \subseteq Op /\ asked \in [Op -> Wish \cup {None}]
        /\ \A p \in audited : asked[p] \in Wish
  <2>1. Packing(r) /\ packTx[r].pc = "flushed"
    BY DEF Packaging!Commit, Packing
  <2>2. HeldIn(packaging) \in PackRow
    BY UnitsNow
  <2>. QED
    BY <2>1, <2>2 DEF PackInv, PackTypes, ReadIsCurrent, Wish
<1>2. /\ packTx' \in [Request -> PackTx] /\ \A s \in Request : ~Packing(s)'
  BY <1>1, PackEnds DEF Packaging!Commit
<1>3. /\ asked' = asked /\ audited' = audited \cup {o}
      /\ IF a = "deliver_full"
         THEN /\ packaging' = [row EXCEPT !.out = row.out + q]
              /\ stock' = stock - q
         ELSE /\ packaging' = [out   |-> IF row.out = 0 THEN row.out ELSE Packaging!Less(row.out, q),
                               empty |-> row.empty + q]
              /\ stock' = stock
  BY <1>1 DEF Packaging!Commit, HeldIn
<1>4. /\ Packaging!Units(a)' = Packaging!Units(a) + q
      /\ \A action : action # a => Packaging!Units(action)' = Packaging!Units(action)
  <2>1. \A action :
          /\ Packaging!Units(action)' = UnitsOf(asked, Asking(asked, audited \cup {o}, action))
          /\ Packaging!Units(action) = UnitsOf(asked, Asking(asked, audited, action))
    BY <1>3, UnitsAre
  <2> DEFINE S == Asking(asked, audited, a)
  <2>2. IsFiniteSet(S) /\ o \notin S /\ \A p \in S : asked[p] \in Wish
    BY <1>1, FS_Subset DEF Asking
  <2>3. Asking(asked, audited \cup {o}, a) = S \cup {o}
    BY <1>1 DEF Asking
  <2>4. \A action : action # a =>
          Asking(asked, audited \cup {o}, action) = Asking(asked, audited, action)
    BY <1>1 DEF Asking
  <2> HIDE DEF S
  <2>5. UnitsOf(asked, S \cup {o}) = q + UnitsOf(asked, S) /\ UnitsOf(asked, S) \in Int
    BY <1>1, <2>2, UnitsOfMore
  <2>6. Packaging!Units(a)' = Packaging!Units(a) + q
    <3>1. Packaging!Units(a)' = UnitsOf(asked, S \cup {o})
      BY <2>1, <2>3
    <3>2. Packaging!Units(a) = UnitsOf(asked, S)
      BY <2>1 DEF S
    <3>. QED
      BY <2>5, <3>1, <3>2
  <2>. QED
    BY <2>1, <2>4, <2>6
<1> DEFINE given == Packaging!Units("deliver_full")
           back  == Packaging!Units("return_empty")
<1>5. /\ given \in Int /\ back \in Int /\ stock = InStock - given /\ row.empty = back
      /\ row.out >= given - back /\ row.out <= given
  BY <1>1, UnitsNow
<1>6. /\ packaging' \in PackRow /\ stock' \in Int /\ stock' = InStock - given'
      /\ given' \in Int /\ back' \in Int /\ packaging'.empty = back'
      /\ packaging'.out >= given' - back' /\ packaging'.out <= given'
  <2>1. row.out \in Nat /\ row.empty \in Nat /\ InStock \in Nat
    BY PackConstants DEF PackRow
  <2>2. CASE a = "deliver_full"
    <3>1. /\ packaging' = [row EXCEPT !.out = row.out + q] /\ stock' = stock - q
          /\ given' = given + q /\ back' = back
      BY <1>3, <1>4, <2>2
    <3> HIDE DEF given, back
    <3>2. packaging' \in PackRow /\ packaging'.out = row.out + q /\ packaging'.empty = row.empty
      BY <2>1, <3>1 DEF PackRow
    <3>. QED
      BY <1>5, <2>1, <3>1, <3>2
  <2>3. CASE a = "return_empty"
    <3> DEFINE out == IF row.out = 0 THEN row.out ELSE Packaging!Less(row.out, q)
    <3>1. /\ packaging' = [out |-> out, empty |-> row.empty + q] /\ stock' = stock
          /\ given' = given /\ back' = back + q
      BY <1>3, <1>4, <2>3
    <3>2. out \in Nat /\ out <= row.out /\ out >= row.out - q
      BY <2>1 DEF Packaging!Less
    <3> HIDE DEF given, back, out
    <3>3. packaging' \in PackRow /\ packaging'.out = out /\ packaging'.empty = row.empty + q
      BY <2>1, <3>1, <3>2 DEF PackRow
    <3>. QED
      BY <1>5, <2>1, <3>1, <3>2, <3>3
  <2>. QED
    BY <2>2, <2>3
<1>7. PackTypes'
  <2>1. IsFiniteSet(audited')
    BY <1>1, <1>3, FS_AddElement
  <2>2. \A p \in audited' : asked'[p] \in Wish
    BY <1>1, <1>3
  <2>3. audited' \subseteq Op /\ asked' \in [Op -> Wish \cup {None}]
    BY <1>1, <1>3
  <2>. QED
    BY <1>2, <1>6, <2>1, <2>2, <2>3 DEF PackTypes
<1>8. ReadIsCurrent'
  BY <1>2 DEF ReadIsCurrent
<1>9. Packaging!PackagingIsCounted'
  <2>1. packaging' # None
    BY <1>6, PackConstants
  <2>2. packaging'.out \in Nat
    BY <1>6 DEF PackRow
  <2> HIDE DEF given, back
  <2>3. packaging'.out \in (given' - back')..given'
    BY <1>6, <2>2
  <2>. QED
    BY <1>6, <2>1, <2>3 DEF Packaging!PackagingIsCounted, given, back
<1>. QED
  BY <1>7, <1>8, <1>9 DEF PackInv

LEMMA RollbackPackStep ==
  ASSUME PackInv, NEW r \in Request, Packaging!Rollback(r)
  PROVE  PackInv'
<1>1. Packing(r) /\ Packaging!Goes(r, Packaging!Idle) /\ UNCHANGED <<packaging, stock, asked, audited>>
  BY DEF Packaging!Rollback, Packing
<1>2. packTx' \in [Request -> PackTx] /\ \A s \in Request : ~Packing(s)'
  BY <1>1, PackEnds
<1>3. PackTypes' /\ ReadIsCurrent'
  BY <1>1, <1>2 DEF PackInv, PackTypes, ReadIsCurrent
<1>4. \A action : Packaging!Units(action)' = Packaging!Units(action)
  BY <1>1, UnitsKept DEF PackInv
<1>. QED
  BY <1>1, <1>3, <1>4 DEF PackInv, Packaging!PackagingIsCounted

LEMMA PackStep == ASSUME PackInv, Packaging!Next \/ UNCHANGED packagingVars PROVE PackInv'
<1>1. CASE \E r \in Request, o \in Op, a \in Packaging!Actions, q \in 1..2 : Packaging!Ask(r, o, a, q)
  BY <1>1, AskStep
<1>2. CASE \E r \in Request : Packaging!Flush(r)
  BY <1>2, FlushPackStep
<1>3. CASE \E r \in Request : Packaging!Commit(r)
  BY <1>3, CommitPackStep
<1>4. CASE \E r \in Request : Packaging!Rollback(r)
  BY <1>4, RollbackPackStep
<1>5. CASE UNCHANGED packagingVars
  <2>1. UNCHANGED <<packaging, stock, asked, audited, packLock, packTx>>
    BY <1>5 DEF packagingVars
  <2>2. PackTypes' /\ ReadIsCurrent'
    BY <2>1 DEF PackInv, PackTypes, ReadIsCurrent, Packing, HeldIn
  <2>3. \A action : Packaging!Units(action)' = Packaging!Units(action)
    BY <2>1, UnitsKept DEF PackInv
  <2>. QED
    BY <2>1, <2>2, <2>3 DEF PackInv, Packaging!PackagingIsCounted
<1>. QED
  BY <1>1, <1>2, <1>3, <1>4, <1>5 DEF Packaging!Next


-----------------------------------------------------------------------------
(* Exits by FIFO that wait for each other. *)

\* What a request has locked comes, by date, before what it has still to lock.
LockedByDate(r) ==
  \A l \in Lot : lotLock[l] = r =>
    Busy(r) /\ (Fifo(r) => \A j \in DOMAIN lotTx[r].todo : Due(l) <= Due(lotTx[r].todo[j]))

LocksByDate == \A r \in LotRequest : LockedByDate(r)

\* The lot that an exit wants now, and who makes it wait.
Wanted(r) == Head(lotTx[r].todo)
WaitsFor(r, s) == Fifo(r) /\ lotTx[r].todo # <<>> /\ lotLock[Wanted(r)] = s

\* Along a chain of waits the dates never go back; so those that wait for each other, two or
\* more of them, want lots of one date.
WaitsFollowDates ==
  \A r, s \in LotRequest : WaitsFor(r, s) =>
    Fifo(s) /\ (lotTx[s].todo # <<>> => Due(Wanted(r)) <= Due(Wanted(s)))

LEMMA LocksInit == ASSUME Lots!Init PROVE LocksByDate
BY LotConstants DEF Lots!Init, LocksByDate, LockedByDate

LEMMA LocksFrame ==
  ASSUME LotTypes, NEW s \in LotRequest, LockedByDate(s), lotTx'[s] = lotTx[s],
         \A l \in Lot : lotLock'[l] = s => lotLock[l] = s,
         Fifo(s) => \A l \in Lot : Due(l)' = Due(l)
  PROVE  LockedByDate(s)'
<1>1. lotTx[s].todo \in Seq(Lot)
  BY DEF LotTypes, LotTx
<1>2. \A j \in DOMAIN lotTx[s].todo : lotTx[s].todo[j] \in Lot
  BY <1>1
<1>. QED
  BY <1>2 DEF LockedByDate, Busy, Fifo

\* One request takes its next step, the others stay.
LEMMA OneLocks ==
  ASSUME LotInv, LocksByDate, NEW r \in LotRequest, LockedByDate(r)',
         \A s \in LotRequest : s # r => lotTx'[s] = lotTx[s],
         \A s \in LotRequest, l \in Lot : s # r /\ lotLock'[l] = s => lotLock[l] = s,
         \A s \in LotRequest : s # r /\ Fifo(s) => \A l \in Lot : Due(l)' = Due(l)
  PROVE  LocksByDate'
BY LocksFrame DEF LotInv, LocksByDate

\* A request that is over has no lock.
LEMMA LocksEnd ==
  ASSUME LotInv, LocksByDate, NEW r \in LotRequest, Lots!Goes(r, Lots!Idle),
         lotLock' = Lots!Released(r),
         \A s \in LotRequest : s # r /\ Fifo(s) => \A l \in Lot : Due(l)' = Due(l)
  PROVE  LocksByDate'
<1>1. \A l \in Lot : lotLock'[l] # r /\ \A s \in LotRequest : lotLock'[l] = s => lotLock[l] = s
  BY LotConstants DEF Lots!Released
<1>2. LockedByDate(r)'
  BY <1>1 DEF LockedByDate
<1>3. \A s \in LotRequest : s # r => lotTx'[s] = lotTx[s]
  BY LotIdle, Went DEF LotInv
<1>. QED
  BY <1>1, <1>2, <1>3, OneLocks

LEMMA LocksStart ==
  ASSUME LotInv, LocksByDate, NEW r \in LotRequest, ~Busy(r), UNCHANGED <<lots, lotLock>>,
         \A s \in LotRequest : s # r => lotTx'[s] = lotTx[s]
  PROVE  LocksByDate'
<1>1. LockedByDate(r)'
  BY DEF LocksByDate, LockedByDate
<1>. QED
  BY <1>1, OneLocks DEF Due

LEMMA LocksTaken ==
  ASSUME LotInv, LocksByDate, NEW r \in LotRequest, Lots!LockLot(r)
  PROVE  LocksByDate'
<1>1. /\ LotTypes /\ Fifo(r) /\ Busy(r) /\ QueuedBy(r) /\ UNCHANGED lots
      /\ lotTx[r].todo # <<>> /\ lotTx[r] \in LotTx
  BY DEF LotInv, LotTypes, Lots!LockLot, Fifo, Busy
<1>2. PICK todo \in Seq(Lot) : lotTx[r].todo = todo /\ todo # <<>> /\ Awaits(lotTx[r].got, todo)
  BY <1>1 DEF LotTx, QueuedBy
<1>3. PICK l \in Lot, rest \in Seq(Lot) :
        /\ l = todo[1] /\ rest = Tail(todo)
        /\ lotLock[l] = NoReq /\ lotLock' = [lotLock EXCEPT ![l] = r]
        /\ lotTx'[r].pc = "locking" /\ lotTx'[r].todo = rest
        /\ \A s \in LotRequest : s # r => lotTx'[s] = lotTx[s]
  <2>1. Head(todo) \in Lot /\ Head(todo) = todo[1] /\ Tail(todo) \in Seq(Lot)
    BY <1>2, HeadTailProperties
  <2>2. PICK more : Lots!Goes(r, [lotTx[r] EXCEPT !.todo = Tail(@), !.got = more])
    BY DEF Lots!LockLot
  <2>3. /\ lotTx'[r].pc = "locking" /\ lotTx'[r].todo = Tail(todo)
        /\ \A s \in LotRequest : s # r => lotTx'[s] = lotTx[s]
    BY <1>1, <1>2, <2>2 DEF Lots!Goes, LotTypes, LotTx, Fifo
  <2>4. lotLock[Head(todo)] = NoReq /\ lotLock' = [lotLock EXCEPT ![Head(todo)] = r]
    BY <1>2 DEF Lots!LockLot, Lots!FreeRow
  <2>. QED
    BY <2>1, <2>3, <2>4
<1>4. \A j \in DOMAIN rest : j \in Nat /\ j + 1 \in DOMAIN todo /\ rest[j] = todo[j + 1] /\ j + 1 > 1
  BY <1>2, <1>3, HeadTailProperties
<1>5. 1 \in DOMAIN todo
  BY <1>2
<1>6. ASSUME NEW m \in Lot, lotLock'[m] = r, NEW j \in DOMAIN rest
      PROVE  Due(m) <= Due(rest[j])
  <2>1. CASE m = l
    BY <1>2, <1>3, <1>4, <1>5, <2>1 DEF Awaits
  <2>2. CASE m # l
    <3>1. lotLock[m] = r
      BY <1>1, <1>3, <1>6, <2>2 DEF LotTypes
    <3>. QED
      BY <1>1, <1>2, <1>4, <3>1 DEF LocksByDate, LockedByDate
  <2>. QED
    BY <2>1, <2>2
<1>7. LockedByDate(r)'
  <2>1. Busy(r)' /\ \A m \in Lot : Due(m)' = Due(m)
    BY <1>1, <1>3 DEF Busy, Due
  <2>2. \A j \in DOMAIN rest : rest[j] \in Lot
    BY <1>3
  <2>. QED
    BY <1>3, <1>6, <2>1, <2>2 DEF LockedByDate
<1>8. \A s \in LotRequest, m \in Lot : s # r /\ lotLock'[m] = s => lotLock[m] = s
  BY <1>1, <1>3 DEF LotTypes
<1>. QED
  BY <1>1, <1>3, <1>7, <1>8, OneLocks DEF Due

LEMMA LocksStep ==
  ASSUME LotInv, LocksByDate, Lots!Next \/ UNCHANGED lotVars
  PROVE  LocksByDate'
<1>t. LotTypes /\ Apart
  BY DEF LotInv
<1>1. ASSUME NEW r \in LotRequest, NEW l \in Lot, NEW q \in 1..2,
             \/ Lots!ConsumeSpecificLot(r, l, q)
             \/ \E date \in Expiry : Lots!AddToLot(r, l, q, date)
      PROVE  LocksByDate'
  <2>1. /\ ~Busy(r) /\ UNCHANGED <<lots, lotLock>>
        /\ \E to : Lots!Goes(r, to)
    BY <1>1 DEF Lots!ConsumeSpecificLot, Lots!AddToLot, Lots!MayStart, Busy
  <2>2. \A s \in LotRequest : s # r => lotTx'[s] = lotTx[s]
    BY <1>t, <2>1 DEF Lots!Goes, LotTypes
  <2>. QED
    BY <2>1, <2>2, LocksStart
<1>2. ASSUME NEW r \in LotRequest, NEW q \in 1..2, Lots!ConsumeLotsFifo(r, q) PROVE LocksByDate'
  <2>1. ~Busy(r) /\ UNCHANGED <<lots, lotLock>> /\ \E to : Lots!Goes(r, to)
    BY <1>2 DEF Lots!ConsumeLotsFifo, Lots!MayStart, Busy
  <2>2. \A s \in LotRequest : s # r => lotTx'[s] = lotTx[s]
    BY <1>t, <2>1 DEF Lots!Goes, LotTypes
  <2>. QED
    BY <2>1, <2>2, LocksStart
<1>3. ASSUME NEW r \in LotRequest, Lots!Flush(r) PROVE LocksByDate'
  <2>1. /\ UNCHANGED lots /\ lotLock' = [lotLock EXCEPT ![lotTx[r].lot] = r]
        /\ Lots!Goes(r, [lotTx[r] EXCEPT !.pc = "flushed"]) /\ lotTx[r] \in LotTx
    BY <1>3, <1>t DEF Lots!Flush, LotTypes
  <2>2. /\ lotTx'[r].pc = "flushed" /\ \A s \in LotRequest : s # r => lotTx'[s] = lotTx[s]
    BY <1>t, <2>1 DEF Lots!Goes, LotTypes, LotTx
  <2>3. LockedByDate(r)'
    BY <2>2 DEF LockedByDate, Busy, Fifo
  <2>4. \A s \in LotRequest, m \in Lot : s # r /\ lotLock'[m] = s => lotLock[m] = s
    BY <1>t, <2>1 DEF LotTypes
  <2>. QED
    BY <2>1, <2>2, <2>3, <2>4, OneLocks DEF Due
<1>4. ASSUME NEW r \in LotRequest, Lots!Commit(r) PROVE LocksByDate'
  <2>1. Lots!Goes(r, Lots!Idle) /\ lotLock' = Lots!Released(r) /\ Busy(r) /\ ~Fifo(r)
    BY <1>4 DEF Lots!Commit, Busy, Fifo
  <2>2. \A s \in LotRequest : s # r => ~Fifo(s)
    BY <1>t, <2>1 DEF Apart, Busy, Fifo
  <2>. QED
    BY <2>1, <2>2, LocksEnd
<1>5. ASSUME NEW r \in LotRequest, Lots!LockLot(r) PROVE LocksByDate'
  BY <1>5, LocksTaken
<1>6. ASSUME NEW r \in LotRequest, Lots!CommitFifo(r) PROVE LocksByDate'
  <2>1. Lots!Goes(r, Lots!Idle) /\ lotLock' = Lots!Released(r)
    BY <1>6 DEF Lots!CommitFifo
  <2>2. PICK got \in LotsGot, q \in Int : lotTx[r].got = got /\ lotTx[r].qty = q
    BY <1>6, <1>t DEF LotTypes, LotTx, LotsGot, Lots!CommitFifo
  <2>3. \A l \in Lot : Due(l)' = Due(l)
    BY <1>6, <2>2, FifoTakes DEF Due
  <2>. QED
    BY <2>1, <2>3, LocksEnd
<1>7. ASSUME NEW r \in LotRequest, Lots!Rollback(r) PROVE LocksByDate'
  BY <1>7, LocksEnd DEF Lots!Rollback, Due
<1>8. CASE Lots!ScanRead \/ Lots!ScanCommit \/ UNCHANGED lotVars
  <2>1. UNCHANGED <<lots, lotLock, lotTx>>
    BY <1>8 DEF Lots!ScanRead, Lots!ScanCommit, lotVars
  <2>. QED
    BY <1>t, <2>1, LocksFrame DEF LocksByDate, Due
<1>. QED
  BY <1>1, <1>2, <1>3, <1>4, <1>5, <1>6, <1>7, <1>8 DEF Lots!Next

\* Whoever holds the lot that an exit wants is an exit too, and wants a later lot, or one of
\* the same date.
LEMMA WaitsGoByDate == ASSUME LotInv, LocksByDate PROVE WaitsFollowDates
<1> SUFFICES ASSUME NEW r \in LotRequest, NEW s \in LotRequest, WaitsFor(r, s)
             PROVE  Fifo(s) /\ (lotTx[s].todo # <<>> => Due(Wanted(r)) <= Due(Wanted(s)))
  BY DEF WaitsFollowDates
<1>1. \A x \in LotRequest : lotTx[x].todo \in Seq(Lot)
  BY DEF LotInv, LotTypes, LotTx
<1>2. Wanted(r) \in Lot /\ lotLock[Wanted(r)] = s /\ Busy(r) /\ Fifo(r)
  BY <1>1, HeadTailProperties DEF WaitsFor, Wanted, Fifo, Busy
<1>3. Busy(s) /\ (Fifo(s) => \A j \in DOMAIN lotTx[s].todo : Due(Wanted(r)) <= Due(lotTx[s].todo[j]))
  BY <1>2 DEF LocksByDate, LockedByDate
<1>4. Fifo(s)
  BY <1>2, <1>3 DEF LotInv, Apart
<1>5. lotTx[s].todo # <<>> => 1 \in DOMAIN lotTx[s].todo /\ Wanted(s) = lotTx[s].todo[1]
  BY <1>1 DEF Wanted
<1>. QED
  BY <1>3, <1>4, <1>5

-----------------------------------------------------------------------------
(* The stock as a whole. *)

LEMMA AllStarts == AllInit => LotInv /\ PackInv /\ ThresholdInv
BY LotInit, PackInit, ThresholdInit, StockAssumption DEF AllInit

\* A step of one part leaves the others where they are.
LEMMA AllSteps ==
  [AllNext]_allVars =>
    /\ Lots!Next \/ UNCHANGED lotVars
    /\ Packaging!Next \/ UNCHANGED packagingVars
    /\ [Next]_vars
BY DEF AllNext, allVars, InMovements, InLots, InThresholds, InPackaging

LEMMA LotsHold == AllSpec => []LotInv
BY AllStarts, AllSteps, LotStep, PTL DEF AllSpec

LEMMA PackagingHolds == AllSpec => []PackInv
BY AllStarts, AllSteps, PackStep, PTL DEF AllSpec

\* Nothing is counted twice or forgotten, for any number of requests, lots and operations, and
\* whatever exits by FIFO overlap (_consume_lots_fifo, record_consignment_action).
THEOREM StockCounted == AllSpec => []StockIsCounted
<1>1. LotInv /\ PackInv => StockIsCounted
  BY DEF LotInv, PackInv, StockIsCounted
<1>. QED
  BY <1>1, LotsHold, PackagingHolds, PTL

\* An exit takes nothing from a lot while one that expires earlier keeps units, whatever exits
\* overlap (lock_available_lots_fifo).
THEOREM OldestAreTaken == AllSpec => ExitsTakeTheOldest
<1>1. LotInv /\ [AllNext]_allVars => [on = "lots" => Lots!OldestStep]_allVars
  BY AllSteps, OldestFirst
<1>. QED
  BY <1>1, LotsHold, PTL DEF AllSpec, ExitsTakeTheOldest

\* An alert closes with its cause: the exit that empties a lot closes the alert on it, and, when
\* scans and settings do not meet movements, the movement that leaves the level above the
\* threshold closes those of the low stock, unless it is an adjustment that found it low
\* (_resolve_lot_alert_if_exhausted, _resolve_threshold_if_needed).
THEOREM AlertsCloseWithCause == ASSUME ~Overlap PROVE AllSpec => AlertsClose
<1>1. ConstantsAssumption
  BY StockAssumption
<1>2. AllSpec => []ThresholdInv
  BY <1>1, AllStarts, AllSteps, ThresholdStep, PTL DEF AllSpec
<1>3. LotInv /\ ThresholdInv /\ [AllNext]_allVars =>
        [/\ on = "thresholds" => RecoveryStep
         /\ on = "lots" => Lots!ExhaustionStep]_allVars
  <2> SUFFICES ASSUME LotInv, ThresholdInv, AllNext
               PROVE  /\ on = "thresholds" => RecoveryStep
                      /\ on = "lots" => Lots!ExhaustionStep
    OBVIOUS
  <2>1. ASSUME on = "thresholds" PROVE RecoveryStep
    <3>1. Next
      BY <2>1 DEF AllNext, InMovements, InLots, InThresholds, InPackaging
    <3>2. [RecoveryStep]_vars
      BY <1>1, <3>1, RecoveryAction DEF ThresholdInv
    <3>3. vars' = vars => RecoveryStep
      BY DEF vars, RecoveryStep, RisesAbove
    <3>. QED
      BY <3>2, <3>3
  <2>2. Lots!ExhaustionStep
    BY AllSteps, ExhaustedCloses
  <2>. QED
    BY <2>1, <2>2
<1>. QED
  BY <1>2, <1>3, LotsHold, PTL DEF AllSpec, AlertsClose

\* Exits by FIFO that wait for each other, however many, want lots of one date: lots are locked
\* by date, so only the ties, which the query returns in any order, can be locked crosswise
\* (lock_available_lots_fifo orders them by expiry_date).
THEOREM CrossedExitsAreTies == AllSpec => []WaitsFollowDates
<1>1. AllInit => LocksByDate
  BY LocksInit DEF AllInit
<1>2. LotInv /\ LocksByDate /\ [AllNext]_allVars => LocksByDate'
  BY AllSteps, LocksStep
<1>. QED
  BY <1>1, <1>2, LotsHold, WaitsGoByDate, PTL DEF AllSpec
=============================================================================
