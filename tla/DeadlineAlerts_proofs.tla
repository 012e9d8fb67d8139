------------------------ MODULE DeadlineAlerts_proofs ------------------------
(***************************************************************************)
(* Proofs about DeadlineAlerts, for every set of reminder offsets, of dates  *)
(* and of managers, every repetition and any number of scans at once.        *)
(***************************************************************************)
EXTENDS DeadlineAlerts, FiniteSetTheorems, WellFoundedInduction, TLAPS

\* One manager at most is notified of a level, once, when its alert is inserted.
Notified ==
  \A p \in Palier :
    /\ alerts[p] = None => \A m \in Manager : sent[<<p, m>>] = 0
    /\ \A m \in Manager : sent[<<p, m>>] <= 1
    /\ \A m, n \in Manager : sent[<<p, m>>] > 0 /\ sent[<<p, n>>] > 0 => m = n

\* A scan works with the date the deadline has, unless it was renewed meanwhile.
SeesDate == \A s \in Scan : scan[s].pc = "read" => scan[s].seen \in {due, None}

\* Without a renewal: alerts are for the date and were raised on a day of their level,
\* and after a scan no level reached is without its alert.
FirstDate ==
  /\ \A s \in Scan : scan[s].pc = "read" =>
       scan[s].day <= today /\ (scan[s].seen = due \/ (scan[s].seen = None /\ archived))
  /\ \A p \in Palier : alerts[p] # None =>
       /\ alerts[p].due = due /\ alerts[p].day <= today
       /\ p[1] = "overdue" => due < alerts[p].day /\ p[2] = Cycle(alerts[p].day - due)
  /\ scanned # None /\ ~archived =>
       \A p \in Palier \cap Paliers(due, scanned) : alerts[p] # None

-----------------------------------------------------------------------------
LEMMA NaturalsAreWellOrdered ==
  IsWellFoundedOn({p \in Nat \X Nat : p[1] < p[2]}, Nat)
BY NatLessThanWellFounded, Zenon DEF OpToRel


\* A finite set of naturals that is not empty has a greatest element: a smallest set
\* without one would still have none after it lost an element.
LEMMA FiniteHasGreatest ==
  ASSUME NEW S \in SUBSET Nat, IsFiniteSet(S), S # {}
  PROVE  \E x \in S : \A y \in S : y <= x
<1> DEFINE Bad(T) == /\ T \in SUBSET Nat /\ IsFiniteSet(T) /\ T # {}
                     /\ ~ \E x \in T : \A y \in T : y <= x
           Sizes == {n \in Nat : \E T \in SUBSET Nat : Bad(T) /\ Cardinality(T) = n}
<1> SUFFICES ASSUME Bad(S) PROVE FALSE
  OBVIOUS
<1>1. Sizes # {} /\ Sizes \in SUBSET Nat
  BY FS_CardinalityType
<1>2. PICK n \in Sizes : \A k \in Sizes : ~(<<k, n>> \in {p \in Nat \X Nat : p[1] < p[2]})
  BY <1>1, NaturalsAreWellOrdered, WFMin
<1>3. PICK T \in SUBSET Nat : Bad(T) /\ Cardinality(T) = n
  BY <1>2
<1>4. PICK x \in T : TRUE
  BY <1>3
<1>5. /\ IsFiniteSet(T \ {x}) /\ Cardinality(T \ {x}) = n - 1
      /\ n - 1 \in Nat /\ n \in Nat
  <2>1. n \in Nat /\ n # 0
    BY <1>3, FS_CardinalityType, FS_EmptySet
  <2>2. IsFiniteSet(T \ {x}) /\ Cardinality(T \ {x}) = n - 1
    BY <1>3, <1>4, FS_RemoveElement
  <2>. QED
    BY <2>1, <2>2
<1>6. n - 1 \notin Sizes
  <2>1. <<n - 1, n>> \in Nat \X Nat /\ <<n - 1, n>>[1] = n - 1 /\ <<n - 1, n>>[2] = n
    BY <1>5
  <2>. QED
    BY <1>2, <1>5, <2>1
<1>7. ~Bad(T \ {x})
  BY <1>5, <1>6
<1>8. CASE T = {x}
  BY <1>3, <1>8
<1>9. CASE T # {x}
  <2>1. PICK y \in T \ {x} : \A z \in T \ {x} : z <= y
    BY <1>3, <1>4, <1>5, <1>7, <1>9
  <2>2. x \in Nat /\ y \in Nat
    BY <1>4
  <2>3. CASE x <= y
    BY <1>3, <2>1, <2>2, <2>3
  <2>4. CASE y <= x
    <3>1. \A z \in T : z <= x
      BY <1>3, <2>1, <2>2, <2>4
    <3>. QED
      BY <1>3, <3>1
  <2>. QED
    BY <2>2, <2>3, <2>4
<1>. QED
  BY <1>8, <1>9

LEMMA GreatestOffset == Max(Offsets) \in Offsets /\ \A o \in Offsets : o <= Max(Offsets)
BY FiniteHasGreatest, ConstantsAssumption DEF Max

\* Two late days with the same level are less than a repetition apart.
LEMMA SameCycle ==
  ASSUME NEW a \in Nat \ {0}, NEW b \in Nat \ {0}, a <= b, Cycle(a) = Cycle(b)
  PROVE  b - a < AtLeastOne(Repeat)
<1>1. AtLeastOne(Repeat) \in Nat \ {0}
  BY ConstantsAssumption DEF AtLeastOne
<1> DEFINE r == AtLeastOne(Repeat)
<1>2. ASSUME NEW n \in Nat, NEW d \in Nat \ {0}
      PROVE  /\ n \div d \in Nat
             /\ d * (n \div d) <= n /\ n < d * (n \div d) + d
  BY <1>2
<1>. QED
  BY <1>1, <1>2 DEF Cycle

LEMMA CycleIsALevel ==
  ASSUME NEW n \in 1..MaxDay PROVE <<"overdue", Cycle(n)>> \in Palier
<1>1. AtLeastOne(Repeat) \in Nat \ {0} /\ n - 1 \in Nat /\ MaxDay \in Nat
  BY ConstantsAssumption DEF AtLeastOne
<1>2. ASSUME NEW k \in Nat, NEW d \in Nat \ {0} PROVE k \div d \in 0..k
  BY <1>2
<1>3. Cycle(n) \in 0..MaxDay
  BY <1>1, <1>2 DEF Cycle
<1>. QED
  BY <1>3 DEF Palier


-----------------------------------------------------------------------------
LEMMA TypeStep == TypeOK /\ [Next]_vars => TypeOK'
<1> SUFFICES ASSUME TypeOK, [Next]_vars PROVE TypeOK'
  OBVIOUS
<1> USE ConstantsAssumption DEF TypeOK
<1>1. CASE NextDay
  BY <1>1 DEF NextDay
<1>2. ASSUME NEW s \in Scan, ScanRead(s) \/ ScanAbort(s) PROVE TypeOK'
  BY <1>2 DEF ScanRead, ScanAbort
<1>3. ASSUME NEW s \in Scan, ScanCommit(s) PROVE TypeOK'
  <2>1. PICK m \in Manager :
          /\ alerts' = [p \in Palier |->
                          IF p \in New(s)
                          THEN [status |-> "emitted", due |-> scan[s].seen, day |-> scan[s].day]
                          ELSE alerts[p]]
          /\ sent' = [x \in Palier \X Manager |->
                        IF x[1] \in New(s) /\ x[2] = m THEN sent[x] + 1 ELSE sent[x]]
    BY <1>3 DEF ScanCommit
  <2>2. New(s) # {} => scan[s].seen \in DueDates
    BY DEF New, Candidates
  <2>3. alerts' \in [Palier -> AlertType \cup {None}]
    BY <2>1, <2>2 DEF AlertType, Open
  <2>4. sent' \in [Palier \X Manager -> Nat]
    BY <2>1
  <2>5. /\ scan[s].day \in 0..MaxDay
        /\ [pc |-> "idle", day |-> 0, seen |-> None]
             \in [pc : {"idle", "read"}, day : 0..MaxDay, seen : DueDates \cup {None}]
    OBVIOUS
  <2>6. /\ scan' = [scan EXCEPT ![s] = [pc |-> "idle", day |-> 0, seen |-> None]]
        /\ scanned' = scan[s].day /\ UNCHANGED <<today, due, archived, renewals>>
    BY <1>3 DEF ScanCommit
  <2>. QED
    BY <2>3, <2>4, <2>5, <2>6
<1>4. ASSUME NEW date \in DueDates, Renew(date) PROVE TypeOK'
  <2>1. \A a \in AlertType : Resolved(a) \in AlertType
    BY DEF Resolved, AlertType
  <2>2. alerts' \in [Palier -> AlertType \cup {None}]
    BY <1>4, <2>1 DEF Renew
  <2>3. renewals' \in 0..MaxRenewals
    BY <1>4 DEF Renew
  <2>. QED
    BY <1>4, <2>2, <2>3 DEF Renew
<1>5. CASE Archive
  BY <1>5 DEF Archive
<1>6. ASSUME NEW p \in Palier, Acknowledge(p) \/ Postpone(p) PROVE TypeOK'
  BY <1>6 DEF Acknowledge, Postpone, Touchable, AlertType, Open
<1>7. CASE UNCHANGED vars
  BY <1>7 DEF vars
<1>. QED
  BY <1>1, <1>2, <1>3, <1>4, <1>5, <1>6, <1>7 DEF Next

LEMMA NotifiedStep == TypeOK /\ Notified /\ [Next]_vars => Notified'
<1> SUFFICES ASSUME TypeOK, Notified, [Next]_vars PROVE Notified'
  OBVIOUS
<1> USE DEF TypeOK
<1>1. ASSUME UNCHANGED sent, \A p \in Palier : alerts'[p] = None => alerts[p] = None PROVE Notified'
  BY <1>1 DEF Notified
<1>2. ASSUME NEW s \in Scan, ScanCommit(s) PROVE Notified'
  <2>1. PICK m \in Manager :
          /\ alerts' = [p \in Palier |->
                          IF p \in New(s)
                          THEN [status |-> "emitted", due |-> scan[s].seen, day |-> scan[s].day]
                          ELSE alerts[p]]
          /\ sent' = [x \in Palier \X Manager |->
                        IF x[1] \in New(s) /\ x[2] = m THEN sent[x] + 1 ELSE sent[x]]
    BY <1>2 DEF ScanCommit
  <2>2. ASSUME NEW p \in Palier, p \notin New(s)
        PROVE  alerts'[p] = alerts[p] /\ \A n \in Manager : sent'[<<p, n>>] = sent[<<p, n>>]
    BY <2>1, <2>2
  <2>3. ASSUME NEW p \in Palier, p \in New(s)
        PROVE  /\ alerts'[p] # None
               /\ \A n \in Manager : sent'[<<p, n>>] = IF n = m THEN 1 ELSE 0
    <3>1. \A n \in Manager : sent[<<p, n>>] = 0
      BY <2>3 DEF New, Notified
    <3>2. /\ alerts'[p] = [status |-> "emitted", due |-> scan[s].seen, day |-> scan[s].day]
          /\ \A n \in Manager : sent'[<<p, n>>] = IF n = m THEN sent[<<p, n>>] + 1 ELSE sent[<<p, n>>]
      BY <2>1, <2>3
    <3>3. scan[s].seen \in DueDates /\ scan[s].day \in 0..MaxDay
      BY <2>3 DEF New, Candidates
    <3>4. alerts'[p] # None
      BY <3>2, <3>3, ConstantsAssumption DEF AlertType, Open
    <3>. QED
      BY <3>1, <3>2, <3>4
  <2>. QED
    BY <2>2, <2>3 DEF Notified
<1>3. ASSUME NEW date \in DueDates, Renew(date) PROVE Notified'
  <2>1. ASSUME NEW p \in Palier, alerts[p] # None PROVE alerts'[p] # None
    <3>1. alerts'[p] = Resolved(alerts[p]) /\ alerts[p] \in AlertType
      BY <1>3, <2>1 DEF Renew
    <3>. QED
      BY <3>1, ConstantsAssumption DEF Resolved, AlertType
  <2>. QED
    BY <1>1, <1>3, <2>1 DEF Renew
<1>4. ASSUME NEW p \in Palier, Acknowledge(p) \/ Postpone(p) PROVE Notified'
  <2>1. alerts[p] # None /\ \A q \in Palier \ {p} : alerts'[q] = alerts[q]
    BY <1>4 DEF Acknowledge, Postpone, Touchable
  <2>2. \A q \in Palier : alerts'[q] = None => alerts[q] = None
    <3>1. alerts'[p] \in AlertType
      BY <1>4, <2>1 DEF Acknowledge, Postpone, AlertType, Open
    <3>. QED
      BY <2>1, <3>1, ConstantsAssumption
  <2>. QED
    BY <1>1, <1>4, <2>2 DEF Acknowledge, Postpone
<1>. QED
  BY <1>1, <1>2, <1>3, <1>4
     DEF Next, NextDay, ScanRead, ScanAbort, Archive, vars

-----------------------------------------------------------------------------
LEMMA SeesStep == TypeOK /\ SeesDate /\ ~RenewDuringScan /\ [Next]_vars => SeesDate'
<1> SUFFICES ASSUME TypeOK, SeesDate, ~RenewDuringScan, [Next]_vars PROVE SeesDate'
  OBVIOUS
<1>1. ASSUME NEW s \in Scan, ScanRead(s) \/ ScanCommit(s) \/ ScanAbort(s) PROVE SeesDate'
  BY <1>1 DEF ScanRead, ScanCommit, ScanAbort, SeesDate, TypeOK
<1>2. ASSUME NEW date \in DueDates, Renew(date) PROVE SeesDate'
  BY <1>2 DEF Renew, SeesDate
<1>3. ASSUME UNCHANGED <<scan, due>> PROVE SeesDate'
  BY <1>3 DEF SeesDate
<1>. QED
  BY <1>1, <1>2, <1>3 DEF Next, NextDay, Archive, Acknowledge, Postpone, vars

LEMMA CurrentStep ==
  TypeOK /\ SeesDate /\ OpenAlertsAreCurrent /\ ~StalePages /\ ~RenewDuringScan /\ [Next]_vars
    => OpenAlertsAreCurrent'
<1> SUFFICES ASSUME TypeOK, SeesDate, OpenAlertsAreCurrent, ~StalePages, ~RenewDuringScan, [Next]_vars
             PROVE  OpenAlertsAreCurrent'
  OBVIOUS
<1> USE DEF OpenAlertsAreCurrent, Current, TypeOK
<1>1. ASSUME NEW s \in Scan, ScanCommit(s) PROVE OpenAlertsAreCurrent'
  <2>1. UNCHANGED due
    BY <1>1 DEF ScanCommit
  <2>2. ASSUME NEW p \in Palier, p \notin New(s) PROVE alerts'[p] = alerts[p]
    BY <1>1, <2>2 DEF ScanCommit
  <2>3. ASSUME NEW p \in Palier, p \in New(s) PROVE alerts'[p].due = due
    BY <1>1, <2>3 DEF ScanCommit, New, Candidates, SeesDate
  <2>. QED
    BY <2>1, <2>2, <2>3
<1>2. ASSUME NEW date \in DueDates, Renew(date) PROVE OpenAlertsAreCurrent'
  BY <1>2 DEF Renew, Resolved, AlertType
<1>3. ASSUME NEW p \in Palier, Acknowledge(p) \/ Postpone(p) PROVE OpenAlertsAreCurrent'
  <2>1. alerts[p] # None /\ alerts[p].status \in Open /\ alerts[p] \in AlertType
    BY <1>3 DEF Acknowledge, Postpone, Touchable
  <2>2. alerts'[p].due = due /\ \A q \in Palier \ {p} : alerts'[q] = alerts[q]
    BY <1>3, <2>1 DEF Acknowledge, Postpone, AlertType, Open
  <2>3. UNCHANGED due
    BY <1>3 DEF Acknowledge, Postpone
  <2>. QED
    BY <2>2, <2>3
<1>4. ASSUME UNCHANGED <<alerts, due>> PROVE OpenAlertsAreCurrent'
  BY <1>4
<1>. QED
  BY <1>1, <1>2, <1>3, <1>4 DEF Next, NextDay, ScanRead, ScanAbort, Archive, vars

\* The levels of a scan that has just read its date.
LEMMA FirstDateStep == TypeOK /\ FirstDate /\ renewals' = 0 /\ [Next]_vars => FirstDate'
<1> SUFFICES ASSUME TypeOK, FirstDate, renewals' = 0, [Next]_vars PROVE FirstDate'
  OBVIOUS
<1> USE ConstantsAssumption DEF TypeOK
<1> DEFINE Scans == \A s \in Scan : scan[s].pc = "read" =>
                      scan[s].day <= today /\ (scan[s].seen = due \/ (scan[s].seen = None /\ archived))
           Raised(p) == alerts[p] # None =>
                          /\ alerts[p].due = due /\ alerts[p].day <= today
                          /\ p[1] = "overdue" => due < alerts[p].day /\ p[2] = Cycle(alerts[p].day - due)
           Watched == scanned # None /\ ~archived =>
                        \A p \in Palier \cap Paliers(due, scanned) : alerts[p] # None
<1>0. Scans /\ (\A p \in Palier : Raised(p)) /\ Watched
  BY DEF FirstDate
<1>1. ASSUME Scans', \A p \in Palier : Raised(p)', Watched' PROVE FirstDate'
  BY <1>1 DEF FirstDate
<1>2. CASE NextDay
  <2>1. /\ UNCHANGED <<due, archived, alerts, scan, scanned>>
        /\ today' = today + 1 /\ today \in Nat
    BY <1>2 DEF NextDay
  <2>2. Scans'
    BY <1>0, <2>1
  <2>3. \A p \in Palier : Raised(p)'
    BY <1>0, <2>1 DEF AlertType
  <2>. QED
    BY <1>0, <1>1, <2>1, <2>2, <2>3
<1>3. ASSUME NEW s \in Scan, ScanRead(s) \/ ScanAbort(s) PROVE FirstDate'
  <2>1. UNCHANGED <<due, archived, alerts, today, scanned>>
    BY <1>3 DEF ScanRead, ScanAbort
  <2>2. Scans'
    BY <1>0, <1>3, <2>1 DEF ScanRead, ScanAbort
  <2>. QED
    BY <1>0, <1>1, <2>1, <2>2
<1>4. ASSUME NEW s \in Scan, ScanCommit(s) PROVE FirstDate'
  <2>1. /\ UNCHANGED <<due, archived, today>> /\ scanned' = scan[s].day
        /\ scan' = [scan EXCEPT ![s] = [pc |-> "idle", day |-> 0, seen |-> None]]
        /\ alerts' = [p \in Palier |->
                        IF p \in New(s)
                        THEN [status |-> "emitted", due |-> scan[s].seen, day |-> scan[s].day]
                        ELSE alerts[p]]
    BY <1>4 DEF ScanCommit
  <2>2. /\ scan[s].day <= today /\ scan[s].day \in 0..MaxDay
        /\ scan[s].seen = due \/ (scan[s].seen = None /\ archived)
    BY <1>0, <1>4 DEF ScanCommit
  <2>3. Scans'
    BY <1>0, <2>1
  <2>4. ASSUME NEW p \in Palier, p \in New(s)
        PROVE  /\ alerts'[p] = [status |-> "emitted", due |-> due, day |-> scan[s].day]
               /\ alerts'[p] # None
               /\ p[1] = "overdue" => due < scan[s].day /\ p[2] = Cycle(scan[s].day - due)
    <3>1. scan[s].seen = due /\ p \in Paliers(due, scan[s].day)
      BY <2>2, <2>4 DEF New, Candidates
    <3>2. alerts'[p] = [status |-> "emitted", due |-> due, day |-> scan[s].day]
      BY <2>1, <2>4, <3>1
    <3>3. alerts'[p] # None
      BY <2>2, <3>2 DEF AlertType, Open
    <3>4. p[1] = "overdue" => due < scan[s].day /\ p[2] = Cycle(scan[s].day - due)
      <4>1. CASE scan[s].day <= due
        BY <3>1, <4>1 DEF Paliers
      <4>2. CASE ~(scan[s].day <= due)
        <5>1. p = <<"overdue", Cycle(scan[s].day - due)>>
          BY <3>1, <4>2 DEF Paliers
        <5>. QED
          BY <2>2, <4>2, <5>1
      <4>. QED
        BY <4>1, <4>2
    <3>. QED
      BY <3>2, <3>3, <3>4
  <2>5. ASSUME NEW p \in Palier, p \notin New(s) PROVE alerts'[p] = alerts[p]
    BY <2>1, <2>5
  <2>6. \A p \in Palier : Raised(p)'
    <3> SUFFICES ASSUME NEW p \in Palier PROVE Raised(p)'
      OBVIOUS
    <3>1. CASE p \in New(s)
      BY <2>1, <2>2, <2>4, <3>1
    <3>2. CASE p \notin New(s)
      BY <1>0, <2>1, <2>5, <3>2
    <3>. QED
      BY <3>1, <3>2
  <2>7. Watched'
    <3> SUFFICES ASSUME ~archived', NEW p \in Palier, p \in Paliers(due, scan[s].day)
                 PROVE  alerts'[p] # None
      BY <2>1
    <3>1. p \in Candidates(s)
      BY <2>1, <2>2 DEF Candidates
    <3>. QED
      BY <2>4, <2>5, <3>1 DEF New
  <2>. QED
    BY <1>1, <2>3, <2>6, <2>7
<1>5. ASSUME NEW p \in Palier, Acknowledge(p) \/ Postpone(p) PROVE FirstDate'
  <2>1. /\ UNCHANGED <<due, archived, today, scan, scanned>>
        /\ alerts[p] \in AlertType
        /\ alerts' = [alerts EXCEPT ![p].status = "acknowledged"]
             \/ alerts' = [alerts EXCEPT ![p].status = "postponed"]
    BY <1>5 DEF Acknowledge, Postpone, Touchable
  <2>2. /\ alerts'[p] \in AlertType /\ alerts[p] # None
        /\ alerts'[p].due = alerts[p].due /\ alerts'[p].day = alerts[p].day
        /\ \A q \in Palier \ {p} : alerts'[q] = alerts[q]
    BY <2>1 DEF AlertType, Open
  <2>3. \A q \in Palier : Raised(q)'
    <3> SUFFICES ASSUME NEW q \in Palier PROVE Raised(q)'
      OBVIOUS
    <3>1. Raised(q)
      BY <1>0
    <3>. QED
      BY <2>1, <2>2, <3>1
  <2>4. Scans'
    BY <1>0, <2>1
  <2>5. Watched'
    BY <1>0, <2>1, <2>2
  <2>. QED
    BY <1>1, <2>3, <2>4, <2>5
<1>6. CASE Archive
  <2>1. UNCHANGED <<due, alerts, today, scan, scanned>> /\ archived' = TRUE
    BY <1>6 DEF Archive
  <2>. QED
    BY <1>0, <1>1, <2>1
<1>7. ASSUME NEW date \in DueDates PROVE ~Renew(date)
  BY DEF Renew
<1>8. CASE UNCHANGED vars
  BY <1>0, <1>1, <1>8 DEF vars
<1>. QED
  BY <1>2, <1>3, <1>4, <1>5, <1>6, <1>7, <1>8 DEF Next

LEMMA Initially == Init => TypeOK /\ Notified /\ SeesDate /\ OpenAlertsAreCurrent /\ FirstDate
<1> SUFFICES ASSUME Init PROVE TypeOK /\ Notified /\ SeesDate /\ OpenAlertsAreCurrent /\ FirstDate
  OBVIOUS
<1>1. /\ today = 0 /\ due \in DueDates /\ archived = FALSE /\ renewals = 0 /\ scanned = None
      /\ \A p \in Palier : alerts[p] = None
      /\ \A s \in Scan : scan[s].pc = "idle"
  BY DEF Init
<1>2. TypeOK
  <2>1. sent \in [Palier \X Manager -> Nat]
    BY DEF Init
  <2>2. scan \in [Scan -> [pc : {"idle", "read"}, day : 0..MaxDay, seen : DueDates \cup {None}]]
    BY ConstantsAssumption DEF Init
  <2>3. alerts \in [Palier -> AlertType \cup {None}]
    BY DEF Init
  <2>4. today \in 0..MaxDay /\ renewals \in 0..MaxRenewals
    BY <1>1, ConstantsAssumption
  <2>. QED
    BY <1>1, <2>1, <2>2, <2>3, <2>4 DEF TypeOK
<1>3. Notified
  <2>1. \A p \in Palier, m \in Manager : sent[<<p, m>>] = 0
    BY DEF Init
  <2>. QED
    BY <2>1 DEF Notified
<1>4. SeesDate /\ OpenAlertsAreCurrent /\ FirstDate
  BY <1>1 DEF SeesDate, OpenAlertsAreCurrent, FirstDate
<1>. QED
  BY <1>2, <1>3, <1>4

-----------------------------------------------------------------------------
\* Every variable keeps its type.
THEOREM TypeCorrect == Spec => []TypeOK
<1>1. Init => TypeOK
  BY Initially
<1>. QED
  BY <1>1, TypeStep, PTL DEF Spec

\* However many scans run at once, are repeated or aborted, and whatever is renewed
\* or acknowledged meanwhile, a level is notified to one manager, once.
THEOREM OneNotification == Spec => []NotifiedOnce
<1>1. Init => TypeOK /\ Notified
  BY Initially
<1>2. TypeOK /\ Notified /\ [Next]_vars => (TypeOK /\ Notified)'
  BY TypeStep, NotifiedStep
<1>3. TypeOK /\ Notified => NotifiedOnce
  <2> SUFFICES ASSUME TypeOK, Notified, NEW p \in Palier
               PROVE  Cardinality({m \in Manager : sent[<<p, m>>] > 0}) <= 1
    BY DEF Notified, NotifiedOnce
  <2> DEFINE told == {m \in Manager : sent[<<p, m>>] > 0}
  <2>1. \A m \in told : told = {m}
    BY DEF Notified
  <2> HIDE DEF told
  <2>2. CASE told = {}
    <3>1. Cardinality(told) = 0
      BY <2>2, FS_EmptySet
    <3>. QED
      BY <3>1 DEF told
  <2>3. CASE told # {}
    <3>1. PICK m : told = {m}
      BY <2>1, <2>3
    <3>2. Cardinality(told) = 1
      BY <3>1, FS_Singleton
    <3>. QED
      BY <3>2 DEF told
  <2>. QED
    BY <2>2, <2>3
<1>. QED
  BY <1>1, <1>2, <1>3, PTL DEF Spec

\* When no date changes between the two steps of a scan and users act on what they
\* see, an alert still open is about the date that the deadline has.
THEOREM OpenAlertsFollowTheDate ==
  ASSUME ~RenewDuringScan, ~StalePages PROVE Spec => []OpenAlertsAreCurrent
<1> DEFINE Inv == TypeOK /\ SeesDate /\ OpenAlertsAreCurrent
<1>1. Init => Inv
  BY Initially
<1>2. Inv /\ [Next]_vars => Inv'
  BY TypeStep, SeesStep, CurrentStep
<1>. QED
  BY <1>1, <1>2, PTL DEF Spec

\* An alert resolved by a renewal is never open again, when users act on what they see.
THEOREM ResolvedStaysResolved == ASSUME ~StalePages PROVE Spec => ResolvedIsFinal
<1> DEFINE Final == \A p \in Palier : alerts[p] # None /\ alerts[p].status = "resolved"
                                        => alerts'[p].status = "resolved"
<1>1. TypeOK /\ [Next]_vars => Final
  <2> SUFFICES ASSUME TypeOK, [Next]_vars, NEW p \in Palier,
                      alerts[p] # None, alerts[p].status = "resolved"
               PROVE  alerts'[p].status = "resolved"
    OBVIOUS
  <2> USE DEF TypeOK
  <2>1. ASSUME NEW s \in Scan, ScanCommit(s) PROVE alerts'[p] = alerts[p]
    BY <2>1 DEF ScanCommit, New
  <2>2. ASSUME NEW date \in DueDates, Renew(date) PROVE alerts'[p].status = "resolved"
    BY <2>2 DEF Renew, Resolved, AlertType
  <2>3. ASSUME NEW q \in Palier, Acknowledge(q) \/ Postpone(q) PROVE alerts'[p] = alerts[p]
    <3>1. q # p
      BY <2>3 DEF Acknowledge, Postpone, Touchable, Open
    <3>. QED
      BY <2>3, <3>1 DEF Acknowledge, Postpone
  <2>4. CASE UNCHANGED alerts
    BY <2>4
  <2>. QED
    BY <2>1, <2>2, <2>3, <2>4 DEF Next, NextDay, ScanRead, ScanAbort, Archive, vars
<1>. QED
  BY <1>1, TypeCorrect, PTL DEF Spec, ResolvedIsFinal

\* The aim of the engine, for every set of offsets and every repetition: once a scan
\* has run on a day, whatever nights were missed, a deadline that was never renewed
\* is warned of if it is near and reminded of at least every Repeat days if late.
THEOREM FirstDateIsWatched == Spec => []FirstDateWatched
<1> DEFINE Inv == TypeOK /\ (renewals = 0 => FirstDate)
<1>1. Init => Inv
  BY Initially
<1>2. Inv /\ [Next]_vars => Inv'
  <2> SUFFICES ASSUME TypeOK, renewals = 0 => FirstDate, [Next]_vars, renewals' = 0 PROVE FirstDate'
    BY TypeStep
  <2>1. renewals = 0
    BY DEF TypeOK, Next, NextDay, ScanRead, ScanCommit, ScanAbort, Renew, Archive, Acknowledge, Postpone, vars
  <2>. QED
    BY <2>1, FirstDateStep
<1>3. Inv => FirstDateWatched
  <2> SUFFICES ASSUME TypeOK, FirstDate, scanned = today, ~archived
               PROVE  /\ today <= due /\ due - today <= Max(Offsets) => Current # {}
                      /\ today > due =>
                           \E p \in Current : p[1] = "overdue" /\ today - alerts[p].day < AtLeastOne(Repeat)
    BY DEF FirstDateWatched, WarnedInTime, ScannedToday
  <2>1. /\ today \in Nat /\ due \in Nat /\ today <= MaxDay /\ scanned # None
        /\ \A p \in Palier \cap Paliers(due, today) : alerts[p] # None
    BY ConstantsAssumption DEF TypeOK, FirstDate
  <2>2. ASSUME today <= due, due - today <= Max(Offsets) PROVE Current # {}
    <3> DEFINE p == <<"j", Max(Offsets)>>
    <3>1. p \in Palier
      BY GreatestOffset DEF Palier
    <3>2. p \in Paliers(due, today)
      BY <2>1, <2>2, GreatestOffset DEF Paliers
    <3>3. alerts[p] # None /\ alerts[p].due = due
      BY <2>1, <3>1, <3>2 DEF FirstDate
    <3>. QED
      BY <3>1, <3>3 DEF Current
  <2>3. ASSUME today > due
        PROVE  \E p \in Current : p[1] = "overdue" /\ today - alerts[p].day < AtLeastOne(Repeat)
    <3> DEFINE p == <<"overdue", Cycle(today - due)>>
    <3>1. today - due \in 1..MaxDay /\ today - due \in Nat \ {0}
      BY <2>1, <2>3, ConstantsAssumption
    <3>2. p \in Palier
      BY <3>1, CycleIsALevel
    <3>3. p \in Paliers(due, today)
      BY <2>1, <2>3 DEF Paliers
    <3>4. /\ alerts[p] # None /\ alerts[p].due = due /\ alerts[p].day <= today
          /\ due < alerts[p].day /\ Cycle(today - due) = Cycle(alerts[p].day - due)
      BY <2>1, <3>2, <3>3 DEF FirstDate
    <3>5. alerts[p].day \in Nat /\ alerts[p].day - due \in Nat \ {0}
      BY <2>1, <3>2, <3>4, ConstantsAssumption DEF TypeOK, AlertType
    <3>6. (today - due) - (alerts[p].day - due) < AtLeastOne(Repeat)
      BY <2>1, <3>1, <3>4, <3>5, SameCycle
    <3>7. today - alerts[p].day < AtLeastOne(Repeat)
      BY <2>1, <3>5, <3>6, ConstantsAssumption DEF AtLeastOne
    <3>. QED
      BY <3>2, <3>4, <3>7 DEF Current
  <2>. QED
    BY <2>2, <2>3
<1>. QED
  BY <1>1, <1>2, <1>3, PTL DEF Spec
=============================================================================
