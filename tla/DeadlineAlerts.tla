---------------------------- MODULE DeadlineAlerts ----------------------------
(***************************************************************************)
(* The alert engine (alerts/engine.py) on one deadline of a record: scans    *)
(* that read the due date and insert an alert for every reminder level       *)
(* ("palier") reached, renewals of the date, which resolve the open alerts,  *)
(* and users who acknowledge or postpone them.                               *)
(*                                                                         *)
(* Scans are run every night or by hand, several at a time, or not at all.   *)
(* A scan is one transaction: it reads the due date first and inserts last;  *)
(* the insertion skips the levels that have an alert already, whatever its   *)
(* status and whatever date it was for.  Days are whole days.                *)
(***************************************************************************)
EXTENDS Integers, FiniteSets, FiniteSetsExt

CONSTANTS Offsets,      \* days before the due date at which a reminder is due
          Repeat,       \* days between two reminders of a late deadline
          MaxDay,       \* bound on time
          DueDates,     \* the dates a deadline may be given
          MaxRenewals,  \* bound on the renewals
          Manager,      \* the administrators and managers of the organization
          Scan,         \* scans that may run at the same time
          None,         \* no alert, no due date
          RenewDuringScan, \* may the date change between reading and inserting?
          StalePages    \* may a user act on an alert resolved since he saw it?

Open == {"emitted", "acknowledged", "postponed"}
AlertType == [status : Open \cup {"resolved"}, due : DueDates, day : 0..MaxDay]

ASSUME ConstantsAssumption ==
  /\ Offsets \subseteq Nat /\ IsFiniteSet(Offsets) /\ Offsets # {}
  /\ Repeat \in Nat
  /\ {MaxDay, MaxRenewals} \subseteq Nat
  /\ DueDates \subseteq Nat
  /\ Manager # {}
  /\ None \notin Int \cup AlertType
  /\ {RenewDuringScan, StalePages} \subseteq BOOLEAN

VARIABLES today, due, archived, renewals,
          alerts,   \* committed alert of each palier of the deadline
          sent,     \* notifications in the inbox, by palier and recipient
          scan,     \* where each scan is, the day it is for, the date it read
          scanned   \* the day of the last scan committed since the date was set

vars == <<today, due, archived, renewals, alerts, sent, scan, scanned>>

Palier == ({"j"} \X Offsets) \cup ({"overdue"} \X (0..MaxDay))

Init ==
  /\ today = 0
  /\ due \in DueDates
  /\ archived = FALSE
  /\ renewals = 0
  /\ alerts = [p \in Palier |-> None]
  /\ sent = [x \in Palier \X Manager |-> 0]
  /\ scan = [s \in Scan |-> [pc |-> "idle", day |-> 0, seen |-> None]]
  /\ scanned = None

-----------------------------------------------------------------------------
AtLeastOne(n) == IF n > 1 THEN n ELSE 1

Cycle(late) == (late - 1) \div AtLeastOne(Repeat)

\* Mutant: only the level of the very day.
PaliersOfTheDay(date, day) ==
  IF day <= date THEN {<<"j", o>> : o \in {x \in Offsets : date - day = x}}
  ELSE {<<"overdue", Cycle(day - date)>>}

\* compute_paliers_for_today: every level already reached, so that a scan that
\* did not run is made up for.
Paliers(date, day) ==
  IF day <= date THEN {<<"j", o>> : o \in {x \in Offsets : date - day <= x}}
  ELSE {<<"overdue", Cycle(day - date)>>}

-----------------------------------------------------------------------------
NextDay ==
  /\ today < MaxDay
  /\ today' = today + 1
  /\ UNCHANGED <<due, archived, renewals, alerts, sent, scan, scanned>>

\* Mutant: the day of another time zone.
ScanReadAhead(s) ==
  /\ scan[s].pc = "idle"
  /\ scan' = [scan EXCEPT ![s] = [pc |-> "read", day |-> today + 1,
                                  seen |-> IF archived THEN None ELSE due]]
  /\ UNCHANGED <<today, due, archived, renewals, alerts, sent, scanned>>

\* An archived record is not scanned.
ScanRead(s) ==
  /\ scan[s].pc = "idle"
  /\ scan' = [scan EXCEPT ![s] = [pc |-> "read", day |-> today,
                                  seen |-> IF archived THEN None ELSE due]]
  /\ UNCHANGED <<today, due, archived, renewals, alerts, sent, scanned>>

Candidates(s) ==
  IF scan[s].seen = None THEN {} ELSE Paliers(scan[s].seen, scan[s].day)

\* Mutant: no ON CONFLICT DO NOTHING.
NewAll(s) == Candidates(s)

\* Mutant: a resolved alert gives its level back.
NewOverResolved(s) ==
  {p \in Candidates(s) : alerts[p] = None \/ alerts[p].status = "resolved"}

\* uq_alert_source_palier with ON CONFLICT DO NOTHING.
New(s) == {p \in Candidates(s) : alerts[p] = None}

\* _insert_alerts offers one row per manager for each level; the first one in
\* takes the level, the others conflict with it.  Each alert inserted is then
\* sent to its recipient.
ScanCommit(s) ==
  /\ scan[s].pc = "read"
  /\ \E m \in Manager :
       /\ alerts' = [p \in Palier |->
                       IF p \in New(s)
                       THEN [status |-> "emitted", due |-> scan[s].seen,
                             day |-> scan[s].day]
                       ELSE alerts[p]]
       /\ sent' = [x \in Palier \X Manager |->
                     IF x[1] \in New(s) /\ x[2] = m THEN sent[x] + 1 ELSE sent[x]]
  /\ scanned' = scan[s].day
  /\ scan' = [scan EXCEPT ![s] = [pc |-> "idle", day |-> 0, seen |-> None]]
  /\ UNCHANGED <<today, due, archived, renewals>>

\* The transaction is rolled back, also by another organization's failure.
ScanAbort(s) ==
  /\ scan[s].pc = "read"
  /\ scan' = [scan EXCEPT ![s] = [pc |-> "idle", day |-> 0, seen |-> None]]
  /\ UNCHANGED <<today, due, archived, renewals, alerts, sent, scanned>>

\* Mutant: only the alerts that nobody acknowledged or postponed are closed.
ResolvedEmitted(a) == IF a.status = "emitted" THEN [a EXCEPT !.status = "resolved"] ELSE a

Resolved(a) == [a EXCEPT !.status = "resolved"]

\* RecordService._sync_deadlines: the row of the deadline keeps its identifier,
\* its date changes, every open alert on it is resolved.
Renew(date) ==
  /\ renewals < MaxRenewals
  /\ date # due
  /\ ~archived
  /\ RenewDuringScan \/ \A s \in Scan : scan[s].pc = "idle"
  /\ due' = date
  /\ renewals' = renewals + 1
  /\ alerts' = [p \in Palier |-> IF alerts[p] = None THEN None ELSE Resolved(alerts[p])]
  /\ scanned' = None
  /\ UNCHANGED <<today, archived, sent, scan>>

Archive ==
  /\ ~archived
  /\ archived' = TRUE
  /\ UNCHANGED <<today, due, renewals, alerts, sent, scan, scanned>>

\* The server accepts any alert; the page offers the buttons of open ones.
Touchable(p) == alerts[p] # None /\ (StalePages \/ alerts[p].status \in Open)

Acknowledge(p) ==
  /\ Touchable(p)
  /\ alerts' = [alerts EXCEPT ![p].status = "acknowledged"]
  /\ UNCHANGED <<today, due, archived, renewals, sent, scan, scanned>>

\* No step reads the date the alert is postponed to.
Postpone(p) ==
  /\ Touchable(p)
  /\ alerts' = [alerts EXCEPT ![p].status = "postponed"]
  /\ UNCHANGED <<today, due, archived, renewals, sent, scan, scanned>>

Next == \/ NextDay
        \/ \E s \in Scan : ScanRead(s) \/ ScanCommit(s) \/ ScanAbort(s)
        \/ \E date \in DueDates : Renew(date)
        \/ Archive
        \/ \E p \in Palier : Acknowledge(p) \/ Postpone(p)

Spec == Init /\ [][Next]_vars
-----------------------------------------------------------------------------
TypeOK ==
  /\ today \in 0..MaxDay
  /\ due \in DueDates
  /\ archived \in BOOLEAN
  /\ renewals \in 0..MaxRenewals
  /\ alerts \in [Palier -> AlertType \cup {None}]
  /\ sent \in [Palier \X Manager -> Nat]
  /\ scan \in [Scan -> [pc : {"idle", "read"}, day : 0..MaxDay,
                        seen : DueDates \cup {None}]]
  /\ scanned \in (0..MaxDay) \cup {None}

ScannedToday == scanned = today /\ ~archived

\* The alerts raised for the date the deadline has now.
Current == {p \in Palier : alerts[p] # None /\ alerts[p].due = due}

\* A date that is near was alerted on, whatever nights were missed before: the
\* aim of the engine is at least one alert before the date.
WarnedInTime ==
  ScannedToday /\ today <= due /\ due - today <= Max(Offsets) => Current # {}

\* A deadline that was never renewed is warned of in time, and once it is late
\* reminded of at least every Repeat days.
FirstDateWatched ==
  renewals = 0 =>
    /\ WarnedInTime
    /\ ScannedToday /\ today > due =>
         \E p \in Current : p[1] = "overdue" /\ today - alerts[p].day < AtLeastOne(Repeat)

\* An alert still open is about the date the deadline has.
OpenAlertsAreCurrent ==
  \A p \in Palier : alerts[p] # None => alerts[p].status = "resolved" \/ p \in Current

\* One notification for one alert, however often scans run.
NotifiedOnce ==
  \A p \in Palier : Cardinality({m \in Manager : sent[<<p, m>>] > 0}) <= 1
                    /\ \A m \in Manager : sent[<<p, m>>] <= 1

\* An alert that was resolved stays resolved.
ResolvedIsFinal ==
  [][\A p \in Palier : alerts[p] # None /\ alerts[p].status = "resolved"
                       => alerts'[p].status = "resolved"]_vars
=============================================================================
