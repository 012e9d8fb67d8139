---------------------------- MODULE Subscriptions ----------------------------
(***************************************************************************)
(* The subscription of one organization: payments that the publisher         *)
(* validates, rejects or records (PaymentService), the lifecycle scan and    *)
(* the manual adjustment (SubscriptionService).                              *)
(*                                                                         *)
(* Each is one transaction.  It loads the rows it works on without locking   *)
(* them, decides on what it loaded, and its UPDATE writes the columns whose  *)
(* value it changed, once it has the row lock; the lock lasts until the      *)
(* commit.  Days are whole days.                                             *)
(***************************************************************************)
EXTENDS Integers, FiniteSets

CONSTANTS Payment,      \* payments declared by the customer
          Manual,       \* those recorded by the publisher without a declaration
          Duration,     \* days bought by each payment
          TrialDays, GraceDays, RetentionDays,
          LastAct,      \* bound: the last day a payment is processed or a row adjusted
                        \* by hand, and the last end set by hand
          MaxDay,       \* bound on time
          Job,          \* requests and scans that may run at the same time
          None,         \* no date, no holder
          Overlap,      \* may transactions run at the same time?
          AdjustTo      \* statuses the publisher sets by hand; None: keeps the status

ASSUME ConstantsAssumption ==
  /\ Manual \subseteq Payment
  /\ Duration \in [Payment -> Nat \ {0}]
  /\ {TrialDays, GraceDays, RetentionDays, LastAct, MaxDay} \subseteq Nat
  /\ None \notin Int /\ None \notin Job /\ None \notin Payment
  /\ Overlap \in BOOLEAN

VARIABLES day,
          sub,        \* committed row of subscriptions
          payment,    \* committed status of each payment
          invoices,   \* committed invoices: the payment and the period
          job,        \* what each transaction does, and the row it loaded
          subLock, payLock,  \* the transactions that hold the row locks
          due,        \* history: the end that had run out at the last restriction
          cut         \* history: invoiced payments that the publisher cut short

vars == <<day, sub, payment, invoices, job, subLock, payLock, due, cut>>

Status == {"trial", "active", "read_only", "suspended", "archived"}
ASSUME AdjustAssumption == AdjustTo \subseteq Status \cup {None}

SubType == [status : Status, end : Nat, readOnly : Nat \cup {None},
            suspended : Nat \cup {None}]

Init ==
  /\ day = 0
  /\ sub = [status |-> "trial", end |-> TrialDays, readOnly |-> None, suspended |-> None]
  /\ payment = [p \in Payment |-> "none"]
  /\ invoices = {}
  /\ job = [j \in Job |-> [pc |-> "idle", kind |-> None, pay |-> None,
                           old |-> None, new |-> None, from |-> None]]
  /\ subLock = None
  /\ payLock = [p \in Payment |-> None]
  /\ due = 0
  /\ cut = {}

Tick ==
  /\ day < MaxDay
  /\ day' = day + 1
  /\ UNCHANGED <<sub, payment, invoices, job, subLock, payLock, due, cut>>

-----------------------------------------------------------------------------
\* Steps common to the transactions.
MayStart(j) == /\ job[j].pc = "idle"
               /\ Overlap \/ \A k \in Job : job[k].pc = "idle"

IdleJob == [pc |-> "idle", kind |-> None, pay |-> None,
            old |-> None, new |-> None, from |-> None]

\* What the UPDATE of a transaction makes of the row.
Written(old, new) ==
  [c \in DOMAIN new |-> IF new[c] = old[c] THEN sub[c] ELSE new[c]]

FlushSub(j) ==
  /\ job[j].pc = "computed"
  /\ subLock = None
  /\ subLock' = j
  /\ job' = [job EXCEPT ![j].pc = "flushed"]
  /\ UNCHANGED <<day, sub, payment, invoices, payLock, due, cut>>

-----------------------------------------------------------------------------
\* Payments.
Declare(p) ==
  /\ payment[p] = "none"
  /\ p \notin Manual
  /\ day <= LastAct
  /\ payment' = [payment EXCEPT ![p] = "declared"]
  /\ UNCHANGED <<day, sub, invoices, job, subLock, payLock, due, cut>>

\* Mutant: a payment is loaded for a decision whatever its status.
DecidableAny(p) == payment[p] # "none"

Decidable(p) == payment[p] = "declared"

\* _require_payment, then the test of its status.
LoadPayment(j, p, kind) ==
  /\ MayStart(j)
  /\ kind \in {"validate", "reject"}
  /\ Decidable(p)
  /\ day <= LastAct
  /\ job' = [job EXCEPT ![j] = [IdleJob EXCEPT !.pc = "loaded", !.kind = kind, !.pay = p]]
  /\ UNCHANGED <<day, sub, payment, invoices, subLock, payLock, due, cut>>

\* Mutant: the period starts on the day of the validation.
BaseToday == day

Base == IF sub.end > day THEN sub.end ELSE day

Renewed(p) == [status |-> "active", end |-> Base + Duration[p],
               readOnly |-> None, suspended |-> None]

\* _renew_subscription_and_invoice loads the subscription once the payment is
\* flushed; the UPDATE of the payment waits for its row lock.
LoadSub(j) ==
  /\ job[j].pc = "loaded"
  /\ job[j].kind = "validate"
  /\ payLock[job[j].pay] = None
  /\ payLock' = [payLock EXCEPT ![job[j].pay] = j]
  /\ job' = [job EXCEPT ![j].pc = "computed", ![j].old = sub,
                        ![j].new = Renewed(job[j].pay), ![j].from = Base]
  /\ UNCHANGED <<day, sub, payment, invoices, subLock, due, cut>>

\* record_manual inserts the payment, already validated.
LoadManual(j, p) ==
  /\ MayStart(j)
  /\ p \in Manual
  /\ payment[p] = "none"
  /\ payLock[p] = None
  /\ day <= LastAct
  /\ payLock' = [payLock EXCEPT ![p] = j]
  /\ job' = [job EXCEPT ![j] = [pc |-> "computed", kind |-> "validate", pay |-> p,
                                old |-> sub, new |-> Renewed(p), from |-> Base]]
  /\ UNCHANGED <<day, sub, payment, invoices, subLock, due, cut>>

CommitPayment(j) ==
  /\ job[j].pc = "flushed"
  /\ job[j].kind = "validate"
  /\ sub' = Written(job[j].old, job[j].new)
  /\ payment' = [payment EXCEPT ![job[j].pay] = "validated"]
  /\ invoices' = invoices \cup {[pay |-> job[j].pay, from |-> job[j].from,
                                 to |-> job[j].new.end]}
  /\ subLock' = None
  /\ payLock' = [payLock EXCEPT ![job[j].pay] = None]
  /\ job' = [job EXCEPT ![j] = IdleJob]
  /\ UNCHANGED <<day, due, cut>>

\* Mutant: a rejection writes a status that is not one of the four.
CommitRefused(j) ==
  /\ job[j].pc = "loaded"
  /\ job[j].kind = "reject"
  /\ payLock[job[j].pay] = None
  /\ payment' = [payment EXCEPT ![job[j].pay] = "refused"]
  /\ job' = [job EXCEPT ![j] = IdleJob]
  /\ UNCHANGED <<day, sub, invoices, subLock, payLock, due, cut>>

CommitReject(j) ==
  /\ job[j].pc = "loaded"
  /\ job[j].kind = "reject"
  /\ payLock[job[j].pay] = None
  /\ payment' = [payment EXCEPT ![job[j].pay] = "rejected"]
  /\ job' = [job EXCEPT ![j] = IdleJob]
  /\ UNCHANGED <<day, sub, invoices, subLock, payLock, due, cut>>

-----------------------------------------------------------------------------
\* run_lifecycle_scan and admin_adjust.
Since(date) == IF date = None THEN day ELSE date

\* Mutant: the grace period is counted from the day of the scan.
AdvancedWithoutGrace ==
  CASE sub.status \in {"trial", "active"} /\ day > sub.end ->
         [sub EXCEPT !.status = "suspended", !.suspended = day]
    [] sub.status = "suspended" /\ day > Since(sub.suspended) + RetentionDays ->
         [sub EXCEPT !.status = "archived"]
    [] OTHER -> sub

Advanced ==
  CASE sub.status \in {"trial", "active"} /\ day > sub.end ->
         [sub EXCEPT !.status = "read_only", !.readOnly = day]
    [] sub.status = "read_only" /\ day > Since(sub.readOnly) + GraceDays ->
         [sub EXCEPT !.status = "suspended", !.suspended = day]
    [] sub.status = "suspended" /\ day > Since(sub.suspended) + RetentionDays ->
         [sub EXCEPT !.status = "archived"]
    [] OTHER -> sub

\* A scan that changes nothing issues no UPDATE.
LoadScan(j) ==
  /\ MayStart(j)
  /\ Advanced # sub
  /\ job' = [job EXCEPT ![j] = [IdleJob EXCEPT !.pc = "computed", !.kind = "scan",
                                               !.old = sub, !.new = Advanced]]
  /\ UNCHANGED <<day, sub, payment, invoices, subLock, payLock, due, cut>>

\* admin_adjust: a new status forgets the dates of the others, a new end alone
\* keeps the status and its dates.
Adjusted(status, end) ==
  IF status = None THEN [sub EXCEPT !.end = end]
  ELSE [status |-> status, end |-> end,
        readOnly |-> IF status # "read_only" THEN None ELSE sub.readOnly,
        suspended |-> IF status # "suspended" THEN None ELSE sub.suspended]

\* The end is kept, prolonged or cut short.
Ends == {sub.end} \cup 0..LastAct

LoadAdjust(j, status, end) ==
  /\ MayStart(j)
  /\ day <= LastAct
  /\ Adjusted(status, end) # sub
  /\ job' = [job EXCEPT ![j] = [IdleJob EXCEPT !.pc = "computed", !.kind = "adjust",
                                               !.old = sub, !.new = Adjusted(status, end)]]
  /\ UNCHANGED <<day, sub, payment, invoices, subLock, payLock, due, cut>>

\* What the transaction w adds to the history.
DueAfter(w) == IF w.kind = "scan" /\ w.old.status \in {"trial", "active"} THEN w.old.end ELSE due
CutAfter(w) == IF w.kind = "adjust" /\ w.new.end # w.old.end
               THEN cut \cup {i.pay : i \in {k \in invoices : k.to > w.new.end}}
               ELSE cut

CommitSub(j) ==
  /\ job[j].pc = "flushed"
  /\ job[j].kind \in {"scan", "adjust"}
  /\ sub' = Written(job[j].old, job[j].new)
  /\ due' = DueAfter(job[j]) /\ cut' = CutAfter(job[j])
  /\ subLock' = None
  /\ job' = [job EXCEPT ![j] = IdleJob]
  /\ UNCHANGED <<day, payment, invoices, payLock>>

\* An exception or the death of the process.
Rollback(j) ==
  /\ job[j].pc # "idle"
  /\ subLock' = IF subLock = j THEN None ELSE subLock
  /\ payLock' = [p \in Payment |-> IF payLock[p] = j THEN None ELSE payLock[p]]
  /\ job' = [job EXCEPT ![j] = IdleJob]
  /\ UNCHANGED <<day, sub, payment, invoices, due, cut>>

Next == \/ Tick
        \/ \E p \in Payment : Declare(p)
        \/ \E j \in Job : \/ \E p \in Payment, k \in {"validate", "reject"} : LoadPayment(j, p, k)
                          \/ \E p \in Payment : LoadManual(j, p)
                          \/ LoadSub(j) \/ FlushSub(j) \/ CommitPayment(j) \/ CommitReject(j)
                          \/ LoadScan(j)
                          \/ \E s \in AdjustTo, e \in Ends : LoadAdjust(j, s, e)
                          \/ CommitSub(j) \/ Rollback(j)

Spec == Init /\ [][Next]_vars

\* Time passes and a transaction that has begun goes on.  Nothing starts the
\* lifecycle scan: the publisher runs it by hand.
Fairness == /\ WF_vars(Tick)
            /\ \A j \in Job : /\ WF_vars(LoadSub(j)) /\ WF_vars(FlushSub(j))
                              /\ WF_vars(CommitPayment(j)) /\ WF_vars(CommitReject(j))
                              /\ WF_vars(CommitSub(j))

FairSpec == Spec /\ Fairness
-----------------------------------------------------------------------------
TypeOK ==
  /\ day \in 0..MaxDay
  /\ sub \in SubType
  /\ payment \in [Payment -> {"none", "declared", "validated", "rejected"}]
  /\ invoices \subseteq [pay : Payment, from : Nat, to : Nat]
  /\ job \in [Job -> [pc : {"idle", "loaded", "computed", "flushed"},
                      kind : {None, "validate", "reject", "scan", "adjust"},
                      pay : Payment \cup {None}, old : SubType \cup {None},
                      new : SubType \cup {None}, from : Nat \cup {None}]]
  /\ subLock \in Job \cup {None}
  /\ payLock \in [Payment -> Job \cup {None}]
  /\ due \in Nat /\ cut \subseteq Payment

\* No paid day is lost: the periods of two invoices do not overlap, and the
\* subscription runs to the end of each, but for those the publisher cut short.
PaidDaysAreKept ==
  LET kept == {i \in invoices : i.pay \notin cut}
  IN \A i \in kept :
       /\ i.to <= sub.end
       /\ \A k \in kept \ {i} : i.to <= k.from \/ k.to <= i.from

\* A payment is decided once: validated and invoiced, or rejected.
PaymentsAreDecidedOnce ==
  \A p \in Payment : Cardinality({i \in invoices : i.pay = p})
                       = (IF payment[p] = "validated" THEN 1 ELSE 0)

\* Nobody restricted by hand, an organization is read only after an end that ran
\* out, suspended after the grace period that followed it, archived after the
\* retention, and the date the next step counts from is recorded.  The end may
\* have been prolonged since: that alone does not reopen it.
StatusFollowsDates ==
  /\ sub.status = "read_only" => sub.readOnly \in (due + 1)..day
  /\ sub.status = "suspended" => sub.suspended \in (due + GraceDays + 1)..day
  /\ sub.status = "archived" => day > due + GraceDays + RetentionDays

\* "lecture seule, suspendu, archivé, selon le temps écoulé depuis l'échéance": no
\* organization is restricted further while the period it was prolonged to runs.
RestrictionsFollowTheEnd ==
  [][sub'.status # sub.status /\ sub'.status \in {"read_only", "suspended", "archived"}
       => day > sub.end]_vars

\* "À l'expiration, l'espace passe en lecture seule": a trial or a paid period that
\* ran out is followed by the restriction, or by a longer period.
ExpiryRestricts ==
  (sub.status \in {"trial", "active"} /\ day > sub.end)
    ~> (sub.status = "read_only" \/ day <= sub.end)
=============================================================================
