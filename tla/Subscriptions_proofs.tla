------------------------- MODULE Subscriptions_proofs -------------------------
(***************************************************************************)
(* Proofs about Subscriptions, for every set of payments and of durations,   *)
(* every trial, grace and retention.                                         *)
(*                                                                         *)
(* Types hold whatever overlaps.  The rest is about transactions one at a    *)
(* time: the row a transaction loaded is then the row it writes over, and    *)
(* only the day may have changed in between.                                 *)
(***************************************************************************)
EXTENDS Subscriptions, FiniteSetTheorems, TLAPS

\* What a transaction w has loaded, by how far it is.
HasLoaded(w) ==
  /\ w.pc # "idle" /\ w.kind \in {"validate", "reject"} => w.pay \in Payment
  /\ w.pc \in {"computed", "flushed"} =>
       /\ w.old \in SubType /\ w.new \in SubType
       /\ w.kind = "validate" => w.from \in Nat

Loaded == \A j \in Job : HasLoaded(job[j])

Alone == \A j, k \in Job : job[j].pc # "idle" /\ job[k].pc # "idle" => j = k

\* A transaction w works on the row s as it is, on a payment that nobody decided, and,
\* but for the publisher's, is about to write a period after the ones before.
WorksOn(w, s, decisions) ==
  /\ w.pc \in {"computed", "flushed"} =>
       /\ w.old = s
       /\ w.kind # "adjust" => s.end <= w.new.end
       /\ w.kind = "validate" => s.end <= w.from /\ w.from <= w.new.end
  /\ w.pc # "idle" /\ w.kind \in {"validate", "reject"} =>
       \/ decisions[w.pay] = "declared"
       \/ decisions[w.pay] = "none" /\ w.pay \in Manual

InProgress == \A j \in Job : WorksOn(job[j], sub, payment)

\* A payment is validated when it has its invoice, the only one.
Invoiced ==
  /\ \A i, k \in invoices : i.pay = k.pay => i = k
  /\ \A p \in Payment : payment[p] = "validated" <=> \E i \in invoices : i.pay = p

SerialInv == TypeOK /\ Loaded /\ Alone /\ InProgress /\ Invoiced /\ PaidDaysAreKept

\* The dates that a row s has for the status it shows, when the end d has run out.
Dated(s, d, today) ==
  /\ s.status = "read_only" => s.readOnly \in Int /\ d < s.readOnly /\ s.readOnly <= today
  /\ s.status = "suspended" => /\ s.suspended \in Int
                               /\ d + GraceDays < s.suspended /\ s.suspended <= today
  /\ s.status = "archived" => d + GraceDays + RetentionDays < today

DatedInv ==
  /\ SerialInv
  /\ Dated(sub, due, day)
  /\ \A j \in Job : job[j].pc \in {"computed", "flushed"} =>
       /\ Dated(job[j].new, DueAfter(job[j]), day)
       /\ job[j].kind = "validate" => job[j].new.status = "active"

Serial == ~Overlap

\* The publisher reactivates, prolongs and cuts short, but restricts nobody by hand.
LeftToTheDates == AdjustTo \subseteq {"trial", "active", None}

-----------------------------------------------------------------------------
JobType == [pc : {"idle", "loaded", "computed", "flushed"},
            kind : {None, "validate", "reject", "scan", "adjust"},
            pay : Payment \cup {None}, old : SubType \cup {None},
            new : SubType \cup {None}, from : Nat \cup {None}]

LEMMA WrittenIsARow ==
  ASSUME sub \in SubType, NEW old \in SubType, NEW new \in SubType
  PROVE  /\ Written(old, new) \in SubType
         /\ old = sub => Written(old, new) = new
BY DEF Written, SubType

LEMMA RenewedIsARow ==
  ASSUME TypeOK, NEW p \in Payment
  PROVE  Renewed(p) \in SubType /\ Base \in Nat /\ sub.end <= Base
         /\ Renewed(p).end = Base + Duration[p] /\ Duration[p] \in Nat
         /\ Renewed(p).status = "active"
BY ConstantsAssumption DEF TypeOK, Renewed, Base, SubType, Status

LEMMA AdvancedIsARow ==
  ASSUME TypeOK
  PROVE  Advanced \in SubType /\ Advanced.end = sub.end
<1>1. sub \in SubType /\ day \in Nat
  BY ConstantsAssumption DEF TypeOK
<1>2. \/ Advanced = sub
      \/ Advanced = [sub EXCEPT !.status = "read_only", !.readOnly = day]
      \/ Advanced = [sub EXCEPT !.status = "suspended", !.suspended = day]
      \/ Advanced = [sub EXCEPT !.status = "archived"]
  BY DEF Advanced
<1>. QED
  BY <1>1, <1>2 DEF SubType, Status

LEMMA AdjustedIsARow ==
  ASSUME TypeOK, NEW s \in AdjustTo, NEW e \in Ends
  PROVE  /\ Adjusted(s, e) \in SubType /\ Adjusted(s, e).end = e
         /\ s = None => /\ Adjusted(s, e).status = sub.status
                        /\ Adjusted(s, e).readOnly = sub.readOnly
                        /\ Adjusted(s, e).suspended = sub.suspended
         /\ s # None => Adjusted(s, e).status = s
<1>1. sub \in SubType /\ e \in Nat
  BY ConstantsAssumption DEF TypeOK, Ends, SubType
<1>2. CASE s = None
  BY <1>1, <1>2 DEF Adjusted, SubType
<1>3. CASE s # None
  BY <1>1, <1>3, AdjustAssumption DEF Adjusted, SubType
<1>. QED
  BY <1>2, <1>3

-----------------------------------------------------------------------------
LEMMA TypeStep == TypeOK /\ Loaded /\ [Next]_vars => TypeOK' /\ Loaded'
<1> SUFFICES ASSUME TypeOK, Loaded, [Next]_vars PROVE TypeOK' /\ Loaded'
  OBVIOUS
<1> DEFINE Typed == /\ day \in 0..MaxDay /\ sub \in SubType
                    /\ payment \in [Payment -> {"none", "declared", "validated", "rejected"}]
                    /\ invoices \subseteq [pay : Payment, from : Nat, to : Nat]
                    /\ subLock \in Job \cup {None} /\ payLock \in [Payment -> Job \cup {None}]
                    /\ due \in Nat /\ cut \subseteq Payment
<1>0. Typed /\ job \in [Job -> JobType] /\ \A j \in Job : HasLoaded(job[j])
  BY DEF TypeOK, JobType, Loaded
<1>1. ASSUME NEW j \in Job, NEW w \in JobType, HasLoaded(w), job' = [job EXCEPT ![j] = w], Typed'
      PROVE  TypeOK' /\ Loaded'
  <2>1. job' \in [Job -> JobType] /\ \A k \in Job : job'[k] = job[k] \/ job'[k] = w
    BY <1>0, <1>1
  <2>2. Loaded'
    BY <1>0, <1>1, <2>1 DEF Loaded, HasLoaded
  <2>. QED
    BY <1>1, <2>1, <2>2 DEF TypeOK, JobType
<1>2. ASSUME Typed', UNCHANGED job PROVE TypeOK' /\ Loaded'
  BY <1>2 DEF TypeOK, Loaded, HasLoaded
<1>3. IdleJob \in JobType /\ HasLoaded(IdleJob)
  BY DEF IdleJob, JobType, HasLoaded
<1>4. CASE Tick
  BY <1>0, <1>2, <1>4, ConstantsAssumption DEF Tick
<1>5. ASSUME NEW p \in Payment, Declare(p) PROVE TypeOK' /\ Loaded'
  BY <1>0, <1>2, <1>5 DEF Declare
<1>6. ASSUME NEW j \in Job, NEW p \in Payment, NEW k \in {"validate", "reject"}, LoadPayment(j, p, k)
      PROVE  TypeOK' /\ Loaded'
  <2> DEFINE w == [IdleJob EXCEPT !.pc = "loaded", !.kind = k, !.pay = p]
  <2>1. w \in JobType /\ HasLoaded(w)
    BY DEF IdleJob, JobType, HasLoaded
  <2>2. Typed' /\ job' = [job EXCEPT ![j] = w]
    BY <1>0, <1>6 DEF LoadPayment
  <2>. QED
    BY <1>1, <2>1, <2>2
<1>7. ASSUME NEW j \in Job, NEW p \in Payment, LoadManual(j, p) PROVE TypeOK' /\ Loaded'
  <2> DEFINE w == [pc |-> "computed", kind |-> "validate", pay |-> p,
                   old |-> sub, new |-> Renewed(p), from |-> Base]
  <2>1. w \in JobType /\ HasLoaded(w)
    BY <1>0, RenewedIsARow DEF JobType, HasLoaded
  <2>2. Typed' /\ job' = [job EXCEPT ![j] = w]
    BY <1>0, <1>7 DEF LoadManual
  <2>. QED
    BY <1>1, <2>1, <2>2
<1>8. ASSUME NEW j \in Job, LoadSub(j) PROVE TypeOK' /\ Loaded'
  <2>1. job[j] \in JobType /\ job[j].pay \in Payment /\ job[j].kind = "validate"
    BY <1>0, <1>8 DEF LoadSub, HasLoaded
  <2> DEFINE w == [job[j] EXCEPT !.pc = "computed", !.old = sub, !.new = Renewed(job[j].pay), !.from = Base]
  <2>2. w \in JobType /\ HasLoaded(w)
    BY <1>0, <2>1, RenewedIsARow DEF JobType, HasLoaded
  <2>3. Typed' /\ job' = [job EXCEPT ![j] = w]
    BY <1>0, <1>8, <2>1 DEF LoadSub, JobType
  <2>. QED
    BY <1>1, <2>2, <2>3
<1>9. ASSUME NEW j \in Job, FlushSub(j) PROVE TypeOK' /\ Loaded'
  <2> DEFINE w == [job[j] EXCEPT !.pc = "flushed"]
  <2>1. w \in JobType /\ HasLoaded(w)
    BY <1>0, <1>9 DEF FlushSub, JobType, HasLoaded
  <2>2. Typed' /\ job' = [job EXCEPT ![j] = w]
    BY <1>0, <1>9 DEF FlushSub
  <2>. QED
    BY <1>1, <2>1, <2>2
<1>10. ASSUME NEW j \in Job, CommitPayment(j) PROVE TypeOK' /\ Loaded'
  <2>1. /\ job[j].pay \in Payment /\ job[j].from \in Nat
        /\ job[j].old \in SubType /\ job[j].new \in SubType /\ job[j].new.end \in Nat
    BY <1>0, <1>10 DEF CommitPayment, HasLoaded, SubType
  <2>2. Written(job[j].old, job[j].new) \in SubType
    BY <1>0, <2>1, WrittenIsARow
  <2>3. Typed'
    BY <1>0, <1>10, <2>1, <2>2 DEF CommitPayment
  <2>. QED
    BY <1>1, <1>3, <1>10, <2>3 DEF CommitPayment
<1>11. ASSUME NEW j \in Job, CommitSub(j) PROVE TypeOK' /\ Loaded'
  <2>1. job[j].old \in SubType /\ job[j].new \in SubType
    BY <1>0, <1>11 DEF CommitSub, HasLoaded
  <2>2. Written(job[j].old, job[j].new) \in SubType
    BY <1>0, <2>1, WrittenIsARow
  <2>3. due' \in Nat /\ cut' \subseteq Payment
    BY <1>0, <1>11, <2>1 DEF CommitSub, DueAfter, CutAfter, SubType
  <2>4. Typed'
    BY <1>0, <1>11, <2>2, <2>3 DEF CommitSub
  <2>. QED
    BY <1>1, <1>3, <1>11, <2>4 DEF CommitSub
<1>12. ASSUME NEW j \in Job, CommitReject(j) \/ Rollback(j) PROVE TypeOK' /\ Loaded'
  <2>1. Typed' /\ job' = [job EXCEPT ![j] = IdleJob]
    BY <1>0, <1>12 DEF CommitReject, Rollback
  <2>. QED
    BY <1>1, <1>3, <2>1
<1>13. ASSUME NEW j \in Job, LoadScan(j) PROVE TypeOK' /\ Loaded'
  <2> DEFINE w == [IdleJob EXCEPT !.pc = "computed", !.kind = "scan", !.old = sub, !.new = Advanced]
  <2>1. w \in JobType /\ HasLoaded(w)
    BY <1>0, AdvancedIsARow DEF IdleJob, JobType, HasLoaded
  <2>2. Typed' /\ job' = [job EXCEPT ![j] = w]
    BY <1>0, <1>13 DEF LoadScan
  <2>. QED
    BY <1>1, <2>1, <2>2
<1>14. ASSUME NEW j \in Job, NEW s \in AdjustTo, NEW e \in Ends,
              LoadAdjust(j, s, e)
       PROVE  TypeOK' /\ Loaded'
  <2> DEFINE w == [IdleJob EXCEPT !.pc = "computed", !.kind = "adjust", !.old = sub,
                                  !.new = Adjusted(s, e)]
  <2>1. w \in JobType /\ HasLoaded(w)
    BY <1>0, AdjustedIsARow DEF IdleJob, JobType, HasLoaded
  <2>2. Typed' /\ job' = [job EXCEPT ![j] = w]
    BY <1>0, <1>14 DEF LoadAdjust
  <2>. QED
    BY <1>1, <2>1, <2>2
<1>15. CASE UNCHANGED vars
  BY <1>0, <1>2, <1>15 DEF vars
<1>. QED
  BY <1>4, <1>5, <1>6, <1>7, <1>8, <1>9, <1>10, <1>11, <1>12, <1>13, <1>14, <1>15 DEF Next

-----------------------------------------------------------------------------
\* Transactions one at a time: the others are idle when one starts or goes on.
LEMMA OthersAreIdle ==
  ASSUME Serial, Alone, NEW j \in Job, MayStart(j) \/ job[j].pc # "idle"
  PROVE  \A k \in Job \ {j} : job[k].pc = "idle"
BY DEF Serial, Alone, MayStart

LEMMA SerialStep == Serial /\ SerialInv /\ [Next]_vars => SerialInv'
<1> SUFFICES ASSUME Serial, SerialInv, [Next]_vars PROVE SerialInv'
  OBVIOUS
<1> DEFINE Rest == Alone /\ InProgress /\ Invoiced /\ PaidDaysAreKept
<1>0. /\ sub \in SubType /\ sub.end \in Nat /\ day \in Nat /\ TypeOK /\ Loaded
      /\ job \in [Job -> JobType]
      /\ payment \in [Payment -> {"none", "declared", "validated", "rejected"}]
      /\ invoices \subseteq [pay : Payment, from : Nat, to : Nat]
      /\ Alone /\ InProgress /\ Invoiced /\ PaidDaysAreKept
  BY DEF SerialInv, TypeOK, SubType, JobType
<1>1. ASSUME NEW j \in Job, NEW w, MayStart(j) \/ job[j].pc # "idle",
             job' = [job EXCEPT ![j] = w], WorksOn(w, sub', payment')
      PROVE  Alone' /\ InProgress'
  <2>1. \A k \in Job \ {j} : job[k].pc = "idle" /\ job'[k] = job[k]
    BY <1>0, <1>1, OthersAreIdle
  <2>2. job'[j] = w
    BY <1>0, <1>1
  <2>. QED
    BY <1>1, <2>1, <2>2 DEF Alone, InProgress, WorksOn
<1>2. ASSUME UNCHANGED <<sub, payment, invoices, cut>> PROVE Invoiced' /\ PaidDaysAreKept'
  BY <1>0, <1>2 DEF Invoiced, PaidDaysAreKept
<1>3. WorksOn(IdleJob, sub', payment')
  BY DEF WorksOn, IdleJob
<1>4. ASSUME UNCHANGED <<sub, payment, invoices, cut, job>> PROVE Rest'
  BY <1>0, <1>2, <1>4 DEF Alone, InProgress, WorksOn
<1>5. ASSUME NEW p \in Payment, Declare(p) PROVE Rest'
  <2>1. /\ payment[p] = "none" /\ p \notin Manual /\ payment' = [payment EXCEPT ![p] = "declared"]
        /\ UNCHANGED <<sub, invoices, cut, job>>
    BY <1>5 DEF Declare
  <2>2. Alone' /\ PaidDaysAreKept'
    BY <1>0, <2>1 DEF Alone, PaidDaysAreKept
  <2>3. InProgress'
    BY <1>0, <2>1 DEF InProgress, WorksOn, Loaded, HasLoaded
  <2>4. Invoiced'
    BY <1>0, <2>1 DEF Invoiced
  <2>. QED
    BY <2>2, <2>3, <2>4
<1>6. ASSUME NEW j \in Job, NEW p \in Payment, NEW k \in {"validate", "reject"}, LoadPayment(j, p, k)
      PROVE  Rest'
  <2> DEFINE w == [IdleJob EXCEPT !.pc = "loaded", !.kind = k, !.pay = p]
  <2>1. MayStart(j) /\ job' = [job EXCEPT ![j] = w] /\ UNCHANGED <<sub, payment, invoices, cut>>
    BY <1>6 DEF LoadPayment
  <2>2. WorksOn(w, sub', payment')
    BY <1>6 DEF WorksOn, LoadPayment, Decidable, IdleJob
  <2>. QED
    BY <1>1, <1>2, <2>1, <2>2
<1>7. ASSUME NEW j \in Job, NEW p \in Payment, LoadManual(j, p) PROVE Rest'
  <2> DEFINE w == [pc |-> "computed", kind |-> "validate", pay |-> p,
                   old |-> sub, new |-> Renewed(p), from |-> Base]
  <2>1. MayStart(j) /\ job' = [job EXCEPT ![j] = w] /\ UNCHANGED <<sub, payment, invoices, cut>>
    BY <1>7 DEF LoadManual
  <2>2. WorksOn(w, sub', payment')
    <3>1. sub.end <= Base /\ Base <= Renewed(p).end /\ sub.end <= Renewed(p).end
      BY <1>0, RenewedIsARow
    <3>. QED
      BY <1>7, <2>1, <3>1 DEF WorksOn, LoadManual
  <2>. QED
    BY <1>1, <1>2, <2>1, <2>2
<1>8. ASSUME NEW j \in Job, LoadSub(j) PROVE Rest'
  <2> DEFINE w == [job[j] EXCEPT !.pc = "computed", !.old = sub, !.new = Renewed(job[j].pay), !.from = Base]
  <2>1. /\ job[j].pc = "loaded" /\ job' = [job EXCEPT ![j] = w] /\ UNCHANGED <<sub, payment, invoices, cut>>
        /\ job[j] \in JobType /\ job[j].kind = "validate" /\ job[j].pay \in Payment
    BY <1>0, <1>8 DEF LoadSub, JobType, Loaded, HasLoaded
  <2>2. WorksOn(w, sub', payment')
    <3>1. sub.end <= Base /\ Base <= Renewed(job[j].pay).end /\ sub.end <= Renewed(job[j].pay).end
      BY <1>0, <2>1, RenewedIsARow
    <3>2. /\ w.pc = "computed" /\ w.old = sub /\ w.new = Renewed(job[j].pay) /\ w.from = Base
          /\ w.kind = job[j].kind /\ w.pay = job[j].pay
      BY <2>1 DEF JobType
    <3>. QED
      BY <1>0, <2>1, <3>1, <3>2 DEF WorksOn, InProgress
  <2>. QED
    BY <1>1, <1>2, <2>1, <2>2
<1>9. ASSUME NEW j \in Job, FlushSub(j) PROVE Rest'
  <2> DEFINE w == [job[j] EXCEPT !.pc = "flushed"]
  <2>1. /\ job[j].pc = "computed" /\ job' = [job EXCEPT ![j] = w] /\ UNCHANGED <<sub, payment, invoices, cut>>
        /\ job[j] \in JobType
    BY <1>0, <1>9 DEF FlushSub
  <2>2. WorksOn(w, sub', payment')
    BY <1>0, <2>1 DEF WorksOn, InProgress, JobType
  <2>. QED
    BY <1>1, <1>2, <2>1, <2>2
<1>10. ASSUME NEW j \in Job, job[j].pc = "flushed", sub' = Written(job[j].old, job[j].new)
       PROVE  /\ sub' = job[j].new /\ sub'.end \in Nat /\ job[j].old = sub
              /\ job[j].kind # "adjust" => sub.end <= sub'.end
  <2>1. /\ job[j].old = sub /\ job[j].new \in SubType
        /\ job[j].kind # "adjust" => sub.end <= job[j].new.end
        /\ job[j].new.end \in Nat
    BY <1>0, <1>10 DEF InProgress, WorksOn, Loaded, HasLoaded, SubType
  <2>2. sub' = job[j].new
    BY <1>0, <1>10, <2>1, WrittenIsARow
  <2>. QED
    BY <2>1, <2>2
<1>11. ASSUME NEW j \in Job, CommitPayment(j) PROVE Rest'
  <2> DEFINE p == job[j].pay
             i == [pay |-> p, from |-> job[j].from, to |-> job[j].new.end]
  <2>1. /\ job[j].pc = "flushed" /\ job' = [job EXCEPT ![j] = IdleJob]
        /\ payment' = [payment EXCEPT ![p] = "validated"] /\ invoices' = invoices \cup {i}
        /\ sub' = Written(job[j].old, job[j].new) /\ job[j].kind = "validate" /\ cut' = cut
    BY <1>11 DEF CommitPayment
  <2>2. /\ p \in Payment /\ payment[p] # "validated" /\ job[j].from \in Nat
        /\ sub.end <= job[j].from /\ job[j].from <= job[j].new.end
    BY <1>0, <2>1 DEF InProgress, WorksOn, Loaded, HasLoaded
  <2>3. sub' = job[j].new /\ sub.end <= sub'.end /\ sub'.end \in Nat
    BY <1>10, <2>1
  <2>4. Alone' /\ InProgress'
    BY <1>1, <1>3, <2>1
  <2>5. Invoiced'
    <3>1. \A k \in invoices : k.pay # p
      BY <1>0, <2>2 DEF Invoiced
    <3>2. i.pay = p /\ \A k \in invoices' : k \in invoices \/ k = i
      BY <2>1
    <3>3. ASSUME NEW k \in invoices', NEW l \in invoices', k.pay = l.pay PROVE k = l
      BY <1>0, <3>1, <3>2, <3>3 DEF Invoiced
    <3>4. ASSUME NEW q \in Payment
          PROVE  payment'[q] = "validated" <=> \E k \in invoices' : k.pay = q
      <4>1. CASE q = p
        <5>1. payment'[q] = "validated" /\ i \in invoices' /\ i.pay = q
          BY <1>0, <2>1, <2>2, <4>1
        <5>. QED
          BY <5>1
      <4>2. CASE q # p
        <5>1. payment'[q] = payment[q]
          BY <1>0, <2>1, <2>2, <4>2
        <5>2. (\E k \in invoices' : k.pay = q) <=> (\E k \in invoices : k.pay = q)
          BY <2>1, <3>2, <4>2
        <5>. QED
          BY <1>0, <5>1, <5>2 DEF Invoiced
      <4>. QED
        BY <4>1, <4>2
    <3>. QED
      BY <3>3, <3>4 DEF Invoiced
  <2>6. PaidDaysAreKept'
    <3> DEFINE kept == {k \in invoices : k.pay \notin cut}
               after == {k \in invoices' : k.pay \notin cut'}
    <3>1. \A k \in kept : k.to \in Nat /\ k.from \in Nat /\ k.to <= sub.end
      BY <1>0 DEF PaidDaysAreKept
    <3>2. \A k \in after : k \in kept \/ k = i
      BY <2>1
    <3>3. \A k \in after : k.to <= sub'.end
      BY <2>1, <2>2, <2>3, <3>1, <3>2, <1>0
    <3>4. \A k \in kept : k.to <= i.from
      BY <1>0, <2>2, <3>1
    <3>5. \A k \in after, l \in after : k # l => k.to <= l.from \/ l.to <= k.from
      BY <1>0, <3>2, <3>4 DEF PaidDaysAreKept
    <3>. QED
      BY <3>3, <3>5 DEF PaidDaysAreKept
  <2>. QED
    BY <2>4, <2>5, <2>6
<1>12. ASSUME NEW j \in Job, CommitSub(j) PROVE Rest'
  <2> DEFINE kept == {k \in invoices : k.pay \notin cut}
             after == {k \in invoices' : k.pay \notin cut'}
  <2>1. /\ job[j].pc = "flushed" /\ job' = [job EXCEPT ![j] = IdleJob]
        /\ sub' = Written(job[j].old, job[j].new) /\ UNCHANGED <<payment, invoices>>
        /\ job[j].kind \in {"scan", "adjust"} /\ cut' = CutAfter(job[j])
    BY <1>12 DEF CommitSub
  <2>2. /\ sub' = job[j].new /\ sub'.end \in Nat /\ job[j].old = sub
        /\ job[j].kind # "adjust" => sub.end <= sub'.end
    BY <1>10, <2>1
  <2>3. cut \subseteq cut' /\ after \subseteq kept
    BY <2>1 DEF CutAfter
  <2>4. \A k \in kept : k.to \in Nat /\ k.to <= sub.end
    BY <1>0 DEF PaidDaysAreKept
  \* What is cut short is not kept any more.
  <2>5. \A k \in after : k.to <= sub'.end
    <3>1. CASE sub.end <= sub'.end
      BY <1>0, <2>2, <2>3, <2>4, <3>1
    <3>2. CASE ~(sub.end <= sub'.end)
      <4>1. job[j].kind = "adjust" /\ sub'.end # sub.end
        BY <1>0, <2>1, <2>2, <3>2
      <4>2. cut' = cut \cup {k.pay : k \in {l \in invoices : l.to > sub'.end}}
        BY <2>1, <2>2, <4>1 DEF CutAfter
      <4>3. \A k \in after : ~(k.to > sub'.end)
        BY <2>1, <4>2
      <4>. QED
        BY <2>2, <2>3, <2>4, <4>3
    <3>. QED
      BY <3>1, <3>2
  <2>6. PaidDaysAreKept'
    BY <1>0, <2>3, <2>5 DEF PaidDaysAreKept
  <2>7. Invoiced'
    BY <1>0, <2>1 DEF Invoiced
  <2>. QED
    BY <1>1, <1>3, <2>1, <2>6, <2>7
<1>13. ASSUME NEW j \in Job, CommitReject(j) PROVE Rest'
  <2>1. /\ job[j].pc = "loaded" /\ job[j].kind = "reject" /\ job' = [job EXCEPT ![j] = IdleJob]
        /\ payment' = [payment EXCEPT ![job[j].pay] = "rejected"] /\ UNCHANGED <<sub, invoices, cut>>
    BY <1>13 DEF CommitReject
  <2>2. job[j].pay \in Payment /\ payment[job[j].pay] # "validated"
    BY <1>0, <2>1 DEF InProgress, WorksOn, Loaded, HasLoaded
  <2>3. Invoiced' /\ PaidDaysAreKept'
    BY <1>0, <2>1, <2>2 DEF Invoiced, PaidDaysAreKept
  <2>. QED
    BY <1>1, <1>3, <2>1, <2>3
<1>14. ASSUME NEW j \in Job, Rollback(j) PROVE Rest'
  BY <1>1, <1>2, <1>3, <1>14 DEF Rollback
<1>15. ASSUME NEW j \in Job, LoadScan(j) PROVE Rest'
  <2> DEFINE w == [IdleJob EXCEPT !.pc = "computed", !.kind = "scan", !.old = sub, !.new = Advanced]
  <2>1. MayStart(j) /\ job' = [job EXCEPT ![j] = w] /\ UNCHANGED <<sub, payment, invoices, cut>>
    BY <1>15 DEF LoadScan
  <2>2. WorksOn(w, sub', payment')
    BY <1>0, <2>1, AdvancedIsARow DEF WorksOn, IdleJob
  <2>. QED
    BY <1>1, <1>2, <2>1, <2>2
<1>16. ASSUME NEW j \in Job, NEW s \in AdjustTo, NEW e \in Ends,
              LoadAdjust(j, s, e)
       PROVE  Rest'
  <2> DEFINE w == [IdleJob EXCEPT !.pc = "computed", !.kind = "adjust", !.old = sub,
                                  !.new = Adjusted(s, e)]
  <2>1. MayStart(j) /\ job' = [job EXCEPT ![j] = w] /\ UNCHANGED <<sub, payment, invoices, cut>>
    BY <1>16 DEF LoadAdjust
  <2>2. WorksOn(w, sub', payment')
    BY <1>0, <2>1, AdjustedIsARow DEF WorksOn, IdleJob
  <2>. QED
    BY <1>1, <1>2, <2>1, <2>2
<1>17. Rest'
  BY <1>4, <1>5, <1>6, <1>7, <1>8, <1>9, <1>11, <1>12, <1>13, <1>14, <1>15, <1>16
     DEF Next, Tick, vars
<1>. QED
  BY <1>0, <1>17, TypeStep DEF SerialInv

LEMMA SerialInit == Init => SerialInv
BY ConstantsAssumption
   DEF Init, SerialInv, TypeOK, Loaded, HasLoaded, Alone, InProgress, WorksOn, Invoiced,
       PaidDaysAreKept, SubType, Status

-----------------------------------------------------------------------------
\* The lifecycle only follows the dates.
LEMMA AdvancedIsDated ==
  ASSUME TypeOK, Dated(sub, due, day)
  PROVE  Dated(Advanced, IF sub.status \in {"trial", "active"} THEN sub.end ELSE due, day)
<1>1. /\ sub \in SubType /\ sub.end \in Nat /\ day \in Nat /\ due \in Nat
      /\ GraceDays \in Nat /\ RetentionDays \in Nat
  BY ConstantsAssumption DEF TypeOK, SubType
<1>3. CASE sub.status \in {"trial", "active"} /\ day > sub.end
  <2>1. Advanced = [sub EXCEPT !.status = "read_only", !.readOnly = day]
    BY <1>3 DEF Advanced
  <2>. QED
    BY <1>1, <1>3, <2>1 DEF Dated, SubType
<1>4. CASE sub.status = "read_only" /\ day > Since(sub.readOnly) + GraceDays
  <2>1. Advanced = [sub EXCEPT !.status = "suspended", !.suspended = day]
    BY <1>4 DEF Advanced
  <2>2. Since(sub.readOnly) = sub.readOnly
    BY <1>4, ConstantsAssumption DEF Since, Dated
  <2>. QED
    BY <1>1, <1>4, <2>1, <2>2 DEF Dated, SubType
<1>5. CASE sub.status = "suspended" /\ day > Since(sub.suspended) + RetentionDays
  <2>1. Advanced = [sub EXCEPT !.status = "archived"]
    BY <1>5 DEF Advanced
  <2>2. Since(sub.suspended) = sub.suspended
    BY <1>5, ConstantsAssumption DEF Since, Dated
  <2>. QED
    BY <1>1, <1>5, <2>1, <2>2 DEF Dated, SubType
<1>6. CASE Advanced = sub
  BY <1>6 DEF Dated
<1>. QED
  BY <1>3, <1>4, <1>5, <1>6 DEF Advanced

LEMMA LaterIsDated ==
  ASSUME TypeOK, NEW s \in SubType, NEW d \in Nat, Dated(s, d, day), day' \in Nat, day <= day'
  PROVE  Dated(s, d, day')
BY ConstantsAssumption DEF Dated, TypeOK, SubType

LEMMA DatedStep == Serial /\ LeftToTheDates /\ DatedInv /\ [Next]_vars => DatedInv'
<1> SUFFICES ASSUME Serial, LeftToTheDates, DatedInv, [Next]_vars PROVE DatedInv'
  OBVIOUS
<1> DEFINE WillBe(w) == w.pc \in {"computed", "flushed"} =>
                          /\ Dated(w.new, DueAfter(w), day)
                          /\ w.kind = "validate" => w.new.status = "active"
<1>0. /\ SerialInv /\ TypeOK /\ Loaded /\ InProgress /\ sub \in SubType /\ day \in Nat
      /\ job \in [Job -> JobType] /\ Dated(sub, due, day) /\ due \in Nat
      /\ \A j \in Job : WillBe(job[j])
      /\ \A j \in Job : job[j].pc \in {"computed", "flushed"} =>
           job[j].new \in SubType /\ job[j].old = sub /\ job[j].old \in SubType
  BY DEF DatedInv, SerialInv, TypeOK, JobType, Loaded, HasLoaded, InProgress, WorksOn
<1>1. ASSUME Dated(sub', due', day'), \A j \in Job : WillBe(job[j])' PROVE DatedInv'
  BY <1>0, <1>1, SerialStep DEF DatedInv
<1>2. ASSUME NEW j \in Job, NEW w, job' = [job EXCEPT ![j] = w], UNCHANGED <<sub, day, due>>, WillBe(w)
      PROVE  DatedInv'
  <2>1. \A k \in Job : job'[k] = job[k] \/ job'[k] = w
    BY <1>0, <1>2
  <2>2. \A k \in Job : WillBe(job[k])'
    BY <1>0, <1>2, <2>1 DEF DueAfter
  <2>. QED
    BY <1>0, <1>1, <1>2, <2>2
<1>3. CASE Tick
  <2>1. day' \in Nat /\ day <= day' /\ UNCHANGED <<sub, due, job>>
    BY <1>0, <1>3 DEF Tick
  <2>2. \A j \in Job : job[j].pc \in {"computed", "flushed"} => DueAfter(job[j]) \in Nat
    BY <1>0 DEF DueAfter, SubType
  <2>3. \A j \in Job : WillBe(job[j])'
    <3> SUFFICES ASSUME NEW j \in Job, job[j].pc \in {"computed", "flushed"}
                 PROVE  Dated(job[j].new, DueAfter(job[j]), day')
      BY <1>0, <2>1 DEF DueAfter
    <3>. QED
      BY <1>0, <2>1, <2>2, LaterIsDated
  <2>. QED
    BY <1>0, <1>1, <2>1, <2>3, LaterIsDated
<1>4. ASSUME NEW p \in Payment, Declare(p) PROVE DatedInv'
  BY <1>0, <1>1, <1>4 DEF Declare, DueAfter
<1>5. ASSUME NEW j \in Job, NEW p \in Payment, NEW k \in {"validate", "reject"}, LoadPayment(j, p, k)
      PROVE  DatedInv'
  BY <1>2, <1>5 DEF LoadPayment, IdleJob
<1>6. ASSUME NEW j \in Job, NEW p \in Payment, LoadManual(j, p) PROVE DatedInv'
  <2> DEFINE w == [pc |-> "computed", kind |-> "validate", pay |-> p,
                   old |-> sub, new |-> Renewed(p), from |-> Base]
  <2>1. WillBe(w)
    BY DEF Renewed, Dated
  <2>. QED
    BY <1>2, <1>6, <2>1 DEF LoadManual
<1>7. ASSUME NEW j \in Job, LoadSub(j) PROVE DatedInv'
  <2> DEFINE w == [job[j] EXCEPT !.pc = "computed", !.old = sub, !.new = Renewed(job[j].pay), !.from = Base]
  <2>1. job' = [job EXCEPT ![j] = w] /\ UNCHANGED <<sub, day, due>> /\ w.new = Renewed(job[j].pay)
    BY <1>0, <1>7 DEF LoadSub, JobType
  <2>2. WillBe(w)
    BY <2>1 DEF Renewed, Dated
  <2>. QED
    BY <1>2, <2>1, <2>2
<1>8. ASSUME NEW j \in Job, FlushSub(j) PROVE DatedInv'
  <2> DEFINE w == [job[j] EXCEPT !.pc = "flushed"]
  <2>1. /\ job' = [job EXCEPT ![j] = w] /\ UNCHANGED <<sub, day, due>> /\ job[j].pc = "computed"
        /\ w.new = job[j].new /\ w.old = job[j].old /\ w.kind = job[j].kind
    BY <1>0, <1>8 DEF FlushSub, JobType
  <2>2. WillBe(w)
    BY <1>0, <2>1 DEF DueAfter
  <2>. QED
    BY <1>2, <2>1, <2>2
<1>9. ASSUME NEW j \in Job, CommitPayment(j) \/ CommitSub(j) PROVE DatedInv'
  <2>1. /\ job[j].pc = "flushed" /\ job' = [job EXCEPT ![j] = IdleJob] /\ UNCHANGED day
        /\ sub' = Written(job[j].old, job[j].new)
    BY <1>9 DEF CommitPayment, CommitSub
  <2>2. sub' = job[j].new
    BY <1>0, <2>1, WrittenIsARow
  <2>3. Dated(sub', due', day')
    <3>1. CASE CommitPayment(j)
      BY <1>0, <2>1, <2>2, <3>1 DEF CommitPayment, Dated
    <3>2. CASE CommitSub(j)
      BY <1>0, <2>1, <2>2, <3>2 DEF CommitSub
    <3>. QED
      BY <1>9, <3>1, <3>2
  <2>4. \A k \in Job : job'[k].pc = "idle"
    <3>1. \A k \in Job \ {j} : job[k].pc = "idle"
      BY <2>1, OthersAreIdle, <1>0 DEF SerialInv
    <3>. QED
      BY <1>0, <2>1, <3>1 DEF IdleJob
  <2>. QED
    BY <1>1, <2>3, <2>4
<1>10. ASSUME NEW j \in Job, CommitReject(j) \/ Rollback(j) PROVE DatedInv'
  BY <1>2, <1>10 DEF CommitReject, Rollback, IdleJob
<1>11. ASSUME NEW j \in Job, LoadScan(j) PROVE DatedInv'
  <2> DEFINE w == [IdleJob EXCEPT !.pc = "computed", !.kind = "scan", !.old = sub, !.new = Advanced]
  <2>1. w.kind = "scan" /\ w.old = sub /\ w.new = Advanced
    BY DEF IdleJob
  <2>2. WillBe(w)
    BY <1>0, <2>1, AdvancedIsDated DEF DueAfter
  <2>. QED
    BY <1>2, <1>11, <2>2 DEF LoadScan
<1>12. ASSUME NEW j \in Job, NEW s \in AdjustTo, NEW e \in Ends, LoadAdjust(j, s, e)
       PROVE  DatedInv'
  <2> DEFINE w == [IdleJob EXCEPT !.pc = "computed", !.kind = "adjust", !.old = sub,
                                  !.new = Adjusted(s, e)]
  <2>1. w.kind = "adjust" /\ w.new = Adjusted(s, e)
    BY DEF IdleJob
  <2>2. Dated(Adjusted(s, e), due, day)
    <3>1. CASE s = None
      BY <1>0, <3>1, AdjustedIsARow DEF Dated
    <3>2. CASE s # None
      <4>1. Adjusted(s, e).status \in {"trial", "active"}
        BY <1>0, <3>2, AdjustedIsARow DEF LeftToTheDates
      <4>. QED
        BY <4>1 DEF Dated
    <3>. QED
      BY <3>1, <3>2
  <2>3. WillBe(w)
    BY <2>1, <2>2 DEF DueAfter
  <2>. QED
    BY <1>2, <1>12, <2>3 DEF LoadAdjust
<1>13. CASE UNCHANGED vars
  BY <1>0, <1>1, <1>13 DEF vars, DueAfter
<1>. QED
  BY <1>3, <1>4, <1>5, <1>6, <1>7, <1>8, <1>9, <1>10, <1>11, <1>12, <1>13 DEF Next

LEMMA DatedInit == Init => DatedInv
BY SerialInit DEF Init, DatedInv, Dated

-----------------------------------------------------------------------------
\* Every variable keeps its type, whatever transactions overlap.
THEOREM TypeCorrect == Spec => []TypeOK
<1>1. Init => TypeOK /\ Loaded
  BY SerialInit DEF SerialInv
<1>. QED
  BY <1>1, TypeStep, PTL DEF Spec

LEMMA OneAtATime == ASSUME Serial PROVE Spec => []SerialInv
<1>1. SerialInv /\ [Next]_vars => SerialInv'
  BY Serial, SerialStep
<1>. QED
  BY <1>1, SerialInit, PTL DEF Spec

\* One transaction at a time, no paid day is lost: the period of every invoice starts
\* after the ones before and the subscription runs to its end, for every duration,
\* trial and adjustment of the publisher, but for the periods he cuts short himself.
THEOREM NoPaidDayIsLost == ASSUME Serial PROVE Spec => []PaidDaysAreKept
<1>1. SerialInv => PaidDaysAreKept
  BY DEF SerialInv
<1>. QED
  BY <1>1, OneAtATime, PTL

\* One transaction at a time, a validated payment has exactly one invoice and the
\* others none: it is never both validated and rejected, nor validated twice.
THEOREM OneDecisionPerPayment == ASSUME Serial PROVE Spec => []PaymentsAreDecidedOnce
<1>1. SerialInv => PaymentsAreDecidedOnce
  <2> SUFFICES ASSUME SerialInv, NEW p \in Payment
               PROVE  Cardinality({i \in invoices : i.pay = p})
                        = (IF payment[p] = "validated" THEN 1 ELSE 0)
    BY DEF PaymentsAreDecidedOnce
  <2>1. CASE payment[p] = "validated"
    <3>1. PICK i \in invoices : i.pay = p
      BY <2>1 DEF SerialInv, Invoiced
    <3>2. {k \in invoices : k.pay = p} = {i}
      BY <3>1 DEF SerialInv, Invoiced
    <3>. QED
      BY <2>1, <3>2, FS_Singleton
  <2>2. CASE payment[p] # "validated"
    <3>1. {k \in invoices : k.pay = p} = {}
      BY <2>2 DEF SerialInv, Invoiced
    <3>. QED
      BY <2>2, <3>1, FS_EmptySet
  <2>. QED
    BY <2>1, <2>2
<1>. QED
  BY <1>1, OneAtATime, PTL

\* One transaction at a time, and nobody restricted by hand, an organization is read
\* only after an end that ran out, suspended after the grace period that followed it,
\* archived after the retention, and the date the next step counts from is recorded:
\* however late the scan runs, and whatever ends the publisher sets.  The end that ran
\* out is the one the scan saw: prolonging the end alone reopens nothing.
THEOREM RestrictedByDatesOnly ==
  ASSUME Serial, LeftToTheDates PROVE Spec => []StatusFollowsDates
<1>1. DatedInv /\ [Next]_vars => DatedInv'
  BY Serial, LeftToTheDates, DatedStep
<1>2. DatedInv => StatusFollowsDates
  <2> SUFFICES ASSUME DatedInv PROVE StatusFollowsDates
    OBVIOUS
  <2>1. due \in Nat /\ day \in Nat /\ GraceDays \in Nat /\ RetentionDays \in Nat
    BY ConstantsAssumption DEF DatedInv, SerialInv, TypeOK
  <2>2. Dated(sub, due, day)
    BY DEF DatedInv
  <2>. QED
    BY <2>1, <2>2 DEF Dated, StatusFollowsDates
<1>. QED
  BY <1>1, <1>2, DatedInit, PTL DEF Spec
=============================================================================
