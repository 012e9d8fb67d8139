-------------------------- MODULE RecordMerge_proofs --------------------------
(***************************************************************************)
(* Proofs about RecordMerge, for every set of fields, of operations, of      *)
(* payloads and of requests.                                                 *)
(*                                                                         *)
(* Types hold whatever runs at once.  With requests one at a time, what an    *)
(* update loaded is what it writes over, so a row, the index of deadlines and *)
(* the journal agree.  When a record is edited only once the server has it,   *)
(* a stamp is moreover the instant of the operation that wrote the field.     *)
(***************************************************************************)
EXTENDS RecordMerge, TLAPS

\* A request carries an operation that was written, and an update the row it loaded.
Carries ==
  /\ \A r \in Req : /\ pc[r] \in InFlight => opOf[r] \in Op /\ at[opOf[r]] > 0
                    /\ pc[r] \in {"loaded", "flushed"} =>
                         opOf[r] \in Update /\ snap[r] \in RowType /\ row # None
  /\ row = None => audited = {} /\ journal = {}
  /\ \A o \in audited : at[o] > 0
  /\ \A c \in journal : c.op \in audited
  /\ row # None => at[Create] > 0

TypeInv == TypeOK /\ Carries

Serial == ~Concurrent

\* One request at a time: it works on the row as it is, on an update not applied yet.
Alone ==
  /\ \A q, r \in Req : pc[q] \in InFlight /\ pc[r] \in InFlight => q = r
  /\ \A r \in Req : pc[r] \in {"loaded", "flushed"} => snap[r] = row /\ opOf[r] \notin audited

SerialInv == TypeInv /\ Alone /\ DeadlinesFollowData

\* The stamp of a field is the instant of an operation that wrote what the field shows,
\* or, as long as no update wrote it, an instant of the server before every update.
WroteField(o, f) ==
  /\ row.data[f] = ValueOf[o]
  /\ \/ o \in Update /\ row.stamp[f] = at[o]
     \/ /\ o = Create
        /\ \A u \in Update : at[u] = 0 \/ row.stamp[f] < at[u]

Stamped ==
  /\ row # None => \A f \in Field : /\ row.stamp[f] <= clock
                                    /\ \E o \in Writers(f) : WroteField(o, f)
  /\ row = None => \A u \in Update : at[u] = 0
  /\ \A o \in Op : at[o] <= clock
  /\ job[Create].fields = Field

OnlineInv == SerialInv /\ Stamped /\ ConflictsAreReal

\* Different operations write different values, as forms that are edited by hand do.
Distinct == \A o, p \in Op : ValueOf[o] = ValueOf[p] => o = p

NewestInv ==
  /\ OnlineInv
  /\ row # None => \A f \in Field : \A p \in Writers(f) : at[p] <= row.stamp[f]

-----------------------------------------------------------------------------
LEMMA MergedIsARow ==
  ASSUME TypeOK, NEW r \in Req, snap[r] \in RowType, opOf[r] \in Update
  PROVE  /\ Merged(r) \in RowType
         /\ Kept(r) \subseteq job[opOf[r]].fields /\ job[opOf[r]].fields \subseteq Field
         /\ ValueOf[opOf[r]] \in Value
<1>1. /\ job[opOf[r]] \in PayloadType /\ ValueOf[opOf[r]] \in Value /\ at[opOf[r]] \in Nat
      /\ Kept(r) \subseteq job[opOf[r]].fields
  BY ConstantsAssumption DEF TypeOK, Op, Kept
<1>. QED
  BY <1>1 DEF Merged, RowType, PayloadType

LEMMA TypeStep == TypeInv /\ [Next]_vars => TypeInv'
<1> SUFFICES ASSUME TypeInv, [Next]_vars PROVE TypeInv'
  OBVIOUS
<1> USE ConstantsAssumption DEF TypeInv, TypeOK, Carries, Op
<1>1. ASSUME NEW o \in Op, Write(o) PROVE TypeInv'
  BY <1>1 DEF Write, InFlight
<1>2. ASSUME NEW r \in Req, NEW o \in Op, Send(r, o) PROVE TypeInv'
  BY <1>2 DEF Send, InFlight
<1>3. ASSUME NEW r \in Req, HandleCreate(r) PROVE TypeInv'
  <2> DEFINE data == [f \in Field |-> ValueOf[Create]]
  <2>1. job[Create] \in PayloadType /\ ValueOf[Create] \in Value /\ data \in [Field -> Value]
    OBVIOUS
  <2>2. /\ row' \in RowType /\ clock' \in Nat
        /\ deadline' \in [DeadlineField -> Value \cup {None}]
    <3>1. CASE row = None
      BY <3>1, <2>1, <1>3 DEF HandleCreate, RowType, PayloadType
    <3>2. CASE row # None
      BY <3>2, <1>3 DEF HandleCreate
    <3>. QED BY <3>1, <3>2
  <2>3. pc' \in [Req -> {"idle", "done", "replayed", "refused", "aborted"} \cup InFlight]
    BY <1>3 DEF HandleCreate
  <2>4. \A s \in Req : pc'[s] \in InFlight => pc[s] = pc'[s]
    BY <1>3 DEF HandleCreate, InFlight
  <2>5. UNCHANGED <<job, at, journal, audited, lock, opOf, snap>>
    BY <1>3 DEF HandleCreate
  <2>6. row' # None
    BY <2>2
  <2>7. at[Create] > 0
    BY <1>3 DEF HandleCreate, InFlight
  <2>. QED
    BY <2>2, <2>3, <2>4, <2>5, <2>6, <2>7 DEF InFlight
<1>4. ASSUME NEW r \in Req, Load(r) PROVE TypeInv'
  BY <1>4 DEF Load, InFlight
<1>5. ASSUME NEW r \in Req, Flush(r) PROVE TypeInv'
  BY <1>5 DEF Flush, InFlight
<1>6. ASSUME NEW r \in Req, Commit(r) PROVE TypeInv'
  <2>1. snap[r] \in RowType /\ row \in RowType /\ opOf[r] \in Update /\ at[opOf[r]] > 0
    BY <1>6 DEF Commit, InFlight
  <2>2. /\ Merged(r) \in RowType
        /\ job[opOf[r]].fields \subseteq Field
    BY <2>1, MergedIsARow
  <2>3. row' \in RowType /\ deadline' \in [DeadlineField -> Value \cup {None}]
    BY <2>1, <2>2, <1>6 DEF Commit, Column, RowType, Synced
  <2>4. Conflicts(r) \subseteq [op : {opOf[r]}, field : Field, kept : Value]
    BY <2>1, <2>2 DEF Conflicts, RowType
  <2>5. /\ journal' = journal \cup Conflicts(r) /\ audited' = audited \cup {opOf[r]}
        /\ lock' \in {lock, None} /\ pc' = [pc EXCEPT ![r] = "done"]
        /\ UNCHANGED <<job, at, clock, opOf, snap>>
    BY <1>6 DEF Commit
  <2>6. row' # None
    BY <2>3
  <2>7. \A c \in journal' : c.op \in audited'
    BY <2>4, <2>5
  <2>8. journal' \subseteq [op : Update, field : Field, kept : Value]
    BY <2>1, <2>4, <2>5
  <2>. HIDE DEF TypeInv, TypeOK, Carries
  <2>9. TypeOK'
    BY <2>1, <2>3, <2>5, <2>8 DEF TypeInv, TypeOK, InFlight
  <2>10. Carries'
    BY <2>1, <2>5, <2>6, <2>7 DEF TypeInv, TypeOK, Carries, InFlight
  <2>. QED
    BY <2>9, <2>10 DEF TypeInv
<1>7. ASSUME NEW r \in Req, Rollback(r) PROVE TypeInv'
  BY <1>7 DEF Rollback, InFlight
<1>8. CASE UNCHANGED vars
  BY <1>8 DEF vars
<1>. QED
  BY <1>1, <1>2, <1>3, <1>4, <1>5, <1>6, <1>7, <1>8 DEF Next

LEMMA TypeInit == Init => TypeInv
BY ConstantsAssumption DEF Init, TypeInv, TypeOK, Carries, InFlight, Op, PayloadType

\* Any requests at once: every variable keeps the type the service gives it (RecordService).
THEOREM TypeCorrect == Spec => []TypeOK
<1>1. TypeInv => TypeOK
  BY DEF TypeInv
<1>. QED
  BY <1>1, TypeInit, TypeStep, PTL DEF Spec

-----------------------------------------------------------------------------
\* One request at a time: the columns that an update writes are those of its merge.
LEMMA CommitWritesTheMerge ==
  ASSUME SerialInv, NEW r \in Req, Commit(r)
  PROVE  /\ row' = Merged(r) /\ snap[r] = row /\ row \in RowType /\ row # None
         /\ row' \in RowType /\ row' # None
         /\ opOf[r] \in Update /\ opOf[r] \notin audited /\ at[opOf[r]] > 0
         /\ job[opOf[r]].fields \subseteq Field /\ ValueOf[opOf[r]] \in Value
<1>1. /\ snap[r] = row /\ row \in RowType /\ row # None
      /\ opOf[r] \in Update /\ opOf[r] \notin audited /\ at[opOf[r]] > 0
  BY DEF Commit, SerialInv, TypeInv, Carries, Alone, InFlight
<1>2. /\ Merged(r) \in RowType
      /\ job[opOf[r]].fields \subseteq Field /\ ValueOf[opOf[r]] \in Value
  BY <1>1, MergedIsARow DEF SerialInv, TypeInv
<1>3. row' = Merged(r)
  <2>1. row' = [data |-> Merged(r).data, stamp |-> Merged(r).stamp, status |-> Merged(r).status]
    BY <1>1 DEF Commit, Column
  <2>. QED
    BY <2>1, <1>2 DEF RowType
<1>. QED
  BY <1>1, <1>2, <1>3, ConstantsAssumption

LEMMA AloneStep == Serial /\ SerialInv /\ [Next]_vars => Alone'
<1> SUFFICES ASSUME Serial, SerialInv, [Next]_vars PROVE Alone'
  OBVIOUS
<1> USE ConstantsAssumption DEF SerialInv, TypeInv, Alone
<1>1. ASSUME NEW o \in Op, Write(o) PROVE Alone'
  BY <1>1 DEF Write, InFlight
<1>2. ASSUME NEW r \in Req, NEW o \in Op, Send(r, o) PROVE Alone'
  BY <1>2 DEF Send, InFlight, Serial, TypeOK
<1>3. ASSUME NEW r \in Req, HandleCreate(r) PROVE Alone'
  BY <1>3 DEF HandleCreate, InFlight, TypeOK
<1>4. ASSUME NEW r \in Req, Load(r) PROVE Alone'
  BY <1>4 DEF Load, InFlight, TypeOK
<1>5. ASSUME NEW r \in Req, Flush(r) PROVE Alone'
  BY <1>5 DEF Flush, InFlight, TypeOK
<1>6. ASSUME NEW r \in Req, Commit(r) PROVE Alone'
  BY <1>6 DEF Commit, InFlight, TypeOK
<1>7. ASSUME NEW r \in Req, Rollback(r) PROVE Alone'
  BY <1>7 DEF Rollback, InFlight, TypeOK
<1>8. CASE UNCHANGED vars
  BY <1>8 DEF vars
<1>. QED
  BY <1>1, <1>2, <1>3, <1>4, <1>5, <1>6, <1>7, <1>8 DEF Next

LEMMA IndexStep == SerialInv /\ [Next]_vars => DeadlinesFollowData'
<1> SUFFICES ASSUME SerialInv, [Next]_vars PROVE DeadlinesFollowData'
  OBVIOUS
<1> USE DEF DeadlinesFollowData
<1>1. ASSUME NEW r \in Req, HandleCreate(r) PROVE DeadlinesFollowData'
  <2>1. CASE row = None
    BY <1>1, <2>1, ConstantsAssumption DEF HandleCreate
  <2>2. CASE row # None
    BY <1>1, <2>2 DEF HandleCreate, SerialInv
  <2>. QED
    BY <2>1, <2>2
<1>2. ASSUME NEW r \in Req, Commit(r) PROVE DeadlinesFollowData'
  <2>1. row' = Merged(r) /\ deadline' = [f \in DeadlineField |-> Merged(r).data[f]]
    BY <1>2, CommitWritesTheMerge DEF Commit, Synced
  <2>. QED
    BY <2>1
<1>3. CASE UNCHANGED <<row, deadline>>
  BY <1>3 DEF SerialInv
<1>. QED
  BY <1>1, <1>2, <1>3 DEF Next, Write, Send, Load, Flush, Rollback, vars

LEMMA SerialStep == Serial /\ SerialInv /\ [Next]_vars => SerialInv'
BY TypeStep, AloneStep, IndexStep DEF SerialInv

LEMMA SerialInit == Init => SerialInv
BY TypeInit DEF Init, SerialInv, Alone, DeadlinesFollowData, InFlight

\* Requests one at a time: the index of deadlines shows the dates of the record
\* (_sync_deadlines), also when a conflict keeps a date the update wanted to change.
THEOREM IndexFollowsData == ASSUME Serial PROVE Spec => []DeadlinesFollowData
<1>1. SerialInv /\ [Next]_vars => SerialInv'
  BY SerialStep
<1>2. SerialInv => DeadlinesFollowData
  BY DEF SerialInv
<1>. QED
  BY <1>1, <1>2, SerialInit, PTL DEF Spec

\* Requests one at a time: an operation that was committed is never applied again
\* (the lookup of the audit entry in the router of records).
THEOREM AppliedOnce == ASSUME Serial PROVE Spec => UpdatesApplyOnce
<1>1. SerialInv /\ [Next]_vars => SerialInv'
  BY SerialStep
<1>2. SerialInv => \A r \in Req : pc[r] = "flushed" => opOf[r] \notin audited
  BY DEF SerialInv, Alone
<1>3. SerialInv /\ [Next]_vars =>
        [\A r \in Req : (pc[r] = "flushed" /\ pc'[r] = "done") => opOf[r] \notin audited]_vars
  BY <1>2
<1>. QED
  BY <1>1, <1>3, SerialInit, PTL DEF Spec, UpdatesApplyOnce

\* Requests one at a time: a field of an applied update shows what it wrote, or the
\* journal of conflicts has the value shown in its place (RecordService.update).
THEOREM NoSilentLoss == ASSUME Serial PROVE Spec => LossesAreJournaled
<1> DEFINE Told == \A o \in audited' \ audited : \A f \in job[o].fields :
                     \/ row'.data[f] = ValueOf[o]
                     \/ [op |-> o, field |-> f, kept |-> row'.data[f]] \in journal'
<1>1. SerialInv /\ [Next]_vars => SerialInv'
  BY SerialStep
<1>2. SerialInv /\ [Next]_vars => [Told]_vars
  <2> SUFFICES ASSUME SerialInv, Next PROVE Told
    OBVIOUS
  <2>1. ASSUME NEW r \in Req, Commit(r) PROVE Told
    <3> SUFFICES ASSUME NEW f \in job[opOf[r]].fields
                 PROVE  \/ row'.data[f] = ValueOf[opOf[r]]
                        \/ [op |-> opOf[r], field |-> f, kept |-> row'.data[f]] \in journal'
      BY <2>1 DEF Commit
    <3>1. row' = Merged(r) /\ f \in Field /\ journal' = journal \cup Conflicts(r)
      BY <2>1, CommitWritesTheMerge DEF Commit
    <3>2. CASE f \in Kept(r)
      BY <3>1, <3>2 DEF Merged
    <3>3. CASE f \notin Kept(r)
      BY <3>1, <3>3 DEF Merged, Conflicts
    <3>. QED
      BY <3>2, <3>3
  <2>2. CASE UNCHANGED audited
    BY <2>2
  <2>. QED
    BY <2>1, <2>2 DEF Next, Write, Send, HandleCreate, Load, Flush, Rollback
<1>. QED
  BY <1>1, <1>2, SerialInit, PTL DEF Spec, LossesAreJournaled

-----------------------------------------------------------------------------
\* A record is edited only once the server has it.
Online == ~Concurrent /\ ~OfflineEdits

\* What a commit does to one field of the record, and to the instants.
LEMMA CommitOfAField ==
  ASSUME SerialInv, NEW r \in Req, Commit(r), NEW f \in Field
  PROVE  /\ UNCHANGED <<job, at, clock>>
         /\ audited' = audited \cup {opOf[r]}
         /\ f \in Kept(r) => /\ f \in job[opOf[r]].fields /\ ~Loses(r, f)
                             /\ row'.data[f] = ValueOf[opOf[r]] /\ row'.stamp[f] = at[opOf[r]]
         /\ f \notin Kept(r) => row'.data[f] = row.data[f] /\ row'.stamp[f] = row.stamp[f]
<1>1. row' = Merged(r) /\ snap[r] = row
  BY CommitWritesTheMerge
<1>2. UNCHANGED <<job, at, clock>> /\ audited' = audited \cup {opOf[r]}
  BY DEF Commit
<1>3. f \in Kept(r) => f \in job[opOf[r]].fields /\ ~Loses(r, f)
  BY DEF Kept
<1>. QED
  BY <1>1, <1>2, <1>3 DEF Merged

LEMMA StampedStep == Online /\ SerialInv /\ Stamped /\ [Next]_vars => Stamped'
<1> SUFFICES ASSUME Online, SerialInv, Stamped, [Next]_vars PROVE Stamped'
  OBVIOUS
<1> USE ConstantsAssumption DEF Op
<1>1. TypeOK /\ Carries
  BY DEF SerialInv, TypeInv
<1>2. ASSUME NEW o \in Op, Write(o) PROVE Stamped'
  <2>1. /\ at[o] = 0 /\ clock' = clock + 1 /\ at' = [at EXCEPT ![o] = clock + 1]
        /\ at \in [Op -> Nat] /\ clock \in Nat /\ UNCHANGED <<job, row, audited>>
    BY <1>1, <1>2 DEF Write, TypeOK
  <2>2. row = None => \A u \in Update : at'[u] = 0
    BY <1>2, <2>1 DEF Write, Online, Stamped
  <2>3. \A p \in Op : at'[p] <= clock'
    BY <2>1 DEF Stamped
  <2>4. ASSUME row # None, NEW f \in Field
        PROVE  row.stamp[f] <= clock' /\ \E p \in Writers(f)' : WroteField(p, f)'
    <3>1. row \in RowType /\ row.stamp[f] \in Nat /\ row.stamp[f] <= clock
      BY <1>1, <2>4 DEF TypeOK, RowType, Stamped
    <3>2. PICK p \in Writers(f) : WroteField(p, f)
      BY <2>4 DEF Stamped
    <3>3. p \in Writers(f)'
      BY <2>1 DEF Writers
    <3>4. CASE p \in Update /\ row.stamp[f] = at[p]
      <4>1. p \in audited
        BY <3>4 DEF Writers
      <4>2. p # o
        BY <4>1, <1>1, <2>1 DEF Carries
      <4>. QED
        BY <4>2, <3>1, <3>2, <3>3, <3>4, <2>1 DEF WroteField
    <3>5. CASE p = Create /\ \A u \in Update : at[u] = 0 \/ row.stamp[f] < at[u]
      <4>1. \A u \in Update : at'[u] = 0 \/ row.stamp[f] < at'[u]
        BY <3>5, <3>1, <2>1
      <4>. QED
        BY <4>1, <3>1, <3>2, <3>3, <3>5, <2>1 DEF WroteField
    <3>. QED
      BY <3>2, <3>4, <3>5 DEF WroteField
  <2>. QED
    BY <2>1, <2>2, <2>3, <2>4 DEF Stamped
<1>3. ASSUME NEW r \in Req, HandleCreate(r) PROVE Stamped'
  <2>1. UNCHANGED <<job, at, audited>>
    BY <1>3 DEF HandleCreate
  <2>2. CASE row = None
    <3>1. /\ clock' = clock + 1 /\ row' # None
          /\ \A f \in Field : row'.stamp[f] = clock + 1 /\ row'.data[f] = ValueOf[Create]
      <4>1. job[Create] \in PayloadType /\ ValueOf[Create] \in Value /\ clock \in Nat
        BY <1>1 DEF TypeOK
      <4>2. /\ clock' = clock + 1
            /\ row' = [data   |-> [f \in Field |-> ValueOf[Create]],
                       stamp  |-> [f \in Field |-> clock + 1],
                       status |-> job[Create].status]
        BY <2>2, <1>3 DEF HandleCreate
      <4>3. row' \in RowType
        BY <4>1, <4>2 DEF RowType, PayloadType
      <4>. QED
        BY <4>2, <4>3
    <3>2. \A f \in Field : Create \in Writers(f)' /\ WroteField(Create, f)'
      BY <3>1, <2>1, <2>2 DEF Stamped, Writers, WroteField
    <3>. QED
      BY <3>1, <3>2, <2>1, <1>1 DEF Stamped, TypeOK
  <2>3. CASE row # None
    <3>1. UNCHANGED <<row, clock>>
      BY <2>3, <1>3 DEF HandleCreate
    <3>. QED
      BY <2>1, <3>1 DEF Stamped, Writers, WroteField
  <2>. QED
    BY <2>2, <2>3
<1>4. ASSUME NEW r \in Req, Commit(r) PROVE Stamped'
  <2>1. /\ row \in RowType /\ row # None /\ row' # None /\ opOf[r] \in Update
    BY <1>4, CommitWritesTheMerge
  <2>2. ASSUME NEW f \in Field
        PROVE  row'.stamp[f] <= clock' /\ \E p \in Writers(f)' : WroteField(p, f)'
    <3>1. CASE f \in Kept(r)
      BY <3>1, <2>1, <1>1, <1>4, CommitOfAField DEF Stamped, Writers, WroteField
    <3>2. CASE f \notin Kept(r)
      <4>1. PICK p \in Writers(f) : WroteField(p, f)
        BY <2>1 DEF Stamped
      <4>2. p \in Writers(f)' /\ WroteField(p, f)'
        BY <4>1, <3>2, <1>4, CommitOfAField DEF Writers, WroteField
      <4>. QED
        BY <4>2, <3>2, <2>1, <1>4, CommitOfAField DEF Stamped
    <3>. QED
      BY <3>1, <3>2
  <2>3. UNCHANGED <<job, at, clock>>
    BY <1>4 DEF Commit
  <2>. QED
    BY <2>1, <2>2, <2>3 DEF Stamped
<1>5. CASE UNCHANGED <<job, at, clock, row, audited>>
  BY <1>5 DEF Stamped, Writers, WroteField
<1>. QED
  BY <1>2, <1>3, <1>4, <1>5 DEF Next, Send, Load, Flush, Rollback, vars

LEMMA ConflictsStep ==
  SerialInv /\ Stamped /\ ConflictsAreReal /\ [Next]_vars => ConflictsAreReal'
<1> SUFFICES ASSUME SerialInv, Stamped, ConflictsAreReal, [Next]_vars,
                    NEW c \in journal'
             PROVE  \E o \in Writers(c.field)' : at'[o] > at'[c.op] /\ ValueOf[o] = c.kept
  BY DEF ConflictsAreReal
<1>1. TypeOK /\ Carries
  BY DEF SerialInv, TypeInv
\* An entry that was there: its operation and the one that won keep their instants.
<1>2. CASE c \in journal
  <2>1. PICK o \in Writers(c.field) : at[o] > at[c.op] /\ ValueOf[o] = c.kept
    BY <1>2 DEF ConflictsAreReal
  <2>2. at[c.op] > 0 /\ c.op \in Op /\ o \in Op /\ at \in [Op -> Nat] /\ at[o] > 0
    BY <1>1, <1>2, <2>1 DEF Carries, TypeOK, Op, Writers
  <2>3. at'[o] = at[o] /\ at'[c.op] = at[c.op]
    BY <2>2 DEF Next, Write, Send, HandleCreate, Load, Flush, Commit, Rollback, vars
  <2>4. o \in Writers(c.field)'
    BY <2>1 DEF Writers, Next, Write, Send, HandleCreate, Load, Flush, Commit, Rollback, vars
  <2>. QED
    BY <2>1, <2>3, <2>4
\* A new entry: the stamp that won is the instant of an update.
<1>3. CASE c \notin journal
  <2>1. PICK r \in Req : Commit(r)
    BY <1>3 DEF Next, Write, Send, HandleCreate, Load, Flush, Rollback, vars
  <2>2. PICK f \in job[opOf[r]].fields \ Kept(r) :
               c = [op |-> opOf[r], field |-> f, kept |-> snap[r].data[f]]
    BY <1>3, <2>1 DEF Commit, Conflicts
  <2>3. /\ snap[r] = row /\ row \in RowType /\ row # None /\ f \in Field
        /\ opOf[r] \in Update /\ at[opOf[r]] > 0 /\ at \in [Op -> Nat]
    BY <2>1, <2>2, <1>1, CommitWritesTheMerge DEF TypeOK
  <2>4. at[opOf[r]] < row.stamp[f] /\ row.stamp[f] \in Nat
    BY <2>2, <2>3 DEF Kept, Loses, RowType
  <2>5. PICK o \in Writers(f) : WroteField(o, f)
    BY <2>3 DEF Stamped
  <2>6. row.stamp[f] = at[o] /\ ValueOf[o] = c.kept
    BY <2>2, <2>3, <2>4, <2>5 DEF WroteField, Op
  <2>7. o \in Writers(f)' /\ UNCHANGED at
    BY <2>1, <2>5 DEF Writers, Commit
  <2>. QED
    BY <2>2, <2>4, <2>6, <2>7
<1>. QED
  BY <1>2, <1>3

LEMMA OnlineStep == Online /\ OnlineInv /\ [Next]_vars => OnlineInv'
BY SerialStep, StampedStep, ConflictsStep DEF OnlineInv, Online, Serial

LEMMA OnlineInit == Init => OnlineInv
BY SerialInit, ConstantsAssumption DEF Init, OnlineInv, Stamped, ConflictsAreReal, Op

\* Edited online, requests one at a time: the value that a conflict kept was written after
\* the one it rejected, by an operation of the record (RecordFieldConflict).
THEOREM RealConflicts == ASSUME Online PROVE Spec => []ConflictsAreReal
<1>1. OnlineInv /\ [Next]_vars => OnlineInv'
  BY OnlineStep
<1>2. OnlineInv => ConflictsAreReal
  BY DEF OnlineInv
<1>. QED
  BY <1>1, <1>2, OnlineInit, PTL DEF Spec

-----------------------------------------------------------------------------
\* With a value of its own for each operation, the stamp of a field never goes back.
LEMMA NewestStep == Online /\ Distinct /\ NewestInv /\ [Next]_vars => NewestInv'
<1> SUFFICES ASSUME Online, Distinct, NewestInv, [Next]_vars,
                    row' # None, NEW f \in Field, NEW p \in Writers(f)'
             PROVE  at'[p] <= row'.stamp[f]
  BY OnlineStep DEF NewestInv
<1>1. TypeOK /\ Carries /\ SerialInv /\ Stamped
  BY DEF NewestInv, OnlineInv, SerialInv, TypeInv
<1>2. ASSUME NEW o \in Op, Write(o) PROVE at'[p] <= row'.stamp[f]
  <2>1. p \in Writers(f) /\ row # None /\ UNCHANGED row
    BY <1>2 DEF Write, Writers
  <2>2. at[p] <= row.stamp[f] /\ at[o] = 0 /\ at' = [at EXCEPT ![o] = clock + 1]
    BY <1>2, <2>1 DEF Write, NewestInv
  <2>3. p # o
    <3>1. CASE p \in audited
      BY <3>1, <2>2, <1>1 DEF Carries
    \* The record was created by the operation that creates it.
    <3>2. CASE p = Create
      BY <3>2, <2>1, <2>2, <1>1 DEF Carries
    <3>. QED
      BY <3>1, <3>2, <2>1 DEF Writers
  <2>. QED
    BY <2>1, <2>2, <2>3, <1>1 DEF TypeOK, Writers, Op
<1>3. ASSUME NEW r \in Req, HandleCreate(r) PROVE at'[p] <= row'.stamp[f]
  <2>1. UNCHANGED <<job, at, audited>> /\ p \in Writers(f)
    BY <1>3 DEF HandleCreate, Writers
  <2>2. CASE row = None
    <3>1. row'.stamp[f] = clock + 1
      BY <2>2, <1>3 DEF HandleCreate
    <3>2. p \in Op /\ at[p] <= clock /\ at[p] \in Nat /\ clock \in Nat
      BY <1>1, <2>1 DEF Writers, Stamped, TypeOK, Op
    <3>. QED
      BY <2>1, <3>1, <3>2
  <2>3. CASE row # None
    BY <1>3, <2>1, <2>3 DEF HandleCreate, NewestInv
  <2>. QED
    BY <2>2, <2>3
<1>4. ASSUME NEW r \in Req, Commit(r) PROVE at'[p] <= row'.stamp[f]
  <2>1. /\ row \in RowType /\ row # None /\ snap[r] = row
        /\ opOf[r] \in Update /\ opOf[r] \notin audited
    BY <1>1, <1>4, CommitWritesTheMerge
  <2>2. /\ UNCHANGED <<job, at>> /\ audited' = audited \cup {opOf[r]}
        /\ at \in [Op -> Nat] /\ row.stamp[f] \in Nat
    BY <1>1, <1>4, <2>1 DEF Commit, TypeOK, RowType
  <2>3. p \in Writers(f) => at[p] <= row.stamp[f]
    BY <2>1 DEF NewestInv
  <2>4. p \in Writers(f) \/ (p = opOf[r] /\ f \in job[opOf[r]].fields)
    BY <2>2 DEF Writers
  <2>5. CASE f \in Kept(r)
    \* The value of the field is that of an applied operation: it is not this one.
    <3>1. row.data[f] # ValueOf[opOf[r]]
      <4>1. PICK w \in Writers(f) : row.data[f] = ValueOf[w]
        BY <1>1, <2>1 DEF Stamped, WroteField
      <4>2. w \in Op /\ w # opOf[r] /\ opOf[r] \in Op
        BY <4>1, <2>1, <1>1, ConstantsAssumption DEF Writers, TypeOK, Op
      <4>. QED
        BY <4>1, <4>2 DEF Distinct
    <3>2. row.stamp[f] <= at[opOf[r]] /\ row'.stamp[f] = at[opOf[r]]
      <4>1. ~Loses(r, f) /\ row'.stamp[f] = at[opOf[r]]
        BY <1>1, <1>4, <2>5, CommitOfAField
      <4>2. at[opOf[r]] \in Nat
        BY <2>1, <2>2 DEF Op
      <4>. QED
        BY <2>1, <2>2, <3>1, <4>1, <4>2 DEF Loses
    <3>3. p \in Op /\ at[p] \in Nat /\ at[opOf[r]] \in Nat
      BY <1>1, <2>1, <2>2, <2>4 DEF Writers, TypeOK, Op
    <3>. QED
      BY <2>2, <2>3, <2>4, <3>2, <3>3
  <2>6. CASE f \notin Kept(r)
    <3>1. row'.stamp[f] = row.stamp[f]
      BY <1>1, <1>4, <2>6, CommitOfAField
    <3>2. f \in job[opOf[r]].fields => at[opOf[r]] < row.stamp[f]
      BY <2>1, <2>6 DEF Kept, Loses
    <3>3. at[opOf[r]] \in Nat
      BY <2>1, <2>2 DEF Op
    <3>. QED
      BY <2>2, <2>3, <2>4, <3>1, <3>2, <3>3
  <2>. QED
    BY <2>5, <2>6
<1>5. CASE UNCHANGED <<job, at, row, audited>>
  BY <1>5 DEF NewestInv, Writers
<1>. QED
  BY <1>2, <1>3, <1>4, <1>5 DEF Next, Send, Load, Flush, Rollback, vars

\* Edited online, requests one at a time, each operation with a value of its own: a field
\* shows the most recent write it was given, in whatever order late devices arrive.
THEOREM LateWritesNeverWin ==
  ASSUME Online, Distinct PROVE Spec => []NewestWriteWins
<1>1. Init => NewestInv
  BY OnlineInit DEF Init, NewestInv
<1>2. NewestInv /\ [Next]_vars => NewestInv'
  BY NewestStep
<1>3. NewestInv => NewestWriteWins
  <2> SUFFICES ASSUME NewestInv, row # None, NEW f \in Field
               PROVE  \E o \in Writers(f) :
                        /\ row.data[f] = ValueOf[o]
                        /\ \A p \in Writers(f) : at[p] <= at[o] \/ ValueOf[p] = ValueOf[o]
    BY DEF NewestWriteWins
  <2>1. TypeOK /\ Carries /\ Stamped /\ row \in RowType
    BY DEF NewestInv, OnlineInv, SerialInv, TypeInv, TypeOK
  <2>2. PICK o \in Writers(f) : WroteField(o, f)
    BY <2>1 DEF Stamped
  <2>3. \A p \in Writers(f) : at[p] <= row.stamp[f] /\ at[p] \in Nat /\ row.stamp[f] \in Nat
    BY <2>1 DEF NewestInv, Writers, TypeOK, Op, RowType
  <2>4. CASE o \in Update /\ row.stamp[f] = at[o]
    BY <2>2, <2>3, <2>4 DEF WroteField
  \* No update wrote the field: it would be more recent than its stamp.
  <2>5. CASE o = Create /\ \A u \in Update : at[u] = 0 \/ row.stamp[f] < at[u]
    <3>1. ASSUME NEW p \in Writers(f) PROVE p = Create
      <4>1. p \notin audited
        BY <2>1, <2>3, <2>5, <3>1 DEF Carries, TypeOK
      <4>. QED
        BY <4>1 DEF Writers
    <3>. QED
      BY <2>2, <2>3, <2>5, <3>1 DEF WroteField
  <2>. QED
    BY <2>2, <2>4, <2>5 DEF WroteField
<1>. QED
  BY <1>1, <1>2, <1>3, PTL DEF Spec
=============================================================================
