----------------------------- MODULE RecordMerge -----------------------------
(***************************************************************************)
(* RecordService: one record, created by one client under an identifier of *)
(* its own, then updated field by field by clients that may be offline when *)
(* they write and that send an operation again when its answer was lost.    *)
(*                                                                         *)
(* The record row holds, for each field, the value and the instant it was   *)
(* written (field_updated_at).  An update is one transaction: it loads the  *)
(* row, merges in memory, and writes back the whole columns that changed.   *)
(* A write that loses against a more recent one goes to the journal of      *)
(* conflicts (RecordFieldConflict).                                         *)
(*                                                                         *)
(* Writing instants are those of one clock, all different; status stands    *)
(* for the attributes that are not fields (status, site, assigned person).  *)
(* The frontend always sends field_written_at.                              *)
(***************************************************************************)
EXTENDS Integers, FiniteSets

CONSTANTS Field,          \* the fields of the record's model
          DeadlineField,  \* those that carry a due date
          Value,          \* field values
          ValueOf,        \* the value an operation writes in its fields
          Update,         \* the update operations of the clients
          Create,         \* the operation that creates the record
          Req,            \* the requests the server receives, the bound on retries
          None,           \* no value, no row, no operation
          Payloads,       \* what an update may carry
          Concurrent,     \* may requests for the record overlap?
          OfflineEdits    \* may a device edit a record it created offline?

Op == Update \cup {Create}

\* fields: the keys of "data"; they all get the operation's value.
PayloadType == [fields : SUBSET Field, status : {None, "changed"}]

\* The columns of a record that the model keeps.
RowType == [data : [Field -> Value], stamp : [Field -> Nat], status : {None, "changed"}]

ASSUME ConstantsAssumption ==
  /\ DeadlineField \subseteq Field
  /\ Create \notin Update
  /\ None \notin Value \cup Op \cup {"changed"} \cup RowType
  /\ ValueOf \in [Update \cup {Create} -> Value]
  /\ Payloads \subseteq PayloadType
  /\ {Concurrent, OfflineEdits} \subseteq BOOLEAN

VARIABLES job,       \* what each operation carries, fixed by its client
          at,        \* the instant the client wrote the operation, 0 before
          clock,     \* the last instant used
          row,       \* the committed record, None before its creation
          deadline,  \* committed record_deadlines: the due date of each field
          journal,   \* committed record_field_conflicts
          audited,   \* operations with a committed record.update audit entry
          lock,      \* the request that holds the row lock of the record
          pc, opOf,  \* where each request is, and the operation it carries
          snap       \* the row a request loaded

vars == <<job, at, clock, row, deadline, journal, audited, lock, pc, opOf, snap>>

InFlight == {"received", "loaded", "flushed"}

Init ==
  /\ job \in [Op -> Payloads]
  /\ job[Create].fields = Field
  /\ at = [o \in Op |-> 0]
  /\ clock = 0
  /\ row = None
  /\ deadline = [f \in DeadlineField |-> None]
  /\ journal = {}
  /\ audited = {}
  /\ lock = None
  /\ pc = [r \in Req |-> "idle"]
  /\ opOf = [r \in Req |-> None]
  /\ snap = [r \in Req |-> None]

-----------------------------------------------------------------------------
\* The user of a device submits the form: the instant is the device's, the
\* request may leave much later.  A record is edited once it is known, from
\* the server or, offline, from the device's own cache.
Write(o) ==
  /\ at[o] = 0
  /\ o # Create => /\ at[Create] > 0
                   /\ OfflineEdits \/ row # None
  /\ clock' = clock + 1
  /\ at' = [at EXCEPT ![o] = clock + 1]
  /\ UNCHANGED <<job, row, deadline, journal, audited, lock, pc, opOf, snap>>

\* The operation is sent, for the first time or again.
Send(r, o) ==
  /\ pc[r] = "idle"
  /\ at[o] > 0
  /\ Concurrent \/ \A s \in Req : pc[s] \notin InFlight
  /\ pc' = [pc EXCEPT ![r] = "received"]
  /\ opOf' = [opOf EXCEPT ![r] = o]
  /\ UNCHANGED <<job, at, clock, row, deadline, journal, audited, lock, snap>>

\* RecordService.create, one step: the primary key decides between two
\* requests.  The fields are stamped with the server's time, not with the
\* client's; an identifier already used is accepted with the same data only.
HandleCreate(r) ==
  /\ pc[r] = "received"
  /\ opOf[r] = Create
  /\ LET data == [f \in Field |-> ValueOf[Create]]
     IN IF row = None
        THEN /\ row' = [data |-> data, stamp |-> [f \in Field |-> clock + 1],
                        status |-> job[Create].status]
             /\ clock' = clock + 1
             /\ deadline' = [f \in DeadlineField |-> data[f]]
             /\ pc' = [pc EXCEPT ![r] = "done"]
        ELSE /\ pc' = [pc EXCEPT ![r] = IF row.data = data THEN "replayed" ELSE "refused"]
             /\ UNCHANGED <<row, clock, deadline>>
  /\ UNCHANGED <<job, at, journal, audited, lock, opOf, snap>>

\* Mutant: no lookup of the audit entry of the operation.
LoadOnly(r) ==
  /\ pc[r] = "received"
  /\ opOf[r] # Create
  /\ IF row = None
     THEN pc' = [pc EXCEPT ![r] = "refused"] /\ UNCHANGED snap
     ELSE pc' = [pc EXCEPT ![r] = "loaded"] /\ snap' = [snap EXCEPT ![r] = row]
  /\ UNCHANGED <<job, at, clock, row, deadline, journal, audited, lock, opOf>>

\* The router loads the record, or answers 404; an operation with an audit
\* entry was applied already and has no effect.
Load(r) ==
  /\ pc[r] = "received"
  /\ opOf[r] # Create
  /\ IF row = None \/ opOf[r] \in audited
     THEN /\ pc' = [pc EXCEPT ![r] = IF row = None THEN "refused" ELSE "replayed"]
          /\ UNCHANGED snap
     ELSE /\ pc' = [pc EXCEPT ![r] = "loaded"]
          /\ snap' = [snap EXCEPT ![r] = row]
  /\ UNCHANGED <<job, at, clock, row, deadline, journal, audited, lock, opOf>>

\* Mutant: one instant for the whole record instead of one per field.
LosesToRecord(r, f) ==
  /\ \E g \in Field : at[opOf[r]] < snap[r].stamp[g]
  /\ snap[r].data[f] # ValueOf[opOf[r]]

\* The write of field f loses: what the row holds is more recent, and differs.
Loses(r, f) ==
  /\ at[opOf[r]] < snap[r].stamp[f]
  /\ snap[r].data[f] # ValueOf[opOf[r]]

Kept(r) == {f \in job[opOf[r]].fields : ~Loses(r, f)}

Merged(r) ==
  [data   |-> [f \in Field |-> IF f \in Kept(r) THEN ValueOf[opOf[r]] ELSE snap[r].data[f]],
   stamp  |-> [f \in Field |-> IF f \in Kept(r) THEN at[opOf[r]] ELSE snap[r].stamp[f]],
   status |-> IF job[opOf[r]].status # None THEN job[opOf[r]].status ELSE snap[r].status]

\* Mutant: a conflict is only recorded when no field could be merged.
ConflictsIfAllLost(r) ==
  IF Kept(r) # {} THEN {}
  ELSE {[op |-> opOf[r], field |-> f, kept |-> snap[r].data[f]] :
          f \in job[opOf[r]].fields}

\* Mutant: the journal does not say which value was kept.
ConflictsUnkept(r) ==
  {[op |-> opOf[r], field |-> f, kept |-> None] : f \in job[opOf[r]].fields \ Kept(r)}

Conflicts(r) ==
  {[op |-> opOf[r], field |-> f, kept |-> snap[r].data[f]] :
     f \in job[opOf[r]].fields \ Kept(r)}

\* The flush issues an UPDATE, which waits for the row lock, when a column
\* changed; updated_by_user_id may be the only one, or not change at all.
Flush(r) ==
  /\ pc[r] = "loaded"
  /\ \/ /\ lock = None
        /\ lock' = r
     \/ /\ Merged(r) = snap[r]
        /\ UNCHANGED lock
  /\ pc' = [pc EXCEPT ![r] = "flushed"]
  /\ UNCHANGED <<job, at, clock, row, deadline, journal, audited, opOf, snap>>

\* A column is written when the merge changed it, with the value computed from
\* the row that was loaded.
Column(new, loaded, current) == IF new = loaded THEN current ELSE new

\* Mutant: the index follows what was sent, not what was kept.
SyncedAsSent(r) ==
  [f \in DeadlineField |-> IF f \in job[opOf[r]].fields THEN ValueOf[opOf[r]]
                                                        ELSE snap[r].data[f]]

\* _sync_deadlines goes through every date of the merged data.
Synced(r) == [f \in DeadlineField |-> Merged(r).data[f]]

Commit(r) ==
  /\ pc[r] = "flushed"
  /\ row' = [data   |-> Column(Merged(r).data, snap[r].data, row.data),
             stamp  |-> Column(Merged(r).stamp, snap[r].stamp, row.stamp),
             status |-> Column(Merged(r).status, snap[r].status, row.status)]
  /\ journal' = journal \cup Conflicts(r)
  /\ deadline' = Synced(r)
  /\ audited' = audited \cup {opOf[r]}
  /\ lock' = IF lock = r THEN None ELSE lock
  /\ pc' = [pc EXCEPT ![r] = "done"]
  /\ UNCHANGED <<job, at, clock, opOf, snap>>

\* An exception or the death of the process.
Rollback(r) ==
  /\ pc[r] \in InFlight
  /\ lock' = IF lock = r THEN None ELSE lock
  /\ pc' = [pc EXCEPT ![r] = "aborted"]
  /\ UNCHANGED <<job, at, clock, row, deadline, journal, audited, opOf, snap>>

Next == \/ \E o \in Op : Write(o)
        \/ \E r \in Req, o \in Op : Send(r, o)
        \/ \E r \in Req : HandleCreate(r) \/ Load(r) \/ Flush(r) \/ Commit(r) \/ Rollback(r)

Spec == Init /\ [][Next]_vars
-----------------------------------------------------------------------------
TypeOK ==
  /\ job \in [Op -> Payloads]
  /\ at \in [Op -> Nat]
  /\ clock \in Nat
  /\ row \in RowType \cup {None}
  /\ deadline \in [DeadlineField -> Value \cup {None}]
  /\ journal \subseteq [op : Update, field : Field, kept : Value]
  /\ audited \subseteq Update
  /\ lock \in Req \cup {None}
  /\ pc \in [Req -> {"idle", "done", "replayed", "refused", "aborted"} \cup InFlight]
  /\ opOf \in [Req -> Op \cup {None}]
  /\ snap \in [Req -> RowType \cup {None}]

\* The operations that wrote field f in the record.
Writers(f) == {o \in audited \cup {Create} : f \in job[o].fields}

\* Whatever the order in which late devices reach the server, a field shows the
\* value of the most recent write it was given (RecordService.update: a late
\* agent never overwrites a more recent write of the same field).
NewestWriteWins ==
  row # None =>
    \A f \in Field : \E o \in Writers(f) :
      /\ row.data[f] = ValueOf[o]
      /\ \A p \in Writers(f) : at[p] <= at[o] \/ ValueOf[p] = ValueOf[o]

\* No write is lost in silence: once an update is applied, each of its fields
\* shows what it wrote, or the journal (RecordFieldConflict) has the value that
\* the record shows in its place.
LossesAreJournaled ==
  [][\A o \in audited' \ audited : \A f \in job[o].fields :
       \/ row'.data[f] = ValueOf[o]
       \/ [op |-> o, field |-> f, kept |-> row'.data[f]] \in journal']_vars

\* The journal holds real conflicts: the value that was kept had been written
\* after the one that was rejected.
ConflictsAreReal ==
  \A c \in journal : \E o \in Writers(c.field) :
    at[o] > at[c.op] /\ ValueOf[o] = c.kept

\* The index the alert engine scans shows the due dates of the record, also
\* when a conflict keeps a date that the update wanted to change.
DeadlinesFollowData ==
  row # None => \A f \in DeadlineField : deadline[f] = row.data[f]

\* An update is applied once: a replay that arrives after newer updates does
\* not bring its status back.
UpdatesApplyOnce ==
  [][\A r \in Req : (pc[r] = "flushed" /\ pc'[r] = "done") => opOf[r] \notin audited]_vars
=============================================================================
