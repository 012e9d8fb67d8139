------------------------- MODULE UploadSession_proofs -------------------------
(***************************************************************************)
(* Proofs about UploadSession, for every number of chunks and requests.     *)
(*                                                                         *)
(* Three layers.  Stored holds whatever overlaps, is rolled back or starts    *)
(* without a network: what the answers say of the document is true.  Serial   *)
(* holds when the requests of a device do not overlap, also if transactions   *)
(* are rolled back: the only request on the server is the one the device      *)
(* waits for, or one it gave up before it asks for the status again.  Orderly *)
(* adds that the server is sound.                                            *)
(***************************************************************************)
EXTENDS UploadSession, WellFoundedInduction, TLAPS

\* What a request has loaded, by how far it is.
Prepared ==
  \A r \in Req :
    /\ pc[r] \in {"loaded", "saved", "locked", "cleaned"} => session # None /\ snap[r] # None
    /\ kind[r] = "chunk" /\ pc[r] # "idle" => part[r] \in Chunk
    /\ pc[r] = "saved" => kind[r] = "chunk"
    /\ pc[r] = "locked" => kind[r] = "complete"
    /\ pc[r] = "cleaned" => kind[r] = "complete"

\* Who believes that the upload is completed, the row, a request that loaded it
\* or a device that was answered, is right.
Believed ==
  /\ session = None => documents = 0
  /\ \A r \in Req : /\ snap[r] # None /\ snap[r].status = "completed" => documents > 0
                    /\ kind[r] = "complete" /\ pc[r] = "ok" => documents > 0

\* One request on the server at most: the one the device waits for, or one it gave
\* up.  A request works on the row as it is, and so does the device on its answer.
OneRequest ==
  /\ \A q, r \in Req : pc[q] \in InFlight /\ pc[r] \in InFlight => q = r
  /\ \A r \in Req : pc[r] \in InFlight => r = cur \/ (cur = None /\ step = "status")
  /\ cur # None => kind[cur] = step /\ pc[cur] # "idle"
  /\ \A r \in Req : pc[r] \in {"loaded", "saved", "locked", "cleaned"} => snap[r] = session
  /\ cur # None /\ pc[cur] = "ok" /\ step \in {"create", "status"} =>
       session # None /\ snap[cur] = session

\* The document is made once, from all the chunks of a session that is still open;
\* a chunk is added to an open session, and what was acknowledged is in its row.
OneDocument ==
  /\ documents \in {0, 1}
  /\ \A r \in Req : /\ pc[r] \in {"saved", "cleaned"} => snap[r].status = "in_progress"
                    /\ pc[r] = "cleaned" => snap[r].received = Chunk
  /\ AcksAreKept /\ (session = None => acked = {})

\* What the row says was received is on the disk until a request has put it in the
\* document and is about to say so.
OnDisk ==
  /\ session # None /\ session.status = "in_progress" /\ (\A r \in Req : pc[r] # "cleaned")
       => session.received \subseteq files
  /\ session # None /\ session.status = "completed" => session.received = Chunk
  /\ session = None => acked = {}
  /\ \A r \in Req : /\ pc[r] = "saved" => part[r] \in files
                    /\ pc[r] \in {"locked", "cleaned"} => lock = r
                    /\ pc[r] = "cleaned" => snap[r].received = Chunk

\* The device asks for what the server can do, and meets no error.
Guided ==
  /\ step \in {"status", "chunk", "complete"} => session # None
  /\ step = "chunk" => session.status = "in_progress" /\ Chunk \ left \subseteq session.received
  /\ step = "chunk" /\ cur # None /\ pc[cur] = "ok" => part[cur] \in session.received
  /\ step = "complete" => session.received = Chunk
  /\ cur # None => pc[cur] # "error"
  /\ step \notin {"failed", "shown"}

Sound == ~Overlap /\ ~Crash /\ ~StartsOffline

StoredInv == /\ TypeOK /\ Prepared /\ Believed
             /\ CompletedMeansStored /\ DoneMeansStored

SerialInv == StoredInv /\ OneRequest /\ OneDocument

OrderlyInv == StoredInv /\ OneRequest /\ OnDisk /\ Guided /\ AcksAreKept

-----------------------------------------------------------------------------
LEMMA NaturalsAreWellOrdered ==
  IsWellFoundedOn({p \in Nat \X Nat : p[1] < p[2]}, Nat)
BY NatLessThanWellFounded, Zenon DEF OpToRel

LEMMA MinIsMember ==
  ASSUME NEW S \in SUBSET Nat, S # {}
  PROVE  Min(S) \in S
<1>1. PICK x \in S : \A y \in S : ~(<<y, x>> \in {p \in Nat \X Nat : p[1] < p[2]})
  BY NaturalsAreWellOrdered, WFMin
<1>2. ASSUME NEW y \in S PROVE x <= y
  <2>1. <<y, x>> \in Nat \X Nat /\ <<y, x>>[1] = y /\ <<y, x>>[2] = x
    OBVIOUS
  <2>2. ~(y < x)
    BY <1>1, <2>1
  <2>. QED
    BY <2>1, <2>2
<1>. QED
  BY <1>2 DEF Min

LEMMA StoredInit == ConstantsAssumption /\ Init => StoredInv
BY DEF ConstantsAssumption, Init, StoredInv, TypeOK, Prepared, Believed, CompletedMeansStored,
       DoneMeansStored, Req, Chunk, Kinds, InFlight

LEMMA TypeStep == ConstantsAssumption /\ TypeOK /\ Prepared /\ [Next]_vars => TypeOK'
<1> SUFFICES ASSUME ConstantsAssumption, TypeOK, Prepared, [Next]_vars PROVE TypeOK'
  OBVIOUS
<1> USE DEF TypeOK, Kinds, InFlight
<1>1. ASSUME NEW r \in Req, Send(r) PROVE TypeOK'
  <2>1. ASSUME step = "chunk" PROVE Min(left) \in Chunk
    <3>1. left \in SUBSET Nat /\ left # {}
      BY <2>1 DEF Chunk
    <3>. QED
      BY <3>1, MinIsMember
  <2>. QED
    BY <1>1, <2>1 DEF Send, stored
<1>2. CASE Answered
  BY <1>2 DEF Answered, Push, requests, stored
<1>3. CASE Refused
  BY <1>3 DEF Refused, requests, stored
<1>4. CASE NetworkError
  BY <1>4 DEF NetworkError, requests, stored
<1>5. ASSUME NEW r \in Req, Create(r) PROVE TypeOK'
  BY <1>5 DEF Create, End, device, RowType
<1>6. ASSUME NEW r \in Req, Load(r) PROVE TypeOK'
  BY <1>6 DEF Load, End, device, stored
<1>7. ASSUME NEW r \in Req, WriteChunk(r) PROVE TypeOK'
  BY <1>7 DEF WriteChunk, End, device, Prepared
<1>8. ASSUME NEW r \in Req, CommitChunk(r) PROVE TypeOK'
  BY <1>8 DEF CommitChunk, End, device, Prepared, Received, RowType
<1>9. ASSUME NEW r \in Req, LockSession(r) PROVE TypeOK'
  BY <1>9 DEF LockSession, End, device
<1>10. ASSUME NEW r \in Req, ReturnDocument(r) PROVE TypeOK'
  BY <1>10 DEF ReturnDocument, End, device
<1>11. ASSUME NEW r \in Req, RefuseComplete(r) PROVE TypeOK'
  BY <1>11 DEF RefuseComplete, End, device
<1>12. ASSUME NEW r \in Req, Assemble(r) PROVE TypeOK'
  BY <1>12 DEF Assemble, End, device
<1>13. ASSUME NEW r \in Req, CommitComplete(r) PROVE TypeOK'
  BY <1>13 DEF CommitComplete, End, device, Prepared, RowType
<1>14. ASSUME NEW r \in Req, Rollback(r) PROVE TypeOK'
  BY <1>14 DEF Rollback, End, device
<1>15. ASSUME NEW r \in Req, Vanish(r) PROVE TypeOK'
  BY <1>15 DEF Vanish, End, device, stored
<1>16. CASE UNCHANGED vars
  BY <1>16 DEF vars, device, requests, stored
<1>. QED
  BY <1>1, <1>2, <1>3, <1>4, <1>5, <1>6, <1>7, <1>8, <1>9, <1>10, <1>11, <1>12, <1>13,
     <1>14, <1>15, <1>16 DEF Next, Serve

LEMMA PreparedStep ==
  ConstantsAssumption /\ TypeOK /\ Prepared /\ [Next]_vars => Prepared'
<1> SUFFICES ASSUME ConstantsAssumption, TypeOK, Prepared, [Next]_vars PROVE Prepared'
  OBVIOUS
<1> USE DEF Prepared
<1>1. ASSUME NEW r \in Req, Send(r) PROVE Prepared'
  <2>1. ASSUME step = "chunk" PROVE Min(left) \in Chunk
    <3>1. left \in SUBSET Nat /\ left # {}
      BY <2>1 DEF Chunk, TypeOK
    <3>2. left \subseteq Chunk
      BY DEF TypeOK
    <3>. QED
      BY <3>1, <3>2, MinIsMember
  <2>. QED
    BY <1>1, <2>1 DEF Send, stored, TypeOK
<1>2. CASE Answered \/ Refused \/ NetworkError
  BY <1>2 DEF Answered, Refused, NetworkError, requests, stored
<1>3. ASSUME NEW r \in Req, Create(r) PROVE Prepared'
  BY <1>3 DEF Create, End, device, TypeOK
<1>4. ASSUME NEW r \in Req, Load(r) PROVE Prepared'
  BY <1>4 DEF Load, End, device, stored, TypeOK
<1>5. ASSUME NEW r \in Req, WriteChunk(r) \/ Vanish(r) PROVE Prepared'
  BY <1>5 DEF WriteChunk, Vanish, End, device, stored, TypeOK
<1>6. ASSUME NEW r \in Req, CommitChunk(r) PROVE Prepared'
  <2>1. session' # None
    <3>1. session \in RowType /\ Received(r) \subseteq Chunk
      BY <1>6 DEF CommitChunk, TypeOK, RowType, Received
    <3>2. session' \in RowType
      BY <1>6, <3>1 DEF CommitChunk, RowType
    <3>. QED
      BY <3>2 DEF ConstantsAssumption
  <2>. QED
    BY <1>6, <2>1 DEF CommitChunk, End, device, TypeOK
<1>7. ASSUME NEW r \in Req, LockSession(r) \/ ReturnDocument(r) \/ RefuseComplete(r) PROVE Prepared'
  BY <1>7 DEF LockSession, ReturnDocument, RefuseComplete, End, device, TypeOK
<1>8. ASSUME NEW r \in Req, Assemble(r) \/ Rollback(r) PROVE Prepared'
  <2>1. CASE Assemble(r)
    BY <2>1 DEF Assemble, End, device, TypeOK
  <2>2. CASE Rollback(r)
    <3>1. pc'[r] = "error" /\ \A q \in Req \ {r} : pc'[q] = pc[q]
      BY <2>2 DEF Rollback, End, TypeOK
    <3>. QED
      BY <2>2, <3>1 DEF Rollback, device, InFlight
  <2>. QED
    BY <1>8, <2>1, <2>2
<1>9. ASSUME NEW r \in Req, CommitComplete(r) PROVE Prepared'
  <2>1. session' # None
    <3>1. session' \in RowType
      BY <1>9 DEF CommitComplete, TypeOK, RowType
    <3>. QED
      BY <3>1 DEF ConstantsAssumption
  <2>. QED
    BY <1>9, <2>1 DEF CommitComplete, End, device, TypeOK
<1>10. CASE UNCHANGED vars
  BY <1>10 DEF vars, device, requests, stored
<1>. QED
  BY <1>1, <1>2, <1>3, <1>4, <1>5, <1>6, <1>7, <1>8, <1>9, <1>10 DEF Next, Serve
-----------------------------------------------------------------------------
LEMMA BelievedStep ==
  ConstantsAssumption /\ StoredInv /\ [Next]_vars
    => Believed' /\ CompletedMeansStored' /\ DoneMeansStored'
<1> DEFINE Goal == Believed /\ CompletedMeansStored /\ DoneMeansStored
<1> SUFFICES ASSUME ConstantsAssumption, StoredInv, [Next]_vars PROVE Goal'
  OBVIOUS
<1> USE DEF StoredInv, Believed, CompletedMeansStored, DoneMeansStored
<1>1. ASSUME NEW r \in Req, Send(r) PROVE Goal'
  BY <1>1 DEF Send, stored, TypeOK, Kinds
<1>2. CASE Answered
  BY <1>2 DEF Answered, Push, requests, stored, TypeOK, Kinds
<1>3. CASE Refused \/ NetworkError
  BY <1>3 DEF Refused, NetworkError, requests, stored
<1>4. ASSUME NEW r \in Req, Create(r) PROVE Goal'
  BY <1>4 DEF Create, End, device, TypeOK
<1>5. ASSUME NEW r \in Req, Load(r) PROVE Goal'
  BY <1>5 DEF Load, End, device, stored, TypeOK
<1>6. ASSUME NEW r \in Req, WriteChunk(r) \/ Vanish(r) PROVE Goal'
  BY <1>6 DEF WriteChunk, Vanish, End, device, stored, TypeOK
<1>7. ASSUME NEW r \in Req, CommitChunk(r) PROVE Goal'
  <2>1. session # None /\ session \in RowType /\ kind[r] = "chunk"
    BY <1>7 DEF CommitChunk, TypeOK, Prepared
  <2>2. session'.status = session.status /\ session' # None
    <3>1. Received(r) \subseteq Chunk
      BY <1>7 DEF CommitChunk, TypeOK, Prepared, RowType, Received
    <3>2. session' \in RowType /\ session'.status = session.status
      BY <1>7, <2>1, <3>1 DEF CommitChunk, RowType
    <3>. QED
      BY <3>2 DEF ConstantsAssumption
  <2>3. pc' = [pc EXCEPT ![r] = "ok"] /\ UNCHANGED <<step, documents, snap, kind>>
    BY <1>7 DEF CommitChunk, End, device
  <2>. QED
    BY <2>1, <2>2, <2>3 DEF TypeOK
<1>8. ASSUME NEW r \in Req, LockSession(r) \/ RefuseComplete(r) \/ Rollback(r) PROVE Goal'
  <2>1. /\ UNCHANGED <<step, session, documents, snap, kind>>
        /\ pc' = [pc EXCEPT ![r] = "locked"] \/ pc' = [pc EXCEPT ![r] = "error"]
    BY <1>8 DEF LockSession, RefuseComplete, Rollback, End, device
  <2>. QED
    BY <2>1 DEF TypeOK
<1>9. ASSUME NEW r \in Req, ReturnDocument(r) PROVE Goal'
  BY <1>9 DEF ReturnDocument, AlreadyCompleted, End, device, TypeOK, Prepared
<1>10. ASSUME NEW r \in Req, Assemble(r) PROVE Goal'
  BY <1>10 DEF Assemble, End, device, TypeOK
<1>11. ASSUME NEW r \in Req, CommitComplete(r) PROVE Goal'
  <2>1. session # None /\ session \in RowType
    BY <1>11 DEF CommitComplete, TypeOK, Prepared
  <2>2. documents' > 0 /\ session'.status = "completed"
    BY <1>11, <2>1 DEF CommitComplete, TypeOK, RowType
  <2>3. session' # None
    BY <1>11, <2>1 DEF CommitComplete, RowType, ConstantsAssumption
  <2>. QED
    BY <1>11, <2>2, <2>3 DEF CommitComplete, End, device, TypeOK
<1>12. CASE UNCHANGED vars
  BY <1>12 DEF vars, device, requests, stored
<1>. QED
  BY <1>1, <1>2, <1>3, <1>4, <1>5, <1>6, <1>7, <1>8, <1>9, <1>10, <1>11, <1>12
     DEF Next, Serve

LEMMA StoredStep == ConstantsAssumption /\ StoredInv /\ [Next]_vars => StoredInv'
BY TypeStep, PreparedStep, BelievedStep DEF StoredInv

-----------------------------------------------------------------------------
\* Mutual exclusion of the requests comes from Send, which waits for the server.
LEMMA OneRequestStep ==
  ConstantsAssumption /\ ~Overlap /\ StoredInv /\ OneRequest /\ [Next]_vars => OneRequest'
<1> SUFFICES ASSUME ConstantsAssumption, ~Overlap, StoredInv, OneRequest, [Next]_vars
             PROVE  OneRequest'
  OBVIOUS
<1> USE DEF StoredInv, OneRequest, TypeOK, Kinds, InFlight
<1>1. ASSUME NEW r \in Req, Send(r) PROVE OneRequest'
  <2>1. /\ \A q \in Req : pc[q] \notin InFlight
        /\ cur' = r /\ UNCHANGED <<step, snap, session>>
        /\ pc' = [pc EXCEPT ![r] = "received"] /\ kind' = [kind EXCEPT ![r] = step]
    BY <1>1 DEF Send, stored
  <2>2. cur' # None
    BY <2>1 DEF ConstantsAssumption, Req
  <2>. QED
    BY <2>1, <2>2
<1>2. CASE Answered
  <2>1. cur' = None /\ UNCHANGED <<kind, pc, snap, session>> /\ \A q \in Req : pc[q] \notin InFlight
    BY <1>2 DEF Answered, requests, stored
  <2>. QED
    BY <2>1
<1>3. CASE Refused
  <2>1. /\ cur' = None /\ UNCHANGED <<kind, pc, snap, session>>
        /\ \A q \in Req : pc[q] \notin InFlight
    BY <1>3 DEF Refused, requests, stored
  <2>. QED
    BY <2>1
<1>4. CASE NetworkError
  BY <1>4 DEF NetworkError, requests, stored
<1>5. ASSUME NEW r \in Req, pc[r] \in InFlight
      PROVE  /\ \A q \in Req \ {r} : pc[q] \notin InFlight
             /\ r = cur \/ (cur = None /\ step = "status")
  BY <1>5
<1>6. ASSUME NEW r \in Req, Create(r) PROVE OneRequest'
  <2>1. /\ pc' = [pc EXCEPT ![r] = "ok"] /\ snap' = [snap EXCEPT ![r] = session']
        /\ UNCHANGED <<cur, step, kind>> /\ pc[r] = "received"
    BY <1>6 DEF Create, End, device
  <2>2. session' # None
    BY <1>6 DEF Create, ConstantsAssumption, RowType
  <2>. QED
    BY <1>5, <2>1, <2>2
<1>7. ASSUME NEW r \in Req, Load(r) PROVE OneRequest'
  <2>1. /\ pc[r] = "received" /\ snap' = [snap EXCEPT ![r] = session]
        /\ UNCHANGED <<cur, step, kind, session>> /\ kind[r] # "create"
        /\ pc' = [pc EXCEPT ![r] = pc'[r]] /\ pc'[r] \in {"ok", "error", "loaded"}
        /\ pc'[r] = "ok" => session # None
    BY <1>7 DEF Load, End, device, stored
  <2>. QED
    BY <1>5, <2>1
<1>8. ASSUME NEW r \in Req, WriteChunk(r) PROVE OneRequest'
  <2>1. /\ pc[r] = "loaded" /\ UNCHANGED <<cur, step, kind, session, snap>>
        /\ pc' = [pc EXCEPT ![r] = "saved"] \/ pc' = [pc EXCEPT ![r] = "error"]
    BY <1>8 DEF WriteChunk, End, device
  <2>. QED
    BY <1>5, <2>1
<1>9. ASSUME NEW r \in Req, CommitChunk(r) PROVE OneRequest'
  <2>1. /\ pc[r] = "saved" /\ kind[r] = "chunk" /\ UNCHANGED <<cur, step, kind, snap>>
        /\ pc' = [pc EXCEPT ![r] = "ok"]
    BY <1>9 DEF CommitChunk, End, device, Prepared
  <2>. QED
    BY <1>5, <2>1
<1>10. ASSUME NEW r \in Req,
              LockSession(r) \/ ReturnDocument(r) \/ RefuseComplete(r) \/ Assemble(r)
       PROVE  OneRequest'
  <2>1. /\ UNCHANGED <<cur, step, kind, session, snap>>
        /\ \/ pc[r] = "loaded" /\ pc' = [pc EXCEPT ![r] = "locked"]
           \/ pc[r] = "locked" /\ pc' = [pc EXCEPT ![r] = "ok"]
           \/ pc[r] = "locked" /\ pc' = [pc EXCEPT ![r] = "error"]
           \/ pc[r] = "locked" /\ pc' = [pc EXCEPT ![r] = "cleaned"]
        /\ kind[r] = "complete"
    BY <1>10 DEF LockSession, ReturnDocument, RefuseComplete, Assemble, End, device, Prepared
  <2>. QED
    BY <1>5, <2>1
<1>11. ASSUME NEW r \in Req, CommitComplete(r) PROVE OneRequest'
  <2>1. /\ pc[r] = "cleaned" /\ kind[r] = "complete" /\ UNCHANGED <<cur, step, kind, snap>>
        /\ pc' = [pc EXCEPT ![r] = "ok"]
    BY <1>11 DEF CommitComplete, End, device, Prepared
  <2>. QED
    BY <1>5, <2>1
<1>12. ASSUME NEW r \in Req, Vanish(r) PROVE OneRequest'
  <2>1. /\ pc[r] = "received" /\ cur # r /\ UNCHANGED <<cur, step, kind, session, snap>>
        /\ pc' = [pc EXCEPT ![r] = "error"]
    BY <1>12 DEF Vanish, End, device, stored
  <2>. QED
    BY <1>5, <2>1
<1>13. CASE UNCHANGED vars
  BY <1>13 DEF vars, device, requests, stored
<1>14. ASSUME NEW r \in Req, Rollback(r) PROVE OneRequest'
  <2>1. /\ pc[r] \in InFlight /\ UNCHANGED <<cur, step, kind, session, snap>>
        /\ pc' = [pc EXCEPT ![r] = "error"]
    BY <1>14 DEF Rollback, End, device
  <2>. QED
    BY <1>5, <2>1
<1>. QED
  BY <1>1, <1>2, <1>3, <1>4, <1>6, <1>7, <1>8, <1>9, <1>10, <1>11, <1>12, <1>13, <1>14
     DEF Next, Serve


LEMMA OneDocumentStep ==
  ConstantsAssumption /\ SerialInv /\ [Next]_vars => OneDocument'
<1> SUFFICES ASSUME ConstantsAssumption, SerialInv, [Next]_vars PROVE OneDocument'
  OBVIOUS
<1> USE DEF SerialInv, StoredInv, OneDocument, AcksAreKept, TypeOK, RowType
<1>1. ASSUME NEW r \in Req, Send(r) \/ Vanish(r) \/ LockSession(r) \/ ReturnDocument(r)
                            \/ RefuseComplete(r) \/ Rollback(r)
      PROVE  OneDocument'
  <2>1. /\ pc' = [pc EXCEPT ![r] = pc'[r]] /\ pc'[r] \in {"received", "error", "locked", "ok"}
        /\ UNCHANGED <<snap, session, acked, documents>>
    BY <1>1 DEF Send, Vanish, LockSession, ReturnDocument, RefuseComplete, Rollback, End, stored
  <2>. QED
    BY <2>1
<1>2. CASE Answered \/ Refused \/ NetworkError
  BY <1>2 DEF Answered, Refused, NetworkError, requests, stored
<1>3. ASSUME NEW r \in Req, Create(r) PROVE OneDocument'
  <2>1. /\ pc' = [pc EXCEPT ![r] = "ok"] /\ UNCHANGED <<acked, documents>>
        /\ snap' = [snap EXCEPT ![r] = session']
    BY <1>3 DEF Create, End
  <2>2. session' = session \/ (session = None /\ session' = [status |-> "in_progress", received |-> {}])
    BY <1>3 DEF Create
  <2>. QED
    BY <2>1, <2>2
<1>4. ASSUME NEW r \in Req, Load(r) PROVE OneDocument'
  <2>1. /\ snap' = [snap EXCEPT ![r] = session] /\ UNCHANGED <<session, acked, documents>>
        /\ pc' = [pc EXCEPT ![r] = pc'[r]] /\ pc'[r] \in {"ok", "error", "loaded"}
    BY <1>4 DEF Load, End, stored
  <2>. QED
    BY <2>1
<1>5. ASSUME NEW r \in Req, WriteChunk(r) PROVE OneDocument'
  <2>1. /\ pc[r] = "loaded" /\ UNCHANGED <<session, snap, acked, documents>>
        /\ \/ pc' = [pc EXCEPT ![r] = "saved"] /\ snap[r].status # "completed"
           \/ pc' = [pc EXCEPT ![r] = "error"]
    BY <1>5 DEF WriteChunk, End
  <2>2. pc[r] = "loaded" => snap[r] \in RowType
    BY DEF Prepared
  <2>. QED
    BY <2>1, <2>2
<1>6. ASSUME NEW r \in Req, CommitChunk(r) PROVE OneDocument'
  <2>1. /\ pc[r] = "saved" /\ pc' = [pc EXCEPT ![r] = "ok"] /\ acked' = acked \cup {part[r]}
        /\ UNCHANGED <<snap, documents>>
    BY <1>6 DEF CommitChunk, End
  <2>2. session # None /\ snap[r] = session /\ part[r] \in Chunk
    BY <2>1 DEF Prepared, OneRequest
  <2>3. session' \in RowType /\ session'.received = session.received \cup {part[r]}
    BY <1>6, <2>2 DEF CommitChunk, Received
  <2>4. session' # None
    BY <2>3 DEF ConstantsAssumption
  <2>. QED
    BY <2>1, <2>2, <2>3, <2>4
<1>7. ASSUME NEW r \in Req, Assemble(r) PROVE OneDocument'
  <2>1. /\ pc[r] = "locked" /\ pc' = [pc EXCEPT ![r] = "cleaned"]
        /\ UNCHANGED <<session, snap, acked, documents>>
        /\ snap[r].received = Chunk /\ snap[r].status # "completed"
    BY <1>7 DEF Assemble, Assemblable, AlreadyCompleted, End
  <2>2. snap[r] \in RowType
    BY <2>1 DEF Prepared
  <2>. QED
    BY <2>1, <2>2
<1>8. ASSUME NEW r \in Req, CommitComplete(r) PROVE OneDocument'
  <2>1. /\ pc[r] = "cleaned" /\ pc' = [pc EXCEPT ![r] = "ok"] /\ documents' = documents + 1
        /\ UNCHANGED <<snap, acked>>
    BY <1>8 DEF CommitComplete, End
  <2>2. session # None /\ snap[r] = session /\ documents = 0
    BY <2>1 DEF Prepared, OneRequest, CompletedMeansStored
  <2>3. session' \in RowType /\ session'.received = session.received
    BY <1>8, <2>2 DEF CommitComplete
  <2>4. session' # None
    BY <2>3 DEF ConstantsAssumption
  <2>. QED
    BY <2>1, <2>2, <2>3, <2>4
<1>9. CASE UNCHANGED vars
  BY <1>9 DEF vars, device, requests, stored
<1>. QED
  BY <1>1, <1>2, <1>3, <1>4, <1>5, <1>6, <1>7, <1>8, <1>9 DEF Next, Serve

LEMMA SerialInit == ConstantsAssumption /\ Init => SerialInv
BY StoredInit
   DEF ConstantsAssumption, Init, SerialInv, OneRequest, OneDocument, AcksAreKept, Req, InFlight

LEMMA SerialStep == ConstantsAssumption /\ ~Overlap /\ SerialInv /\ [Next]_vars => SerialInv'
BY StoredStep, OneRequestStep, OneDocumentStep DEF SerialInv

\* The disk is emptied by complete alone, which holds the lock and every chunk.
LEMMA OnDiskStep ==
  ConstantsAssumption /\ Sound /\ OrderlyInv /\ [Next]_vars => OnDisk' /\ AcksAreKept'
<1> DEFINE Goal == OnDisk /\ AcksAreKept
<1> SUFFICES ASSUME ConstantsAssumption, Sound, OrderlyInv, [Next]_vars PROVE Goal'
  OBVIOUS
<1> USE DEF OrderlyInv, StoredInv, OnDisk, AcksAreKept, TypeOK, RowType
<1>1. ASSUME NEW r \in Req, Send(r) PROVE Goal'
  <2>1. /\ pc' = [pc EXCEPT ![r] = "received"] /\ UNCHANGED <<snap, session, files, acked, lock>>
        /\ \A q \in Req \ {r} : part'[q] = part[q]
        /\ pc[r] \notin InFlight
    BY <1>1 DEF Send, Sound, stored
  <2>. QED
    BY <2>1 DEF InFlight
<1>2. CASE Answered \/ Refused \/ NetworkError
  BY <1>2 DEF Answered, Refused, NetworkError, requests, stored
<1>3. ASSUME NEW r \in Req, pc[r] \in InFlight
      PROVE  \A q \in Req \ {r} : pc[q] \notin InFlight
  BY <1>3 DEF OneRequest
<1>4. ASSUME NEW r \in Req, Create(r) PROVE Goal'
  <2>1. /\ pc[r] = "received" /\ pc' = [pc EXCEPT ![r] = "ok"]
        /\ UNCHANGED <<part, lock, files, acked>>
        /\ snap' = [snap EXCEPT ![r] = session']
    BY <1>4 DEF Create, End, device
  <2>2. session' = session \/ (session = None /\ session' = [status |-> "in_progress", received |-> {}])
    BY <1>4 DEF Create
  <2>. QED
    BY <1>3, <2>1, <2>2 DEF InFlight
<1>5. ASSUME NEW r \in Req, Load(r) PROVE Goal'
  <2>1. /\ pc[r] = "received" /\ snap' = [snap EXCEPT ![r] = session]
        /\ UNCHANGED <<part, lock, files, acked, session>>
        /\ pc' = [pc EXCEPT ![r] = pc'[r]] /\ pc'[r] \in {"ok", "error", "loaded"}
    BY <1>5 DEF Load, End, device, stored
  <2>. QED
    BY <1>3, <2>1 DEF InFlight
<1>6. ASSUME NEW r \in Req, WriteChunk(r) PROVE Goal'
  <2>1. /\ pc[r] = "loaded" /\ UNCHANGED <<part, lock, acked, session, snap>>
        /\ \/ pc' = [pc EXCEPT ![r] = "saved"] /\ files' = files \cup {part[r]}
           \/ pc' = [pc EXCEPT ![r] = "error"] /\ files' = files
    BY <1>6 DEF WriteChunk, End, device
  <2>. QED
    BY <1>3, <2>1 DEF InFlight
<1>7. ASSUME NEW r \in Req, CommitChunk(r) PROVE Goal'
  <2>1. /\ pc[r] = "saved" /\ UNCHANGED <<part, lock, files, snap>>
        /\ pc' = [pc EXCEPT ![r] = "ok"] /\ acked' = acked \cup {part[r]}
    BY <1>7 DEF CommitChunk, End, device
  <2>2. session # None /\ snap[r] = session /\ part[r] \in Chunk
    BY <2>1 DEF Prepared, OneRequest
  <2>3. /\ session' \in RowType /\ session'.status = session.status
        /\ session'.received = session.received \cup {part[r]}
    BY <1>7, <2>2 DEF CommitChunk, Received
  <2>4. session' # None
    BY <2>3 DEF ConstantsAssumption
  <2>5. OnDisk'
    BY <1>3, <2>1, <2>2, <2>3, <2>4 DEF InFlight
  <2>6. AcksAreKept'
    BY <2>1, <2>2, <2>3
  <2>. QED
    BY <2>5, <2>6
<1>8. ASSUME NEW r \in Req, LockSession(r) PROVE Goal'
  <2>1. /\ pc[r] = "loaded" /\ pc' = [pc EXCEPT ![r] = "locked"] /\ lock' = r
        /\ UNCHANGED <<part, files, acked, session, snap>>
    BY <1>8 DEF LockSession, End, device
  <2>. QED
    BY <1>3, <2>1 DEF InFlight
<1>9. ASSUME NEW r \in Req, ReturnDocument(r) \/ RefuseComplete(r) PROVE Goal'
  <2>1. /\ pc[r] = "locked"
        /\ UNCHANGED <<part, files, acked, session, snap>>
        /\ pc' = [pc EXCEPT ![r] = "ok"] \/ pc' = [pc EXCEPT ![r] = "error"]
    BY <1>9 DEF ReturnDocument, RefuseComplete, End, device
  <2>. QED
    BY <1>3, <2>1 DEF InFlight
<1>10. ASSUME NEW r \in Req, Assemble(r) PROVE Goal'
  <2>1. /\ pc[r] = "locked" /\ pc' = [pc EXCEPT ![r] = "cleaned"]
        /\ UNCHANGED <<part, lock, acked, session, snap>>
        /\ snap[r].received = Chunk
    BY <1>10 DEF Assemble, Assemblable, End, device
  <2>2. snap[r] = session
    BY <2>1 DEF OneRequest
  <2>. QED
    BY <1>3, <2>1, <2>2 DEF InFlight
<1>11. ASSUME NEW r \in Req, CommitComplete(r) PROVE Goal'
  <2>1. /\ pc[r] = "cleaned" /\ pc' = [pc EXCEPT ![r] = "ok"]
        /\ UNCHANGED <<part, files, acked, snap>>
    BY <1>11 DEF CommitComplete, End, device
  <2>2. session # None /\ snap[r] = session
    BY <2>1 DEF OneRequest, Prepared
  <2>3. /\ session' \in RowType /\ session'.status = "completed"
        /\ session'.received = Chunk /\ session.received = Chunk
    BY <1>11, <2>1, <2>2 DEF CommitComplete
  <2>. QED
    BY <1>3, <2>1, <2>2, <2>3 DEF InFlight, ConstantsAssumption
<1>12. ASSUME NEW r \in Req, Vanish(r) PROVE Goal'
  <2>1. /\ pc[r] = "received" /\ pc' = [pc EXCEPT ![r] = "error"]
        /\ UNCHANGED <<part, lock, files, acked, session, snap>>
    BY <1>12 DEF Vanish, End, device, stored
  <2>. QED
    BY <2>1
<1>13. CASE UNCHANGED vars
  BY <1>13 DEF vars, device, requests, stored
<1>14. \A r \in Req : ~Rollback(r)
  BY DEF Rollback, Sound
<1>. QED
  BY <1>1, <1>2, <1>4, <1>5, <1>6, <1>7, <1>8, <1>9, <1>10, <1>11, <1>12, <1>13, <1>14
     DEF Next, Serve

\* The device asks for a step only once the row allows it, so no request it waits
\* for is refused.
LEMMA GuidedStep ==
  ConstantsAssumption /\ Sound /\ OrderlyInv /\ [Next]_vars => Guided'
<1> SUFFICES ASSUME ConstantsAssumption, Sound, OrderlyInv, [Next]_vars PROVE Guided'
  OBVIOUS
<1> USE DEF OrderlyInv, StoredInv, Guided, TypeOK, RowType
<1>1. ASSUME NEW r \in Req, Send(r) PROVE Guided'
  <2>1. cur' = r /\ pc' = [pc EXCEPT ![r] = "received"] /\ UNCHANGED <<step, left, session>>
    BY <1>1 DEF Send, stored
  <2>. QED
    BY <2>1
<1>2. CASE Answered
  <2>1. /\ cur' = None /\ UNCHANGED session
        /\ cur # None /\ pc[cur] = "ok" /\ kind[cur] = step /\ step \in Kinds
    BY <1>2 DEF Answered, requests, stored, OneRequest
  <2>2. CASE step \in {"create", "status"}
    <3>1. session # None /\ snap[cur] = session
      BY <2>1, <2>2 DEF OneRequest
    <3>2. Push(Chunk \ session.received)
      BY <1>2, <2>1, <2>2, <3>1 DEF Answered
    <3>3. session \in RowType /\ (session.status = "completed" => session.received = Chunk)
      BY <3>1 DEF OnDisk
    <3>. QED
      BY <2>1, <3>1, <3>2, <3>3 DEF Push
  <2>3. CASE step = "chunk"
    <3>1. Push(left \ {part[cur]})
      BY <1>2, <2>1, <2>3 DEF Answered
    <3>. QED
      BY <2>1, <2>3, <3>1 DEF Push
  <2>4. CASE step = "complete"
    BY <1>2, <2>1, <2>4 DEF Answered
  <2>. QED
    BY <2>1, <2>2, <2>3, <2>4 DEF Kinds
<1>3. CASE Refused
  BY <1>3 DEF Refused
<1>4. CASE NetworkError
  <2>1. cur' = None /\ step' = "status" /\ UNCHANGED session /\ cur # None /\ step \in Kinds
    BY <1>4 DEF NetworkError, requests, stored, OneRequest
  <2>2. session # None
    BY <1>4, <2>1 DEF NetworkError, Sound, Kinds
  <2>. QED
    BY <2>1, <2>2
<1>5. ASSUME NEW r \in Req, pc[r] \in InFlight
      PROVE  \/ r = cur /\ cur # None /\ kind[r] = step
             \/ cur = None /\ step = "status"
  BY <1>5 DEF OneRequest, Req, ConstantsAssumption
<1>6. ASSUME NEW r \in Req, Create(r) PROVE Guided'
  <2>1. /\ pc[r] = "received" /\ kind[r] = "create" /\ pc' = [pc EXCEPT ![r] = "ok"]
        /\ UNCHANGED <<cur, step, left, part>>
    BY <1>6 DEF Create, End, device
  <2>2. (session # None => session' = session) /\ session' # None
    BY <1>6 DEF Create, ConstantsAssumption
  <2>. QED
    BY <1>5, <2>1, <2>2 DEF InFlight
<1>7. ASSUME NEW r \in Req, Load(r) PROVE Guided'
  <2>1. /\ pc[r] = "received" /\ kind[r] # "create" /\ pc' = [pc EXCEPT ![r] = pc'[r]]
        /\ UNCHANGED <<cur, step, left, part, session>>
        /\ pc'[r] = "error" => session = None
        /\ pc'[r] = "ok" => kind[r] = "status"
    BY <1>7 DEF Load, End, device, stored
  <2>. QED
    BY <1>5, <2>1 DEF InFlight, Kinds
<1>8. ASSUME NEW r \in Req, WriteChunk(r) PROVE Guided'
  <2>1. /\ pc[r] = "loaded" /\ kind[r] = "chunk" /\ UNCHANGED <<cur, step, left, part, session>>
        /\ \/ pc' = [pc EXCEPT ![r] = "saved"]
           \/ pc' = [pc EXCEPT ![r] = "error"] /\ snap[r].status = "completed"
    BY <1>8 DEF WriteChunk, End, device
  <2>2. snap[r] = session
    BY <2>1 DEF OneRequest
  <2>. QED
    BY <1>5, <2>1, <2>2 DEF InFlight
<1>9. ASSUME NEW r \in Req, CommitChunk(r) PROVE Guided'
  <2>1. /\ pc[r] = "saved" /\ kind[r] = "chunk" /\ UNCHANGED <<cur, step, left, part>>
        /\ pc' = [pc EXCEPT ![r] = "ok"]
    BY <1>9 DEF CommitChunk, End, device, Prepared
  <2>2. session # None /\ snap[r] = session /\ part[r] \in Chunk
    BY <2>1 DEF Prepared, OneRequest
  <2>3. /\ session' \in RowType /\ session'.status = session.status
        /\ session'.received = session.received \cup {part[r]}
    BY <1>9, <2>2 DEF CommitChunk, Received
  <2>. QED
    BY <1>5, <2>1, <2>2, <2>3 DEF InFlight, ConstantsAssumption
<1>10. ASSUME NEW r \in Req, LockSession(r) \/ ReturnDocument(r) \/ Assemble(r) PROVE Guided'
  <2>1. /\ pc[r] \in InFlight /\ kind[r] = "complete" /\ UNCHANGED <<cur, step, left, part, session>>
        /\ \/ pc' = [pc EXCEPT ![r] = "locked"]
           \/ pc' = [pc EXCEPT ![r] = "cleaned"]
           \/ pc' = [pc EXCEPT ![r] = "ok"]
    BY <1>10 DEF LockSession, ReturnDocument, Assemble, End, device, Prepared, InFlight
  <2>. QED
    BY <1>5, <2>1
<1>11. ASSUME NEW r \in Req, RefuseComplete(r) PROVE Guided'
  <2>1. /\ pc[r] = "locked" /\ kind[r] = "complete" /\ pc' = [pc EXCEPT ![r] = "error"]
        /\ UNCHANGED <<cur, step, left, part, session>>
        /\ snap[r].status # "completed" /\ ~Assemblable(r)
    BY <1>11 DEF RefuseComplete, AlreadyCompleted, End, device, Prepared
  <2>2. session # None /\ snap[r] = session
    BY <2>1 DEF Prepared, OneRequest
  <2>3. \A q \in Req : pc[q] # "cleaned"
    BY <2>1 DEF OneRequest, InFlight
  <2>4. session.received \subseteq files
    BY <2>1, <2>2, <2>3 DEF OnDisk
  <2>5. session.received # Chunk
    BY <2>1, <2>2, <2>4 DEF Assemblable
  <2>. QED
    BY <1>5, <2>1, <2>5 DEF InFlight
<1>12. ASSUME NEW r \in Req, CommitComplete(r) PROVE Guided'
  <2>1. /\ pc[r] = "cleaned" /\ kind[r] = "complete" /\ pc' = [pc EXCEPT ![r] = "ok"]
        /\ UNCHANGED <<cur, step, left, part>>
    BY <1>12 DEF CommitComplete, End, device, Prepared
  <2>2. session # None
    BY <2>1 DEF Prepared
  <2>3. session' \in RowType /\ session'.received = session.received
    BY <1>12, <2>2 DEF CommitComplete
  <2>. QED
    BY <1>5, <2>1, <2>3 DEF InFlight, ConstantsAssumption
<1>13. ASSUME NEW r \in Req, Vanish(r) PROVE Guided'
  <2>1. cur # r /\ pc' = [pc EXCEPT ![r] = "error"] /\ UNCHANGED <<cur, step, left, part, session>>
    BY <1>13 DEF Vanish, End, device, stored
  <2>. QED
    BY <2>1
<1>14. CASE UNCHANGED vars
  BY <1>14 DEF vars, device, requests, stored
<1>15. \A r \in Req : ~Rollback(r)
  BY DEF Rollback, Sound
<1>. QED
  BY <1>1, <1>2, <1>3, <1>4, <1>6, <1>7, <1>8, <1>9, <1>10, <1>11, <1>12, <1>13, <1>14, <1>15
     DEF Next, Serve

LEMMA OrderlyInit == ConstantsAssumption /\ Init => OrderlyInv
BY StoredInit
   DEF ConstantsAssumption, Init, OrderlyInv, OneRequest, OnDisk, Guided, AcksAreKept, Req, InFlight

LEMMA OrderlyStep == ConstantsAssumption /\ Sound /\ OrderlyInv /\ [Next]_vars => OrderlyInv'
BY StoredStep, OneRequestStep, OnDiskStep, GuidedStep DEF OrderlyInv, Sound

-----------------------------------------------------------------------------
\* Every variable keeps its type, whatever overlaps or fails.
THEOREM TypeCorrect == ASSUME ConstantsAssumption PROVE Spec => []TypeOK
<1>1. Init => StoredInv
  BY ConstantsAssumption, StoredInit
<1>2. StoredInv /\ [Next]_vars => StoredInv'
  BY ConstantsAssumption, StoredStep
<1>3. StoredInv => TypeOK
  BY DEF StoredInv
<1>. QED
  BY <1>1, <1>2, <1>3, PTL DEF Spec

\* The device is told that the upload is done, and the row says completed, only
\* when complete committed a document: for every number of chunks and requests,
\* with requests that overlap, transactions rolled back and openings lost.
THEOREM DoneIsTrue ==
  ASSUME ConstantsAssumption PROVE Spec => [](DoneMeansStored /\ CompletedMeansStored)
<1>1. Init => StoredInv
  BY ConstantsAssumption, StoredInit
<1>2. StoredInv /\ [Next]_vars => StoredInv'
  BY ConstantsAssumption, StoredStep
<1>3. StoredInv => DoneMeansStored /\ CompletedMeansStored
  BY DEF StoredInv
<1>. QED
  BY <1>1, <1>2, <1>3, PTL DEF Spec

LEMMA Orderly == ASSUME ConstantsAssumption, Sound PROVE Spec => []OrderlyInv
<1>1. Init => OrderlyInv
  BY ConstantsAssumption, OrderlyInit
<1>2. OrderlyInv /\ [Next]_vars => OrderlyInv'
  BY ConstantsAssumption, Sound, OrderlyStep
<1>. QED
  BY <1>1, <1>2, PTL DEF Spec

\* When requests do not overlap and no transaction is rolled back, save_chunk loses
\* no chunk: the row keeps those it acknowledged and the disk those of the row.
THEOREM ChunksAreKept ==
  ASSUME ConstantsAssumption, Sound PROVE Spec => [](AcksAreKept /\ ReceivedChunksOnDisk)
<1>1. OrderlyInv => AcksAreKept /\ ReceivedChunksOnDisk
  <2>1. ASSUME OrderlyInv, lock = None PROVE \A r \in Req : pc[r] # "cleaned"
    BY <2>1 DEF OrderlyInv, OnDisk, Req, ConstantsAssumption
  <2>. QED
    BY <2>1 DEF OrderlyInv, OnDisk, ReceivedChunksOnDisk
<1>. QED
  BY <1>1, Orderly, PTL

\* Under the same conditions resumeUpload never fails for good in the queue.
THEOREM UploadsSurviveTheQueue ==
  ASSUME ConstantsAssumption, Sound PROVE Spec => []QueuedUploadsSurvive
<1>1. OrderlyInv => QueuedUploadsSurvive
  BY DEF OrderlyInv, Guided, QueuedUploadsSurvive
<1>. QED
  BY <1>1, Orderly, PTL

\* Under the same conditions complete can be replayed: after a document was
\* produced, no complete is answered by an error.
THEOREM CompleteReplays ==
  ASSUME ConstantsAssumption, Sound PROVE Spec => CompleteIsReplayable
<1>1. OrderlyInv /\ [Next]_vars => CompleteStep
  <2> SUFFICES ASSUME OrderlyInv, [Next]_vars,
                      NEW r \in Req, kind[r] = "complete", pc[r] = "locked", pc'[r] = "error"
               PROVE  documents = 0
    BY DEF CompleteStep
  <2>1. session # None /\ snap[r] = session
    BY DEF OrderlyInv, StoredInv, OneRequest, Prepared
  <2>2. RefuseComplete(r)
    <3> USE DEF OrderlyInv, StoredInv, TypeOK, End
    <3>1. pc' # pc /\ ~(Answered \/ Refused \/ NetworkError)
      BY DEF Answered, Refused, NetworkError, requests
    <3>2. ~(Answered \/ Refused \/ NetworkError \/ UNCHANGED vars)
      BY <3>1 DEF vars, requests
    <3>3. PICK q \in Req : Send(q) \/ Serve(q) \/ Vanish(q)
      BY <3>2 DEF Next
    <3>4. pc' = [pc EXCEPT ![q] = pc'[q]]
      BY <3>3 DEF Send, Serve, Vanish, Create, Load, WriteChunk, CommitChunk, LockSession,
                  ReturnDocument, RefuseComplete, Assemble, CommitComplete, Rollback
    <3>5. q = r
      BY <3>4
    <3>6. pc[r] \notin {"received", "loaded", "saved", "cleaned"} /\ pc'[r] = "error" /\ pc[r] = "locked"
      OBVIOUS
    <3>7. ~Send(r) /\ ~Vanish(r) /\ ~Create(r) /\ ~Load(r)
      BY <3>6 DEF Send, Vanish, Create, Load
    <3>8. ~WriteChunk(r) /\ ~CommitChunk(r) /\ ~LockSession(r) /\ ~CommitComplete(r)
      BY <3>6 DEF WriteChunk, CommitChunk, LockSession, CommitComplete
    <3>9. ~ReturnDocument(r) /\ ~Assemble(r) /\ ~Rollback(r)
      BY <3>6 DEF ReturnDocument, Assemble, Rollback, Sound
    <3>. QED
      BY <3>3, <3>5, <3>7, <3>8, <3>9 DEF Serve
  <2>3. session.status # "completed"
    BY <2>1, <2>2 DEF RefuseComplete, AlreadyCompleted
  <2>. QED
    BY <2>1, <2>3 DEF OrderlyInv, StoredInv, CompletedMeansStored, TypeOK
<1>. QED
  BY <1>1, Orderly, PTL DEF Spec, CompleteIsReplayable
-----------------------------------------------------------------------------
(* The refinement: the opening, each new chunk, the commit of the document and *)
(* the answer that announces it are the steps of the promise.                 *)

LEMMA PromiseInit == Init => Promise!DInit
BY DEF Init, Promise!DInit

\* The part of a step that the promise does not see.
LEMMA Unseen ==
  ASSUME UNCHANGED <<session, documents>>, (step = "done")' = (step = "done")
  PROVE  UNCHANGED Promise!dvars
BY DEF Promise!dvars

LEMMA PromiseStep ==
  ASSUME ConstantsAssumption, SerialInv, [Next]_vars
  PROVE  [Promise!DNext]_Promise!dvars
<1> USE DEF SerialInv, StoredInv, TypeOK
<1>1. ASSUME NEW r \in Req, Create(r) PROVE [Promise!DNext]_Promise!dvars
  <2>1. UNCHANGED <<step, documents>>
    BY <1>1 DEF Create, device
  <2>2. CASE session # None
    BY <1>1, <2>1, <2>2, Unseen DEF Create
  <2>3. CASE session = None
    <3>1. session' = [status |-> "in_progress", received |-> {}] /\ session' \in RowType
      BY <1>1, <2>3 DEF Create, RowType
    <3>2. session' # None /\ session'.received = {}
      BY <3>1 DEF ConstantsAssumption
    <3>. QED
      BY <2>1, <2>3, <3>2 DEF Promise!OpenSession, Promise!DNext
  <2>. QED
    BY <2>2, <2>3
<1>2. ASSUME NEW r \in Req, CommitChunk(r) PROVE [Promise!DNext]_Promise!dvars
  <2>1. UNCHANGED <<step, documents>> /\ pc[r] = "saved"
    BY <1>2 DEF CommitChunk, device
  <2>2. /\ session # None /\ snap[r] = session /\ part[r] \in Chunk
        /\ session \in RowType /\ documents = 0
    BY <2>1 DEF Prepared, OneRequest, OneDocument, CompletedMeansStored
  <2>3. /\ session' \in RowType /\ session'.received = session.received \cup {part[r]}
    BY <1>2, <2>2 DEF CommitChunk, Received, RowType
  <2>4. session' # None
    BY <2>3 DEF ConstantsAssumption
  <2>5. Promise!Receive(part[r])
    BY <2>1, <2>2, <2>3, <2>4 DEF Promise!Receive
  <2>. QED
    BY <2>2, <2>5 DEF Promise!DNext
<1>3. ASSUME NEW r \in Req, CommitComplete(r) PROVE [Promise!DNext]_Promise!dvars
  <2>1. UNCHANGED step /\ pc[r] = "cleaned" /\ documents' = documents + 1
    BY <1>3 DEF CommitComplete, device
  <2>2. /\ session # None /\ snap[r] = session /\ session \in RowType
        /\ documents = 0 /\ session.received = Chunk
    BY <2>1 DEF Prepared, OneRequest, OneDocument, CompletedMeansStored
  <2>3. session' \in RowType /\ session'.received = session.received
    BY <1>3, <2>2 DEF CommitComplete, RowType
  <2>4. session' # None
    BY <2>3 DEF ConstantsAssumption
  <2>5. Promise!Store
    BY <2>1, <2>2, <2>3, <2>4 DEF Promise!Store
  <2>. QED
    BY <2>5 DEF Promise!DNext
<1>4. CASE Answered
  <2>1. UNCHANGED <<session, documents>> /\ cur # None /\ cur \in Req /\ pc[cur] = "ok"
        /\ kind[cur] = step /\ step \in Kinds
    BY <1>4 DEF Answered, stored, OneRequest
  <2>2. CASE step = "complete"
    <3>1. documents = 1
      BY <2>1, <2>2 DEF Believed, OneDocument
    <3>2. step' = "done"
      BY <1>4, <2>1, <2>2 DEF Answered
    <3>3. Promise!Tell
      BY <2>1, <3>1, <3>2 DEF Promise!Tell
    <3>. QED
      BY <3>3 DEF Promise!DNext
  <2>3. CASE step # "complete"
    <3>1. step' \in {"chunk", "complete"}
      BY <1>4, <2>1, <2>3 DEF Answered, Push, Kinds
    <3>. QED
      BY <2>1, <3>1, Unseen DEF Kinds
  <2>. QED
    BY <2>2, <2>3
<1>5. CASE Refused \/ NetworkError
  <2>1. UNCHANGED <<session, documents>> /\ step \in Kinds /\ step' \in {"shown", "failed", "status"}
    BY <1>5 DEF Refused, NetworkError, stored, OneRequest
  <2>. QED
    BY <2>1, Unseen DEF Kinds
<1>6. ASSUME NEW r \in Req,
             \/ Send(r) \/ Load(r) \/ WriteChunk(r) \/ LockSession(r) \/ ReturnDocument(r)
             \/ RefuseComplete(r) \/ Assemble(r) \/ Rollback(r) \/ Vanish(r)
      PROVE  [Promise!DNext]_Promise!dvars
  <2>1. UNCHANGED <<session, documents, step>>
    BY <1>6 DEF Send, Load, WriteChunk, LockSession, ReturnDocument, RefuseComplete, Assemble,
                Rollback, Vanish, stored, device
  <2>. QED
    BY <2>1, Unseen
<1>7. CASE UNCHANGED vars
  BY <1>7, Unseen DEF vars, device, stored
<1>. QED
  BY <1>1, <1>2, <1>3, <1>4, <1>5, <1>6, <1>7 DEF Next, Serve

LEMMA Serial == ASSUME ConstantsAssumption, ~Overlap PROVE Spec => []SerialInv
<1>1. Init => SerialInv
  BY ConstantsAssumption, SerialInit
<1>2. SerialInv /\ [Next]_vars => SerialInv'
  BY ConstantsAssumption, SerialStep
<1>. QED
  BY <1>1, <1>2, PTL DEF Spec

\* However often requests are given up and sent again, whatever is rolled back and
\* whether or not the opening arrives, an upload makes its document once, from all its
\* chunks, and the device is told of no other: requests that do not overlap are enough
\* (save_chunk and complete of sync_service.py, uploads.ts).
THEOREM UploadsImplementPromise ==
  ASSUME ConstantsAssumption, ~Overlap PROVE Spec => ImplementsPromise
<1>1. Init => Promise!DInit
  BY PromiseInit
<1>2. SerialInv /\ [Next]_vars => [Promise!DNext]_Promise!dvars
  BY ConstantsAssumption, PromiseStep
<1>. QED
  BY <1>1, <1>2, Serial, PTL DEF Spec, ImplementsPromise, Promise!DSpec

\* Under the same condition alone, the session keeps what it acknowledged.
THEOREM AcknowledgedChunksAreKept ==
  ASSUME ConstantsAssumption, ~Overlap PROVE Spec => []AcksAreKept
<1>1. SerialInv => AcksAreKept
  BY DEF SerialInv, OneDocument
<1>. QED
  BY <1>1, Serial, PTL
=============================================================================
