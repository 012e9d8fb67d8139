---------------------------- MODULE UploadSession ----------------------------
(***************************************************************************)
(* The upload of one document by chunks, from a device that loses its       *)
(* network: uploads.ts on the device, UploadSessionService and the chunk    *)
(* directory (storage/chunked.py) on the server.                            *)
(*                                                                         *)
(* Each request is one transaction that first loads the session row.        *)
(* The row lock taken by complete does not refresh what was loaded: the     *)
(* ORM keeps the attributes of an object it already holds.  Files are       *)
(* written and removed at once, outside of the transaction.                 *)
(*                                                                         *)
(* The file, its size and the record are valid: no request is refused for   *)
(* what it carries.                                                         *)
(***************************************************************************)
EXTENDS Naturals, FiniteSets, FiniteSetsExt

CONSTANTS K,             \* the chunks are 1..K
          MaxRequests,   \* bound on the requests of the device
          None,          \* no session, no request
          Overlap,       \* may a request run beside one the device gave up?
          Crash,         \* may a transaction be rolled back?
          StartsOffline  \* may the opening of the session not reach the server?

Chunk == 1..K
Req == 1..MaxRequests
RowType == [status : {"in_progress", "completed"}, received : SUBSET Chunk]

ConstantsAssumption ==
  /\ K \in Nat \ {0}
  /\ MaxRequests \in Nat
  /\ None \notin Nat \cup RowType
  /\ {Overlap, Crash, StartsOffline} \subseteq BOOLEAN

VARIABLES place, step, left,  \* device: in the form or the queue, its next
          cur,                \* request, chunks to push, request it waits for
          kind, part, pc,     \* requests: what they ask, where they are
          snap,               \* the session row a request loaded
          session, lock,      \* committed row of upload_sessions, its lock
          documents,          \* documents committed for the session
          files,              \* chunk files of the session directory
          acked               \* chunks whose request ended well

device   == <<place, step, left, cur>>
requests == <<kind, part, pc, snap>>
stored   == <<session, lock, documents, files, acked>>
vars     == <<device, requests, stored>>

Kinds == {"create", "status", "chunk", "complete"}
InFlight == {"received", "loaded", "saved", "locked", "cleaned"}

Init ==
  /\ place = "form" /\ step = "create" /\ left = {} /\ cur = None
  /\ kind = [r \in Req |-> "create"] /\ part = [r \in Req |-> 0]
  /\ pc = [r \in Req |-> "idle"] /\ snap = [r \in Req |-> None]
  /\ session = None /\ lock = None
  /\ documents = 0 /\ files = {} /\ acked = {}

-----------------------------------------------------------------------------
\* The device: uploadDocumentResumable in the form, then resumeUpload in each
\* pass of the queue.  One request at a time.
Send(r) ==
  /\ cur = None
  /\ step \in Kinds
  /\ r = Min({q \in Req : pc[q] = "idle"} \cup {MaxRequests + 1})
  /\ Overlap \/ \A q \in Req : pc[q] \notin InFlight
  /\ cur' = r
  /\ kind' = [kind EXCEPT ![r] = step]
  /\ part' = [part EXCEPT ![r] = IF step = "chunk" THEN Min(left) ELSE 0]
  /\ pc' = [pc EXCEPT ![r] = "received"]
  /\ UNCHANGED <<place, step, left, snap, stored>>

\* Mutant: a session with nothing left to send is not completed.
PushOnly(chunks) == left' = chunks /\ step' = "chunk"

\* Both the opening and the status tell which chunks the server has.
Push(chunks) == /\ left' = chunks
                /\ step' = IF chunks = {} THEN "complete" ELSE "chunk"

Answered ==
  /\ cur # None
  /\ pc[cur] = "ok"
  /\ CASE kind[cur] \in {"create", "status"} -> Push(Chunk \ snap[cur].received)
       [] kind[cur] = "chunk" -> Push(left \ {part[cur]})
       [] kind[cur] = "complete" -> step' = "done" /\ UNCHANGED left
  /\ cur' = None
  /\ UNCHANGED <<place, requests, stored>>

\* An HTTP error is shown in the form; in the queue it is final.
Refused ==
  /\ cur # None
  /\ pc[cur] = "error"
  /\ step' = IF place = "form" THEN "shown" ELSE "failed"
  /\ cur' = None
  /\ UNCHANGED <<place, left, requests, stored>>

\* A network error sends the upload to the queue, or ends the pass: the next
\* one starts again with the status of the session.
NetworkError ==
  /\ cur # None
  /\ step = "create" /\ ~StartsOffline => session # None
  /\ place' = "queue"
  /\ step' = "status"
  /\ cur' = None
  /\ UNCHANGED <<left, requests, stored>>

-----------------------------------------------------------------------------
\* The server.
End(r, answer) == pc' = [pc EXCEPT ![r] = answer]

\* create_or_resume.
Create(r) ==
  /\ pc[r] = "received"
  /\ kind[r] = "create"
  /\ session' = IF session = None THEN [status |-> "in_progress", received |-> {}]
                                  ELSE session
  /\ snap' = [snap EXCEPT ![r] = session']
  /\ End(r, "ok")
  /\ UNCHANGED <<device, kind, part, lock, documents, files, acked>>

\* The other routes answer 404 without a session.
Load(r) ==
  /\ pc[r] = "received"
  /\ kind[r] # "create"
  /\ snap' = [snap EXCEPT ![r] = session]
  /\ End(r, CASE session = None -> "error"
              [] session # None /\ kind[r] = "status" -> "ok"
              [] OTHER -> "loaded")
  /\ UNCHANGED <<device, kind, part, stored>>

\* save_chunk: the file, then the list of received chunks.
WriteChunk(r) ==
  /\ pc[r] = "loaded"
  /\ kind[r] = "chunk"
  /\ IF snap[r].status = "completed"
     THEN End(r, "error") /\ UNCHANGED files
     ELSE End(r, "saved") /\ files' = files \cup {part[r]}
  /\ UNCHANGED <<device, kind, part, snap, session, lock, documents, acked>>

\* Mutant: the list starts again with each chunk.
ReceivedOnly(r) == {part[r]}

Received(r) == snap[r].received \cup {part[r]}

\* An unchanged list issues no UPDATE and takes no lock.
CommitChunk(r) ==
  /\ pc[r] = "saved"
  /\ lock = None \/ Received(r) = snap[r].received
  /\ session' = IF Received(r) = snap[r].received THEN session
                ELSE [session EXCEPT !.received = Received(r)]
  /\ acked' = acked \cup {part[r]}
  /\ End(r, "ok")
  /\ UNCHANGED <<device, kind, part, snap, lock, documents, files>>

\* complete: SELECT ... FOR UPDATE.
LockSession(r) ==
  /\ pc[r] = "loaded"
  /\ kind[r] = "complete"
  /\ lock = None
  /\ lock' = r
  /\ End(r, "locked")
  /\ UNCHANGED <<device, kind, part, snap, session, documents, files, acked>>

\* Mutant: the completed session is not recognised.
AlreadyCompletedNever(r) == FALSE

\* Mutant: a session that received everything counts as completed.
ReceivedAll(r) == snap[r].received = Chunk

\* What complete decides on is the row as it was loaded, before the lock.
AlreadyCompleted(r) == snap[r].status = "completed"

\* Resubmission of a completed session: the document already produced.
ReturnDocument(r) ==
  /\ pc[r] = "locked"
  /\ AlreadyCompleted(r)
  /\ lock' = None
  /\ End(r, "ok")
  /\ UNCHANGED <<device, kind, part, snap, session, documents, files, acked>>

Assemblable(r) == snap[r].received = Chunk /\ Chunk \subseteq files

\* Chunks missing in the list (400) or on the disk (500).
RefuseComplete(r) ==
  /\ pc[r] = "locked"
  /\ ~AlreadyCompleted(r)
  /\ ~Assemblable(r)
  /\ lock' = None
  /\ End(r, "error")
  /\ UNCHANGED <<device, kind, part, snap, session, documents, files, acked>>

\* The document is stored and the directory removed before the commit.
Assemble(r) ==
  /\ pc[r] = "locked"
  /\ ~AlreadyCompleted(r)
  /\ Assemblable(r)
  /\ files' = {}
  /\ End(r, "cleaned")
  /\ UNCHANGED <<device, kind, part, snap, session, lock, documents, acked>>

CommitComplete(r) ==
  /\ pc[r] = "cleaned"
  /\ session' = [session EXCEPT !.status = "completed"]
  /\ documents' = documents + 1
  /\ lock' = None
  /\ End(r, "ok")
  /\ UNCHANGED <<device, kind, part, snap, files, acked>>

\* The transaction is rolled back, the files stay as they are.
Rollback(r) ==
  /\ Crash
  /\ pc[r] \in InFlight
  /\ lock' = IF lock = r THEN None ELSE lock
  /\ End(r, "error")
  /\ UNCHANGED <<device, kind, part, snap, session, documents, files, acked>>

\* A request the device gave up never reaches the server.
Vanish(r) ==
  /\ pc[r] = "received"
  /\ cur # r
  /\ End(r, "error")
  /\ UNCHANGED <<device, kind, part, snap, stored>>

Serve(r) == \/ Create(r) \/ Load(r) \/ WriteChunk(r) \/ CommitChunk(r)
            \/ LockSession(r) \/ ReturnDocument(r) \/ RefuseComplete(r)
            \/ Assemble(r) \/ CommitComplete(r) \/ Rollback(r)

Next == \/ \E r \in Req : Send(r) \/ Serve(r) \/ Vanish(r)
        \/ Answered \/ Refused \/ NetworkError

Spec == Init /\ [][Next]_vars
-----------------------------------------------------------------------------
TypeOK ==
  /\ place \in {"form", "queue"}
  /\ step \in Kinds \cup {"done", "shown", "failed"}
  /\ left \subseteq Chunk
  /\ step = "chunk" => left # {}
  /\ cur \in Req \cup {None}
  /\ kind \in [Req -> Kinds]
  /\ part \in [Req -> {0} \cup Chunk]
  /\ pc \in [Req -> {"idle", "ok", "error"} \cup InFlight]
  /\ snap \in [Req -> RowType \cup {None}]
  /\ session \in RowType \cup {None}
  /\ lock \in Req \cup {None}
  /\ documents \in Nat
  /\ files \subseteq Chunk /\ acked \subseteq Chunk

\* An upload in the queue is resumed until its document exists: nothing in a
\* valid file makes it fail for good.
QueuedUploadsSurvive == step # "failed"

\* The session never forgets a chunk that it acknowledged.
AcksAreKept == session # None => acked \subseteq session.received

\* A chunk the session says it received, and will not ask for again, can still
\* be read; also after a failure of the server.
ReceivedChunksOnDisk ==
  session # None /\ session.status = "in_progress" /\ lock = None
    => session.received \subseteq files

\* Whatever overlaps or fails, the device is told that the upload is done only
\* when the document exists, and the session says so only then too.
DoneMeansStored == step = "done" => documents > 0

CompletedMeansStored ==
  session # None => (session.status = "completed" <=> documents > 0)

\* complete can be replayed: once a document was produced, the answer is that
\* document, never an error.
CompleteStep ==
  \A r \in Req :
    kind[r] = "complete" /\ pc[r] = "locked" /\ pc'[r] = "error" => documents = 0

CompleteIsReplayable == [][CompleteStep]_vars

\* StoredDocument, seen through the session row and what the device shows.
Promise == INSTANCE StoredDocument
             WITH opened   <- session # None,
                  received <- IF session = None THEN {} ELSE session.received,
                  told     <- step = "done"

\* The requests of an upload, however often they are sent again, make its document
\* once, from all its chunks, and the device is told of no other.
ImplementsPromise == Promise!DSpec
=============================================================================
