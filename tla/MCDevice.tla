------------------------------- MODULE MCDevice -------------------------------
(***************************************************************************)
(* What runs on a device behind every page, one part after the other: the    *)
(* initial state chooses it, and the others stay where they start.              *)
(*   "queue"    the creation of a record, its update, and, one tab            *)
(*   "serial"   an upload, its requests do not overlap, the server is sound   *)
(*   "faulty"   an upload, requests overlap, transactions roll back, the      *)
(*              device may start without network                              *)
(*   "session"  the session of the user, and the guards of the routes         *)
(* SyncQueue is extended, its properties are stated there.                    *)
(***************************************************************************)
EXTENDS SyncQueue

CONSTANTS User, Admin, None, StrictMode,
          SerialK, SerialRequests, FaultyK, FaultyRequests

VARIABLES on,
          place, step, left, cur, kind, part, phase, snap,
          upload, lock, documents, files, acked,
          status, user, token, orgs, page, card, cookie, expired, boot, asked, hasOrg

uploadVars  == <<place, step, left, cur, kind, part, phase, snap,
                 upload, lock, documents, files, acked>>
sessionVars == <<status, user, token, orgs, page, card, cookie, expired, boot, asked, hasOrg>>
allVars     == <<on, vars, uploadVars, sessionVars>>

\* The second operation updates what the first one creates.
MCDependsOn == [o \in Op |-> {o - 1} \ {0}]

Serial == INSTANCE UploadSession
            WITH pc <- phase, session <- upload, K <- SerialK, MaxRequests <- SerialRequests,
                 Overlap <- FALSE, Crash <- FALSE, StartsOffline <- FALSE
Faulty == INSTANCE UploadSession
            WITH pc <- phase, session <- upload, K <- FaultyK, MaxRequests <- FaultyRequests,
                 Overlap <- TRUE, Crash <- TRUE, StartsOffline <- TRUE
Session == INSTANCE Session WITH Slow <- FALSE, calls <- asked

ASSUME DeviceAssumption ==
  /\ ConstantsAssumption /\ Session!ConstantsAssumption
  /\ Serial!ConstantsAssumption /\ Faulty!ConstantsAssumption
-----------------------------------------------------------------------------
\* The parts that do not run stay in one initial state.
AllInit ==
  /\ on \in {"queue", "serial", "faulty", "session"}
  /\ IF on = "faulty" THEN Faulty!Init ELSE Serial!Init
  /\ Init /\ Session!Init
  /\ on # "queue" => online
  /\ on # "session" => page = "login" /\ cookie = None /\ expired = {} /\ hasOrg = {}

InQueue   == on = "queue" /\ UNCHANGED <<on, uploadVars, sessionVars>>
InUpload(which) == on = which /\ UNCHANGED <<on, vars, sessionVars>>
InSession == on = "session" /\ UNCHANGED <<on, vars, uploadVars>>

AllNext == \/ InQueue /\ Next
           \/ InUpload("serial") /\ Serial!Next
           \/ InUpload("faulty") /\ Faulty!Next
           \/ InSession /\ Session!Next

\* The fairness of SyncQueue and of Session, each while it runs.
AllSpec ==
  /\ AllInit /\ [][AllNext]_allVars
  /\ \A t \in Tab : WF_allVars(InQueue /\ PassStep(t))
  /\ \A t \in Tab, o \in Op : WF_allVars(InQueue /\ Handle(Call(t, o)))
  /\ WF_allVars(InSession /\ Session!BootEnds) /\ WF_allVars(InSession /\ Session!ListAnswered)
  /\ SF_allVars(InSession /\ Session!Redirect)
-----------------------------------------------------------------------------
\* An upload in the queue is resumed until its document exists, its session never
\* forgets a chunk that it acknowledged, and what is not asked for again can
\* still be read; whatever overlaps or fails, done and completed mean that the
\* document exists.
UploadsSurvive ==
  /\ on = "serial" => Serial!QueuedUploadsSurvive /\ Serial!AcksAreKept
                      /\ Serial!ReceivedChunksOnDisk
  /\ on = "faulty" => Faulty!DoneMeansStored /\ Faulty!CompletedMeansStored

\* A completed upload can be completed again, one request after the other.
CompleteIsReplayable == [][on = "serial" => Serial!CompleteStep]_allVars

\* The serial upload as the promise of StoredDocument sees it.
Promise == INSTANCE StoredDocument
             WITH Chunk     <- 1..SerialK,
                  opened    <- on = "serial" /\ upload # None,
                  received  <- IF on = "serial" /\ upload # None THEN upload.received ELSE {},
                  documents <- IF on = "serial" THEN documents ELSE 0,
                  told      <- on = "serial" /\ step = "done"

\* However often its requests are sent again, an upload makes its document once,
\* from all its chunks, and the device is told of no other.
UploadsKeepPromise == Promise!DSpec

\* Between two calls of session, the name shown, the token and the cookie are of
\* one user; the organizations that are offered are those of the token, always.
SessionIsWhole == Session!SessionIsWhole /\ Session!OrganizationsBelongToToken

\* The waiting page of every guard ends.
PatienceEnds == on = "session" => Session!PatienceEnds
=============================================================================
