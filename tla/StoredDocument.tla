---------------------------- MODULE StoredDocument ----------------------------
(***************************************************************************)
(* What a resumable upload promises its user, with no request, lock, file or  *)
(* queue in sight: a session is opened once, it only gains chunks, the          *)
(* document is made once, from all of them, and nobody is told of it before.   *)
(*                                                                         *)
(* UploadSession implements this specification, one request after the other.  *)
(***************************************************************************)
EXTENDS Naturals

CONSTANT Chunk       \* the chunks of the document

VARIABLES opened,    \* is there a session?
          received,  \* the chunks it has
          documents, \* the documents that were made of it
          told       \* was the user told that the upload is done?

dvars == <<opened, received, documents, told>>

DInit == opened = FALSE /\ received = {} /\ documents = 0 /\ told = FALSE

OpenSession ==
  /\ ~opened
  /\ opened' = TRUE
  /\ UNCHANGED <<received, documents, told>>

Receive(c) ==
  /\ opened /\ documents = 0
  /\ received' = received \cup {c}
  /\ UNCHANGED <<opened, documents, told>>

Store ==
  /\ opened /\ received = Chunk
  /\ documents = 0
  /\ documents' = 1
  /\ UNCHANGED <<opened, received, told>>

Tell ==
  /\ documents = 1
  /\ told' = TRUE
  /\ UNCHANGED <<opened, received, documents>>

DNext == OpenSession \/ (\E c \in Chunk : Receive(c)) \/ Store \/ Tell

DSpec == DInit /\ [][DNext]_dvars
=============================================================================
