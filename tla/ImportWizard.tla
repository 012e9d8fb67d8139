---------------------------- MODULE ImportWizard ----------------------------
(***************************************************************************)
(* The import of a spreadsheet: the page models/[modelId]/import and the     *)
(* routes import/preview and import/commit.                                  *)
(*                                                                         *)
(* A file is known by its valid lines under each mapping of its columns to   *)
(* fields; the fields of the model stay what they are.  Preview requests may  *)
(* overlap and be answered in any order.  The other members write records     *)
(* too: the values of the unique field come and go.                          *)
(***************************************************************************)
EXTENDS Naturals

CONSTANTS File, Mapping, None,
          Value,        \* of the unique field
          ValueOf,      \* what each line puts into it, None for nothing
          Suggested,    \* the mapping the server guesses for a file
          ValidLines,   \* ValidLines[f][m]: the lines of f that m makes valid
          MaxPreviews,  \* bound on the previews of a visit
          MaxCommits    \* bound on the commits of a visit

Line == UNION {ValidLines[f][m] : f \in File, m \in Mapping}

ConstantsAssumption ==
  /\ Suggested \in [File -> Mapping]
  /\ None \notin File \cup Mapping \cup Value
  /\ ValueOf \in [Line -> Value \cup {None}] /\ Line \subseteq Nat
  /\ MaxPreviews \in Nat /\ MaxCommits \in Nat

VARIABLES file, mapping, preview, isPreviewing, previewError,  \* page
          seq,            \* previewSeq
          asked,          \* preview requests on their way
          sent, commits,  \* the commit on its way, the commits so far
          result,         \* the outcome that is shown
          imported,       \* server: how often each line became a record
          held            \* server: the unique values that records have

page == <<file, mapping, preview, isPreviewing, previewError>>
server == <<imported, held>>
vars == <<page, seq, asked, sent, commits, result, server>>

Init ==
  /\ file = None /\ mapping = None /\ preview = None
  /\ isPreviewing = FALSE /\ previewError = FALSE
  /\ seq = 0 /\ asked = {}
  /\ sent = None /\ commits = 0 /\ result = None
  /\ imported = [l \in Line |-> 0]
  /\ held \in SUBSET Value

\* The mapping a request is about: without one, the server takes its own guess.
Applied(q) == IF q.mapping = None THEN Suggested[q.file] ELSE q.mapping

Preview(f, m) ==
  /\ seq < MaxPreviews
  /\ seq' = seq + 1
  /\ asked' = asked \cup {[seq |-> seq + 1, file |-> f, mapping |-> m]}
  /\ isPreviewing' = TRUE
  /\ previewError' = FALSE

\* The input and the selects are disabled during a commit.
ChooseFile(f) ==
  /\ sent = None
  /\ Preview(f, None)
  /\ file' = f /\ mapping' = None /\ preview' = None /\ result' = None
  /\ UNCHANGED <<sent, commits, server>>

\* No preview is asked, and the one on its way is still expected.
ClearFile ==
  /\ sent = None /\ file # None
  /\ file' = None /\ mapping' = None /\ preview' = None /\ result' = None
  /\ previewError' = FALSE
  /\ UNCHANGED <<isPreviewing, seq, asked, sent, commits, server>>

ChangeMapping(m) ==
  /\ sent = None /\ preview # None /\ m # mapping
  /\ mapping' = m
  /\ IF file = None THEN UNCHANGED <<seq, asked, isPreviewing, previewError>>
                    ELSE Preview(file, m)
  /\ UNCHANGED <<file, preview, sent, commits, result, server>>

\* Mutant: any answer is shown.
AnyAnswer(q) == TRUE

Latest(q) == q.seq = seq

PreviewArrives(q) ==
  /\ asked' = asked \ {q}
  /\ IF Latest(q)
     THEN /\ preview' = [file |-> q.file, mapping |-> Applied(q)]
          /\ mapping' = IF q.mapping = None THEN Suggested[q.file] ELSE mapping
          /\ isPreviewing' = FALSE
     ELSE UNCHANGED <<preview, mapping, isPreviewing>>
  /\ UNCHANGED <<file, previewError, seq, sent, commits, result, server>>

\* An unreadable file, a refused request, no network.
PreviewFails(q) ==
  /\ asked' = asked \ {q}
  /\ IF Latest(q)
     THEN previewError' = TRUE /\ preview' = None /\ isPreviewing' = FALSE
     ELSE UNCHANGED <<previewError, preview, isPreviewing>>
  /\ UNCHANGED <<file, mapping, seq, sent, commits, result, server>>

\* What the page announces: valid_row_count.
Announced == ValidLines[preview.file][preview.mapping]

CanCommit == /\ preview # None /\ sent = None /\ ~isPreviewing
             /\ Announced # {}

Commit ==
  /\ CanCommit /\ file # None
  /\ commits < MaxCommits
  /\ sent' = [file |-> file, mapping |-> mapping]
  /\ commits' = commits + 1
  /\ UNCHANGED <<page, seq, asked, result, server>>

\* The lines are created in the order of the file, each one against the records
\* that are there, those of the lines before it included.
Taken(l, lines) == (held \cup {ValueOf[k] : k \in {j \in lines : j < l}}) \ {None}

Created(lines) == {l \in lines : ValueOf[l] \notin Taken(l, lines)}

\* What one transaction makes of the file: a member who has become a reader has
\* every line refused.
Outcomes == {Created(ValidLines[sent.file][sent.mapping]), {}}

\* What was imported before does not matter, but by its values.
Store(new) ==
  /\ imported' = [l \in Line |-> imported[l] + IF l \in new THEN 1 ELSE 0]
  /\ held' = (held \cup {ValueOf[l] : l \in new}) \ {None}

LinesOf(f) == UNION {ValidLines[f][m] : m \in Mapping}

CommitArrives ==
  /\ sent # None
  /\ \E new \in Outcomes :
       Store(new) /\ result' = [created |-> new, refused |-> LinesOf(sent.file) \ new]
  /\ sent' = None
  /\ UNCHANGED <<page, seq, asked, commits>>

\* The answer is lost after the transaction, or the request before it; what was
\* shown stays.
CommitFails ==
  /\ sent # None
  /\ \/ \E new \in Outcomes : Store(new)
     \/ UNCHANGED server
  /\ sent' = None
  /\ UNCHANGED <<page, seq, asked, commits, result>>

\* The other members create, change and delete records.
Elsewhere ==
  /\ held' \in SUBSET Value /\ held' # held
  /\ UNCHANGED <<page, seq, asked, sent, commits, result, imported>>

Next == \/ \E f \in File : ChooseFile(f)
        \/ \E m \in Mapping : ChangeMapping(m)
        \/ \E q \in asked : PreviewArrives(q) \/ PreviewFails(q)
        \/ ClearFile \/ Commit \/ CommitArrives \/ CommitFails \/ Elsewhere

Spec == Init /\ [][Next]_vars
-----------------------------------------------------------------------------
TypeOK ==
  /\ file \in File \cup {None}
  /\ mapping \in Mapping \cup {None}
  /\ preview \in [file : File, mapping : Mapping] \cup {None}
  /\ {isPreviewing, previewError} \subseteq BOOLEAN
  /\ seq \in 0..MaxPreviews
  /\ asked \subseteq [seq : 1..MaxPreviews, file : File, mapping : Mapping \cup {None}]
  /\ sent \in [file : File, mapping : Mapping] \cup {None}
  /\ result \in [created : SUBSET Line, refused : SUBSET Line] \cup {None}
  /\ imported \in [Line -> Nat] /\ held \subseteq Value

Fresh == {l \in Line : imported'[l] # imported[l]}

Missing == Announced \ Fresh

\* What becomes a record was announced on the page, for this file and these
\* columns, whatever the order in which the previews were answered; and an
\* announced line that did not become one is in the list of refused lines that
\* the page then shows, because a record has its value, unless the member may
\* not create any (import/page.tsx:126-128, 185-213, 234-264).
ImportStep ==
  /\ Fresh # {} => preview # None /\ Fresh \subseteq Announced
  /\ CommitArrives => Missing \subseteq result'.refused
  /\ CommitArrives /\ Fresh # {} => \A l \in Missing : ValueOf[l] \in held'

ImportsAsAnnounced == [][ImportStep]_vars

\* The preview tells "précisément quelles lignes seraient rejetées et pourquoi,
\* avant toute validation" (MANUEL_UTILISATION.md:184-187): an import that
\* creates records creates all that were announced.
RefusalsAreForeseen == [][CommitArrives /\ Fresh # {} => Missing = {}]_vars

\* "Correct these lines in the source file and drop it again: only the corrected
\* lines will remain to import."
LinesAreImportedOnce == \A l \in Line : imported[l] <= 1
=============================================================================
