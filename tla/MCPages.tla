------------------------------- MODULE MCPages --------------------------------
(***************************************************************************)
(* The pages a member works on, one after the other: the initial state       *)
(* chooses the page, and the others stay where they start.  MovementForm is    *)
(* extended, its property is stated there.                                   *)
(*   "console"   any gesture of any screen, and the cache of queries          *)
(*   "form"      a field of the form of a record, of every kind               *)
(*   "models"    the editor of a model, and the list of its fields            *)
(*   "movement"  the dialog of the stock movements                            *)
(*   "import"    the import of records from a file                            *)
(***************************************************************************)
EXTENDS MovementForm, TLC

CONSTANTS Item, Kinds, Key, TitleKey, MaxFields,
          File, Mapping, Suggested, ValidLines, Value, ValueOf, MaxPreviews, MaxCommits,
          f1, f2, m1, m2, u1,
          Undef, Null, None

VARIABLES on,
          member, mine, gesture, query, screen, data, invalid, fetch, readFailed,
          overtaken, local, fromLocal, phase, changed,
          kind, required, mode, def, elsewhere, base, shown, late, attached, formPhase, sent,
          stored, refused, leaving, camera, asking, lit,
          onNew, staged, choice, listed, toSend, moving, loaded, reply, fields, title, created,
          wanted,
          file, mapping, preview, isPreviewing, previewError, seq, asked, commit,
          commits, result, imported, held

consoleVars  == <<member, mine, gesture, query, screen, data, invalid, fetch, readFailed,
                  overtaken, local, fromLocal, phase, changed>>
formVars     == <<kind, required, mode, def, elsewhere, base, shown, late, attached, formPhase, sent,
                  stored, refused, leaving, camera, asking, lit>>
modelVars    == <<onNew, staged, choice, listed, toSend, moving, loaded, reply, fields, title,
                  created, wanted>>
importVars   == <<file, mapping, preview, isPreviewing, previewError, seq, asked, commit,
                  commits, result, imported, held>>
allVars      == <<on, vars, consoleVars, formVars, modelVars, importVars>>

Web      == INSTANCE Console WITH failed <- readFailed
Form     == INSTANCE FieldForm WITH Patient <- TRUE, phase <- formPhase
Models   == INSTANCE ModelEditor WITH Patient <- TRUE, shown <- listed, made <- created
Import   == INSTANCE ImportWizard WITH sent <- commit

\* The first file is read well with its own mapping, partly with the other; the
\* second one only with its own, and brings a line of the first again.  Two lines
\* of the first have the same unique value.
MCSuggested  == f1 :> m1 @@ f2 :> m2
MCValidLines == f1 :> (m1 :> {1, 2, 3} @@ m2 :> {1}) @@ f2 :> (m1 :> {} @@ m2 :> {3})
MCValueOf    == 1 :> u1 @@ 2 :> None @@ 3 :> u1

ASSUME PagesAssumption ==
  /\ ConstantsAssumption /\ Form!ConstantsAssumption
  /\ Models!ConstantsAssumption /\ Import!ConstantsAssumption

\* The tables of the screens are constants without parameter: TLC evaluates the whole of them.
ASSUME TablesAssumption == Web!GesturesReport /\ Web!ShellStays
-----------------------------------------------------------------------------
\* The pages that are not open stay in one initial state.  The article follows
\* its lots: an entry whose lot is given is that of any other article.
AllInit ==
  /\ on \in {"console", "form", "models", "movement", "import"}
  /\ Web!Init
  /\ on # "console" => /\ member = "platform" /\ ~mine /\ screen = "overview"
                       /\ gesture.call = "scan"
  /\ Form!Init
  /\ on # "form" => kind = "text" /\ ~required /\ mode = "create"
  /\ Init /\ tracked
  /\ Models!Init /\ Import!Init
  /\ on # "import" => held = {}

InConsole  == on = "console" /\ UNCHANGED <<on, vars, formVars, modelVars, importVars>>
InForm     == on = "form" /\ UNCHANGED <<on, vars, consoleVars, modelVars, importVars>>
InModels   == on = "models" /\ UNCHANGED <<on, vars, consoleVars, formVars, importVars>>
InMovement == on = "movement" /\ UNCHANGED <<on, consoleVars, formVars, modelVars, importVars>>
InImport   == on = "import" /\ UNCHANGED <<on, vars, consoleVars, formVars, modelVars>>

AllNext ==
  \/ InConsole /\ Web!Next
  \/ InForm /\ Form!Next
  \/ InModels /\ Models!Next
  \/ InMovement /\ Next
  \/ InImport /\ Import!Next

AllSpec == AllInit /\ [][AllNext]_allVars
-----------------------------------------------------------------------------
\* A query on screen shows what the user has just done.
OwnChangesAreShown == Web!OwnChangesAreShown

\* What a screen offers, the server accepts.
OffersAreHonoured == Web!OffersAreHonoured

\* The server refuses what the form let through only for a definition changed
\* meanwhile or a value that another record holds.
FormAgreesWithServer == Form!FormAgreesWithServer

\* The documents uploaded into a form are those of the record.
AttachmentsAreSaved == Form!AttachmentsAreSaved

\* A save sends what the user has touched.
SaveIsExact == Form!SaveIsExact

\* A staged field is created, or still staged.
StagedAreKept == Models!StagedAreKept

\* The fields read for a move stand in the order asked for once it is written.
MovesAreExact == Models!MovesAreExact

\* What becomes a record was announced, what was announced and did not is shown.
ImportsAsAnnounced == Import!ImportsAsAnnounced
=============================================================================
