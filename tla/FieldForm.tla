------------------------------ MODULE FieldForm ------------------------------
(***************************************************************************)
(* One field of the form of a record: its control (field-renderer.tsx), the  *)
(* rules of the form (field-schema.ts), what a save sends (record-form.tsx)  *)
(* and what the server makes of it (validation.py, RecordService).           *)
(*                                                                         *)
(* The kinds are the fourteen types of field, those that behave alike taken  *)
(* together, and "site", which stands for the attributes beside the fields   *)
(* (status, site).  The dates at which fields were written, and the conflicts *)
(* between two edits, are those of RecordMerge.                              *)
(***************************************************************************)
EXTENDS Naturals, FiniteSets

CONSTANTS Undef, Null,   \* undefined and null
          Item,          \* options of a multiple choice, documents
          Kinds,         \* the kinds of field of this instance
          Patient        \* does the user wait for uploads and answers?

AllKinds == {"text", "number", "date", "boolean", "select", "multi", "position",
             "link", "document", "photo", "due", "site"}

\* A value is a main part (a text, a number, a date, coordinates, an identifier)
\* and a list; "bad" is a main part that is no value of the type.
ValueType == [main : {"blank", "a", "b", "bad", "list"}, items : SUBSET Item]

ConstantsAssumption ==
  /\ Undef # Null /\ {Undef, Null} \cap ValueType = {}
  /\ Kinds \subseteq AllKinds /\ Patient \in BOOLEAN

VARIABLES kind, required, mode,  \* of the field, as the form knows it
          def,       \* server: has the definition changed since?
          elsewhere, \* server: what another record holds in a unique field, or "none"
          base,      \* the value the form was opened with
          shown,     \* the value of the control
          late,      \* an upload or a location on its way
          attached,  \* the documents the user has uploaded and not taken off
          phase,     \* of the form
          sent,      \* the save on its way, or in the queue of the device
          stored,    \* server: the value of the field
          refused,   \* did the server refuse the save?
          leaving,   \* is the user asked to confirm that the page is left?
          camera, asking, lit  \* dialog of the camera, requests, live streams

form == <<kind, required, mode, base>>
others == <<def, elsewhere>>
cam == <<camera, asking, lit>>
vars == <<form, others, shown, late, attached, phase, sent, stored, refused, leaving, cam>>

NoUpload == [what |-> "none", of |-> Undef, got |-> {}, left |-> 0]
Unsent == [value |-> Undef, touched |-> FALSE, via |-> "none"]

V(main, items) == [main |-> main, items |-> items]
Blank == V("blank", {})
Main(v) == IF v \in {Undef, Null} THEN "blank" ELSE v.main
Items(v) == IF v \in {Undef, Null} THEN {} ELSE v.items

\* Values a record may hold.
Stored(k) ==
  {Undef, Null} \cup
    CASE k = "due"         -> {V(m, s) : m \in {"a", "b"}, s \in {{}} \cup {{i} : i \in Item}}
      [] k = "document"    -> {V("list", {i}) : i \in Item}
      [] k \in {"multi", "photo"} -> {V("list", s) : s \in SUBSET Item}
      [] OTHER             -> {V(m, {}) : m \in {"a", "b"}}

Init ==
  /\ kind \in Kinds
  /\ required \in BOOLEAN
  /\ mode \in {"create", "edit"}
  /\ def = "same" /\ elsewhere = "none"
  /\ stored \in IF mode = "create" THEN {Undef} ELSE Stored(kind)
  /\ base = IF stored = Null THEN Undef ELSE stored
  /\ shown = base
  /\ late = NoUpload /\ attached = {}
  /\ phase = "editing" /\ sent = Unsent
  /\ refused = FALSE /\ leaving = FALSE
  /\ camera = "closed" /\ asking = 0 /\ lit = 0
-----------------------------------------------------------------------------
\* What each control makes of one gesture.  An emptied number, date or link is
\* undefined, an emptied due date or list of documents is null, and no gesture
\* empties a choice, a switch or coordinates.
TextControl       == {V(m, {}) : m \in {"blank", "a", "b"}}
NumberControl     == {V(m, {}) : m \in {"a", "b"}} \cup {Undef}
DateControl       == {V(m, {}) : m \in {"a", "bad"}} \cup {Undef}
BooleanControl    == {V(m, {}) : m \in {"a", "b"}}
SelectField       == {V(m, {}) : m \in {"a", "b"}}
PositionField     == {V(m, {}) : m \in {"a", "bad"}}
RecordLinkField   == {V(m, {}) : m \in {"a", "b"}} \cup {Undef}
MultiSelectField  == {V("list", (Items(shown) \cup {i}) \ (Items(shown) \cap {i})) : i \in Item}
PhotoChips        == {IF Items(shown) = {i} THEN Null ELSE V("list", Items(shown) \ {i}) :
                        i \in Items(shown)}
DocumentControl   == {Null}
DueDateControl    == {V(m, Items(shown)) : m \in {"a", "b"}} \cup {Null}
                     \cup {V(m, {}) : m \in {Main(shown)} \ {"blank"}}

Gestures ==
  CASE kind \in {"text", "site"} -> TextControl
    [] kind = "number"   -> NumberControl
    [] kind = "date"     -> DateControl
    [] kind = "boolean"  -> BooleanControl
    [] kind = "select"   -> SelectField
    [] kind = "multi"    -> MultiSelectField
    [] kind = "position" -> PositionField
    [] kind = "link"     -> RecordLinkField
    [] kind = "photo"    -> PhotoChips
    [] kind = "document" -> DocumentControl
    [] kind = "due"      -> DueDateControl

Open == phase # "gone"
Waits == Patient /\ (late # NoUpload \/ phase = "sending")

Change(v) ==
  /\ Open /\ ~Waits
  /\ v \in Gestures /\ v # shown
  /\ shown' = v
  /\ attached' = attached \cap Items(v)
  /\ UNCHANGED <<form, others, late, phase, sent, stored, refused, leaving, cam>>

\* Files are taken when the record exists, one transfer at a time; the justification
\* of a due date needs the date.  onChange is the one of this rendering.
Attach(n) ==
  /\ Open /\ ~Waits /\ late = NoUpload
  /\ mode = "edit"
  /\ \/ kind = "photo" /\ n \in 1..2
     \/ kind = "document" /\ n = 1
     \/ kind = "due" /\ Main(shown) # "blank" /\ n = 1
  /\ late' = [what |-> "files", of |-> shown, got |-> {}, left |-> n]
  /\ UNCHANGED <<form, others, shown, attached, phase, sent, stored, refused, leaving, cam>>

\* "Utiliser ma position": the answer replaces what was typed meanwhile.
Locate ==
  /\ Open /\ ~Waits /\ late = NoUpload
  /\ kind = "position"
  /\ late' = [what |-> "place", of |-> shown, got |-> {}, left |-> 1]
  /\ UNCHANGED <<form, others, shown, attached, phase, sent, stored, refused, leaving, cam>>

\* The field with the documents that were transferred, made from the value it
\* had when the files were dropped.
WithFiles(got) ==
  IF kind = "photo" THEN V("list", Items(late.of) \cup got)
                    ELSE V(IF kind = "due" THEN Main(late.of) ELSE "list", got)

Settle(v, docs) ==
  /\ late' = NoUpload
  /\ IF Open
     THEN /\ shown' = v
          /\ attached' = IF kind = "photo" \/ docs = {} THEN attached \cup docs ELSE docs
     ELSE UNCHANGED <<shown, attached>>

\* The document of a transfer without network is the identifier of its session.
FileArrives(i) ==
  /\ late.what = "files"
  /\ i \notin late.got \cup Items(late.of)
  /\ IF late.left > 1
     THEN late' = [late EXCEPT !.got = @ \cup {i}, !.left = @ - 1] /\ UNCHANGED <<shown, attached>>
     ELSE Settle(WithFiles(late.got \cup {i}), late.got \cup {i})
  /\ UNCHANGED <<form, others, phase, sent, stored, refused, leaving, cam>>

\* Mutant: the files before the one that failed are forgotten.
NoneKept == Settle(shown, late.got)

\* A file is refused: those before it are kept.
FilesKept == IF late.got = {} THEN Settle(shown, {}) ELSE Settle(WithFiles(late.got), late.got)

FileFails ==
  /\ late.what = "files"
  /\ FilesKept
  /\ UNCHANGED <<form, others, phase, sent, stored, refused, leaving, cam>>

PlaceArrives ==
  /\ late.what = "place"
  /\ \/ Settle(V("a", {}), {})
     \/ Settle(shown, {})
  /\ UNCHANGED <<form, others, phase, sent, stored, refused, leaving, cam>>
-----------------------------------------------------------------------------
\* isEmpty, and the empty list of a choice.
Empty(v) == v \in {Undef, Null, Blank} \/ (kind = "multi" /\ Items(v) = {})

\* Mutant: any object is a position, any string a date.
AnyMain(v) == TRUE

WellFormed(v) == Main(v) # "bad"

\* zodSchemaForField; site has no rule but its length.
FormTakes(v) == \/ kind = "site"
                \/ IF Empty(v) THEN ~required ELSE WellFormed(v)

\* A field is sent when it differs from what the form was opened with.
Touched == shown # base

\* Mutant: the whole data of the form is sent.
Everything == TRUE

\* Which keys of data a save holds: all of them for a new record, the dirty ones
\* for an edit.  Undefined keys do not survive JSON.
Sends == mode = "create" \/ Touched

Submit ==
  /\ phase = "editing" /\ ~Waits
  /\ FormTakes(shown)
  /\ phase' = "sending"
  /\ sent' = [value |-> IF Sends THEN shown ELSE Undef, touched |-> Touched, via |-> "form"]
  /\ refused' = FALSE
  /\ UNCHANGED <<form, others, shown, late, attached, stored, leaving, cam>>

\* The kinds whose values a unique field tells apart (check_unique_value compares
\* their text), and the value that another record holds.
Compared == {"text", "number", "date", "select", "link"}
HeldElsewhere(v) == elsewhere # "none" /\ v = V(elsewhere, {})

\* validate_and_normalize, whole for a creation and partial for an edit, under
\* the definition of the day, then _check_uniqueness.
ServerTakes(v) ==
  LET needed == mode = "create" /\ def # "withdrawn" /\ (required \/ def = "required")
  IN \/ kind = "site"
     \/ v = Undef /\ ~needed
     \/ v = Null /\ ~needed /\ def # "withdrawn"
     \/ v \notin {Undef, Null} /\ Main(v) # "bad" /\ def # "withdrawn" /\ ~HeldElsewhere(v)

\* update leaves an attribute alone when null comes for it; the form sends null
\* for a blank one.
Applied(v) ==
  CASE v = Undef -> stored
    [] kind = "site" /\ v = Blank -> IF mode = "create" THEN Null ELSE stored
    [] OTHER -> v

\* The attributes are sent by every save.
Received == IF kind = "site" /\ sent.value = Undef THEN base ELSE sent.value

Handle == IF ServerTakes(Received)
          THEN stored' = Applied(Received) /\ UNCHANGED refused
          ELSE refused' = TRUE /\ UNCHANGED stored

\* The form is reset and its page left, saved or queued.
Leave == phase' = "gone" /\ leaving' = FALSE /\ camera' = "closed" /\ lit' = 0
         /\ asking' = asking + IF camera = "requesting" THEN 1 ELSE 0

SaveAnswered ==
  /\ phase = "sending"
  /\ Handle
  /\ sent' = Unsent
  /\ IF refused' THEN phase' = "editing" /\ UNCHANGED <<leaving, cam>> ELSE Leave
  /\ UNCHANGED <<form, others, shown, late, attached>>

\* Without network the save goes to the queue of the device.
SaveQueued ==
  /\ phase = "sending"
  /\ sent' = [sent EXCEPT !.via = "queue"]
  /\ Leave
  /\ UNCHANGED <<form, others, shown, late, attached, stored, refused>>

QueueDelivers ==
  /\ phase = "gone" /\ sent.via = "queue"
  /\ Handle
  /\ sent' = Unsent
  /\ UNCHANGED <<form, others, shown, late, attached, phase, leaving, cam>>

\* An administrator makes the field required, or withdraws it or the option.
Redefine(d) ==
  /\ kind # "site" /\ def = "same" /\ d \in {"required", "withdrawn"}
  /\ def' = d
  /\ UNCHANGED <<form, elsewhere, shown, late, attached, phase, sent, stored, refused, leaving, cam>>

\* A colleague saves the field before this form does.
Colleague(v) ==
  /\ mode = "edit" /\ phase = "editing" /\ stored = base
  /\ v \in Stored(kind) \ {Undef, stored} /\ ~HeldElsewhere(v)
  /\ stored' = v
  /\ UNCHANGED <<form, others, shown, late, attached, phase, sent, refused, leaving, cam>>
\* The field is unique, and another record takes a value: an emptied text too.
TakenElsewhere(m) ==
  /\ kind \in Compared /\ elsewhere = "none"
  /\ m = "a" \/ (kind = "text" /\ m = "blank")
  /\ stored # V(m, {})
  /\ elsewhere' = m
  /\ UNCHANGED <<form, def, shown, late, attached, phase, sent, stored, refused, leaving, cam>>
-----------------------------------------------------------------------------
\* useUnsavedChangesGuard: a link of the application asks for a confirmation
\* when the form is dirty; the history of the browser never does.
ClickLink ==
  /\ Open /\ ~Waits /\ ~leaving
  /\ IF Touched THEN leaving' = TRUE /\ UNCHANGED <<phase, cam>> ELSE Leave
  /\ UNCHANGED <<form, others, shown, late, attached, sent, stored, refused>>

CancelLeave == /\ leaving /\ leaving' = FALSE
               /\ UNCHANGED <<form, others, shown, late, attached, phase, sent, stored, refused, cam>>

GoAway == /\ leaving \/ (Open /\ ~Waits)
          /\ Leave
          /\ UNCHANGED <<form, others, shown, late, attached, sent, stored, refused>>

OpenCamera(supported) ==
  /\ Open /\ kind = "text" /\ camera = "closed" /\ asking < 2
  /\ camera' = IF supported THEN "requesting" ELSE "unavailable"
  /\ UNCHANGED <<form, others, shown, late, attached, phase, sent, stored, refused, leaving, asking, lit>>

CameraAnswers ==
  /\ camera = "requesting"
  /\ \/ camera' = "live" /\ lit' = lit + 1
     \/ camera' = "denied" /\ UNCHANGED lit
  /\ UNCHANGED <<form, others, shown, late, attached, phase, sent, stored, refused, leaving, asking>>

FreezeOrResume ==
  /\ camera \in {"live", "frozen"}
  /\ camera' = IF camera = "live" THEN "frozen" ELSE "live"
  /\ UNCHANGED <<form, others, shown, late, attached, phase, sent, stored, refused, leaving, asking, lit>>

CloseCamera ==
  /\ camera # "closed"
  /\ camera' = "closed" /\ lit' = 0
  /\ asking' = asking + IF camera = "requesting" THEN 1 ELSE 0
  /\ UNCHANGED <<form, others, shown, late, attached, phase, sent, stored, refused, leaving>>

\* The request of a dialog that was closed: its stream is stopped at once.
LateCamera ==
  /\ asking > 0
  /\ asking' = asking - 1
  /\ UNCHANGED <<form, others, shown, late, attached, phase, sent, stored, refused, leaving, camera, lit>>

Next == \/ \E v \in Gestures : Change(v)
        \/ \E n \in 1..2 : Attach(n)
        \/ \E i \in Item : FileArrives(i)
        \/ Locate \/ FileFails \/ PlaceArrives
        \/ Submit \/ SaveAnswered \/ SaveQueued \/ QueueDelivers
        \/ \E d \in {"required", "withdrawn"} : Redefine(d)
        \/ \E v \in Stored(kind) : Colleague(v)
        \/ \E m \in {"blank", "a"} : TakenElsewhere(m)
        \/ ClickLink \/ CancelLeave \/ GoAway
        \/ \E s \in BOOLEAN : OpenCamera(s)
        \/ CameraAnswers \/ FreezeOrResume \/ CloseCamera \/ LateCamera

Spec == Init /\ [][Next]_vars
-----------------------------------------------------------------------------
TypeOK ==
  /\ kind \in Kinds /\ {required, refused, leaving} \subseteq BOOLEAN
  /\ phase \in {"editing", "sending", "gone"}
  /\ sent.via \in {"none", "form", "queue"}
  /\ elsewhere \in {"none", "blank", "a"}
  /\ Main(shown) \in {"blank", "a", "b", "bad", "list"} /\ Items(shown) \subseteq Item
  /\ attached \subseteq Item
  /\ camera \in {"closed", "requesting", "live", "frozen", "denied", "unavailable"}
  /\ asking \in 0..3 /\ lit \in 0..1

\* field-schema.ts follows validation.py: the server refuses nothing that the
\* form let through, unless the definition of the field was changed meanwhile or
\* the field is unique and another record holds the value.
RefusalStep ==
  (sent.via # "none" /\ sent' = Unsent /\ refused') => def # "same" \/ HeldElsewhere(sent.value)
FormAgreesWithServer == [][RefusalStep]_vars

\* A save writes the value that the form shows when the user changed it, and
\* leaves alone what a colleague wrote in a field that the user did not touch.
SaveStep ==
  (sent.via # "none" /\ sent' = Unsent /\ ~refused') =>
    /\ sent.touched /\ ~Empty(sent.value) => stored' = sent.value
    /\ ~sent.touched /\ kind # "site" => stored' = stored
SaveIsExact == [][SaveStep]_vars

\* Documents that were transferred for the field and not taken off again are in
\* the value that is saved, also when a later one of the same drop failed.
AttachmentsAreSaved ==
  (sent.via # "none" /\ sent.touched) => attached \subseteq Items(sent.value)

\* No camera films when its dialog is closed, however late the browser grants it.
CameraStops == lit = IF camera \in {"live", "frozen"} THEN 1 ELSE 0

\* "Retirer la fiche liee": a field that the user empties is empty.
ClearStep ==
  (sent.via # "none" /\ sent' = Unsent /\ ~refused' /\ sent.touched /\ Empty(sent.value)) =>
    Empty(stored')
ClearedIsCleared == [][ClearStep]_vars
=============================================================================
