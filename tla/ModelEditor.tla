---------------------------- MODULE ModelEditor ----------------------------
(***************************************************************************)
(* The fields of a model: the pages models/new and models/[modelId]/settings *)
(* with their lists of staged and of existing fields, and the service        *)
(* model_definition_service that keeps them.                                 *)
(*                                                                         *)
(* A field is known by its identifier, its key and its position.  Another    *)
(* administrator may work on the same model.                                 *)
(***************************************************************************)
EXTENDS Integers, FiniteSets, SequencesExt

CONSTANTS Key, None,
          TitleKey,   \* the keys the administrator may select as the title
          Patient,    \* TRUE: one thing at a time, as Calm and Idle say
          MaxFields   \* bound on the fields ever created

ConstantsAssumption ==
  None \notin Key \cup Nat /\ TitleKey \subseteq Key /\ Patient \in BOOLEAN /\ MaxFields \in Nat

VARIABLES onNew,           \* page: still on models/new
          staged, choice,  \* page: fields not created yet, the title selected
          shown,           \* page: the fields of the cached model
          toSend,          \* page: what submitNewFields has still to send
          moving,          \* page: the order a move has asked for
          loaded,          \* server: the fields that this request has read
          reply,           \* its answer, on the way
          fields, title,   \* server
          made,            \* number of identifiers given
          wanted           \* history: keys staged and not taken back since

request  == <<moving, loaded, reply>>
pageVars == <<onNew, staged, choice, shown, toSend>>
server   == <<fields, title, made>>
vars     == <<pageVars, request, server, wanted>>

KeysOf(fs)  == {f.key : f \in fs}
Staged      == KeysOf(ToSet(staged))

\* The order of a list of fields: by position, equal positions in any order.
Listing(fs) == {s \in SetToSeqs(fs) : \A i, j \in DOMAIN s : i < j => s[i].pos <= s[j].pos}
Ids(s)      == [i \in DOMAIN s |-> s[i].id]

Swapped(s, i) == [s EXCEPT ![i] = s[i + 1], ![i + 1] = s[i]]
Numbered(s)   == [i \in DOMAIN s |-> [s[i] EXCEPT !.pos = i - 1]]

Init ==
  /\ onNew = TRUE /\ staged = <<>> /\ choice = None
  /\ shown = {}
  /\ toSend = <<>> /\ moving = None /\ loaded = None /\ reply = None
  /\ fields = {} /\ title = None /\ made = 0
  /\ wanted = {}
-----------------------------------------------------------------------------
(* The staged fields, on both pages. *)

\* Bound: the administrator waits for the staged fields to be sent and for a move
\* to be answered, and moves no field while others are staged.
Calm == Patient => toSend = <<>> /\ moving = None
Idle == Patient => toSend = <<>> /\ staged = <<>>

\* The editor refuses the keys of the list and of the cached model.
Stage(k) ==
  /\ Calm
  /\ k \notin Staged \cup KeysOf(shown)
  /\ staged' = Append(staged, [key |-> k, pos |-> None])
  /\ wanted' = wanted \cup {k}
  /\ UNCHANGED <<onNew, choice, shown, toSend, request, server>>

MoveStaged(i) ==
  /\ Calm
  /\ staged' = Numbered(Swapped(staged, i))
  /\ UNCHANGED <<onNew, choice, shown, toSend, request, server, wanted>>

RemoveStaged(i) ==
  /\ Calm
  /\ staged' = Numbered(RemoveAt(staged, i))
  /\ wanted' = wanted \ {staged[i].key}
  /\ UNCHANGED <<onNew, choice, shown, toSend, request, server>>

\* Here the editor knows the keys of the staged fields only.
ReplaceStaged(i, k) ==
  /\ Calm
  /\ k \notin Staged \ {staged[i].key}
  /\ staged' = [staged EXCEPT ![i] = [key |-> k, pos |-> i - 1]]
  /\ wanted' = (wanted \ {staged[i].key}) \cup {k}
  /\ UNCHANGED <<onNew, choice, shown, toSend, request, server>>

ChooseTitle(k) ==
  /\ Calm
  /\ k \in TitleKey \cap IF onNew THEN Staged ELSE KeysOf(shown)
  /\ choice' = k
  /\ UNCHANGED <<onNew, staged, shown, toSend, request, server, wanted>>
-----------------------------------------------------------------------------
(* Creation: one request with every field, at its place in the list.  When it *)
(* fails, or its answer is lost, the page stays as it was: the model that may   *)
(* have been made is not this one.                                           *)

Create ==
  /\ onNew /\ staged # <<>>
  /\ Len(staged) <= MaxFields
  /\ fields' = {[id |-> i, key |-> staged[i].key, pos |-> i - 1] : i \in DOMAIN staged}
  /\ made' = Len(staged)
  /\ title' = choice
  /\ shown' = fields'
  /\ onNew' = FALSE /\ staged' = <<>>
  /\ UNCHANGED <<choice, toSend, request, wanted>>

(* Addition on the settings page: one request per staged field. *)

\* A position of 0 counts as none.
Added(f) == [id  |-> made + 1, key |-> f.key,
             pos |-> IF f.pos \in {None, 0} THEN Cardinality(fields) ELSE f.pos]

AddField(f) ==
  /\ made < MaxFields
  /\ fields' = fields \cup {Added(f)}
  /\ made' = made + 1
  /\ UNCHANGED title

SubmitNewFields ==
  /\ Calm
  /\ ~onNew /\ toSend = <<>> /\ staged # <<>>
  /\ toSend' = staged
  /\ UNCHANGED <<onNew, staged, choice, shown, request, server, wanted>>

\* The last one empties the list; the model is fetched again by Refetch.
FieldAdded ==
  /\ toSend # <<>>
  /\ AddField(Head(toSend))
  /\ toSend' = Tail(toSend)
  /\ staged' = IF Tail(toSend) = <<>> THEN <<>> ELSE staged
  /\ UNCHANGED <<onNew, choice, shown, request, wanted>>

\* Mutant: the list is emptied whatever the outcome.
ForgetStaged ==
  /\ toSend # <<>> /\ toSend' = <<>> /\ staged' = <<>>
  /\ UNCHANGED <<onNew, choice, shown, request, server, wanted>>

\* The request or its answer is lost; the rest is not sent, the list is kept.
AdditionFails ==
  /\ toSend # <<>>
  /\ AddField(Head(toSend)) \/ UNCHANGED server
  /\ toSend' = <<>>
  /\ UNCHANGED <<onNew, staged, choice, shown, request, wanted>>
-----------------------------------------------------------------------------
(* The existing fields. *)

\* No other move is asked for until this one is answered.
Move(s, i) ==
  /\ moving = None /\ Idle
  /\ moving' = Ids(Swapped(s, i))
  /\ UNCHANGED <<pageVars, loaded, reply, server, wanted>>

\* Mutant: the list may name only some of the fields.
SomeFields(ids) == ToSet(ids) \subseteq {f.id : f \in fields}

AllFields(ids) == ToSet(ids) = {f.id : f \in fields}

Asked == moving # None /\ loaded = None /\ reply = None

\* The route reads the fields, without a lock, and the service compares.
MoveLoaded ==
  /\ Asked /\ AllFields(moving)
  /\ loaded' = fields
  /\ UNCHANGED <<pageVars, moving, reply, server, wanted>>

MoveRefused ==
  /\ Asked /\ ~AllFields(moving)
  /\ moving' = None
  /\ UNCHANGED <<pageVars, loaded, reply, server, wanted>>

PlaceOf(ids, f) == IF f.id \in ToSet(ids)
                   THEN (CHOOSE i \in DOMAIN ids : ids[i] = f.id) - 1 ELSE f.pos

Placed(f) == [f EXCEPT !.pos = PlaceOf(moving, f)]

\* Only the positions that differ from those that were read are written.
Rewritten == {f.id : f \in {g \in loaded : Placed(g) # g}}

MoveWritten ==
  /\ loaded # None /\ Rewritten \subseteq {f.id : f \in fields}
  /\ fields' = {IF f.id \in Rewritten THEN Placed(f) ELSE f : f \in fields}
  /\ reply' = {Placed(f) : f \in loaded}
  /\ loaded' = None
  /\ UNCHANGED <<pageVars, moving, title, made, wanted>>

\* A field was deleted meanwhile: its row is not found, nothing is written.
MoveFails ==
  /\ loaded # None /\ ~(Rewritten \subseteq {f.id : f \in fields})
  /\ moving' = None /\ loaded' = None
  /\ UNCHANGED <<pageVars, reply, server, wanted>>

MoveAnswered ==
  /\ reply # None
  /\ shown' = reply
  /\ moving' = None /\ reply' = None
  /\ UNCHANGED <<onNew, staged, choice, toSend, loaded, server, wanted>>

\* The request is lost, or its answer: the page keeps the order it had.
MoveLost ==
  /\ moving # None /\ loaded = None
  /\ moving' = None /\ reply' = None
  /\ UNCHANGED <<pageVars, loaded, server, wanted>>

\* Refused when the field is the title of the records.
DeleteField(f) ==
  /\ Calm
  /\ \E g \in fields : g.id = f.id /\ g.key # title
  /\ fields' = {g \in fields : g.id # f.id}
  /\ shown'  = {g \in shown : g.id # f.id}
  /\ wanted' = wanted \ {f.key}
  /\ UNCHANGED <<onNew, staged, choice, toSend, request, title, made>>

\* Neither the key nor the type may change; the answer refreshes this field.
UpdateField(f) ==
  /\ Calm
  /\ \E g \in fields : g.id = f.id /\ shown' = (shown \ {f}) \cup {g}
  /\ UNCHANGED <<onNew, staged, choice, toSend, request, server, wanted>>

\* The title is saved as selected, and the page gets the server's model.
SaveSettings ==
  /\ Calm
  /\ ~onNew
  /\ title' = choice
  /\ shown' = fields
  /\ UNCHANGED <<onNew, staged, choice, toSend, request, fields, made, wanted>>

Refetch ==
  /\ ~onNew
  /\ shown' = fields
  /\ UNCHANGED <<onNew, staged, choice, toSend, request, server, wanted>>

\* Another administrator, who sees the server's model; he moves no field.
Elsewhere ==
  /\ ~onNew
  /\ \/ \E k \in Key \ KeysOf(fields) : AddField([key |-> k, pos |-> None]) /\ UNCHANGED wanted
     \/ \E f \in fields : /\ f.key # title
                          /\ fields' = fields \ {f}
                          /\ wanted' = wanted \ {f.key}
                          /\ UNCHANGED <<title, made>>
  /\ UNCHANGED <<pageVars, request>>

Next ==
  \/ \E k \in Key : Stage(k) \/ ChooseTitle(k)
  \/ \E i \in 1..(Len(staged) - 1) : MoveStaged(i)
  \/ \E i \in DOMAIN staged : RemoveStaged(i) \/ \E k \in Key : ReplaceStaged(i, k)
  \/ Create \/ SubmitNewFields \/ FieldAdded \/ AdditionFails
  \/ \E s \in Listing(shown) : \E i \in 1..(Len(s) - 1) : Move(s, i)
  \/ MoveLoaded \/ MoveRefused \/ MoveWritten \/ MoveFails \/ MoveAnswered \/ MoveLost
  \/ \E f \in shown : DeleteField(f) \/ UpdateField(f)
  \/ SaveSettings \/ Refetch \/ Elsewhere

Spec == Init /\ [][Next]_vars
-----------------------------------------------------------------------------
FieldType == [id : 1..MaxFields, key : Key, pos : Nat]

TypeOK ==
  /\ staged \in Seq([key : Key, pos : Nat \cup {None}])
  /\ ToSet(toSend) \subseteq [key : Key, pos : Nat \cup {None}]
  /\ fields \subseteq FieldType /\ shown \subseteq FieldType
  /\ {loaded, reply} \subseteq SUBSET FieldType \cup {None}
  /\ {title, choice} \subseteq Key \cup {None}
  /\ made \in 0..MaxFields /\ wanted \subseteq Key

\* A field the administrator prepared is a field of the model or still in the
\* list, whatever request failed: submitNewFields empties the list at the end.
StagedAreKept == \A k \in wanted : k \in KeysOf(fields) \cup Staged

Before(ids, a, b) == \E i, j \in DOMAIN ids : i <= j /\ ids[i] = a /\ ids[j] = b

\* Of the fields read for a move, those that are left stand in the order the page
\* asked for, each at a place of its own: whoever added a field that the page
\* does not know, or added or deleted one between the reading and the writing
\* (model_definition_service.py:252-258).
MovesAreExact ==
  [][ MoveWritten =>
        \A f, g \in {h \in fields' : h.id \in {l.id : l \in loaded}} :
          f.pos <= g.pos => Before(moving, f.id, g.id)
    ]_vars

\* "Keys already used by other fields of the model -- to refuse a duplicate."
KeysAreUnique == \A f, g \in fields : f.key = g.key => f.id = g.id

\* "Adds a field to an existing model -- always at the end of the list."
AddedFieldsComeLast ==
  [][ made' = made + 1 => \A f \in fields, g \in fields' : g.id = made' => f.pos < g.pos ]_vars

\* The title of the records is one of the model's fields.
TitleIsAField == title # None => title \in KeysOf(fields)
=============================================================================
