---------------------------- MODULE MovementForm ----------------------------
(***************************************************************************)
(* The dialog in which a movement of stock is entered (movement-dialog.tsx): *)
(* four forms under four tabs, what a press of the button sends, what becomes *)
(* of it when the network or the server fails, and the confirmation that an   *)
(* adjustment asks for.  One variant in one depot; a transfer leaves it.      *)
(*                                                                         *)
(* A useMutation whose library was told that the network is gone (event       *)
(* "offline") does not even call its function: it waits, in memory, for the   *)
(* event "online".  The function is what would put the operation in the       *)
(* queue.  The queue of the device and the server are what SyncQueue and      *)
(* StockMovements promise: an operation is tried until it is answered, and    *)
(* applied once per identifier.                                              *)
(***************************************************************************)
EXTENDS Integers, FiniteSets

CONSTANTS MaxQty,       \* bound on the stock of the depot
          MaxGestures,  \* bound on the presses of a button that saves
          MaxEvents,    \* bound on the presses, changes of network and closings
          Unknown       \* no quantity

ConstantsAssumption ==
  /\ MaxQty \in Nat /\ MaxGestures \in Nat \ {0} /\ MaxEvents \in Nat
  /\ Unknown \notin Int

Tabs == {"entry", "exit", "adjustment", "transfer"}
Gesture == 1..MaxGestures
Qty == -MaxQty..MaxQty

VARIABLES signal,      \* what the browser last said of the network: "on" or "off"
          events,      \* changes of network and closings so far
          tracked,     \* does the article follow its lots?
          tab, values, \* the form on screen
          confirming,  \* the quantity counted, while its confirmation is asked
          pair,        \* the query of the quantity that the confirmation shows
          made,        \* presses so far
          here,        \* the press whose answer the form on screen waits for
          op, stage,   \* of each press: what it sends, and how far it is
          told,        \* what the user was told of it
          queue, failed,  \* on the device: what waits, what was refused
          level, applied  \* server

form == <<signal, events, tracked, tab, values>>
sends == <<made, here, op, stage, told>>
device == <<queue, failed>>
server == <<level, applied>>
vars == <<form, confirming, pair, sends, device, server>>

Empty == [ok |-> FALSE, lot |-> FALSE, file |-> FALSE, counted |-> 0]
NoOp == [id |-> 0, kind |-> "entry", counted |-> 0, first |-> "sent", off |-> FALSE]
\* Is there a quantity in the cache, was it read for the confirmation on screen,
\* is it being read?
NoPair == [known |-> FALSE, new |-> FALSE, asked |-> FALSE]

Init ==
  /\ signal = "on" /\ events = 0
  /\ tracked \in BOOLEAN
  /\ tab = "closed" /\ values = Empty /\ confirming = Unknown /\ pair = NoPair
  /\ made = 0 /\ here = 0
  /\ op = [g \in Gesture |-> NoOp]
  /\ stage = [g \in Gesture |-> "none"]
  /\ told = [g \in Gesture |-> "nothing"]
  /\ queue = {} /\ failed = {}
  /\ level = MaxQty /\ applied = [g \in Gesture |-> 0]
-----------------------------------------------------------------------------
\* The dialog opens on the first tab; the content of a tab that is left, and of
\* a dialog that is closed, is unmounted with its form.
OpenDialog(t) ==
  /\ t \in Tabs /\ tab # t /\ confirming = Unknown
  /\ tab' = t /\ values' = Empty /\ here' = 0
  /\ UNCHANGED <<signal, events, tracked, confirming, pair, made, op, stage, told, device, server>>

CloseDialog ==
  /\ tab # "closed" /\ confirming = Unknown
  /\ tab' = "closed" /\ values' = Empty /\ here' = 0
  /\ UNCHANGED <<signal, events, tracked, confirming, pair, made, op, stage, told, device, server>>

\* What each form asks for: only an entry has a document, or needs a lot, and
\* only an adjustment gives the quantity that was counted.
EntryForm(v)      == v.counted = 0 /\ (v.lot => tracked)
ExitForm(v)       == v.counted = 0 /\ ~v.lot /\ ~v.file
AdjustmentForm(v) == ~v.lot /\ ~v.file
TransferForm(v)   == v.counted = 0 /\ ~v.lot /\ ~v.file

Fill(v) ==
  /\ confirming = Unknown /\ here = 0
  /\ v # values /\ (v.ok \/ v = Empty)
  /\ \/ tab = "entry" /\ EntryForm(v)
     \/ tab = "exit" /\ ExitForm(v)
     \/ tab = "adjustment" /\ AdjustmentForm(v)
     \/ tab = "transfer" /\ TransferForm(v)
  /\ values' = v
  /\ UNCHANGED <<signal, events, tracked, tab, confirming, pair, sends, device, server>>

LotIsMissing == tab = "entry" /\ tracked /\ ~values.lot

\* The first thing that the function of the mutation does.
First == IF LotIsMissing THEN "over" ELSE IF values.file THEN "upload" ELSE "sent"

\* The body is made, with an identifier of its own, by the function of the
\* mutation: once per press.
Operation(g) == [id |-> g, kind |-> tab, counted |-> values.counted,
                 first |-> First, off |-> signal = "off"]

\* The function begins, if only by refusing.
Begin(g, first) ==
  /\ stage' = [stage EXCEPT ![g] = first]
  /\ told' = [told EXCEPT ![g] = IF first = "over" THEN "error" ELSE @]

Send ==
  LET g == made + 1 IN
  /\ g \in Gesture /\ made + events < MaxEvents
  /\ made' = g
  /\ op' = [op EXCEPT ![g] = Operation(g)]
  /\ IF signal = "on"
     THEN Begin(g, First) /\ here' = IF First = "over" THEN here ELSE g
     ELSE stage' = [stage EXCEPT ![g] = "paused"] /\ here' = g /\ UNCHANGED told

\* The schema of the form refuses the press without a word to the server.
Submit ==
  /\ tab \in Tabs \ {"adjustment"} /\ values.ok /\ here = 0
  /\ Send
  /\ UNCHANGED <<form, confirming, pair, device, server>>

\* The document of an entry goes first; without a network the entry goes on
\* without it, and nobody is told.
Uploaded(g) ==
  /\ stage[g] = "upload"
  /\ stage' = [stage EXCEPT ![g] = "sent"]
  /\ UNCHANGED <<form, confirming, pair, made, here, op, told, device, server>>

\* The form learns that a press has failed; an adjustment leaves its confirmation.
Over(g, last) ==
  /\ stage' = [stage EXCEPT ![g] = last]
  /\ here' = IF here = g THEN 0 ELSE here
  /\ confirming' = IF here = g THEN Unknown ELSE confirming

\* onError: the form stays as it is.
Fails(g, last) ==
  /\ Over(g, last)
  /\ told' = [told EXCEPT ![g] = "error"]
  /\ UNCHANGED <<form, pair, made, op, device, server>>

UploadRefused(g) == stage[g] = "upload" /\ Fails(g, "over")

Resume(g) ==
  /\ stage[g] = "paused" /\ signal = "on"
  /\ Begin(g, op[g].first)
  /\ here' = IF op[g].first = "over" /\ here = g THEN 0 ELSE here
  /\ confirming' = confirming
  /\ UNCHANGED <<form, pair, made, op, device, server>>

\* The bound on what a visit is made of.
Event == made + events < MaxEvents /\ events' = events + 1

Signal ==
  /\ Event
  /\ signal' = IF signal = "on" THEN "off" ELSE "on"
  /\ UNCHANGED <<tracked, tab, values, confirming, pair, sends, device, server>>

\* The tab is closed: what was in memory alone is gone.
CloseTab ==
  /\ Event
  /\ tab' = "closed" /\ values' = Empty /\ here' = 0
  /\ confirming' = Unknown /\ pair' = NoPair
  /\ stage' = [g \in Gesture |-> IF stage[g] \in {"none", "over", "cut"} THEN stage[g] ELSE "gone"]
  /\ UNCHANGED <<signal, tracked, made, op, told, device, server>>

\* onSuccess: whichever form is on screen, the dialog closes, and its content is
\* unmounted, the confirmation of an adjustment included.
Succeeds(g, word) ==
  /\ stage' = [stage EXCEPT ![g] = "over"]
  /\ told' = [told EXCEPT ![g] = word]
  /\ tab' = "closed" /\ values' = Empty /\ here' = 0 /\ confirming' = Unknown
  /\ UNCHANGED <<signal, events, tracked, pair, made, op, server>>

-----------------------------------------------------------------------------
\* What the server makes of an operation: nothing if it has seen its
\* identifier; an exit is refused when there is not enough.
Allowed(o) == applied[o.id] > 0 \/ o.kind # "exit" \/ level > 0

Effect(o) ==
  CASE o.kind = "entry" -> level + 1
    [] o.kind \in {"exit", "transfer"} -> level - 1
    [] OTHER -> o.counted

\* Mutant of Apply: the identifier is not looked for.
ApplyAgain(o) ==
  /\ level' = Effect(o) /\ level' \in Qty
  /\ applied' = [applied EXCEPT ![o.id] = @ + 1]

Apply(o) ==
  IF applied[o.id] > 0 THEN UNCHANGED <<level, applied>>
  ELSE /\ level' = Effect(o) /\ level' \in Qty
       /\ applied' = [applied EXCEPT ![o.id] = @ + 1]

Served(g) ==
  /\ stage[g] = "sent" /\ Allowed(op[g])
  /\ Apply(op[g])
  /\ stage' = [stage EXCEPT ![g] = "served"]
  /\ UNCHANGED <<form, confirming, pair, made, here, op, told, device>>

Answered(g) == stage[g] = "served" /\ Succeeds(g, "saved") /\ UNCHANGED device

Refused(g) == stage[g] = "sent" /\ ~Allowed(op[g]) /\ Fails(g, "over")

\* The movement is recorded, but its answer cannot be read: a body cut on its
\* way, which response.json() throws at, or the error of a gateway.  Neither is
\* a network error: the press fails.
AnswerUnread(g) == stage[g] = "served" /\ Fails(g, "cut")

\* Mutants of Enqueue: the operation is not kept, or kept under a new identifier.
EnqueueNothing(o) == queue' = queue
EnqueueAnew(o) == queue' = queue \cup {[o EXCEPT !.id = CHOOSE i \in Gesture : i # o.id]}

\* Only a network error puts the operation in the queue of the device, under
\* the same identifier: the request may have been served.
Enqueue(o) == queue' = queue \cup {o}

Lost(g) ==
  /\ stage[g] \in {"sent", "served"}
  /\ Succeeds(g, "queued")
  /\ Enqueue(op[g])
  /\ failed' = failed

Replayed(o) ==
  /\ o \in queue /\ Allowed(o)
  /\ Apply(o)
  /\ \/ queue' = queue \ {o}
     \/ queue' = queue         \* the answer was lost
  /\ UNCHANGED <<form, confirming, pair, sends, failed>>

ReplayRefused(o) ==
  /\ o \in queue /\ ~Allowed(o)
  /\ queue' = queue \ {o}
  /\ failed' = failed \cup {o.id}
  /\ UNCHANGED <<form, confirming, pair, sends, server>>
-----------------------------------------------------------------------------
\* An adjustment asks for the quantity when its confirmation opens, whatever
\* is in the cache (staleTime: 0); a request already on its way is not doubled.
Verify ==
  /\ tab = "adjustment" /\ values.ok /\ confirming = Unknown /\ here = 0
  /\ confirming' = values.counted
  /\ pair' = [pair EXCEPT !.new = FALSE, !.asked = TRUE]
  /\ UNCHANGED <<form, sends, device, server>>

QuantityShown ==
  /\ pair.asked /\ signal = "on"
  /\ pair' = [known |-> TRUE, new |-> confirming # Unknown, asked |-> FALSE]
  /\ UNCHANGED <<form, confirming, sends, device, server>>

\* The request failed twice: what was shown, or zero, is shown.
QuantityFails ==
  /\ pair.asked
  /\ pair' = [pair EXCEPT !.asked = FALSE]
  /\ UNCHANGED <<form, confirming, sends, device, server>>

Cancel ==
  /\ confirming # Unknown /\ here = 0
  /\ confirming' = Unknown
  /\ UNCHANGED <<form, pair, sends, device, server>>

\* isLoading: no data yet, and a request on its way, not one that waits for the
\* network.
IsLoading == pair.asked /\ ~pair.known /\ signal = "on"

Confirm ==
  /\ confirming # Unknown /\ here = 0 /\ ~IsLoading
  /\ Send
  /\ UNCHANGED <<form, confirming, pair, device, server>>

Input == [ok : BOOLEAN, lot : BOOLEAN, file : BOOLEAN, counted : 0..1]

Next ==
  \/ \E t \in Tabs : OpenDialog(t)
  \/ \E v \in Input : Fill(v)
  \/ CloseDialog \/ Submit \/ Verify \/ Cancel \/ Confirm
  \/ \E g \in Gesture : Uploaded(g) \/ UploadRefused(g) \/ Resume(g)
  \/ \E g \in Gesture : Served(g) \/ Answered(g) \/ Refused(g) \/ AnswerUnread(g) \/ Lost(g)
  \/ \E o \in queue : Replayed(o) \/ ReplayRefused(o)
  \/ QuantityShown \/ QuantityFails \/ Signal \/ CloseTab

Spec == Init /\ [][Next]_vars
-----------------------------------------------------------------------------
TypeOK ==
  /\ tab \in Tabs \cup {"closed"} /\ values \in Input
  /\ confirming \in 0..1 \cup {Unknown} /\ pair \in [known : BOOLEAN, new : BOOLEAN, asked : BOOLEAN]
  /\ told \in [Gesture -> {"nothing", "error", "saved", "queued"}]
  /\ stage \in [Gesture -> {"none", "paused", "upload", "sent", "served", "over", "cut", "gone"}]
  /\ level \in Qty /\ here \in 0..made /\ signal \in {"on", "off"}

\* A press counts once when it was announced as saved, and once, or waiting, or
\* in the list of failures of the device, when it was kept for later.  It counts
\* never when an error was shown, and is not kept: but for the answer that could
\* not be read (movement-dialog.tsx:309-343, http.ts:54).
GesturesCountOnce ==
  \A g \in Gesture :
    /\ applied[g] <= 1
    /\ told[g] = "saved" => applied[g] = 1
    /\ told[g] = "error" => op[g] \notin queue /\ (applied[g] = 0 \/ stage[g] = "cut")
    /\ told[g] = "queued" => applied[g] = 1 \/ op[g] \in queue \/ g \in failed

\* The error that is shown is one that can be believed ("l'UI affiche un message
\* honnête", errors.ts:3-4): nothing was recorded when the dialog says
\* "Enregistrement impossible." (movement-dialog.tsx:341).
ErrorsCountNothing == \A g \in Gesture : told[g] = "error" => applied[g] = 0

\* The quantity the user compares with the count, when the adjustment is
\* confirmed, is one that was read for this confirmation, "jamais celle mise en
\* cache" (movement-dialog.tsx:628-632).
ConfirmedGapIsFresh == [][Confirm /\ pair.known => pair.new]_vars

\* A movement entered without network "reste enregistrée sur l'appareil et
\* repart automatiquement" (MANUEL_UTILISATION.md:259-261): once the tab is
\* closed, it was refused, or it is counted, waiting, or in the list of failures.
OfflineGesturesAreKept ==
  \A g \in Gesture :
    stage[g] = "gone" /\ op[g].off =>
      applied[g] = 1 \/ op[g] \in queue \/ g \in failed
=============================================================================
