# Registre: a verification project

Registre is a register of records (vehicles, licences, equipment, ...) with due
dates, a stock ledger and documents, used from phones that are often offline. A
FastAPI backend (`src/backend`) keeps everything in PostgreSQL; a Next.js
application (`src/frontend`) shows it, keeps a queue of operations in IndexedDB
and replays it when the network is back. This directory holds TLA+ modules of the
parts where order, overlap and failure decide whether data is right, the
configurations that check them with TLC, and the proofs that TLAPS checks.

`PROJECT.json` is the index: components, runs, mutants (for each property, a
plausible bug of the code that the run would find), the map from definitions to
source lines, findings, hazards and theorems.

## 1. Inventory

Everything on the server happens in a request. `get_db`
(`src/backend/app/core/database.py:20`) opens one transaction per request at READ
COMMITTED, commits it when the handler returns and rolls it back on any exception.
Services load ORM objects, decide on what they loaded, and flush. So the questions
of the whole backend are the same: what was read before a lock, what is written as
an absolute value, what happens when a request is sent again, and what stands
outside of the transaction.

Everything in the application happens in a tab: React state that a closed tab
loses, a cache of queries (TanStack Query) that holds answers of different ages,
requests that are answered late, in another order, or never. Its questions are:
what was shown when the user decided, what a late answer overwrites, what is told
as done, and what the server makes of it.

| part | state | operations | interacts with |
|---|---|---|---|
| Stock movements (`stock_service.py`) | append-only `stock_movements`, `stock_levels` kept by a trigger | entry, exit, adjustment, transfer | offline queue (keys), thresholds, lots |
| Stock lots, thresholds, consignment | `stock_lots`, `depot_thresholds`, `consignment_levels`, their alerts | FIFO or named exits, thresholds and weekly scan, delivery and return of packaging | movements, alerts, audit |
| Records (`record_service.py`) | `records` (data, instant of each field, status), `record_field_conflicts`, `record_deadlines` | create, update, archive, events | offline queue, alerts |
| Offline queue (`lib/offline`) | IndexedDB `operations`, `records_cache`; token in memory | enqueue, pass, reset, refresh, login | every server operation that can be replayed |
| Resumable uploads (`sync_service.py`, `uploads.ts`) | `upload_sessions`, chunk files, documents; session on the device | open, chunk, status, complete | offline queue, document storage |
| Deadline alerts (`alerts/`, `alert_service.py`) | `alerts`, notifications | nightly or manual scan, renewal, acknowledge, postpone | records |
| Subscriptions (`subscription_service.py`, `payment_service.py`) | `subscriptions`, `payments`, `invoices` | declare, validate, reject, record, scan, adjust | - |
| Session and routes (`lib/auth`, `app/api/auth`) | user, token, cookie, list of organizations, the page | bootstrap, sign in, refresh, sign out, onboarding, guards | offline queue (refresh), every page |
| Form of a record (`components/fiches`) | the value of each control, uploads on their way, the camera | edit, attach, locate, scan, save, leave | records, uploads, offline queue |
| Model editor (`models/new`, `settings`) | staged fields, the cached list; fields and title on the server | stage, send, move, withdraw, choose the title | model definitions, form |
| Dialog of the movements (`movement-dialog.tsx`) | four forms, a mutation that may be paused, a confirmation | enter, confirm, attach, close | offline queue, stock movements |
| Import (`import/page.tsx`, `import_service.py`) | file, mapping, preview, result | choose, map, preview, commit | records |
| Screens and cache (`query-provider.tsx`, every page) | the cache of queries | read, gesture, invalidation, navigation | every service |
| Offers, invoice PDF, server authentication, storage backends, site, deployment | see `PROJECT.json` | | not modelled, with the reason |

What is hard in it, and the properties it must have (the full list, at its lines,
is `hazards` in `PROJECT.json`):

* **Stock movements.** Requests of one operation overlap or come again; exits
  compete for the same units; opposite transfers lock two rows in opposite order;
  an adjustment writes a difference computed from an old reading. The levels must
  be the sum of the ledger, no exit may overdraw, a transfer is whole, an
  operation is applied once, every request ends.
* **Lots, thresholds, packaging.** FIFO exits lock rows one after the other;
  entries and named exits do not lock; the decision to close an alert is taken on
  a quantity the session may hold from before the movement; counters are written
  in place. No unit leaves twice, the oldest leave first, alerts close with their
  cause and come back every week while it lasts, packaging counts once.
* **Records.** Writes reach the server late, out of order, twice and at the same
  time. The most recent writing of a field wins, what loses is in the journal,
  the index of due dates follows the data.
* **Offline queue.** The tab is closed anywhere, tokens and sessions expire, the
  network cuts before or in the middle of an answer. Nothing queued is lost,
  a creation goes before what depends on it, only an answer makes a failure, and
  in calm conditions the queue drains.
* **Uploads.** A file store outside of the transaction, an unlocked list of
  chunks, a lock taken after the row was read. An acknowledged chunk is kept,
  complete can be replayed, completed means stored.
* **Alerts.** Scans are missed, repeated, simultaneous; dates change meanwhile.
  A near date is alerted on, a late one reminded of, an open alert is about the
  date the deadline has now.
* **Subscriptions.** Payments, scans and adjustments read and write one row. No
  paid day is lost, a payment is decided once, a restriction follows an end that
  ran out.
* **Session.** Strict mode runs the bootstrap twice; any call may fail half way.
  User, token, cookie and organizations agree, and no waiting page lasts.
* **Pages.** What was done is shown; what is offered is not refused; a save sends
  what was touched, and the form and the server agree on values; staged fields
  and attachments survive the failure of one of several requests; a press of a
  button counts once; what is imported was announced, and what was left out is shown.

## 2. Modules

| module | what it is |
|---|---|
| `StockLedger` | abstract specification: each operation applies atomically, once |
| `StockMovements` | the requests of `StockService` with locks, retries, deadlock, rollback |
| `StockLots` | the lots of a variant in a depot: entries, FIFO and named exits, the scan |
| `StockThresholds` | the threshold of a level: weekly scans, movements that close alerts |
| `Consignment` | the packaging of a consigned article, with the replay by the journal |
| `RecordMerge` | creation and merge by field of one record |
| `SyncQueue` | the queue, the passes and the tabs of one device |
| `StoredDocument` | abstract specification: an upload is opened, received by chunks, made a document once, told to its device |
| `UploadSession` | one document, from the device to the document row |
| `DeadlineAlerts` | the alert engine on one deadline |
| `Subscriptions` | the subscription of one organization |
| `Session` | the session of one tab and the guards of its routes |
| `FieldForm` | one field of the form of a record, from its control to the server |
| `ModelEditor` | the fields of a model, edited by two administrators |
| `MovementForm` | the dialog of the stock movements, online and offline |
| `ImportWizard` | the import of a spreadsheet |
| `Screens` | what each screen reads, offers and leads to, and what the server allows |
| `Console` | one gesture of `Screens` and one query of the cache |
| `..._proofs` | the theorems about the module they are named after; `Stock_proofs`, `Device_proofs` and `Pages_proofs` are about the parts of `MCStock`, `MCDevice` and `MCPages` (section 5) |
| `MCStock`, `MCDevice`, `MCPages` | compositions: one part runs, chosen by `AllInit` |
| other `MC...` | values of constants and symmetry sets for the runs |

`StockMovements` and `RecordMerge` are the server as seen by one operation of
`SyncQueue` (its `Handle`: applied once, or refused); `SyncQueue` is the client
that `StockMovements` and `RecordMerge` assume (`Submit`, `Send`: an operation is
sent again with the same identifier, after an error or while the first request
still runs; see section 4 for the overlap). `MovementForm` takes from both what
they promise: a queued operation is tried until it is answered, and applied once
per identifier. `FieldForm` and `RecordMerge` share one save: the first has the
values, the second the instants.

`MCStock`, `MCDevice` and `MCPages` hold parts that do not share state in the
code: `AllInit` chooses the part, `UNCHANGED` keeps the others in one initial state,
and each property says of which part it is. Each extends one of its modules
(`StockThresholds`, `SyncQueue`, `MovementForm`), whose properties the run checks
under their own names; the others are instances, whose properties have a definition
in the composition, which the theorems prove under that name. The state space is the sum of those
of the parts; the parts are checked as if each had a run of its own. `MCStock`
keeps the fairness of `StockMovements`, `MCDevice` that of `SyncQueue` and
`Session`, each restricted to the steps of its part.

### How the code is seen

* A request is a process with a program counter. A step is what happens between
  two points at which another transaction can be noticed: a query, a row lock, the
  commit. Plain reads see committed rows (READ COMMITTED); a row lock waits for
  the commit or rollback of its holder.
* SQLAlchemy writes at flush the columns whose value differs from the one loaded,
  and does not refresh an object it already holds, even when the same row is
  selected again, `FOR UPDATE` or not. The identity map is the source of several
  findings, so it is modelled (`Column` in `RecordMerge`, `Written` in
  `Subscriptions` and `StockLots`, `snap` in `UploadSession`, `seen` in
  `StockThresholds`).
* `Rollback` is an exception or the death of the process at any point. Files are
  not rolled back.
* Permissions are checked before any of these steps and change nothing; the models
  of the services start after them. `Screens` has the table of roles and
  actions. Row-level security is not modelled.
* In a page, a step is one event: a gesture, an answer, an effect that runs after
  a rendering. What a component holds in its state dies with it; what is in
  IndexedDB survives.

### StockLedger, StockMovements

State: `level` and `ledger` are the committed `stock_levels` and
`stock_movements`; `lock` is the holder of a level row; `pc`, `opOf`, `seen`,
`inserted` are the local state of each request; `payload` is what each operation
carries. Actions: `Submit` (a request arrives), `CheckIdempotent` (the lookup of
`client_operation_id`), `LockAndCheck` (exit: `SELECT ... FOR UPDATE`, then the
test of sufficiency), `ReadLevel` (adjustment: unlocked reading), `Insert` (one
movement; the trigger takes the row lock), `Commit`, `Rollback`, `DeadlockAbort`
(PostgreSQL breaks a cycle). `StockLedger` has one action per operation; a request
that replays is a stutter. The refinement maps committed state to committed state.

### StockLots, StockThresholds, Consignment

In `StockLots`, `lots` are the rows, `entered` and `taken` the units of the
committed movements of each lot number. `ConsumeLotsFifo` reads the rows with
units left in an order by date (ties in any order), `LockLot` locks them one after
the other and reads each again, as PostgreSQL does under READ COMMITTED,
`CommitFifo` takes units from the front. `AddToLot` and `ConsumeSpecificLot` read
without a lock; `Flush` is their UPDATE, which waits for the row, and writes what
was computed before. Two exits that lock equal dates in opposite orders wait for
each other: the database ends one (`Rollback`).

In `StockThresholds`, `tx` is a movement with the quantity its session holds
(`seen`): an exit has loaded the row for its lock, an adjustment for its count;
the others load it after the trigger. `Insert` is the INSERT with the trigger and
`_resolve_threshold_if_needed`, which follows in the same transaction and waits
for nothing. `low` and `scanned` are histories: has the level been low since the
week began, and of which week was the last scan. `RisesAbove` is a movement that
leaves the level above the threshold; `FoundLow` an adjustment whose session holds a
level at or below it, which closes nothing and is left out of `RecoveryStep`.

In `Consignment`, `asked` is what each `client_operation_id` asks for and
`audited` the journal. `Ask` may be repeated; `Commit` writes the counters that
changed and lets the trigger change the level, which is compared with nothing.

### RecordMerge

`row` is the record with the instant of each field, `journal` the conflicts,
`deadline` the index, `audited` the audit entries that make an update idempotent,
`at` the instant the client wrote each operation. `Load` is the router's reading
and the lookup of the audit entry; `Flush` waits for the row lock if a column
changed; `Commit` writes the merged columns. `HandleCreate` is one step: the
primary key decides between two creations. `Concurrent` and `OfflineEdits` are
switches of the runs.

### SyncQueue

`row` is the `operations` store, `stage` the operation seen from its form,
`calls` the requests on their way (with answers on their way back), `pc`, `stale`,
`todo`, `retried` the pass of each tab. Each IndexedDB transaction is a step:
`StartPass` and `ResetStale` are two because `resetStaleSyncingOperations` reads
in one transaction and writes in another. The sending of an operation and its
`syncing` mark are one step: nothing can come between that another part of the
model would notice, except the closing of the tab, which `CloseTab` covers from
either side with a request that vanishes.

### UploadSession

The device (`place`, `step`, `left`, `cur`) sends one request at a time; one it
gave up may still be served when `Overlap`. The server's `snap` is the session row
a request loaded and then keeps; `session` is the committed row; `files` the chunk
directory, changed at once; `acked` the chunks whose request ended well.
`StoredDocument` knows what the device can rely on: the session is opened, chunks
are received, the document is stored when all of them were, and the device is told.
Every retry, every replayed complete and every rollback is a stutter of it.

### DeadlineAlerts

Days are whole days. `scan` holds the day and the date a scan read;
`ScanCommit` inserts with `ON CONFLICT DO NOTHING` what it computed from them and
notifies the recipients of the inserted rows. `Renew` is `_sync_deadlines` on a
date that changed: it resolves the open alerts of the deadline.

### Subscriptions

`sub` is the subscription row, `job` the transactions, each with the row it loaded
and the row it computed. `FlushSub` is the UPDATE that waits for the row lock;
`Written` is what it changes. `LoadAdjust` is what the publisher sets by hand: a
status of `AdjustTo`, or none (`None`), which keeps the status and its dates, and an
end of `Ends`: the one there is, a later one or an earlier one. Two histories tell
hand from date: `due` is the end that had run out at the last restriction, `cut` are
the invoiced payments whose period the publisher has cut short.

### Session

`status`, `user`, `token` are `AuthProvider`; `boot` the two passes of its effect
(strict mode mounts, unmounts and mounts, and a cancelled flag decides which pass
concludes); `cookie` belongs to the route handlers and changes with
their answer; `calls` are the requests on their way; `orgs` the query of the
organizations, keyed by the token; an answer of it that cannot be read is no error of
the API, and the pages see a list without organization. A token is known by its owner. `Redirect` is
the guard of the page that is shown; `Patience` says where nobody should stay:
a page covered until its guard knows, or a public page of a known session. One tab; the choice among several organizations is left out.

### FieldForm

One field: `kind` is the type, `shown` its control, `base` the value the form was
opened with, `late` an upload or a location on its way, `attached` the documents
the user added, `sent` the save on its way (from the form or from the queue of the
device), `stored` and `def` the server's value and definition. A value is a record
of what its type distinguishes: blank, a valid value, another one, an ill-formed
one, a set of items. `FormTakes` is `field-schema.ts`, `ServerTakes` is
`validation.py`; they are written over the same values so that they can be
compared. `Colleague` and `Redefine` change the server while the form is open.
`elsewhere` is the value that another record holds when the field is unique:
`TakenElsewhere` lets a colleague take one at any time, and `HeldElsewhere` is the
server's check, which the form cannot make.
`camera`, `asking`, `lit` are the scanner of codes: the dialog, the requests for a
stream that outlive it, the streams that run.

### ModelEditor

`staged` are the fields that were not created yet, `shown` the list the page has
in its cache, `fields` the server's, each with its place. `toSend` is the loop of
`submitNewFields`, one request for each staged field, any of which may fail;
`moving` is the order a move has asked for, computed from `shown`. A move is a
request: `MoveLoaded` reads the fields without a lock and compares, `MoveWritten`
writes the positions that differ from those it read (`Rewritten`), `MoveFails` meets
a field deleted meanwhile, `MoveAnswered` shows the `reply`, `MoveLost` loses the
request or the answer. Another administrator adds and withdraws at any time, between
those steps too, and moves nothing. `wanted` is a history: what was staged and not
taken back.

### MovementForm

`values` are the four forms under their tabs, `confirming` the dialog an
adjustment asks for, `pair` what it compares, `op` and `stage` each press of a
button that saves: paused, sent, served, over, gone, or "cut" when its answer came and
could not be read (`AnswerUnread`), which the dialog tells as an error. `signal` is what the
browser last said of the network: a mutation whose signal is "off" is paused and
its function, which would put it in the queue, is not called. A success closes the
dialog, and with it the confirmation of an adjustment, asked or not; an error
leaves both.

### ImportWizard

`asked` holds the previews on their way with the `seq` they were sent under, so
that answers may overtake each other; `sent` the import on its way. A line is
valid or not under a mapping; `imported` counts the records each line became, `held`
are the values of a unique field that records have. The commit creates the valid
lines in their order, each one unless a record or an earlier line has its value
(`Created`), or none when the member has become a reader (`Outcomes`); `result` is
what the page then shows. The other members change what is held at any time
(`Elsewhere`); the lines of one commit meet what is held at one instant, where the
code asks for each line in its turn.

### Screens, Console

`Screens` is data: for each screen the queries it reads, the gestures it offers,
where it leads, by role; for each gesture what it writes in the cache and what it
invalidates; for each call of the API the queries whose answer it changes and the
roles it is refused to. `Console` picks one member, one gesture and one query, and
follows them: the query is read before, during or after the gesture, on this
screen or another, its request fails, is given up, or falls back on the copy of
the device, and comes back after a newer answer. What the pages have to observe for
that to end well is stated of the tables alone, without a state
(`GesturesReport`, `ShellStays`); TLC evaluates both as an assumption of `MCPages`,
and the theorem about the cache rests on them.

## 3. Runs

The bound on requests is the bound on retries too.

| run | instance | shows |
|---|---|---|
| `StockMovements_safety` | 3 requests, up to 3 operations of any kind, 2 depots | levels are the ledger, an operation applies once, transfers are whole, exits covered; refinement of `StockLedger` |
| `Stock` | movements: 3 requests, exits and opposite transfers; lots: 2 lots, 2 dates, 3 units each, 2 requests; thresholds: levels to 2, 2 thresholds, 2 weeks, 2 movements; packaging: 2 operations, 3 requests | every request ends, deadlocks included; units leave once and the oldest first; alerts close with their cause and come back each week; packaging counts once |
| `RecordMerge_serial` | 1 creation, 3 updates, 5 requests, a due date and a plain field | the newest writing wins, a losing field is journaled with the value shown instead, conflicts are real, the index follows, updates apply once |
| `DeadlineAlerts_serial` | 4 days, 2 reminders, 2 dates, 1 renewal, 2 scans at once, 2 managers | a near date is warned of, a late one reminded of, nothing is notified twice, open alerts are current |
| `Subscriptions_serial` | 3 payments, 1 transaction at a time, ends prolonged and cut short by hand, statuses kept or set to active | paid days are kept but for those the publisher cut, a payment is decided once, restrictions follow an end that ran out |
| `Device` | queue: a creation and its update, 1 tab, everything may be cut, closed or expire; upload: 3 chunks and 10 requests one at a time, or 2 chunks and 6 requests with overlap, rollback and a start without network; session: 2 users, one of them of the platform | nothing is lost, the creation goes first, a failure is final, the queue drains; uploads survive, are whole and implement `StoredDocument`, complete can be replayed; user, token, cookie and organizations agree, waiting ends |
| `Pages` | console: every screen, gesture, query and role; form: a field of every kind, 2 items; models: 3 fields, 2 keys; movement: 2 presses, 3 events, quantities to 1, an article with lots; import: 2 files, 2 mappings, 1 value of a unique field, 3 previews, 2 commits | what was done is shown, what is offered is honoured, a save is exact and refused only for a change elsewhere, attachments and staged fields are kept, a move keeps its order, a press counts as it was told, imports were announced |
| `RecordMerge_samevalue` | 3 updates, two of one value | violation of `NewestWriteWins` |
| `UploadSession_replay` | overlapping requests | violation of `CompleteIsReplayable` |
| `DeadlineAlerts_again` | dates 2 and 6, a reminder 2 days before | violation of `WarnedInTime` |
| `Subscriptions_payments` | 2 payments at once | violation of `PaidDaysAreKept` |
| `MovementForm_offline` | 2 presses, 3 events | violation of `OfflineGesturesAreKept` |

Why these bounds are enough to be interesting: an overlap needs two requests, and
a third to observe it; a chain of merge conflicts needs three writings; a lost
chunk needs two chunks and a request the device gave up; reminders of a late date
need two cycles, weekly ones two weeks; a renewal needs two dates that share a
level; a lost extension needs two payments; a FIFO exit that spans lots needs two
lots, and the second exit to be waited for; a move needs three fields; an answer
that overtakes needs two previews, and a third to be the one shown. Each property
of a passing run is broken, under the same bounds, by a mutant of the code, so
none holds for want of behaviours.

Symmetry is used for requests, operations, managers and scans, only in runs
without temporal properties. `CHECK_DEADLOCK FALSE` stands where the system may
really stop: every bounded request was sent, every day has passed, the upload is
done, the page is closed. The runs spend their properties on hazards; each module
has its `TypeOK`, which section 5 proves where it lists `TypeCorrect` (the types of
the other modules are conjuncts of their inductive invariants).

Two constants describe the user: `Patient = TRUE` (`FieldForm`, `ModelEditor`)
says that one thing is done at a time: an upload, the sending of staged fields or
a move is waited for before the next gesture (`Calm`), and no field is moved while
others are staged (`Idle`); `Slow = FALSE` (`Session`) that a call of session is sent after the
answer of the one before. Section 4 says what happens otherwise.

### Fairness

* `StockMovements`: weak fairness of the steps of each request, the database's
  deadlock detection among them, which PostgreSQL runs after a timeout. No client
  is obliged to send anything.
* `SyncQueue`: weak fairness of the pass of each tab (`useOfflineSync` triggers
  one every 30 s in an open, signed-in tab) and of the server's handling of what
  that tab sent. Network, sessions and users are not fair: `Drains` assumes that
  they settle.
* `Subscriptions`: time passes, and a transaction that has begun goes on. The
  lifecycle scan is not fair: the publisher runs it by hand
  (`routers/editor.py:142`), and `celery_app.py:19-24` schedules the scan of the
  alerts alone. No run needs it; `ExpiryRestricts` (section 4) is false under it.
* `Session`: the requests of the bootstrap and of the list are answered or fail
  (weak fairness of `BootEnds` and `ListAnswered`: the browser ends a fetch). An
  effect runs after the rendering that calls for it, before the network can come
  and go: strong fairness of `Redirect`. The user and the network owe nothing.

## 4. Where code and documents differ

A run named `serial` says what the code guarantees while requests do not overlap
and nothing fails, by the switches of its module; so do the parts of `Stock` and
`Device` whose switches are set in `MCStock` and `MCDevice`. Five disagreements are
runs and are in `findings` with the words they contradict:

* `RecordMerge_samevalue`: an older write of the value a field already shows moves
  the field's instant back (`record_service.py:208`), and a write between the two
  instants then wins over the newer one.
* `UploadSession_replay`: the row lock of `complete` is taken after the row was
  loaded and does not refresh it (`sync_service.py:151`), so the second of two
  completes fails on the missing files.
* `DeadlineAlerts_again`: a reminder level is used up by the old date of a
  deadline (`alerts/engine.py:108`), and nobody is warned of the new one.
* `Subscriptions_payments`: of two payments validated at once one extension is
  lost (`payment_service.py:137-149`).
* `MovementForm_offline`: while the browser says it is offline, a mutation is
  paused in memory and the function that would put the movement in the queue of
  the device does not run (`movement-dialog.tsx:279`); a closed tab loses it.
  `docs/MANUEL_UTILISATION.md:257-260` says that it stays on the device.

### Switches

The others were seen with the same modules and properties, by one switch of a
constant; they are listed here so that nobody takes a passing run for more than it
is. Names in parentheses are conjuncts of the property before them.

| module | switch | property that fails | where |
|---|---|---|---|
| `StockMovements` | `Overlapping = TRUE` | `AppliedAtMostOnce`: a resubmission beside its first request applies twice | `stock_service.py:587` |
| `StockLots` | `Overlap = TRUE` | `StockIsCounted`: two exits of one named lot take the same units; `ExitsTakeTheOldest`: an entry changes the lots meanwhile | `stock_service.py:605-620`, `:645-649` |
| `StockThresholds` | `Overlap = TRUE` | `LowStockIsReminded`, `AlertsClose`: a threshold raised, or a scan committed, between the decision to close an alert and its commit | `stock_service.py:653-666` |
| `Consignment` | `Overlap = TRUE` | `StockIsCounted` (`PackagingIsCounted`): counters are written from an unlocked reading, and a replay beside its first request applies twice | `stock_service.py:468-503` |
| `RecordMerge` | `Concurrent = TRUE` | `NewestWriteWins`: the whole data column is written back; `DeadlinesFollowData` (three updates of one due date) | `record_service.py:178`, `:336` |
| `RecordMerge` | `OfflineEdits = TRUE` | `ConflictsAreReal`: a creation replayed late is stamped by the server and wins over the edit made after it | `record_service.py:108` |
| `SyncQueue` | two tabs | `FailedStaysFailed`: `resetStaleSyncingOperations` reads and writes in two transactions | `db.ts:205` |
| `UploadSession` | `Overlap = TRUE` | `UploadsSurvive` (`AcksAreKept`), `UploadsKeepPromise`: `chunks_received` is rewritten from an unlocked reading | `sync_service.py:131` |
| `UploadSession` | `Crash = TRUE` | `UploadsSurvive` (`ReceivedChunksOnDisk`): files are removed before the commit | `sync_service.py:184` |
| `UploadSession` | `StartsOffline = TRUE` | `UploadsSurvive` (`QueuedUploadsSurvive`): the queue resumes a session that was never opened, and receives 404 | `uploads.ts:83` |
| `DeadlineAlerts` | `RenewDuringScan = TRUE` | `OpenAlertsAreCurrent`: a scan inserts an alert on a date renewed meanwhile | `alerts/engine.py:137-146` |
| `DeadlineAlerts` | `StalePages = TRUE` | `ResolvedIsFinal` (in no run): acknowledge does not test the status | `alert_service.py:141` |
| `Subscriptions` | `Overlap = TRUE`, `Job = {j1, j2}` | `PaymentsAreDecidedOnce`; `StatusFollowsDates`: a scan restricts who has just paid | `payment_service.py:67`, `subscription_service.py:84` |
| `Subscriptions` | `AdjustTo = {"read_only"}` | `StatusFollowsDates`: a restriction set by hand has no date, and every scan counts it from its own day, so that it never advances | `subscription_service.py:66`, `:93-102` |
| `Session` | `Slow = TRUE` | `SessionIsWhole`: calls that cross: a bootstrap that is refused after a sign-in, or a refresh answered around another call, leaves a token with the status of no session | `auth-context.tsx:94-107`, `:195` |
| `FieldForm` | `Patient = FALSE` | `AttachmentsAreSaved`: a save leaves while a transfer is on its way, or the answer of a transfer writes back the value of the rendering it began in | `field-renderer.tsx:1234`, `:369-371` |
| `ModelEditor` | `Patient = FALSE` | `StagedAreKept`: a field staged during the sending is emptied with the others | `settings/page.tsx:182` |

### What the pages do not refresh or guard

`OwnChangesAreShown` and `OffersAreHonoured` hold but for two tables of `Console`,
which list what the code leaves aside:

* `LeftStale`: the queries no gesture invalidates. Dashboards after any change;
  the list of models (`model-definitions`) after an edit of a model; the list of
  records after a creation, an update or an archiving; the summary of packaging
  after a movement; the publisher's list of organizations after a payment or an
  offer; an article after its threshold; the record shown by a link after it was
  updated. They are read again when their answer is 30 s old.
* `Unguarded`: the gestures offered to roles the server refuses. Templates,
  variants, articles and depots to everybody but the administrator; archiving and
  thresholds to operators and readers; creation, update, events, packaging and
  movements to readers. The comment of `alert-format.ts:79-84` states the rule the
  other pages follow: "Sans ce miroir, l'écran proposerait un bouton qui finit en
  403".

### Stated, and in no run

These operators are in the modules because the words they quote are in the code;
TLC finds each of them violated:

* `RecoveryClosesAlerts` (`StockThresholds`): an adjustment decides on the quantity its
  session loaded for the count, which the trigger has changed since
  (`stock_service.py:654`), so that its alert stays open; `alerts/engine.py:186-188`
  says the alert closes as soon as the stock is back above. `AlertsClose` leaves these
  adjustments out (`FoundLow`).
* `RestrictionsFollowTheEnd` (`Subscriptions`): an end that is prolonged alone leaves
  status and dates (`subscription_service.py:71`); the organization stays restricted,
  and the scan suspends and archives it while the new period runs.
  `subscription_service.py:26-27` derives the lifecycle from the dates,
  `current_period_end` first, and `editor/page.tsx:129` says "selon le temps écoulé
  depuis l'échéance".
* `ExpiryRestricts` (`Subscriptions`, of `FairSpec`): nothing schedules the lifecycle
  scan, so that an expired organization keeps its status until the publisher runs it;
  `site/src/lib/content/fr.ts:250` says "À l'expiration, l'espace passe en lecture
  seule". `editor/page.tsx:129-131` says that the task is still missing.
* `ErrorsCountNothing` (`MovementForm`): a body that is cut on its way makes
  `response.json()` throw (`http.ts:54`) what is no `ApiError`; the forms rethrow it
  (`movement-dialog.tsx:314`) and say "Enregistrement impossible." although the movement
  was recorded, and the next press sends it under a new identifier. `errors.ts:2-4`
  wants "un message honnête".
* `RefusalsAreForeseen` (`ImportWizard`): lines that the preview counts as valid are
  refused by the commit, because a record, or an earlier line, has their unique value
  (`records.py:355`); `MANUEL_UTILISATION.md:184-187` says that the preview tells
  "précisément quelles lignes seraient rejetées et pourquoi".
* `ConfirmedGapIsFresh` (`MovementForm`): the quantity under "Actuel" may be the
  one of the cache, shown until the new one arrives; `movement-dialog.tsx:628-632`
  says "jamais celle mise en cache".
* `ClearedIsCleared` (`FieldForm`): an emptied number, date or link is undefined,
  which JSON drops, so the old value stays (`field-renderer.tsx:745`, and
  `validation.py:144-149` for the null that would have emptied it); a blank site
  becomes null, which the server leaves alone (`record_service.py:213-216`).
* `KeysAreUnique` (`ModelEditor`): keys are compared with those the page knows
  (`field-definition-editor.tsx:176`), which for a staged field that is edited are
  the other staged ones only (`staged-field-list.tsx:96`), and staged fields already added are sent again
  after a failure (`settings/page.tsx:182-194`). Nothing on the server refuses a
  second field of one key; `field-definition-editor.tsx:137` says of the list of
  keys "pour refuser un doublon".
* `AddedFieldsComeLast` (`ModelEditor`): the place is the number of fields
  (`model_definition_service.py:124`), which a withdrawal makes smaller than the
  last place; `model-definitions.ts:62-63` says "toujours en fin de liste".
* `TitleIsAField` (`ModelEditor`): a withdrawn field stays the title.
* `OnboardingIsForTheOrgless` (`Session`): `route-guards.ts:21-26` sends whoever
  signs in while the list fails to the creation of an organization, against the
  comment of `:52-56` for the other guard.
* `LinesAreImportedOnce` (`ImportWizard`): lines accepted once are imported again
  with the corrected file; `import/page.tsx:633` says "seules les lignes corrigées
  resteront à importer".

`CameraStops` (`FieldForm`) holds and is in no run. `StagedAreKept` says that no
field is lost, not that none is sent twice.

### Read in the code, without a property

* The replay of a creation is refused once the record was edited
  (`record_service.py:100`); the uniqueness of a value is a query before the insert
  (`:295`), so that two saves at once may both pass it.
* An answer cut in its body marks an applied operation of the queue as failed
  (`http.ts:54`, the action `ReplyCut`); cut in the list of the organizations it is
  taken for an empty list (`auth-context.tsx:243-244`), which leads to the creation of
  an organization. A request that timed out may still run when it is sent again
  (`sync-engine.ts:151`).
* A model whose creation was answered by an error, or not at all, may have been made:
  the page stays, and the next press makes a second one (`models/new/page.tsx:62-97`).
* Two administrators who move fields at once each write the positions that differ from
  those they read (`model_definition_service.py:252-258`); the result mixes both orders.
* Logging out leaves the queue of the previous user on the device
  (`auth-context.tsx:206`); a refreshed token is another key of the list of
  organizations, so the shell and its open forms are unmounted meanwhile (`:119`).
* "Actuel" is 0, or an earlier quantity, when its query failed
  (`movement-dialog.tsx:624`); the attachment of an entry is dropped when its
  transfer fails (`:284-296`).
* No scan reads `postponed_until` (`alert_service.py:156`); only one of several
  managers is notified (`alerts/engine.py:108`, `ScanCommit`); the scans of all
  organizations share one transaction (`tasks/alerts.py:30`).
* `can_write` (`subscription_service.py:53`) is called by no route.
* Status and site go with every save, touched or not (`record-form.tsx:158-176`,
  the `kind = "site"` of `FieldForm`); a model with a required document cannot have
  a record, since documents wait for the record (`field-renderer.tsx:1154`).
* The panel of packaging makes a new `client_operation_id` at each press
  (`consignment-panel.tsx:66`), so what the user repeats after a lost answer is
  another action; thresholds of several depots are saved by independent requests.
* Adjustments, transfers and deliveries leave lots alone, so lots may hold more
  than the level; a lot refilled under its number after its alert was resolved is
  not alerted on again, for the reason of `DeadlineAlerts_again`.

## 5. Proofs

The theorems hold for every value of the constants that satisfies
`ConstantsAssumption` of the module (and, in `Subscriptions`, `AdjustAssumption`):
every number of requests, operations, tabs, chunks, payments, managers or presses.
`StockAssumption`, `DeviceAssumption` and `PagesAssumption` are the assumptions of all the modules that
a composition runs; what they say is that the values that stand for "nothing"
(`None`, `Null`, `Undef`) are none of the others, and that bounds are numbers.
What a theorem assumes besides is in its statement. It is always a switch of the
module that section 4 names with the property that fails without it, so that the
theorems and the table of switches draw the line between them.

| module | theorem | what holds | assumed |
|---|---|---|---|
| `StockMovements_proofs` | `TypeCorrect` | `TypeOK` | |
| | `ExitsAreCovered` | `ExitsNeverOverdraw` | |
| | `ReplaysHaveNoEffect` | `AppliedAtMostOnce` | `~Overlapping` |
| | `TransfersAreWhole` | `TransfersBalance` | |
| | `LevelsAreTheLedger` | `LevelsMatchLedger` | |
| | `MovementsImplementLedger` | `ImplementsLedger`: `Spec` refines `StockLedger` | `~Overlapping` |
| | `DeadlocksAreOfTransfers` | `DeadlockAbort` meets only transfers that are half written | |
| | `NobodyIsStuck` | `SomebodyGoesOn`: a request on the server can go on, or the database sees a cycle | `IsFiniteSet(Req)` |
| `Stock_proofs` | `TypeCorrect` | `TypeOK` of `StockThresholds` | |
| | `LowIsReminded` | `LowStockIsReminded` | `~Overlap` |
| | `RecoveryCloses` | `[][RecoveryStep]_vars`, a part of `AlertsClose`: adjustments that found the level low are not in it | `~Overlap` |
| | `StockCounted` | `StockIsCounted` | `Overlap = FALSE` of the lots and the packaging of `MCStock` |
| | `OldestAreTaken` | `ExitsTakeTheOldest` | the same |
| | `AlertsCloseWithCause` | `AlertsClose` | the same, `~Overlap` |
| | `CrossedExitsAreTies` | `WaitsFollowDates`: exits that wait for each other want lots of one date | the same as `StockCounted` |
| `RecordMerge_proofs` | `TypeCorrect` | `TypeOK` | |
| | `IndexFollowsData` | `DeadlinesFollowData` | `Serial` |
| | `AppliedOnce` | `UpdatesApplyOnce` | `Serial` |
| | `NoSilentLoss` | `LossesAreJournaled` | `Serial` |
| | `RealConflicts` | `ConflictsAreReal` | `Online` |
| | `LateWritesNeverWin` | `NewestWriteWins` | `Online`, `Distinct` |
| `Device_proofs` | `QueueKeepsOperations` | `TypeOK`, `NothingLost` | |
| | `CreationsAreSentFirst` | `CreateFirst` | `OneTab` |
| | `FailedIsFinal` | `FailedStaysFailed` | `OneTab` |
| | `UploadsAreKept` | `UploadsSurvive` | the switches of its two parts |
| | `CompletesReplay` | `CompleteIsReplayable` | the same |
| | `OneUserAtATime` | `SessionIsWhole` | `Slow = FALSE` of `MCDevice` |
| | `PromiseIsKept` | `UploadsKeepPromise`: the upload on the sound server refines `StoredDocument` | the switches of that part |
| `UploadSession_proofs` | `TypeCorrect` | `TypeOK` | |
| | `DoneIsTrue` | `DoneMeansStored`, `CompletedMeansStored` | |
| | `ChunksAreKept` | `AcksAreKept`, `ReceivedChunksOnDisk` | `Sound` |
| | `UploadsSurviveTheQueue` | `QueuedUploadsSurvive` | `Sound` |
| | `CompleteReplays` | `CompleteIsReplayable` | `Sound` |
| | `UploadsImplementPromise` | `ImplementsPromise`: `Spec` refines `StoredDocument` | `~Overlap` |
| | `AcknowledgedChunksAreKept` | `AcksAreKept` | `~Overlap` |
| `DeadlineAlerts_proofs` | `TypeCorrect` | `TypeOK` | |
| | `OneNotification` | `NotifiedOnce` | |
| | `FirstDateIsWatched` | `FirstDateWatched` | |
| | `OpenAlertsFollowTheDate` | `OpenAlertsAreCurrent` | `~RenewDuringScan`, `~StalePages` |
| | `ResolvedStaysResolved` | `ResolvedIsFinal` | `~StalePages` |
| `Subscriptions_proofs` | `TypeCorrect` | `TypeOK` | |
| | `NoPaidDayIsLost` | `PaidDaysAreKept` | `Serial` |
| | `OneDecisionPerPayment` | `PaymentsAreDecidedOnce` | `Serial` |
| | `RestrictedByDatesOnly` | `StatusFollowsDates` | `Serial`, `LeftToTheDates` |
| `Pages_proofs` | `TypeCorrect` | `TypeOK` of `MovementForm` | |
| | `PressesCountAsTold` | `GesturesCountOnce` | |
| | `FormAgrees` | `FormAgreesWithServer` | `Patient = TRUE` of `MCPages` |
| | `AttachmentsKept` | `AttachmentsAreSaved` | the same |
| | `SavesAreExact` | `SaveIsExact` | the same |
| | `StagedFieldsAreKept` | `StagedAreKept` | the same |
| | `MovesAreKept` | `MovesAreExact` | the same |
| | `ImportsAreAnnounced` | `ImportsAsAnnounced` | |
| | `NewsIsShown` | `OwnChangesAreShown` | `TablesAssumption` of `MCPages` |
| | `OffersAreKept` | `OffersAreHonoured` | |

`Serial` is `~Concurrent` (`RecordMerge`) or `~Overlap` (`Subscriptions`); `Online`
adds `~OfflineEdits`; `Distinct`, that each operation writes a value of its own
(the run `RecordMerge_samevalue` shows why); `OneTab`, that a device has one tab;
`Sound` is `~Overlap /\ ~Crash /\ ~StartsOffline`; `LeftToTheDates`, that the
publisher restricts nobody by hand.

### The inductive invariants

Each proof module states its invariant as a conjunction of named parts and has one
lemma for the initial states and one for a step, with a step per action. TLC
checked the invariants on small instances before they were proved.

* **Movements.** An exit that passed its check is safe only because it holds the
  lock of a row that exists and still has enough; that is not in
  `ExitsNeverOverdraw` but in the strengthening proved with it, and it is inductive
  because only the holder of a lock changes a level. That a key is applied once
  needs that two requests of one operation are never in flight together. Transfers
  are whole because both movements are written by one commit from what the request
  inserted. The refinement combines these: a commit maps to the ledger's operation,
  every other step to a stutter. The levels are sums (`LedgerInv`): a request adds
  to the ledger once, so its movements are new to the sum. That the fold
  `SumFunction` adds a new element, whatever the order in which it takes them, is
  proved in the module: its recursive function exists, is unique, and may start with
  any element. These are inductions on the size of a set; the library's rule takes
  the property as a parameter, which the provers cannot instantiate, so each one is
  a smallest counterexample (`SmallestExists`) instead.
* **Deadlocks.** `HolderInv`: who holds the row of a depot is ready to write, and has
  written there or is an exit that will. So who waits while it holds a row is a
  transfer with one of its two movements. If nobody could go on, every request on
  the server would wait for another one there; a smallest set of requests that wait
  for each other is a cycle in the sense of `DeadlockAbort`, which then can go on.
  `WaitsFollowDates` is the same question for the lots: an exit locks them by date
  (`LocksByDate`, those it found empty included), so only ties can be crossed.
* **Thresholds.** `ThresholdInv`. A low week has its alert because nothing closes
  it: a movement closes alerts by the quantity its session holds, so the invariant
  says what that quantity is worth for each kind (`Moves`). An exit holds the row
  and has seen the level as it is, an entry looks after its own insertion and under
  the lock. An adjustment may have seen a level above the threshold that is gone:
  `Reminded` keeps the one reason it does no harm, that in a week which was low
  from its first day, such a reading is older than any alert of the week.
* **Lots.** `LotInv`. Exits by FIFO meet each other and nothing else (`Apart`). An
  exit holds the lots it has noted, each once, by date, with the units they still
  have (`Holds`), and has still to lock the others, later in date (`Awaits`); between
  them they are all the lots with units left (`Covers`), because nothing is entered
  meanwhile, and a lot that another exit emptied is left out when its lock comes.
  What a commit takes is a sum over the places of a lot, of which there is one or
  none (`OnePlace`); a place is drawn from only if those before it do not cover the
  quantity, so they are emptied: sums of natural numbers grow with their sets
  (`SumsGrow`).
* **Packaging.** `PackInv`: one action is under way, what it read is still there, and
  its operation is not in the journal (`ReadIsCurrent`), so that the commit adds one
  new element to the sum of its action (`UnitsOfMore`). The bounds on what is out
  use that the counter never goes below zero.
* **Records.** `SerialInv`: one request works on the row as it is. `OnlineInv` ties
  the stamp of a field to an operation that wrote what the field shows, or, before
  any update wrote it, to an instant of the server before every update; this is
  what makes a journaled conflict real, and it fails as soon as a record is edited
  before the server has it. `NewestInv` adds that no stamp is older than an applied
  operation; an equal value that is written again moves a stamp back, so it needs
  `Distinct`.
* **Queue.** Two layers. `KeptInv` holds with any number of tabs: an answer tells
  what the server did (`AnswersAreTrue`), a pass has one request and it is for its
  current operation (`OneByOne`), so that a row is removed or marked as failed by
  the answer about that row only. `PassAgreesWithStore` needs one tab: what a pass
  has still to do is what the store says, with every creation before what depends
  on it. With two tabs a pass resets what the other one has dealt with.
* **Uploads.** Three layers. `StoredInv` holds whatever overlaps or fails: whoever
  believes that the upload is completed, the row, a request that loaded it or a
  device that was answered, is right. `SerialInv` is about requests one at a time,
  which may be rolled back, and openings that may be lost: the only request on the
  server is the one the device waits for, or one it gave up before it asks for the
  status again (`OneRequest`); and who is about to say that the document is made
  saw a session in progress that had every chunk (`OneDocument`). It is enough for the refinement: a commit is the
  step of `StoredDocument` its request stands for, everything else a stutter.
  `OrderlyInv` is about a server on which nothing fails besides: what the row says was received
  is on the disk until a request has put it in the document (`OnDisk`); the device
  asks for what the server can do (`Guided`), so it meets no error.
* **Alerts.** `FirstDateWatched` is about today and needs an invariant about every
  day that a scan has seen: an alert of a level was raised on a day of its level,
  and after a scan none of the levels reached by the date it read is without its
  alert (`FirstDate`). The arithmetic of the repetition is in lemmas about `Cycle`
  and `Max`, which rest on a greatest element for every finite set of naturals.
* **Subscriptions.** Types and what a transaction loaded (`Loaded`) hold whatever
  overlaps. `SerialInv` says that a transaction writes over the row it loaded, a
  period after all those before, but for the payments that were cut short. `DatedInv`
  gives each restricted status, of the row and of what a transaction is about to write,
  the date it counts from, after the end that had run out (`due`): the end may be moved
  by hand afterwards, those dates may not.
* **Dialog.** `PressInv`: a press that is not over has told nothing, it has counted
  exactly when it was served, and what waits on the device is what was announced as
  waiting, under its own identifier; a press told an error has counted only if its
  answer was cut. No switch is assumed: paused presses, lost and unreadable answers,
  refusals and replays are all there.
* **Session.** `SessionInv`: of the two passes of the bootstrap one is live, and it
  has concluded exactly when the status is known (`BootsAgree`); calls of session go
  one at a time and after it (`OneCall`); a token, the name shown, the list and the
  cookie are of one user (`OneUser`). That a pass which is no longer live concludes
  nothing is what strict mode needs; both values of `StrictMode` are covered.
* **Form.** `FormInv`: what is on its way was asked for by the value on screen
  (`LateIsOfShown`), which holds what was attached (`ShownHolds`), and a save holds
  both and a value that the definition accepts (`SentIsGood`, `Accepted`), in the
  request and later in the queue; what another record holds is no part of it, and is
  the exception that `FormAgrees` names. `SavesAreExact` follows a save from that invariant
  to the value stored.
* **Editor of a model.** `ModelInv`: an identifier is of one field, on the server and
  on the page (`FieldsAreKnown`); while staged fields are sent, what was wanted is a
  field or still to be sent (`WantedIsKept`); what a move
  has read is what it names, and is still what it was, or gone, until it is written
  (`MoveIsRead`): an addition brings a new identifier, and only moves change places.
  That the fields it leaves then stand in the order asked for follows from the places
  it writes (`PlacesAreTheAsked`).
* **Import.** `ImportInv`: the last preview asked for is about the file and the
  mapping on screen, and until its answer nothing can be committed, so that what is
  stored was announced (`CommitIsAnnounced`). An announced line that was left out met
  its value in a record or in an earlier line; the least line with that value became a
  record or met one (`LeastOf`, by the well-foundedness of the finite subsets of `Nat`),
  so that a record has it afterwards (`LeftOutIsHeld`).
* **Cache.** `CacheInv`: once the gesture has succeeded, the query that it changed
  is new in the cache, or on its way, or marked and off the screen, or known to
  have failed (`NewsComes`), and an answer from before is only on its way if it was
  noticed. The steps need of the screens that a gesture reports every query it
  changes, and that a query of the shell is mounted wherever a screen leads: two
  formulas without variables (`TablesAssumption`) that TLC decides.
* **Offers.** What a screen offers is joined from its components, so
  `OffersAreKept` is proved the same way: each component offers to its roles what
  the server allows them (`Honoured`), joining keeps that (`JoinedHonoured`), and a
  refused gesture was offered by some screen.

The proofs corrected the models they are about. That of the dialog found that
a success has to drop the confirmation of an adjustment with the dialog
(`movement-dialog.tsx:296-315`), which the action had kept; the cases of `Stored` and `ServerTakes` in `FieldForm`
overlapped, so that which one applied was left to the tool; the constants that
stand for "nothing" had to be told apart from every value they are compared with.

### Only model-checked

* Liveness (`RequestsEnd`, `Drains`, `PatienceEnds`): the prover has
  no rule for fairness and ENABLED. `NobodyIsStuck` is the part of `RequestsEnd` that
  needs neither.
* `TablesAssumption`, on which `NewsIsShown` rests: two formulas about finite tables
  without a parameter, which TLC evaluates completely at every run.

No module declares a RECURSIVE operator.

## 6. Not modelled

`PROJECT.json` gives the reason for each part. In short:

* Offers and the PDF of an invoice: a catalogue of single writes, and formatting.
* Authentication on the server: signed tokens and one-time codes, no state that
  two requests share but the password. Their effect on a tab is in `Session`, on a
  device in `SyncQueue`.
* Storage backends: `UploadSession` counts the documents that were committed.
* Row-level security: a setting of each transaction, before any step of a model.
* Depots, articles, variants, memberships: single writes. Deposit amounts: sums
  over the rows that `Consignment` counts.
* Layout, formatting, filters and paging of the pages; the site; deployment.

Parts of modelled components that are left out are in their notes.

## 7. Plan

1. `UniqueFields`: two records and a unique field (`record_service.py:285-295`).
2. `NightlyScan`: several organizations, savepoints, one transaction
   (`tasks/alerts.py`), and the claim that a restart catches up.
3. A composition of `SyncQueue` with `RecordMerge` for one record: what the device
   shows and what the server keeps converge.
4. Server authentication: reset and invitation tokens used twice; the last
   administrator of an organization.
