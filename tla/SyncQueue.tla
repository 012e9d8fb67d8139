------------------------------ MODULE SyncQueue ------------------------------
(***************************************************************************)
(* The offline queue of the frontend: operations kept in IndexedDB (db.ts)  *)
(* and replayed by runSyncPass (sync-engine.ts), which useOfflineSync       *)
(* triggers in every open tab.                                              *)
(*                                                                         *)
(* An operation is first tried by its form; a network error puts it in the  *)
(* queue under the same identifier.  A request whose sender gave up may     *)
(* still reach the server.  A pass sends one operation at a time and waits  *)
(* for its answer; closing the tab interrupts it anywhere.                  *)
(*                                                                         *)
(* The server is StockMovements and RecordMerge seen from the device: an    *)
(* operation is applied once, and may be refused at any time (validation,   *)
(* unknown record, error 500).  Operations are numbered in the order of     *)
(* their createdAt.                                                         *)
(***************************************************************************)
EXTENDS Naturals, FiniteSetsExt

CONSTANTS N,          \* the operations of the device are 1..N
          DependsOn,  \* the creations an operation needs on the server
          Tab,        \* the tabs of the application, on one IndexedDB
          ReplyCuts   \* may the network fail in the middle of an answer?

Op == 1..N

ConstantsAssumption ==
  /\ N \in Nat
  /\ DependsOn \in [Op -> SUBSET Op]
  /\ \A o \in Op : DependsOn[o] \subseteq 1..(o - 1)
  /\ {"form", "lost"} \cap Tab = {}
  /\ ReplyCuts \in BOOLEAN

VARIABLES stage,    \* each operation, seen from its form
          row,      \* status in the "operations" store, "none" without a row
          calls,    \* requests not answered, or whose answer was not received
          applied,  \* operations the server applied
          refused,  \* operations the server answered with an error
          online, session,     \* the network; the refresh cookie
          auth,     \* the access token of each tab, "out" when signed out
          pc, stale, todo, retried   \* the pass of each tab: runSyncPass

queue  == <<stage, row>>
server == <<applied, refused>>
world  == <<online, session>>
pass   == <<pc, stale, todo, retried>>
vars   == <<stage, row, calls, applied, refused, online, session, auth, pass>>

Answer == {"none", "ok", "error", "unauthorized"}
Call(f, o) == [from |-> f, op |-> o, answer |-> "none"]

Init ==
  /\ stage = [o \in Op |-> "draft"]
  /\ row = [o \in Op |-> "none"]
  /\ calls = {}
  /\ applied = {}
  /\ refused = {}
  /\ online \in BOOLEAN
  /\ session = TRUE
  /\ auth = [t \in Tab |-> "fresh"]
  /\ pc = [t \in Tab |-> "idle"]
  /\ stale = [t \in Tab |-> {}]
  /\ todo = [t \in Tab |-> {}]
  /\ retried = [t \in Tab |-> FALSE]

\* Without a network the request does not leave the device.
Sent(f, o) == IF online THEN calls \cup {Call(f, o)} ELSE calls

CallsOf(f, o) == {c \in calls : c.from = f /\ c.op = o}

\* The sender stops waiting: what was not handled yet may still be.
GivenUp(f, o) ==
  (calls \ CallsOf(f, o))
    \cup {Call("lost", o) : c \in {d \in CallsOf(f, o) : d.answer = "none"}}

\* fetch fails: no network now, or none when the request was made.
Unreachable(f, o) == ~online \/ CallsOf(f, o) = {}

SetRow(o, status) == row' = [row EXCEPT ![o] = IF @ = "none" THEN @ ELSE status]
RemoveRow(o) == row' = [row EXCEPT ![o] = "none"]

-----------------------------------------------------------------------------
\* Forms.  A record is edited once its creation was accepted or queued.
Submit(o) ==
  /\ stage[o] = "draft"
  /\ \A p \in 1..(o - 1) : stage[p] # "draft"
  /\ \A d \in DependsOn[o] : stage[d] \in {"served", "queued"}
  /\ stage' = [stage EXCEPT ![o] = "sent"]
  /\ calls' = Sent("form", o)
  /\ UNCHANGED <<row, server, world, auth, pass>>

FormAnswered(o) ==
  \E c \in CallsOf("form", o) :
    /\ online
    /\ c.answer \in {"ok", "error"}
    /\ stage' = [stage EXCEPT ![o] = IF c.answer = "ok" THEN "served" ELSE "refused"]
    /\ calls' = calls \ {c}
    /\ UNCHANGED <<row, server, world, auth, pass>>

\* ApiError of kind "network": enqueueOperation.
Enqueue(o) ==
  /\ stage[o] = "sent"
  /\ Unreachable("form", o)
  /\ stage' = [stage EXCEPT ![o] = "queued"]
  /\ row' = [row EXCEPT ![o] = "pending"]
  /\ calls' = GivenUp("form", o)
  /\ UNCHANGED <<server, world, auth, pass>>

\* The form is closed while it waits: its user knows it did not conclude.
Abandon(o) ==
  /\ stage[o] = "sent"
  /\ stage' = [stage EXCEPT ![o] = "refused"]
  /\ calls' = GivenUp("form", o)
  /\ UNCHANGED <<row, server, world, auth, pass>>

-----------------------------------------------------------------------------
\* The server.  An expired token is refused before anything is read.
Handle(c) ==
  /\ c \in calls
  /\ c.answer = "none"
  /\ \E a \in Answer \ {"none"} :
       /\ a = "unauthorized" <=> c.from \in Tab /\ auth[c.from] = "stale"
       /\ a = "ok" => DependsOn[c.op] \subseteq applied
       /\ applied' = IF a = "ok" THEN applied \cup {c.op} ELSE applied
       /\ refused' = IF a = "ok" THEN refused ELSE refused \cup {c.op}
       /\ calls' = (calls \ {c})
                     \cup (IF c.from = "lost" THEN {} ELSE {[c EXCEPT !.answer = a]})
  /\ UNCHANGED <<queue, world, auth, pass>>

-----------------------------------------------------------------------------
\* A pass.  pc "idle" is runningRef = false.  The interval triggers it whether
\* the browser says it is online or not.
StartPass(t) ==
  /\ pc[t] = "idle"
  /\ auth[t] # "out"
  /\ stale' = [stale EXCEPT ![t] = {o \in Op : row[o] = "syncing"}]
  /\ pc' = [pc EXCEPT ![t] = "reset"]
  /\ UNCHANGED <<queue, calls, server, world, auth, todo, retried>>

\* resetStaleSyncingOperations writes back the rows it read before, in another
\* transaction.
ResetStale(t) ==
  /\ pc[t] = "reset"
  /\ row' = [o \in Op |-> IF o \in stale[t] THEN "pending" ELSE row[o]]
  /\ stale' = [stale EXCEPT ![t] = {}]
  /\ pc' = [pc EXCEPT ![t] = "list"]
  /\ UNCHANGED <<stage, calls, server, world, auth, todo, retried>>

\* Mutant: failed operations are replayed too.
ListAll(t) ==
  /\ pc[t] = "list"
  /\ todo' = [todo EXCEPT ![t] = {o \in Op : row[o] # "none"}]
  /\ pc' = [pc EXCEPT ![t] = "next"]
  /\ UNCHANGED <<queue, calls, server, world, auth, stale, retried>>

List(t) ==
  /\ pc[t] = "list"
  /\ todo' = [todo EXCEPT ![t] = {o \in Op : row[o] \notin {"none", "failed"}}]
  /\ pc' = [pc EXCEPT ![t] = "next"]
  /\ UNCHANGED <<queue, calls, server, world, auth, stale, retried>>

Current(t) == Min(todo[t])

SendNext(t) ==
  /\ pc[t] = "next"
  /\ todo[t] # {}
  /\ SetRow(Current(t), "syncing")
  /\ calls' = Sent(t, Current(t))
  /\ retried' = [retried EXCEPT ![t] = FALSE]
  /\ pc' = [pc EXCEPT ![t] = "wait"]
  /\ UNCHANGED <<stage, server, world, auth, stale, todo>>

\* Mutant: the flag that says a pass is running is not released.
StayRunning(t) == pc' = [pc EXCEPT ![t] = "ended"] /\ todo' = [todo EXCEPT ![t] = {}]

EndPass(t) == pc' = [pc EXCEPT ![t] = "idle"] /\ todo' = [todo EXCEPT ![t] = {}]

Continue(t) == /\ pc' = [pc EXCEPT ![t] = "next"]
               /\ todo' = [todo EXCEPT ![t] = @ \ {Current(t)}]

Finish(t) ==
  /\ pc[t] = "next"
  /\ todo[t] = {}
  /\ EndPass(t)
  /\ UNCHANGED <<queue, calls, server, world, auth, stale, retried>>

\* The answer to the current operation.
Received(t, a) ==
  /\ pc[t] = "wait"
  /\ online
  /\ \E c \in CallsOf(t, Current(t)) : c.answer = a
  /\ calls' = calls \ CallsOf(t, Current(t))

ReceiveOk(t) ==
  /\ Received(t, "ok")
  /\ RemoveRow(Current(t))
  /\ Continue(t)
  /\ UNCHANGED <<stage, server, world, auth, stale, retried>>

\* Mutant: an operation refused by the server is taken off the queue.
RemoveOnError(t) ==
  /\ Received(t, "error")
  /\ RemoveRow(Current(t))
  /\ Continue(t)
  /\ UNCHANGED <<stage, server, world, auth, stale, retried>>

\* After the retry, an error also ends the pass.
ReceiveError(t) ==
  /\ \/ Received(t, "error")
     \/ Received(t, "unauthorized") /\ retried[t]
  /\ SetRow(Current(t), "failed")
  /\ IF retried[t] THEN EndPass(t) ELSE Continue(t)
  /\ UNCHANGED <<stage, server, world, auth, stale, retried>>

\* 401: refreshAccessToken, then one more try; without a new token the whole
\* queue has to wait for the user to sign in again.
ReceiveUnauthorized(t) ==
  /\ pc[t] = "wait"
  /\ ~retried[t]
  /\ \E c \in CallsOf(t, Current(t)) : c.answer = "unauthorized"
  /\ IF session /\ online
     THEN /\ auth' = [auth EXCEPT ![t] = "fresh"]
          /\ retried' = [retried EXCEPT ![t] = TRUE]
          /\ calls' = GivenUp(t, Current(t)) \cup {Call(t, Current(t))}
          /\ UNCHANGED <<row, pc, todo>>
     ELSE /\ auth' = [auth EXCEPT ![t] = "out"]
          /\ calls' = GivenUp(t, Current(t))
          /\ SetRow(Current(t), "pending")
          /\ EndPass(t)
          /\ UNCHANGED retried
  /\ UNCHANGED <<stage, server, world, stale>>

\* Mutant: the pass goes on with the next operation.
NetworkErrorSkips(t) ==
  /\ pc[t] = "wait"
  /\ Unreachable(t, Current(t))
  /\ calls' = GivenUp(t, Current(t))
  /\ SetRow(Current(t), "pending")
  /\ Continue(t)
  /\ UNCHANGED <<stage, server, world, auth, stale, retried>>

\* Mutant: a network error is an error like another.
NetworkErrorFails(t) ==
  /\ pc[t] = "wait"
  /\ Unreachable(t, Current(t))
  /\ calls' = GivenUp(t, Current(t))
  /\ SetRow(Current(t), "failed")
  /\ EndPass(t)
  /\ UNCHANGED <<stage, server, world, auth, stale, retried>>

NetworkError(t) ==
  /\ pc[t] = "wait"
  /\ Unreachable(t, Current(t))
  /\ calls' = GivenUp(t, Current(t))
  /\ SetRow(Current(t), "pending")
  /\ EndPass(t)
  /\ UNCHANGED <<stage, server, world, auth, stale, retried>>

\* The status line arrived, the body did not: the error is not an ApiError.
ReplyCut(t) ==
  /\ ReplyCuts
  /\ pc[t] = "wait"
  /\ ~online
  /\ \E c \in CallsOf(t, Current(t)) : c.answer = "ok"
  /\ calls' = calls \ CallsOf(t, Current(t))
  /\ SetRow(Current(t), "failed")
  /\ IF retried[t] THEN EndPass(t) ELSE Continue(t)
  /\ UNCHANGED <<stage, server, world, auth, stale, retried>>

PassStep(t) == \/ StartPass(t) \/ ResetStale(t) \/ List(t) \/ SendNext(t)
               \/ Finish(t) \/ ReceiveOk(t) \/ ReceiveError(t)
               \/ ReceiveUnauthorized(t) \/ NetworkError(t) \/ ReplyCut(t)

-----------------------------------------------------------------------------
\* The tab is closed or killed; its memory is gone, its request is not.
CloseTab(t) ==
  /\ pc[t] # "closed"
  /\ pc' = [pc EXCEPT ![t] = "closed"]
  /\ stale' = [stale EXCEPT ![t] = {}]
  /\ todo' = [todo EXCEPT ![t] = {}]
  /\ calls' = IF pc[t] = "wait" THEN GivenUp(t, Current(t)) ELSE calls
  /\ UNCHANGED <<queue, server, world, auth, retried>>

\* Mounting asks for a new access token first.
OpenTab(t) ==
  /\ pc[t] = "closed"
  /\ pc' = [pc EXCEPT ![t] = "idle"]
  /\ auth' = [auth EXCEPT ![t] = IF session /\ online THEN "fresh" ELSE "out"]
  /\ UNCHANGED <<queue, calls, server, world, stale, todo, retried>>

Login(t) ==
  /\ pc[t] = "idle"
  /\ auth[t] = "out"
  /\ online
  /\ auth' = [auth EXCEPT ![t] = "fresh"]
  /\ session' = TRUE
  /\ UNCHANGED <<queue, calls, server, online, pass>>

TokenExpires(t) ==
  /\ auth[t] = "fresh"
  /\ auth' = [auth EXCEPT ![t] = "stale"]
  /\ UNCHANGED <<queue, calls, server, world, pass>>

SessionExpires ==
  /\ session
  /\ session' = FALSE
  /\ UNCHANGED <<queue, calls, server, online, auth, pass>>

Network ==
  /\ online' = ~online
  /\ UNCHANGED <<queue, calls, server, session, auth, pass>>

\* A request without a sender is lost before it reaches the server.
Vanish(c) ==
  /\ c \in calls
  /\ c.from = "lost"
  /\ calls' = calls \ {c}
  /\ UNCHANGED <<queue, server, world, auth, pass>>

Next == \/ \E o \in Op : Submit(o) \/ FormAnswered(o) \/ Enqueue(o) \/ Abandon(o)
        \/ \E c \in calls : Handle(c) \/ Vanish(c)
        \/ \E t \in Tab : PassStep(t) \/ CloseTab(t) \/ OpenTab(t) \/ Login(t)
                                      \/ TokenExpires(t)
        \/ SessionExpires
        \/ Network

Spec == Init /\ [][Next]_vars

\* An open, signed-in tab triggers a pass every 30 seconds and goes on with it;
\* the server answers what it received.  Nothing else is bound to happen.
Fairness == /\ \A t \in Tab : WF_vars(PassStep(t))
            /\ \A t \in Tab, o \in Op : WF_vars(Handle(Call(t, o)))

FairSpec == Spec /\ Fairness
-----------------------------------------------------------------------------
TypeOK ==
  /\ stage \in [Op -> {"draft", "sent", "served", "refused", "queued"}]
  /\ row \in [Op -> {"none", "pending", "syncing", "failed"}]
  /\ calls \subseteq [from : Tab \cup {"form", "lost"}, op : Op, answer : Answer]
  /\ \A t \in Tab : \A b, c \in calls : b.from = t /\ c.from = t => b = c /\ pc[t] = "wait"
  /\ applied \subseteq Op /\ refused \subseteq Op
  /\ online \in BOOLEAN /\ session \in BOOLEAN
  /\ auth \in [Tab -> {"fresh", "stale", "out"}]
  /\ pc \in [Tab -> {"closed", "idle", "reset", "list", "next", "wait"}]
  /\ stale \in [Tab -> SUBSET Op] /\ todo \in [Tab -> SUBSET Op]
  /\ retried \in [Tab -> BOOLEAN]

\* An operation that was queued stays in the queue until the server applied it,
\* and is not classified as failed before the server has seen it, whatever is
\* closed, expires or is cut meanwhile: it would be lost, for want of a network.
NothingLost ==
  \A o \in Op : /\ stage[o] = "queued" => row[o] # "none" \/ o \in applied
                /\ row[o] = "failed" => o \in refused \cup applied

\* The header of sync-engine.ts: an update is never replayed before the creation
\* it depends on, also when the creation has to wait for the next pass.
CreateFirst ==
  \A t \in Tab : \A c \in calls : c.from = t =>
    \A d \in DependsOn[c.op] : row[d] \notin {"pending", "syncing"}

\* A failed operation is reported once and never sent again.
FailedStaysFailed ==
  [][\A o \in Op : row[o] = "failed" => row'[o] = "failed"]_vars

\* Once the network, the session and a tab are there to stay, every queued
\* operation is applied or reported.
Calm(t) == online /\ session /\ auth[t] # "out" /\ pc[t] # "closed"

Drains ==
  \A t \in Tab : <>[]Calm(t) =>
    \A o \in Op : row[o] \in {"pending", "syncing"} ~> row[o] \in {"none", "failed"}
=============================================================================
