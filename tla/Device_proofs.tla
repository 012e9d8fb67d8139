--------------------------- MODULE Device_proofs ---------------------------
(***************************************************************************)
(* Proofs about the device of a member.                                      *)
(*   The queue, for every number of operations and of tabs.  Kept holds         *)
(* whatever the tabs do: an operation leaves the queue, or is classified as    *)
(* failed, only after the server answered.  Replayed holds on a device with    *)
(* one tab, which no other pass can disturb: what a pass has still to do is    *)
(* what the store says, in the order of the dependencies.                     *)
(*   The uploads: the device runs two instances of UploadSession, whose        *)
(* theorems are taken over.                                                   *)
(*   The session: what a page shows is of the user of the cookie.              *)
(***************************************************************************)
EXTENDS MCDevice, WellFoundedInduction, TLAPS

\* The store holds queued operations, and what they depend on was answered or queued.
RowsAreQueued ==
  \A o \in Op :
    /\ row[o] # "none" => stage[o] = "queued"
    /\ stage[o] # "draft" => \A d \in DependsOn[o] : stage[d] \in {"served", "queued"}

\* What a pass found waiting in the store had been queued.
FoundWasQueued == \A t \in Tab : \A o \in stale[t] : stage[o] = "queued"

\* A form waits for the one request it sent.
FormsWait ==
  \A b, c \in calls :
    b.from = "form" /\ c.from = "form" /\ b.op = c.op => b = c /\ stage[c.op] = "sent"

\* An answer tells what the server did.
AnswersAreTrue ==
  \A c \in calls : /\ c.answer = "ok" => c.op \in applied
                   /\ c.answer \in {"error", "unauthorized"} => c.op \in refused

\* The one request of a pass is for its current operation.
OneByOne ==
  \A t \in Tab : /\ pc[t] = "wait" => todo[t] # {}
                 /\ \A c \in calls : c.from = t => c.op = Current(t)

KeptInv == /\ TypeOK /\ RowsAreQueued /\ FoundWasQueued /\ FormsWait /\ AnswersAreTrue /\ OneByOne
           /\ NothingLost

\* What a pass found in the store is still there, unless it dealt with it, and every
\* creation before the updates that depend on it.
PassAgreesWithStore ==
  \A t \in Tab :
    /\ pc[t] = "reset" => \A o \in stale[t] : row[o] = "syncing"
    /\ pc[t] \in {"next", "wait"} =>
         \A o \in todo[t] :
           /\ row[o] \in {"pending", "syncing"}
           /\ \A d \in DependsOn[o] : row[d] \in {"pending", "syncing"} => d \in todo[t]

ReplayedInv == KeptInv /\ PassAgreesWithStore

OneTab == \A s, t \in Tab : s = t

-----------------------------------------------------------------------------
LEMMA NaturalsAreWellOrdered ==
  IsWellFoundedOn({p \in Nat \X Nat : p[1] < p[2]}, Nat)
BY NatLessThanWellFounded, Zenon DEF OpToRel

LEMMA MinIsMember ==
  ASSUME NEW S \in SUBSET Nat, S # {}
  PROVE  Min(S) \in S /\ \A y \in S : Min(S) <= y
<1>1. PICK x \in S : \A y \in S : ~(<<y, x>> \in {p \in Nat \X Nat : p[1] < p[2]})
  BY NaturalsAreWellOrdered, WFMin
<1>2. ASSUME NEW y \in S PROVE x <= y
  <2>1. <<y, x>> \in Nat \X Nat /\ <<y, x>>[1] = y /\ <<y, x>>[2] = x
    OBVIOUS
  <2>2. ~(y < x)
    BY <1>1, <2>1
  <2>. QED
    BY <2>1, <2>2
<1>. QED
  BY <1>2 DEF Min

LEMMA CurrentIsNext ==
  ASSUME ConstantsAssumption, TypeOK, NEW t \in Tab, todo[t] # {}
  PROVE  Current(t) \in todo[t] /\ Current(t) \in Op /\ \A o \in todo[t] : Current(t) <= o
<1>1. todo[t] \in SUBSET Op /\ todo[t] \in SUBSET Nat
  BY DEF TypeOK, Op
<1>. QED
  BY <1>1, MinIsMember DEF Current

\* What is left of the requests once a sender gave up.
LEMMA AfterGivingUp ==
  ASSUME ConstantsAssumption, TypeOK, NEW f \in Tab \cup {"form"}, NEW o \in Op,
         NEW c \in GivenUp(f, o)
  PROVE  \/ c \in calls /\ ~(c.from = f /\ c.op = o)
         \/ c = Call("lost", o)
BY DEF GivenUp, CallsOf

LEMMA CallFields ==
  ASSUME ConstantsAssumption, NEW f \in Tab \cup {"form", "lost"}, NEW o \in Op
  PROVE  /\ Call(f, o) \in [from : Tab \cup {"form", "lost"}, op : Op, answer : Answer]
         /\ Call(f, o).from = f /\ Call(f, o).op = o /\ Call(f, o).answer = "none"
BY DEF Call, Answer

LEMMA TypeStep ==
  ConstantsAssumption /\ TypeOK /\ OneByOne /\ [Next]_vars => TypeOK'
<1> SUFFICES ASSUME ConstantsAssumption, TypeOK, OneByOne, [Next]_vars PROVE TypeOK'
  OBVIOUS
<1> USE DEF TypeOK
<1>0. "form" \notin Tab /\ "lost" \notin Tab
  BY DEF ConstantsAssumption
<1>1. ASSUME NEW o \in Op, Submit(o) PROVE TypeOK'
  BY <1>1, <1>0, CallFields DEF Submit, Sent, server, world, pass
<1>2. ASSUME NEW o \in Op, FormAnswered(o) PROVE TypeOK'
  BY <1>2 DEF FormAnswered, server, world, pass
<1>3. ASSUME NEW o \in Op, Enqueue(o) \/ Abandon(o) PROVE TypeOK'
  <2>1. CASE Enqueue(o)
    BY <2>1, <1>0, AfterGivingUp, CallFields DEF Enqueue, server, world, pass
  <2>2. CASE Abandon(o)
    BY <2>2, <1>0, AfterGivingUp, CallFields DEF Abandon, server, world, pass
  <2>. QED
    BY <1>3, <2>1, <2>2
<1>4. ASSUME NEW c \in calls, Handle(c) PROVE TypeOK'
  <2>1. PICK a \in Answer \ {"none"} :
          /\ applied' = IF a = "ok" THEN applied \cup {c.op} ELSE applied
          /\ refused' = IF a = "ok" THEN refused ELSE refused \cup {c.op}
          /\ calls' = (calls \ {c}) \cup (IF c.from = "lost" THEN {} ELSE {[c EXCEPT !.answer = a]})
    BY <1>4 DEF Handle
  <2>2. [c EXCEPT !.answer = a] \in [from : Tab \cup {"form", "lost"}, op : Op, answer : Answer]
        /\ [c EXCEPT !.answer = a].from = c.from
    OBVIOUS
  <2>. QED
    BY <1>4, <2>1, <2>2 DEF Handle, queue, world, pass
<1>5. ASSUME NEW t \in Tab, StartPass(t) \/ ResetStale(t) \/ List(t) \/ Finish(t) PROVE TypeOK'
  BY <1>5 DEF StartPass, ResetStale, List, Finish, EndPass, queue, server, world
<1>6. ASSUME NEW t \in Tab, SendNext(t) PROVE TypeOK'
  <2>1. Current(t) \in Op
    BY <1>6, CurrentIsNext DEF SendNext
  <2>. QED
    BY <1>6, <1>0, <2>1, CallFields DEF SendNext, SetRow, Sent, server, world
<1>7. ASSUME NEW t \in Tab,
             ReceiveOk(t) \/ ReceiveError(t) \/ NetworkError(t) \/ ReplyCut(t) \/ ReceiveUnauthorized(t)
      PROVE  TypeOK'
  <2>0. Current(t) \in Op /\ pc[t] = "wait"
    BY <1>7, CurrentIsNext
       DEF ReceiveOk, ReceiveError, NetworkError, ReplyCut, ReceiveUnauthorized, Received, OneByOne
  <2>1. \A c \in calls : c.from = t => c \in CallsOf(t, Current(t))
    BY DEF OneByOne, CallsOf
  <2>2. CASE ReceiveOk(t) \/ ReceiveError(t) \/ ReplyCut(t)
    <3>1. calls' = calls \ CallsOf(t, Current(t)) /\ UNCHANGED <<stage, server, world, auth, stale, retried>>
      BY <2>2 DEF ReceiveOk, ReceiveError, ReplyCut, Received
    <3>2. row' \in [Op -> {"none", "pending", "syncing", "failed"}]
      BY <2>2, <2>0 DEF ReceiveOk, ReceiveError, ReplyCut, SetRow, RemoveRow
    <3>3. /\ todo' \in [Tab -> SUBSET Op]
          /\ pc' \in [Tab -> {"closed", "idle", "reset", "list", "next", "wait"}]
          /\ \A s \in Tab \ {t} : pc'[s] = pc[s]
      BY <2>2 DEF ReceiveOk, ReceiveError, ReplyCut, Continue, EndPass
    <3>. QED
      BY <2>1, <3>1, <3>2, <3>3 DEF server, world
  <2>3. CASE NetworkError(t)
    <3>1. \A c \in GivenUp(t, Current(t)) : (c \in calls /\ c.from # t) \/ c = Call("lost", Current(t))
      BY <2>0, <2>1, AfterGivingUp DEF CallsOf
    <3>. QED
      BY <2>0, <2>3, <3>1, <1>0, CallFields DEF NetworkError, SetRow, EndPass, server, world
  <2>4. CASE ReceiveUnauthorized(t)
    <3>1. \A c \in GivenUp(t, Current(t)) : (c \in calls /\ c.from # t) \/ c = Call("lost", Current(t))
      BY <2>0, <2>1, AfterGivingUp DEF CallsOf
    <3>2. CASE session /\ online
      <4>1. /\ auth' = [auth EXCEPT ![t] = "fresh"] /\ retried' = [retried EXCEPT ![t] = TRUE]
            /\ calls' = GivenUp(t, Current(t)) \cup {Call(t, Current(t))}
            /\ UNCHANGED <<stage, row, applied, refused, online, session, pc, stale, todo>>
        BY <2>4, <3>2 DEF ReceiveUnauthorized, server, world
      <4>2. calls' \subseteq [from : Tab \cup {"form", "lost"}, op : Op, answer : Answer]
        <5>1. /\ Call(t, Current(t)) \in [from : Tab \cup {"form", "lost"}, op : Op, answer : Answer]
              /\ Call("lost", Current(t)) \in [from : Tab \cup {"form", "lost"}, op : Op, answer : Answer]
          BY <2>0, CallFields
        <5>2. calls \subseteq [from : Tab \cup {"form", "lost"}, op : Op, answer : Answer]
          OBVIOUS
        <5>. QED
          BY <3>1, <4>1, <5>1, <5>2
      <4>3. \A s \in Tab : \A b, c \in calls' : b.from = s /\ c.from = s => b = c /\ pc[s] = "wait"
        BY <2>0, <3>1, <4>1, <1>0, CallFields
      <4>. QED
        BY <4>1, <4>2, <4>3
    <3>3. CASE ~(session /\ online)
      BY <2>0, <2>4, <3>1, <3>3, <1>0, CallFields DEF ReceiveUnauthorized, SetRow, EndPass, server, world
    <3>. QED
      BY <3>2, <3>3
  <2>. QED
    BY <1>7, <2>2, <2>3, <2>4
<1>8. ASSUME NEW t \in Tab, CloseTab(t) PROVE TypeOK'
  <2>1. CASE pc[t] = "wait"
    <3>0. Current(t) \in Op
      BY <2>1, CurrentIsNext DEF OneByOne
    <3>1. \A c \in GivenUp(t, Current(t)) : (c \in calls /\ c.from # t) \/ c = Call("lost", Current(t))
      BY <3>0, AfterGivingUp DEF OneByOne
    <3>. QED
      BY <1>8, <2>1, <3>0, <3>1, <1>0, CallFields DEF CloseTab, queue, server, world
  <2>2. CASE pc[t] # "wait"
    BY <1>8, <2>2 DEF CloseTab, queue, server, world
  <2>. QED
    BY <2>1, <2>2
<1>9. ASSUME NEW t \in Tab, OpenTab(t) \/ Login(t) \/ TokenExpires(t) PROVE TypeOK'
  <2>1. OpenTab(t) => TypeOK'
    BY DEF OpenTab, queue, server, world
  <2>2. Login(t) => TypeOK'
    BY DEF Login, queue, server, pass
  <2>3. TokenExpires(t) => TypeOK'
    BY DEF TokenExpires, queue, server, world, pass
  <2>. QED
    BY <1>9, <2>1, <2>2, <2>3
<1>10. CASE SessionExpires \/ Network
  BY <1>10 DEF SessionExpires, Network, queue, server, pass
<1>11. ASSUME NEW c \in calls, Vanish(c) PROVE TypeOK'
  BY <1>11 DEF Vanish, queue, server, world, pass
<1>12. CASE UNCHANGED vars
  BY <1>12 DEF vars, pass
<1>. QED
  BY <1>1, <1>2, <1>3, <1>4, <1>5, <1>6, <1>7, <1>8, <1>9, <1>10, <1>11, <1>12
     DEF Next, PassStep

\* Which requests a step of a pass leaves behind: none of its own.
LEMMA OwnCallsGone ==
  ASSUME ConstantsAssumption, TypeOK, OneByOne, NEW t \in Tab, pc[t] = "wait"
  PROVE  /\ Current(t) \in Op /\ Current(t) \in todo[t]
         /\ \A c \in calls : c.from = t => c \in CallsOf(t, Current(t))
         /\ \A c \in calls \ CallsOf(t, Current(t)) : c.from # t
         /\ \A c \in GivenUp(t, Current(t)) : (c \in calls /\ c.from # t) \/ c = Call("lost", Current(t))
<1>1. Current(t) \in Op /\ Current(t) \in todo[t]
  BY CurrentIsNext DEF OneByOne
<1>2. \A c \in calls : c.from = t => c \in CallsOf(t, Current(t))
  BY DEF OneByOne, CallsOf
<1>3. \A c \in GivenUp(t, Current(t)) : (c \in calls /\ c.from # t) \/ c = Call("lost", Current(t))
  BY <1>1, <1>2, AfterGivingUp DEF CallsOf
<1>. QED
  BY <1>1, <1>2, <1>3

LEMMA OneByOneStep ==
  ConstantsAssumption /\ TypeOK /\ OneByOne /\ [Next]_vars => OneByOne'
<1> SUFFICES ASSUME ConstantsAssumption, TypeOK, OneByOne, [Next]_vars PROVE OneByOne'
  OBVIOUS
<1> USE DEF OneByOne, TypeOK
<1>0. "form" \notin Tab /\ "lost" \notin Tab
  BY DEF ConstantsAssumption
<1>1. ASSUME \A c \in calls' : c.from \in Tab => \E b \in calls : b.from = c.from /\ b.op = c.op,
             UNCHANGED <<pc, todo>>
      PROVE  OneByOne'
  BY <1>1 DEF Current
<1>2. ASSUME NEW o \in Op, Submit(o) \/ FormAnswered(o) \/ Enqueue(o) \/ Abandon(o) PROVE OneByOne'
  <2>1. UNCHANGED <<pc, todo>> /\ \A c \in calls' : c.from \in Tab => c \in calls
    BY <1>2, <1>0, AfterGivingUp, CallFields DEF Submit, FormAnswered, Enqueue, Abandon, Sent, pass
  <2>. QED
    BY <2>1, <1>1
<1>3. ASSUME NEW c \in calls, Handle(c) \/ Vanish(c) PROVE OneByOne'
  <2>1. CASE Handle(c)
    <3>1. PICK a \in Answer :
            calls' = (calls \ {c}) \cup (IF c.from = "lost" THEN {} ELSE {[c EXCEPT !.answer = a]})
      BY <2>1 DEF Handle
    <3>2. [c EXCEPT !.answer = a].from = c.from /\ [c EXCEPT !.answer = a].op = c.op
      OBVIOUS
    <3>. QED
      BY <1>1, <2>1, <3>1, <3>2 DEF Handle, pass
  <2>2. CASE Vanish(c)
    BY <2>2, <1>1 DEF Vanish, pass
  <2>. QED
    BY <1>3, <2>1, <2>2
<1>4. ASSUME NEW t \in Tab, pc[t] # "wait", calls' = calls, pc'[t] # "wait",
             \A s \in Tab \ {t} : pc'[s] = pc[s] /\ todo'[s] = todo[s]
      PROVE  OneByOne'
  BY <1>4 DEF Current
<1>5. ASSUME NEW t \in Tab,
             StartPass(t) \/ ResetStale(t) \/ List(t) \/ Finish(t) \/ OpenTab(t)
      PROVE  OneByOne'
  BY <1>5, <1>4 DEF StartPass, ResetStale, List, Finish, EndPass, OpenTab
<1>6. ASSUME NEW t \in Tab, SendNext(t) PROVE OneByOne'
  <2>1. /\ Current(t) \in Op /\ todo' = todo /\ pc' = [pc EXCEPT ![t] = "wait"]
        /\ todo[t] # {} /\ pc[t] = "next"
        /\ \A c \in calls' : c \in calls \/ c = Call(t, Current(t))
    BY <1>6, CurrentIsNext DEF SendNext, Sent
  <2>2. Call(t, Current(t)).from = t /\ Call(t, Current(t)).op = Current(t)
    BY <2>1, CallFields
  <2>. QED
    BY <2>1, <2>2 DEF Current
<1>7. ASSUME NEW t \in Tab, pc[t] = "wait", pc'[t] # "wait",
             calls' \in {calls \ CallsOf(t, Current(t)), GivenUp(t, Current(t))},
             \A s \in Tab \ {t} : pc'[s] = pc[s] /\ todo'[s] = todo[s]
      PROVE  OneByOne'
  <2>1. Call("lost", Current(t)).from = "lost"
    BY DEF Call
  <2>2. \A c \in calls' : c.from # t /\ (c.from \in Tab => c \in calls)
    BY <1>7, <1>0, <2>1, OwnCallsGone
  <2>. QED
    BY <1>7, <2>2 DEF Current
<1>8. ASSUME NEW t \in Tab,
             ReceiveOk(t) \/ ReceiveError(t) \/ NetworkError(t) \/ ReplyCut(t)
      PROVE  OneByOne'
  BY <1>8, <1>7
     DEF ReceiveOk, ReceiveError, NetworkError, ReplyCut, Received, EndPass, Continue
<1>9. ASSUME NEW t \in Tab, ReceiveUnauthorized(t) PROVE OneByOne'
  <2>1. CASE session /\ online
    <3>1. /\ calls' = GivenUp(t, Current(t)) \cup {Call(t, Current(t))}
          /\ UNCHANGED <<pc, todo>> /\ pc[t] = "wait"
      BY <1>9, <2>1 DEF ReceiveUnauthorized
    <3>2. /\ \A c \in GivenUp(t, Current(t)) : c.from \in Tab => c \in calls /\ c.from # t
          /\ Call(t, Current(t)).from = t /\ Call(t, Current(t)).op = Current(t)
      BY <1>0, <3>1, OwnCallsGone, CallFields
    <3>. QED
      BY <3>1, <3>2 DEF Current
  <2>2. CASE ~(session /\ online)
    BY <1>9, <2>2, <1>7 DEF ReceiveUnauthorized, EndPass
  <2>. QED
    BY <2>1, <2>2
<1>10. ASSUME NEW t \in Tab, CloseTab(t) PROVE OneByOne'
  BY <1>10, <1>4, <1>7 DEF CloseTab
<1>11. ASSUME NEW t \in Tab, Login(t) \/ TokenExpires(t) PROVE OneByOne'
  BY <1>11, <1>1 DEF Login, TokenExpires, pass
<1>12. CASE SessionExpires \/ Network
  BY <1>12, <1>1 DEF SessionExpires, Network, pass
<1>13. CASE UNCHANGED vars
  BY <1>13, <1>1 DEF vars, pass
<1>. QED
  BY <1>2, <1>3, <1>5, <1>6, <1>8, <1>9, <1>10, <1>11, <1>12, <1>13 DEF Next, PassStep

-----------------------------------------------------------------------------
\* Every step but Handle leaves unanswered requests, and answers that were there.
LEMMA NewCallsAreUnanswered ==
  ASSUME ConstantsAssumption, TypeOK, OneByOne, [Next]_vars, \A c \in calls : ~Handle(c)
  PROVE  /\ \A c \in calls' : c \in calls \/ (c.answer = "none" /\ c.op \in Op)
         /\ UNCHANGED <<applied, refused>>
<1> DEFINE Goal == /\ \A c \in calls' : c \in calls \/ (c.answer = "none" /\ c.op \in Op)
                   /\ UNCHANGED <<applied, refused>>
<1>1. ASSUME NEW o \in Op, Submit(o) \/ FormAnswered(o) \/ Enqueue(o) \/ Abandon(o) PROVE Goal
  BY <1>1, AfterGivingUp, CallFields DEF Submit, FormAnswered, Enqueue, Abandon, Sent, server
<1>2. ASSUME NEW t \in Tab,
             StartPass(t) \/ ResetStale(t) \/ List(t) \/ Finish(t) \/ OpenTab(t) \/ Login(t) \/ TokenExpires(t)
      PROVE  Goal
  BY <1>2 DEF StartPass, ResetStale, List, Finish, OpenTab, Login, TokenExpires, server
<1>3. ASSUME NEW t \in Tab, SendNext(t) PROVE Goal
  <2>1. Current(t) \in Op
    BY <1>3, CurrentIsNext DEF SendNext
  <2>. QED
    BY <1>3, <2>1, CallFields DEF SendNext, Sent, server
<1>4. ASSUME NEW t \in Tab, pc[t] = "wait"
      PROVE  /\ Call(t, Current(t)).answer = "none" /\ Call(t, Current(t)).op \in Op
             /\ \A c \in GivenUp(t, Current(t)) : c \in calls \/ (c.answer = "none" /\ c.op \in Op)
  <2>1. Current(t) \in Op
    BY <1>4, OwnCallsGone
  <2>. QED
    BY <1>4, <2>1, OwnCallsGone, CallFields
<1>5. ASSUME NEW t \in Tab, ReceiveOk(t) \/ ReceiveError(t) \/ ReplyCut(t) PROVE Goal
  BY <1>5 DEF ReceiveOk, ReceiveError, ReplyCut, Received, server
<1>6. ASSUME NEW t \in Tab, NetworkError(t) \/ ReceiveUnauthorized(t) \/ CloseTab(t) PROVE Goal
  BY <1>6, <1>4 DEF NetworkError, ReceiveUnauthorized, CloseTab, server
<1>7. CASE SessionExpires \/ Network \/ UNCHANGED vars
  BY <1>7 DEF SessionExpires, Network, server, vars
<1>8. ASSUME NEW c \in calls, Vanish(c) PROVE Goal
  BY <1>8 DEF Vanish, server
<1>. QED
  BY <1>1, <1>2, <1>3, <1>5, <1>6, <1>7, <1>8 DEF Next, PassStep

LEMMA AnswersStep ==
  ConstantsAssumption /\ TypeOK /\ OneByOne /\ AnswersAreTrue /\ [Next]_vars
    => AnswersAreTrue' /\ applied \subseteq applied' /\ refused \subseteq refused'
<1> SUFFICES ASSUME ConstantsAssumption, TypeOK, OneByOne, AnswersAreTrue, [Next]_vars
             PROVE  AnswersAreTrue' /\ applied \subseteq applied' /\ refused \subseteq refused'
  OBVIOUS
<1>1. ASSUME NEW c \in calls, Handle(c)
      PROVE  AnswersAreTrue' /\ applied \subseteq applied' /\ refused \subseteq refused'
  <2>1. PICK a \in Answer \ {"none"} :
          /\ applied' = IF a = "ok" THEN applied \cup {c.op} ELSE applied
          /\ refused' = IF a = "ok" THEN refused ELSE refused \cup {c.op}
          /\ calls' = (calls \ {c}) \cup (IF c.from = "lost" THEN {} ELSE {[c EXCEPT !.answer = a]})
    BY <1>1 DEF Handle
  <2>2. [c EXCEPT !.answer = a].op = c.op /\ [c EXCEPT !.answer = a].answer = a
    BY DEF TypeOK
  <2>. QED
    BY <2>1, <2>2 DEF AnswersAreTrue
<1>2. CASE \A c \in calls : ~Handle(c)
  BY <1>2, NewCallsAreUnanswered DEF AnswersAreTrue
<1>. QED
  BY <1>1, <1>2

\* What each step does to the store and to the forms.
StoreStep ==
  \A o \in Op :
    \/ row'[o] = row[o] /\ stage'[o] = stage[o]
    \/ row'[o] = row[o] /\ stage[o] = "draft" /\ stage'[o] = "sent"
         /\ \A d \in DependsOn[o] : stage[d] \in {"served", "queued"}
    \/ row'[o] = row[o] /\ stage[o] = "sent" /\ stage'[o] \in {"served", "refused"}
    \/ row'[o] = "pending" /\ stage[o] = "sent" /\ stage'[o] = "queued"
    \/ row'[o] \in {"pending", "syncing"} /\ stage'[o] = stage[o]
         /\ (row[o] # "none" \/ \E t \in Tab : o \in stale[t])
    \/ row'[o] = "failed" /\ stage'[o] = stage[o] /\ row[o] # "none" /\ o \in applied \cup refused
    \/ row'[o] = "none" /\ stage'[o] = stage[o] /\ o \in applied

LEMMA EveryStepIsAStoreStep ==
  ConstantsAssumption /\ KeptInv /\ [Next]_vars => StoreStep
<1> SUFFICES ASSUME ConstantsAssumption, KeptInv, [Next]_vars PROVE StoreStep
  OBVIOUS
<1> USE DEF KeptInv, TypeOK, StoreStep
<1>1. ASSUME NEW p \in Op, Submit(p) PROVE StoreStep
  BY <1>1 DEF Submit
<1>2. ASSUME NEW p \in Op, FormAnswered(p) PROVE StoreStep
  <2>1. stage[p] = "sent"
    BY <1>2 DEF FormAnswered, CallsOf, FormsWait
  <2>. QED
    BY <1>2, <2>1 DEF FormAnswered
<1>3. ASSUME NEW p \in Op, Enqueue(p) \/ Abandon(p) PROVE StoreStep
  BY <1>3 DEF Enqueue, Abandon
<1>4. ASSUME UNCHANGED <<stage, row>> PROVE StoreStep
  BY <1>4
<1>5. ASSUME NEW t \in Tab, ResetStale(t) PROVE StoreStep
  BY <1>5 DEF ResetStale
<1>6. ASSUME NEW t \in Tab, SendNext(t) PROVE StoreStep
  BY <1>6 DEF SendNext, SetRow
<1>7. ASSUME NEW t \in Tab, NetworkError(t) PROVE StoreStep
  BY <1>7 DEF NetworkError, SetRow
<1>8. ASSUME NEW t \in Tab, ReceiveUnauthorized(t) PROVE StoreStep
  <2>1. UNCHANGED <<row, stage>> \/ (SetRow(Current(t), "pending") /\ UNCHANGED stage)
    BY <1>8 DEF ReceiveUnauthorized
  <2>. QED
    BY <2>1, <1>4 DEF SetRow
<1>9. ASSUME NEW t \in Tab, ReceiveOk(t) PROVE StoreStep
  <2>1. Current(t) \in applied
    BY <1>9 DEF ReceiveOk, Received, CallsOf, AnswersAreTrue
  <2>. QED
    BY <1>9, <2>1 DEF ReceiveOk, RemoveRow
<1>10. ASSUME NEW t \in Tab, ReceiveError(t) \/ ReplyCut(t) PROVE StoreStep
  <2>1. Current(t) \in applied \cup refused
    BY <1>10 DEF ReceiveError, ReplyCut, Received, CallsOf, AnswersAreTrue
  <2>2. SetRow(Current(t), "failed") /\ UNCHANGED stage
    BY <1>10 DEF ReceiveError, ReplyCut
  <2>. QED
    BY <2>1, <2>2 DEF SetRow
<1>11. ASSUME NEW c \in calls, Handle(c) \/ Vanish(c) PROVE StoreStep
  BY <1>11, <1>4 DEF Handle, Vanish, queue
<1>12. ASSUME NEW t \in Tab,
              StartPass(t) \/ List(t) \/ Finish(t) \/ CloseTab(t) \/ OpenTab(t) \/ Login(t) \/ TokenExpires(t)
       PROVE  StoreStep
  BY <1>12, <1>4 DEF StartPass, List, Finish, CloseTab, OpenTab, Login, TokenExpires, queue
<1>13. CASE SessionExpires \/ Network \/ UNCHANGED vars
  BY <1>13, <1>4 DEF SessionExpires, Network, queue, vars
<1>. QED
  BY <1>1, <1>2, <1>3, <1>5, <1>6, <1>7, <1>8, <1>9, <1>10, <1>11, <1>12, <1>13 DEF Next, PassStep

\* What the forms wait for, and the rows a pass remembers.
LEMMA MemoryStep ==
  ConstantsAssumption /\ KeptInv /\ [Next]_vars => FormsWait' /\ FoundWasQueued'
<1> SUFFICES ASSUME ConstantsAssumption, KeptInv, [Next]_vars PROVE FormsWait' /\ FoundWasQueued'
  OBVIOUS
<1> USE DEF KeptInv
<1>0. "form" \notin Tab /\ "lost" \notin Tab
  BY DEF ConstantsAssumption
<1>1. FoundWasQueued'
  <2>1. \A t \in Tab : \A o \in stale'[t] : o \in stale[t] \/ row[o] # "none"
    <3> DEFINE Goal == \A t \in Tab : \A o \in stale'[t] : o \in stale[t] \/ row[o] # "none"
    <3> USE DEF TypeOK
    <3>1. stale' = stale => Goal
      OBVIOUS
    <3>2. ASSUME NEW t \in Tab, StartPass(t) \/ ResetStale(t) \/ CloseTab(t) PROVE Goal
      BY <3>2 DEF StartPass, ResetStale, CloseTab
    <3>3. ASSUME NEW t \in Tab, PassStep(t), ~StartPass(t), ~ResetStale(t) PROVE Goal
      BY <3>1, <3>3 DEF PassStep, List, SendNext, Finish, ReceiveOk, ReceiveError,
                        ReceiveUnauthorized, NetworkError, ReplyCut
    <3>4. ASSUME NEW t \in Tab, OpenTab(t) \/ Login(t) \/ TokenExpires(t) PROVE Goal
      BY <3>1, <3>4 DEF OpenTab, Login, TokenExpires, pass
    <3>5. ASSUME NEW o \in Op, Submit(o) \/ FormAnswered(o) \/ Enqueue(o) \/ Abandon(o) PROVE Goal
      BY <3>1, <3>5 DEF Submit, FormAnswered, Enqueue, Abandon, pass
    <3>6. ASSUME NEW c \in calls, Handle(c) \/ Vanish(c) PROVE Goal
      BY <3>1, <3>6 DEF Handle, Vanish, pass
    <3>7. CASE SessionExpires \/ Network \/ UNCHANGED vars
      BY <3>1, <3>7 DEF SessionExpires, Network, vars, pass
    <3>. QED
      BY <3>2, <3>3, <3>4, <3>5, <3>6, <3>7 DEF Next
  <2>2. TypeOK'
    BY TypeStep
  <2>. QED
    BY <2>1, <2>2, EveryStepIsAStoreStep DEF FoundWasQueued, RowsAreQueued, StoreStep, TypeOK
<1>2. ASSUME UNCHANGED stage, \A c \in calls' : c.from = "form" => c \in calls
      PROVE  FormsWait'
  BY <1>2 DEF FormsWait
<1>3. ASSUME NEW o \in Op, Submit(o) PROVE FormsWait'
  <2>1. /\ \A c \in calls' : c \in calls \/ c = Call("form", o)
        /\ stage[o] = "draft" /\ stage' = [stage EXCEPT ![o] = "sent"]
    BY <1>3 DEF Submit, Sent
  <2>2. Call("form", o).op = o
    BY DEF Call
  <2>3. \A c \in calls : c.from = "form" => c.op # o /\ c.op \in Op
    BY <2>1 DEF FormsWait, TypeOK
  <2>. QED
    BY <2>1, <2>2, <2>3 DEF FormsWait, TypeOK
<1>4. ASSUME NEW o \in Op, FormAnswered(o) \/ Enqueue(o) \/ Abandon(o) PROVE FormsWait'
  <2>1. \A c \in calls' : c.from = "form" => c \in calls /\ c.op # o /\ c.op \in Op
    <3>1. CASE FormAnswered(o)
      BY <3>1 DEF FormAnswered, CallsOf, FormsWait, TypeOK
    <3>2. CASE Enqueue(o) \/ Abandon(o)
      <4>1. \A c \in GivenUp("form", o) : (c \in calls /\ ~(c.from = "form" /\ c.op = o)) \/ c = Call("lost", o)
        BY AfterGivingUp
      <4>2. Call("lost", o).from # "form"
        BY DEF Call
      <4>. QED
        BY <3>2, <4>1, <4>2 DEF Enqueue, Abandon, TypeOK
    <3>. QED
      BY <1>4, <3>1, <3>2
  <2>2. stage' = [stage EXCEPT ![o] = stage'[o]]
    BY <1>4 DEF FormAnswered, Enqueue, Abandon, TypeOK
  <2>. QED
    BY <2>1, <2>2 DEF FormsWait, TypeOK
<1>5. ASSUME NEW c \in calls, Handle(c) PROVE FormsWait'
  <2>1. PICK a \in Answer \ {"none"} :
          calls' = (calls \ {c}) \cup (IF c.from = "lost" THEN {} ELSE {[c EXCEPT !.answer = a]})
    BY <1>5 DEF Handle
  <2>2. [c EXCEPT !.answer = a].op = c.op /\ [c EXCEPT !.answer = a].from = c.from
    BY DEF TypeOK
  <2>3. UNCHANGED stage
    BY <1>5 DEF Handle, queue
  <2>4. \A d \in calls' : d \in calls \ {c} \/ d = [c EXCEPT !.answer = a]
    BY <2>1
  <2>5. \A d \in calls' : d.from = "form" => stage[d.op] = "sent"
    BY <2>2, <2>4 DEF FormsWait
  <2>6. ASSUME NEW b \in calls', NEW d \in calls', b.from = "form", d.from = "form", b.op = d.op, b # d
        PROVE  FALSE
    \* The answered request stands for the one it was.
    <3>1. CASE b \in calls \ {c} /\ d \in calls \ {c}
      BY <3>1, <2>6 DEF FormsWait
    <3>2. CASE b = [c EXCEPT !.answer = a]
      BY <3>2, <2>2, <2>4, <2>6 DEF FormsWait
    <3>3. CASE d = [c EXCEPT !.answer = a]
      BY <3>3, <2>2, <2>4, <2>6 DEF FormsWait
    <3>. QED
      BY <2>4, <3>1, <3>2, <3>3
  <2>. QED
    BY <2>3, <2>5, <2>6 DEF FormsWait
<1>6. ASSUME NEW c \in calls, Vanish(c) PROVE FormsWait'
  BY <1>6, <1>2 DEF Vanish, queue
<1>7. ASSUME NEW t \in Tab,
             StartPass(t) \/ ResetStale(t) \/ List(t) \/ Finish(t) \/ OpenTab(t) \/ Login(t) \/ TokenExpires(t)
      PROVE  FormsWait'
  BY <1>7, <1>2 DEF StartPass, ResetStale, List, Finish, OpenTab, Login, TokenExpires, queue
<1>8. ASSUME NEW t \in Tab, SendNext(t) PROVE FormsWait'
  <2>1. Call(t, Current(t)).from # "form"
    BY <1>0 DEF Call
  <2>. QED
    BY <1>8, <1>2, <2>1 DEF SendNext, Sent
<1>9. ASSUME NEW t \in Tab, ReceiveOk(t) \/ ReceiveError(t) \/ ReplyCut(t) PROVE FormsWait'
  BY <1>9, <1>2 DEF ReceiveOk, ReceiveError, ReplyCut, Received
<1>10. ASSUME NEW t \in Tab, NetworkError(t) \/ ReceiveUnauthorized(t) \/ CloseTab(t) PROVE FormsWait'
  <2>1. CASE pc[t] = "wait"
    <3>1. \A c \in GivenUp(t, Current(t)) : c \in calls \/ c = Call("lost", Current(t))
      BY <2>1, OwnCallsGone
    <3>2. Call("lost", Current(t)).from # "form" /\ Call(t, Current(t)).from # "form"
      BY <1>0 DEF Call
    <3>3. \A c \in calls' : c.from = "form" => c \in calls
      BY <1>10, <2>1, <3>1, <3>2 DEF NetworkError, ReceiveUnauthorized, CloseTab
    <3>. QED
      BY <1>10, <1>2, <3>3 DEF NetworkError, ReceiveUnauthorized, CloseTab, queue
  <2>2. CASE pc[t] # "wait"
    BY <1>10, <2>2, <1>2 DEF NetworkError, ReceiveUnauthorized, CloseTab, queue
  <2>. QED
    BY <2>1, <2>2
<1>11. ASSUME SessionExpires \/ Network \/ UNCHANGED vars PROVE FormsWait'
  BY <1>11, <1>2 DEF SessionExpires, Network, queue, vars
<1>12. FormsWait'
  BY <1>3, <1>4, <1>5, <1>6, <1>7, <1>8, <1>9, <1>10, <1>11 DEF Next, PassStep
<1>. QED
  BY <1>1, <1>12

LEMMA KeptInit == ConstantsAssumption /\ Init => KeptInv
BY DEF ConstantsAssumption, Init, KeptInv, TypeOK, RowsAreQueued, FoundWasQueued, FormsWait,
       AnswersAreTrue, OneByOne, NothingLost

LEMMA KeptStep == ConstantsAssumption /\ KeptInv /\ [Next]_vars => KeptInv'
<1> SUFFICES ASSUME ConstantsAssumption, KeptInv, [Next]_vars PROVE KeptInv'
  OBVIOUS
<1>1. TypeOK' /\ OneByOne' /\ FormsWait' /\ FoundWasQueued'
  BY TypeStep, OneByOneStep, MemoryStep DEF KeptInv
<1>2. AnswersAreTrue' /\ applied \subseteq applied' /\ refused \subseteq refused'
  BY AnswersStep DEF KeptInv
<1>3. StoreStep
  BY EveryStepIsAStoreStep
<1>4. RowsAreQueued'
  <2>1. \A o \in Op : DependsOn[o] \subseteq Op
    BY DEF ConstantsAssumption
  <2>2. ASSUME NEW o \in Op, stage[o] \in {"served", "queued"} PROVE stage'[o] = stage[o]
    BY <1>3, <2>2 DEF StoreStep
  <2>. QED
    BY <1>3, <2>1, <2>2 DEF StoreStep, KeptInv, RowsAreQueued, FoundWasQueued
<1>5. NothingLost'
  BY <1>2, <1>3 DEF StoreStep, KeptInv, NothingLost
<1>. QED
  BY <1>1, <1>2, <1>4, <1>5 DEF KeptInv

\* An operation leaves the queue only after the server applied it, and is classified
\* as failed only after the server answered it; with any number of tabs whose passes
\* interleave, tabs closed, answers cut and sessions that expire.
THEOREM QueueKeepsOperations ==
  ASSUME ConstantsAssumption PROVE Spec => [](TypeOK /\ NothingLost)
<1>1. Init => KeptInv
  BY ConstantsAssumption, KeptInit
<1>2. KeptInv /\ [Next]_vars => KeptInv'
  BY ConstantsAssumption, KeptStep
<1>3. KeptInv => TypeOK /\ NothingLost
  BY DEF KeptInv
<1>. QED
  BY <1>1, <1>2, <1>3, PTL DEF Spec

-----------------------------------------------------------------------------
LEMMA AgreeInit == ConstantsAssumption /\ Init => PassAgreesWithStore
BY DEF Init, PassAgreesWithStore

LEMMA AgreeStep ==
  ConstantsAssumption /\ OneTab /\ ReplayedInv /\ [Next]_vars
    => /\ PassAgreesWithStore'
       /\ \A o \in Op : row[o] = "failed" => row'[o] = "failed"
<1> DEFINE Goal == /\ PassAgreesWithStore'
                   /\ \A o \in Op : row[o] = "failed" => row'[o] = "failed"
<1> SUFFICES ASSUME ConstantsAssumption, OneTab, ReplayedInv, [Next]_vars PROVE Goal
  OBVIOUS
<1> USE DEF ReplayedInv, KeptInv, PassAgreesWithStore, TypeOK
<1>0. \A o \in Op : DependsOn[o] \subseteq Op
  BY DEF ConstantsAssumption
<1>1. ASSUME UNCHANGED <<row, pc, stale, todo>> PROVE Goal
  BY <1>1
<1>2. ASSUME NEW p \in Op, Enqueue(p) PROVE Goal
  <2>1. row[p] = "none" /\ stage[p] = "sent" /\ row' = [row EXCEPT ![p] = "pending"]
        /\ UNCHANGED <<pc, stale, todo>>
    BY <1>2 DEF Enqueue, RowsAreQueued, pass
  <2>2. ASSUME NEW o \in Op, row[o] \in {"pending", "syncing"} PROVE p \notin DependsOn[o] /\ p # o
    BY <2>1, <2>2 DEF RowsAreQueued
  <2>. QED
    BY <2>1, <2>2, <1>0
<1>3. ASSUME NEW p \in Op, Submit(p) \/ FormAnswered(p) \/ Abandon(p) PROVE Goal
  BY <1>3, <1>1 DEF Submit, FormAnswered, Abandon, pass
<1>4. ASSUME NEW c \in calls, Handle(c) \/ Vanish(c) PROVE Goal
  BY <1>4, <1>1 DEF Handle, Vanish, queue, pass
<1>5. CASE SessionExpires \/ Network \/ UNCHANGED vars
  BY <1>5, <1>1 DEF SessionExpires, Network, queue, pass, vars
<1>6. ASSUME NEW t \in Tab, Login(t) \/ TokenExpires(t) PROVE Goal
  BY <1>6, <1>1 DEF Login, TokenExpires, queue, pass
<1>7. ASSUME NEW t \in Tab, StartPass(t) \/ List(t) \/ Finish(t) \/ CloseTab(t) \/ OpenTab(t) PROVE Goal
  <2>1. UNCHANGED row /\ \A s \in Tab : s = t
    BY <1>7 DEF OneTab, StartPass, List, Finish, CloseTab, OpenTab, queue
  <2>2. StartPass(t) => Goal
    BY <2>1 DEF StartPass
  <2>3. List(t) => Goal
    BY <2>1, <1>0 DEF List
  <2>4. Finish(t) \/ CloseTab(t) \/ OpenTab(t) => Goal
    BY <2>1 DEF Finish, EndPass, CloseTab, OpenTab
  <2>. QED
    BY <1>7, <2>2, <2>3, <2>4
<1>8. ASSUME NEW t \in Tab, ResetStale(t) PROVE Goal
  BY <1>8 DEF ResetStale, OneTab
<1>9. ASSUME NEW t \in Tab, SendNext(t) PROVE Goal
  <2>1. Current(t) \in todo[t] /\ Current(t) \in Op
    BY <1>9, CurrentIsNext DEF SendNext
  <2>. QED
    BY <1>9, <2>1, <1>0 DEF SendNext, SetRow, OneTab
<1>10. ASSUME NEW t \in Tab,
              ReceiveOk(t) \/ ReceiveError(t) \/ NetworkError(t) \/ ReplyCut(t) \/ ReceiveUnauthorized(t)
       PROVE  Goal
  <2>1. /\ pc[t] = "wait" /\ \A s \in Tab : s = t
        /\ Current(t) \in Op /\ Current(t) \in todo[t]
    BY <1>10, OwnCallsGone
       DEF ReceiveOk, ReceiveError, NetworkError, ReplyCut, ReceiveUnauthorized, Received, OneTab
  <2>2. CASE ReceiveUnauthorized(t) /\ session /\ online
    BY <2>2, <1>1 DEF ReceiveUnauthorized
  <2>3. ASSUME UNCHANGED stale, EndPass(t), row' = [row EXCEPT ![Current(t)] = row'[Current(t)]]
        PROVE  Goal
    BY <2>1, <2>3 DEF EndPass
  <2>4. ASSUME UNCHANGED stale, Continue(t), row' = [row EXCEPT ![Current(t)] = row'[Current(t)]],
               row'[Current(t)] \in {"none", "failed"}
        PROVE  Goal
    BY <2>1, <2>4, <1>0 DEF Continue
  <2>5. CASE ReceiveOk(t)
    BY <2>4, <2>5, <2>1 DEF ReceiveOk, RemoveRow
  <2>6. CASE ReceiveError(t) \/ ReplyCut(t)
    BY <2>3, <2>4, <2>6, <2>1 DEF ReceiveError, ReplyCut, SetRow
  <2>7. CASE NetworkError(t) \/ (ReceiveUnauthorized(t) /\ ~(session /\ online))
    BY <2>3, <2>7, <2>1 DEF NetworkError, ReceiveUnauthorized, SetRow
  <2>. QED
    BY <1>10, <2>2, <2>5, <2>6, <2>7
<1>. QED
  BY <1>2, <1>3, <1>4, <1>5, <1>6, <1>7, <1>8, <1>9, <1>10 DEF Next, PassStep

LEMMA Replayed == ASSUME ConstantsAssumption, OneTab PROVE Spec => []ReplayedInv
<1>1. Init => ReplayedInv
  BY ConstantsAssumption, KeptInit, AgreeInit DEF ReplayedInv
<1>2. ReplayedInv /\ [Next]_vars => ReplayedInv'
  BY ConstantsAssumption, OneTab, KeptStep, AgreeStep DEF ReplayedInv
<1>. QED
  BY <1>1, <1>2, PTL DEF Spec

\* With one tab, runSyncPass sends no operation while the creation of a record it
\* depends on is still waiting, whatever the number of operations and what they
\* depend on.
THEOREM CreationsAreSentFirst ==
  ASSUME ConstantsAssumption, OneTab PROVE Spec => []CreateFirst
<1>1. ReplayedInv => CreateFirst
  <2> SUFFICES ASSUME ReplayedInv, NEW t \in Tab, NEW c \in calls, c.from = t, NEW d \in DependsOn[c.op]
               PROVE  row[d] \notin {"pending", "syncing"}
    BY DEF CreateFirst
  <2>1. pc[t] = "wait" /\ c.op = Current(t) /\ c.op \in Op
    BY DEF ReplayedInv, KeptInv, TypeOK, OneByOne
  <2>2. Current(t) \in todo[t] /\ \A o \in todo[t] : Current(t) <= o
    BY <2>1, CurrentIsNext DEF ReplayedInv, KeptInv, OneByOne
  <2>3. d \in Nat /\ d < Current(t) /\ Current(t) \in Nat
    BY <2>1 DEF ConstantsAssumption, Op
  <2>4. d \notin todo[t]
    BY <2>2, <2>3
  <2>. QED
    BY <2>1, <2>2, <2>4 DEF ReplayedInv, PassAgreesWithStore
<1>. QED
  BY <1>1, Replayed, PTL

\* With one tab, an operation classified as failed is never sent again.
THEOREM FailedIsFinal ==
  ASSUME ConstantsAssumption, OneTab PROVE Spec => FailedStaysFailed
<1>1. ReplayedInv /\ [Next]_vars => (\A o \in Op : row[o] = "failed" => row'[o] = "failed")
  BY ConstantsAssumption, OneTab, AgreeStep
<1>. QED
  BY <1>1, Replayed, PTL DEF Spec, FailedStaysFailed

-----------------------------------------------------------------------------
\* The whole device: the part that runs takes its own steps, the others none.
\* The proofs about the uploads are those of UploadSession, for both kinds.
SerialProofs == INSTANCE UploadSession_proofs
                  WITH pc <- phase, session <- upload, K <- SerialK, MaxRequests <- SerialRequests,
                       Overlap <- FALSE, Crash <- FALSE, StartsOffline <- FALSE
FaultyProofs == INSTANCE UploadSession_proofs
                  WITH pc <- phase, session <- upload, K <- FaultyK, MaxRequests <- FaultyRequests,
                       Overlap <- TRUE, Crash <- TRUE, StartsOffline <- TRUE

LEMMA SerialIsSound == SerialProofs!ConstantsAssumption /\ SerialProofs!Sound
BY DeviceAssumption
   DEF Serial!ConstantsAssumption, SerialProofs!ConstantsAssumption, SerialProofs!Sound,
       Serial!RowType, SerialProofs!RowType, Serial!Chunk, SerialProofs!Chunk

LEMMA FaultyIsWellFormed == FaultyProofs!ConstantsAssumption
BY DeviceAssumption
   DEF Faulty!ConstantsAssumption, FaultyProofs!ConstantsAssumption,
       Faulty!RowType, FaultyProofs!RowType, Faulty!Chunk, FaultyProofs!Chunk

LEMMA SerialSame ==
  /\ Serial!Init <=> SerialProofs!Init
  /\ Serial!Next <=> SerialProofs!Next
  /\ UNCHANGED uploadVars => UNCHANGED SerialProofs!vars
<1>1. Serial!Init <=> SerialProofs!Init
  BY DEF Serial!Init, SerialProofs!Init, Serial!Req, SerialProofs!Req
<1>2. Serial!Next <=> SerialProofs!Next
  BY DEF Serial!Chunk, SerialProofs!Chunk, Serial!Req, SerialProofs!Req, Serial!RowType,
         SerialProofs!RowType, Serial!device, SerialProofs!device, Serial!requests,
         SerialProofs!requests, Serial!stored, SerialProofs!stored, Serial!vars, SerialProofs!vars,
         Serial!Kinds, SerialProofs!Kinds, Serial!InFlight, SerialProofs!InFlight, Serial!Init,
         SerialProofs!Init, Serial!Send, SerialProofs!Send, Serial!Push, SerialProofs!Push,
         Serial!Answered, SerialProofs!Answered, Serial!Refused, SerialProofs!Refused,
         Serial!NetworkError, SerialProofs!NetworkError, Serial!End, SerialProofs!End, Serial!Create,
         SerialProofs!Create, Serial!Load, SerialProofs!Load, Serial!WriteChunk,
         SerialProofs!WriteChunk, Serial!Received, SerialProofs!Received, Serial!CommitChunk,
         SerialProofs!CommitChunk, Serial!LockSession, SerialProofs!LockSession,
         Serial!AlreadyCompleted, SerialProofs!AlreadyCompleted, Serial!ReturnDocument,
         SerialProofs!ReturnDocument, Serial!Assemblable, SerialProofs!Assemblable,
         Serial!RefuseComplete, SerialProofs!RefuseComplete, Serial!Assemble, SerialProofs!Assemble,
         Serial!CommitComplete, SerialProofs!CommitComplete, Serial!Rollback, SerialProofs!Rollback,
         Serial!Vanish, SerialProofs!Vanish, Serial!Serve, SerialProofs!Serve, Serial!Next,
         SerialProofs!Next, Serial!Min, SerialProofs!Min
<1>3. UNCHANGED uploadVars => UNCHANGED SerialProofs!vars
  BY DEF SerialProofs!vars, SerialProofs!device, SerialProofs!requests, SerialProofs!stored,
         uploadVars
<1>. QED
  BY <1>1, <1>2, <1>3

LEMMA FaultySame ==
  /\ Faulty!Init <=> FaultyProofs!Init
  /\ Faulty!Next <=> FaultyProofs!Next
  /\ UNCHANGED uploadVars => UNCHANGED FaultyProofs!vars
<1>1. Faulty!Init <=> FaultyProofs!Init
  BY DEF Faulty!Init, FaultyProofs!Init, Faulty!Req, FaultyProofs!Req
<1>2. Faulty!Next <=> FaultyProofs!Next
  BY DEF Faulty!Chunk, FaultyProofs!Chunk, Faulty!Req, FaultyProofs!Req, Faulty!RowType,
         FaultyProofs!RowType, Faulty!device, FaultyProofs!device, Faulty!requests,
         FaultyProofs!requests, Faulty!stored, FaultyProofs!stored, Faulty!vars, FaultyProofs!vars,
         Faulty!Kinds, FaultyProofs!Kinds, Faulty!InFlight, FaultyProofs!InFlight, Faulty!Init,
         FaultyProofs!Init, Faulty!Send, FaultyProofs!Send, Faulty!Push, FaultyProofs!Push,
         Faulty!Answered, FaultyProofs!Answered, Faulty!Refused, FaultyProofs!Refused,
         Faulty!NetworkError, FaultyProofs!NetworkError, Faulty!End, FaultyProofs!End, Faulty!Create,
         FaultyProofs!Create, Faulty!Load, FaultyProofs!Load, Faulty!WriteChunk,
         FaultyProofs!WriteChunk, Faulty!Received, FaultyProofs!Received, Faulty!CommitChunk,
         FaultyProofs!CommitChunk, Faulty!LockSession, FaultyProofs!LockSession,
         Faulty!AlreadyCompleted, FaultyProofs!AlreadyCompleted, Faulty!ReturnDocument,
         FaultyProofs!ReturnDocument, Faulty!Assemblable, FaultyProofs!Assemblable,
         Faulty!RefuseComplete, FaultyProofs!RefuseComplete, Faulty!Assemble, FaultyProofs!Assemble,
         Faulty!CommitComplete, FaultyProofs!CommitComplete, Faulty!Rollback, FaultyProofs!Rollback,
         Faulty!Vanish, FaultyProofs!Vanish, Faulty!Serve, FaultyProofs!Serve, Faulty!Next,
         FaultyProofs!Next, Faulty!Min, FaultyProofs!Min
<1>3. UNCHANGED uploadVars => UNCHANGED FaultyProofs!vars
  BY DEF FaultyProofs!vars, FaultyProofs!device, FaultyProofs!requests, FaultyProofs!stored,
         uploadVars
<1>. QED
  BY <1>1, <1>2, <1>3


\* What a run on an upload is a run of.
LEMMA SerialRuns == AllSpec /\ on = "serial" => SerialProofs!Spec /\ [](on = "serial")
<1>1. AllInit /\ on = "serial" => SerialProofs!Init
  BY SerialSame DEF AllInit
<1>2. on = "serial" /\ [AllNext]_allVars
        => (on = "serial")' /\ [SerialProofs!Next]_SerialProofs!vars
  BY SerialSame DEF AllNext, InQueue, InUpload, InSession, allVars
<1>. QED
  BY <1>1, <1>2, PTL DEF AllSpec, SerialProofs!Spec

LEMMA FaultyRuns == AllSpec /\ on = "faulty" => FaultyProofs!Spec /\ [](on = "faulty")
<1>1. AllInit /\ on = "faulty" => FaultyProofs!Init
  BY FaultySame DEF AllInit
<1>2. on = "faulty" /\ [AllNext]_allVars
        => (on = "faulty")' /\ [FaultyProofs!Next]_FaultyProofs!vars
  BY FaultySame DEF AllNext, InQueue, InUpload, InSession, allVars
<1>. QED
  BY <1>1, <1>2, PTL DEF AllSpec, FaultyProofs!Spec

LEMMA OthersRun == AllSpec /\ on \notin {"serial", "faulty"} => [](on \notin {"serial", "faulty"})
<1>1. on \notin {"serial", "faulty"} /\ [AllNext]_allVars => (on \notin {"serial", "faulty"})'
  BY DEF AllNext, InQueue, InUpload, InSession, allVars
<1>. QED
  BY <1>1, PTL DEF AllSpec

\* resumeUpload ends with the document, the session never forgets a chunk that it
\* acknowledged and can read again what it will not ask for; with requests that
\* overlap and transactions that fail, done and completed still mean that the
\* document exists.
THEOREM UploadsAreKept == AllSpec => []UploadsSurvive
<1>1. AllSpec /\ on = "serial"
        => [](SerialProofs!QueuedUploadsSurvive
              /\ SerialProofs!AcksAreKept /\ SerialProofs!ReceivedChunksOnDisk)
  BY SerialRuns, SerialIsSound, SerialProofs!UploadsSurviveTheQueue, SerialProofs!ChunksAreKept, PTL
<1>2. AllSpec /\ on = "faulty"
        => [](FaultyProofs!DoneMeansStored /\ FaultyProofs!CompletedMeansStored)
  BY FaultyRuns, FaultyIsWellFormed, FaultyProofs!DoneIsTrue, PTL
<1>3. on = "serial" /\ SerialProofs!QueuedUploadsSurvive
        /\ SerialProofs!AcksAreKept /\ SerialProofs!ReceivedChunksOnDisk => UploadsSurvive
  BY DEF UploadsSurvive, Serial!QueuedUploadsSurvive, SerialProofs!QueuedUploadsSurvive,
         Serial!AcksAreKept, SerialProofs!AcksAreKept,
         Serial!ReceivedChunksOnDisk, SerialProofs!ReceivedChunksOnDisk
<1>4. on = "faulty" /\ FaultyProofs!DoneMeansStored /\ FaultyProofs!CompletedMeansStored
        => UploadsSurvive
  BY DEF UploadsSurvive, Faulty!DoneMeansStored, FaultyProofs!DoneMeansStored,
         Faulty!CompletedMeansStored, FaultyProofs!CompletedMeansStored
<1>5. on \notin {"serial", "faulty"} => UploadsSurvive
  BY DEF UploadsSurvive
<1>6. on = "serial" \/ on = "faulty" \/ on \notin {"serial", "faulty"}
  OBVIOUS
<1>. QED
  BY <1>1, <1>2, <1>3, <1>4, <1>5, <1>6, SerialRuns, FaultyRuns, OthersRun, PTL

\* complete_upload can be replayed: after a document was produced no complete is
\* answered by an error, one request after the other.
THEOREM CompletesReplay == AllSpec => CompleteIsReplayable
<1>1. AllSpec /\ on = "serial" => [][SerialProofs!CompleteStep]_SerialProofs!vars
  BY SerialRuns, SerialIsSound, SerialProofs!CompleteReplays, PTL
     DEF SerialProofs!CompleteIsReplayable
<1>2. on = "serial" /\ [SerialProofs!CompleteStep]_SerialProofs!vars
        => (on = "serial" => Serial!CompleteStep)
  BY DEF SerialProofs!CompleteStep, Serial!CompleteStep, SerialProofs!Req, Serial!Req,
         SerialProofs!vars, SerialProofs!requests
<1>3. ~(on = "serial") /\ [AllNext]_allVars => (~(on = "serial"))'
  BY DEF AllNext, InQueue, InUpload, InSession, allVars
<1>. QED
  BY <1>1, <1>2, <1>3, SerialRuns, PTL DEF AllSpec, CompleteIsReplayable

\* While an upload is under way on the sound server, each step is one of the promise, or
\* none of it is seen; before and after the mapping the part that runs is the same.
LEMMA PromiseKept ==
  (on = "serial" => SerialProofs!SerialInv) /\ [AllNext]_allVars => [Promise!DNext]_Promise!dvars
<1> SUFFICES ASSUME on = "serial" => SerialProofs!SerialInv, [AllNext]_allVars
             PROVE  [Promise!DNext]_Promise!dvars
  OBVIOUS
<1>1. UNCHANGED on
  BY DEF AllNext, InQueue, InUpload, InSession, allVars
<1>2. CASE on # "serial"
  BY <1>1, <1>2 DEF Promise!dvars
<1>3. CASE on = "serial"
  <2>1. [SerialProofs!Next]_SerialProofs!vars
    BY <1>3, SerialSame DEF AllNext, InQueue, InUpload, InSession, allVars
  <2>2. [SerialProofs!Promise!DNext]_SerialProofs!Promise!dvars
    BY <1>3, <2>1, SerialIsSound, SerialProofs!PromiseStep
  <2>3. (on = "serial" /\ upload # None)' = (upload # None)'
    BY <1>1, <1>3
  <2>. QED
    BY <1>1, <1>3, <2>2
       DEF SerialProofs!Promise!DNext, SerialProofs!Promise!dvars, SerialProofs!Promise!OpenSession,
           SerialProofs!Promise!Receive, SerialProofs!Promise!Store, SerialProofs!Promise!Tell,
           SerialProofs!Chunk,
           Promise!DNext, Promise!dvars, Promise!OpenSession, Promise!Receive, Promise!Store,
           Promise!Tell
<1>. QED
  BY <1>2, <1>3

\* An upload on the sound server makes its document once, from all its chunks, however
\* often its requests are sent again, and the device is told of no other.
THEOREM PromiseIsKept == AllSpec => UploadsKeepPromise
<1>1. AllInit => Promise!DInit
  <2>1. AllInit /\ on = "serial" => upload = None /\ documents = 0 /\ step = "create"
    BY DEF AllInit, Serial!Init
  <2>. QED
    BY <2>1 DEF Promise!DInit
<1>2. AllSpec /\ on = "serial" => []SerialProofs!SerialInv
  BY SerialRuns, SerialIsSound, SerialProofs!Serial, PTL
<1>3. ~(on = "serial") /\ [AllNext]_allVars => (~(on = "serial"))'
  BY DEF AllNext, InQueue, InUpload, InSession, allVars
<1>4. AllSpec => [](on = "serial" => SerialProofs!SerialInv)
  BY <1>2, <1>3, PTL DEF AllSpec
<1>. QED
  BY <1>1, <1>4, PromiseKept, PTL DEF AllSpec, UploadsKeepPromise, Promise!DSpec

-----------------------------------------------------------------------------
\* The session of the user.  Its bootstrap runs twice in strict mode, one pass is
\* live; a pass that is not can still set the cookie.

BootType == [at : {"refresh", "me", "over"}, as : User \cup {None}, live : BOOLEAN]
CallType == [do : {"signin", "signout", "refresh", "onboard"}, who : User]

\* The live pass tells the state from "loading"; it signs in the owner of the cookie,
\* which no other pass drops.
BootsAgree ==
  /\ boot \in [1..2 -> BootType]
  /\ \E i \in 1..2 : boot[i].live
  /\ \A i, j \in 1..2 : boot[i].live /\ boot[j].live => i = j
  /\ \A i \in 1..2 :
       /\ boot[i].live => (boot[i].at = "over" <=> status # "loading")
       /\ boot[i].at = "me" => boot[i].live /\ boot[i].as = cookie
                               /\ cookie # None /\ cookie \notin expired

\* One call of session at a time, after the bootstrap, sent for who is signed in.
OneCall ==
  /\ asked \subseteq CallType
  /\ \A b, c \in asked : b = c
  /\ asked # {} => \A i \in 1..2 : boot[i].at = "over"
  /\ \A c \in asked : c.do = "refresh" => status = "authenticated" /\ c.who = cookie

\* The name, the token, the list and the cookie are of one user while somebody is
\* signed in; otherwise nothing is left of a token.
OneUser ==
  /\ status \in {"loading", "unauthenticated", "authenticated"}
  /\ {user, token, cookie} \subseteq User \cup {None}
  /\ status # "authenticated" => token = None /\ orgs = Session!Idle
  /\ status = "authenticated" =>
       /\ token # None /\ user = token /\ cookie = token
       /\ orgs \in [st : {"loading", "paused", "error", "empty", "some"}, of : {token}]
       /\ (\E i \in 1..2 : boot[i].at # "over") => cookie \notin expired

SessionInv == BootsAgree /\ OneCall /\ OneUser

LEMMA SessionInit == Session!Init => SessionInv
<1> SUFFICES ASSUME Session!Init PROVE SessionInv
  OBVIOUS
<1>1. StrictMode \in BOOLEAN
  BY DeviceAssumption DEF Session!ConstantsAssumption
<1>2. boot = [i \in 1..2 |-> IF i = 2 /\ ~StrictMode THEN [at |-> "over", as |-> None, live |-> FALSE]
                   ELSE [at |-> "refresh", as |-> None, live |-> StrictMode => i = 2]]
  BY DEF Session!Init, Session!Boot, Session!NoBoot
<1>3. boot \in [1..2 -> BootType] /\ \A i \in 1..2 : boot[i].at # "me"
  BY <1>1, <1>2 DEF BootType
<1>4. ASSUME StrictMode PROVE BootsAgree
  <2>1. /\ boot[1] = [at |-> "refresh", as |-> None, live |-> StrictMode => 1 = 2]
        /\ boot[2] = [at |-> "refresh", as |-> None, live |-> StrictMode => 2 = 2]
    BY <1>2, <1>4
  <2>2. (StrictMode => 1 = 2) = FALSE /\ (StrictMode => 2 = 2) = TRUE
    BY <1>4
  <2>3. boot[1].live = (StrictMode => 1 = 2) /\ boot[2].live = (StrictMode => 2 = 2)
    BY <2>1
  <2>4. ~boot[1].live /\ boot[2].live
    BY <2>2, <2>3
  <2>5. \A i \in 1..2 : boot[i].at = "refresh" /\ (boot[i].live => i = 2)
    BY <2>1, <2>4
  <2>6. \E i \in 1..2 : boot[i].live
    BY <2>4
  <2>7. status = "loading"
    BY DEF Session!Init
  <2>. QED
    BY <1>3, <2>5, <2>6, <2>7 DEF BootsAgree
<1>5. ASSUME ~StrictMode PROVE BootsAgree
  <2>1. /\ boot[1] = [at |-> "refresh", as |-> None, live |-> StrictMode => 1 = 2]
        /\ boot[2] = [at |-> "over", as |-> None, live |-> FALSE]
    BY <1>2, <1>5
  <2>2. (StrictMode => 1 = 2) = TRUE
    BY <1>5
  <2>3. boot[1].live = (StrictMode => 1 = 2) /\ boot[2].live = FALSE
    BY <2>1
  <2>4. boot[1].live /\ ~boot[2].live
    BY <2>2, <2>3
  <2>5. boot[1].at = "refresh" /\ \A i \in 1..2 : boot[i].live => i = 1
    BY <2>1, <2>4
  <2>6. \E i \in 1..2 : boot[i].live
    BY <2>4
  <2>7. status = "loading"
    BY DEF Session!Init
  <2>. QED
    BY <1>3, <2>5, <2>6, <2>7 DEF BootsAgree
<1>6. OneCall /\ OneUser
  BY DEF Session!Init, Session!Idle, OneCall, OneUser
<1>. QED
  BY <1>1, <1>4, <1>5, <1>6 DEF SessionInv

\* What a route leaves of the cookie.
LEMMA CookieAfterRefresh ==
  ASSUME NEW heard \in BOOLEAN
  PROVE  /\ Session!RefreshedCookie(cookie, heard) \in {cookie, None}
         /\ cookie \notin expired => Session!RefreshedCookie(cookie, heard) = cookie
         /\ Session!Valid(cookie, heard) => cookie # None /\ cookie \notin expired
<1>1. CASE ~heard \/ cookie = None
  BY <1>1 DEF Session!RefreshedCookie, Session!Valid
<1>2. CASE heard /\ cookie # None /\ cookie \in expired
  BY <1>2 DEF Session!RefreshedCookie, Session!Valid
<1>3. CASE heard /\ cookie # None /\ cookie \notin expired
  BY <1>3 DEF Session!RefreshedCookie, Session!Valid
<1>. QED
  BY <1>1, <1>2, <1>3

LEMMA BootStep == SessionInv /\ Session!BootEnds => SessionInv'
<1> SUFFICES ASSUME SessionInv, Session!BootEnds PROVE SessionInv'
  OBVIOUS
<1> USE DEF SessionInv, BootsAgree, OneCall, OneUser, BootType, CallType
<1>0. None \notin User
  BY DeviceAssumption DEF Session!ConstantsAssumption
<1>1. ASSUME NEW i \in 1..2, NEW heard \in BOOLEAN, Session!BootRefreshed(i, heard) PROVE SessionInv'
  BY <1>1, <1>0, CookieAfterRefresh DEF Session!BootRefreshed
<1>2. ASSUME NEW i \in 1..2, NEW heard \in BOOLEAN, Session!BootKnown(i, heard) PROVE SessionInv'
  BY <1>2, <1>0 DEF Session!BootKnown, Session!SignIn, Session!NewList
<1>. QED
  BY <1>1, <1>2 DEF Session!BootEnds

LEMMA CallStep ==
  ASSUME SessionInv, NEW what \in {"signin", "signout", "refresh", "onboard"}, NEW u \in User,
         Session!Call(what, u),
         what = "refresh" => status = "authenticated" /\ u = cookie
  PROVE  SessionInv'
BY DEF SessionInv, BootsAgree, OneCall, OneUser, BootType, CallType, Session!Call, Session!Quiet,
       Session!client

LEMMA AnswerStep == SessionInv /\ Session!Answered => SessionInv'
<1> SUFFICES ASSUME SessionInv, Session!Answered PROVE SessionInv'
  OBVIOUS
<1> USE DEF SessionInv, BootsAgree, OneCall, OneUser, BootType, CallType
<1>0. None \notin User
  BY DeviceAssumption DEF Session!ConstantsAssumption
<1>1. PICK c \in asked, heard \in BOOLEAN :
        /\ \/ Session!SignInAnswered(c, heard) \/ Session!SignOutAnswered(c, heard)
           \/ Session!RefreshAnswered(c, heard) \/ Session!OnboardAnswered(c, heard)
        /\ asked' = asked \ {c}
        /\ UNCHANGED <<page, boot>>
  BY DEF Session!Answered
<1>2. asked' = {} /\ \A i \in 1..2 : boot[i].at = "over"
  BY <1>1
<1>3. BootsAgree /\ status' # "loading" => BootsAgree'
  BY <1>1, <1>2
<1>4. CASE Session!SignInAnswered(c, heard)
  BY <1>0, <1>1, <1>2, <1>3, <1>4 DEF Session!SignInAnswered, Session!SignIn, Session!NewList, Session!client
<1>5. CASE Session!SignOutAnswered(c, heard)
  BY <1>0, <1>1, <1>2, <1>3, <1>5 DEF Session!SignOutAnswered, Session!client, Session!Idle
<1>6. CASE Session!RefreshAnswered(c, heard)
  BY <1>0, <1>1, <1>2, <1>3, <1>6, CookieAfterRefresh
     DEF Session!RefreshAnswered, Session!NewList, Session!LoseSession, Session!Idle
<1>7. CASE Session!OnboardAnswered(c, heard)
  BY <1>0, <1>1, <1>2, <1>3, <1>7 DEF Session!OnboardAnswered, Session!Idle
<1>. QED
  BY <1>1, <1>4, <1>5, <1>6, <1>7

LEMMA SessionStep == SessionInv /\ [Session!Next]_Session!vars => SessionInv'
<1> SUFFICES ASSUME SessionInv, [Session!Next]_Session!vars PROVE SessionInv'
  OBVIOUS
<1>0. None \notin User
  BY DeviceAssumption DEF Session!ConstantsAssumption
<1>1. ASSUME UNCHANGED <<status, user, token, orgs, cookie, expired, boot, asked>> PROVE SessionInv'
  BY <1>1 DEF SessionInv, BootsAgree, OneCall, OneUser, BootType, CallType
<1>2. CASE Session!Reload
  BY <1>2, <1>0 DEF Session!Reload, Session!Boot, Session!NoBoot, Session!Idle,
       SessionInv, BootsAgree, OneCall, OneUser, BootType, CallType
<1>3. CASE Session!BootEnds
  BY <1>3, BootStep
<1>4. CASE Session!Answered
  BY <1>4, AnswerStep
<1>5. ASSUME NEW u \in User,
             Session!LoginPage(u) \/ Session!SignupPage(u) \/ Session!ResetPasswordForm(u)
               \/ Session!AcceptInvitationForm(u)
      PROVE  SessionInv'
  BY <1>5, CallStep
     DEF Session!LoginPage, Session!SignupPage, Session!ResetPasswordForm, Session!AcceptInvitationForm
<1>6. ASSUME NEW u \in User, Session!Expire(u) PROVE SessionInv'
  BY <1>6 DEF Session!Expire, Session!Quiet, Session!client,
              SessionInv, BootsAgree, OneCall, OneUser, BootType, CallType
<1>7. CASE Session!AskSignOut \/ Session!AskOnboard
  BY <1>7, CallStep DEF Session!AskSignOut, Session!AskOnboard, SessionInv, OneUser
<1>8. CASE Session!AskRefresh
  BY <1>8, CallStep DEF Session!AskRefresh, SessionInv, OneUser
<1>9. CASE Session!ListAnswered \/ Session!ListPaused \/ Session!ListAgain
  BY <1>9 DEF Session!ListAnswered, Session!ListPaused, Session!ListAgain, Session!SetList,
              Session!Idle, SessionInv, BootsAgree, OneCall, OneUser, BootType, CallType
<1>10. CASE Session!Redirect \/ Session!Navigate \/ Session!ForgotPasswordPage
  BY <1>10, <1>1
     DEF Session!Redirect, Session!RedirectIfAuthenticated, Session!RequireOnboarding,
         Session!RequireOrganization, Session!RequirePlatformAdmin, Session!Navigate,
         Session!ForgotPasswordPage, Session!GoTo, Session!client
<1>11. ASSUME NEW p \in Session!Public, Session!FollowLink(p) PROVE SessionInv'
  BY <1>11, <1>1 DEF Session!FollowLink, Session!GoTo, Session!client
<1>12. CASE UNCHANGED Session!vars
  BY <1>12, <1>1 DEF Session!vars
<1>. QED
  BY <1>2, <1>3, <1>4, <1>5, <1>6, <1>7, <1>8, <1>9, <1>10, <1>11, <1>12 DEF Session!Next

\* Between two calls of session the name shown, the token and the cookie of the next
\* visit are of one user, whatever call failed before and whichever pass of the
\* bootstrap ended first; the organizations offered are those of the token, always.
THEOREM OneUserAtATime == AllSpec => []SessionIsWhole
<1>1. AllInit => SessionInv
  BY SessionInit DEF AllInit
<1>2. [AllNext]_allVars => [Session!Next]_Session!vars
  BY DEF AllNext, InQueue, InUpload, InSession, allVars, sessionVars, Session!vars
<1>3. SessionInv /\ [AllNext]_allVars => SessionInv'
  BY <1>2, SessionStep
<1>4. SessionInv => SessionIsWhole
  <2> SUFFICES ASSUME SessionInv PROVE SessionIsWhole
    OBVIOUS
  <2>1. Session!OrganizationsBelongToToken
    BY DEF SessionInv, OneUser, Session!OrganizationsBelongToToken, Session!Listed, Session!Idle
  <2>2. ASSUME Session!Quiet PROVE status # "loading"
    BY <2>2 DEF SessionInv, BootsAgree, Session!Quiet
  <2>3. Session!SessionIsWhole
    BY <2>2 DEF SessionInv, OneUser, Session!SessionIsWhole
  <2>. QED
    BY <2>1, <2>3 DEF SessionIsWhole
<1>. QED
  BY <1>1, <1>3, <1>4, PTL DEF AllSpec
=============================================================================
