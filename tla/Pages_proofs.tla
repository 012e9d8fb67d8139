---------------------------- MODULE Pages_proofs ----------------------------
(***************************************************************************)
(* Proofs about the pages of a member:                                       *)
(*   the dialog of the movements: a press counts in the stock as its user was   *)
(*     told, but for an answer that could not be read                          *)
(*   the form of a record: what it lets through is accepted, but for a value   *)
(*     held elsewhere; what it saves is what it shows, with its documents       *)
(*   the import: what is imported was announced, what is left out is shown     *)
(*   the editor of a model: no staged field is lost, a move leaves the fields   *)
(*     it has read in the order asked for                                      *)
(* Each page is proved from its own actions alone; AllNext takes one of them   *)
(* and leaves the variables of the others.                                    *)
(***************************************************************************)
EXTENDS MCPages, Sequences, FiniteSetTheorems, TLAPS

Kind    == Tabs \cup {"closed"}
OpType  == [id : Nat, kind : Kind, counted : 0..1, first : {"over", "upload", "sent"},
            off : BOOLEAN]
Stage   == {"none", "paused", "upload", "sent", "served", "over", "cut", "gone"}
Word    == {"nothing", "error", "saved", "queued"}

TypeInv ==
  /\ TypeOK
  /\ confirming # Unknown => tab = "adjustment"
  /\ made \in 0..MaxGestures
  /\ op \in [Gesture -> OpType] /\ applied \in [Gesture -> Nat]
  /\ queue \subseteq OpType

\* A press that is not over has told nothing and left nothing on the device; it has
\* counted once it is served, and not before.
Press(g) ==
  /\ (g <= made) <=> (stage[g] # "none")
  /\ g <= made => op[g].id = g
  /\ applied[g] \in {0, 1}
  /\ stage[g] \in {"none", "paused", "upload", "sent"} => applied[g] = 0
  /\ stage[g] = "served" => applied[g] = 1
  /\ told[g] # "nothing" => stage[g] \in {"over", "cut"}
  /\ stage[g] = "cut" => told[g] = "error"
  /\ told[g] = "saved" => applied[g] = 1
  /\ told[g] = "error" => applied[g] = 0 \/ stage[g] = "cut"
  /\ told[g] = "queued" => applied[g] = 1 \/ op[g] \in queue \/ g \in failed

\* What waits on the device was announced as waiting.
QueueIsTold == \A o \in queue : /\ o.id \in 1..made
                                /\ o = op[o.id] /\ told[o.id] = "queued"

PressInv == TypeInv /\ QueueIsTold /\ \A g \in Gesture : Press(g)
-----------------------------------------------------------------------------
LEMMA TypeInit == ASSUME ConstantsAssumption PROVE Init => TypeInv
BY DEF ConstantsAssumption, Init, TypeInv, TypeOK, Gesture, OpType, Kind, Tabs, Empty, NoOp,
       NoPair, Input, Qty

LEMMA SendType ==
  ASSUME ConstantsAssumption, TypeInv, tab \in Tabs, Send,
         UNCHANGED <<form, confirming, pair, device, server>>
  PROVE  TypeInv'
<1>1. /\ made' = made + 1 /\ made' \in Gesture /\ made' \in 0..MaxGestures
      /\ op' = [op EXCEPT ![made + 1] = Operation(made + 1)]
      /\ here' \in {here, made + 1}
  BY DEF Send, ConstantsAssumption, TypeInv, Gesture
<1>2. First \in {"over", "upload", "sent"}
  BY DEF First
<1>3. Operation(made + 1) \in OpType
  BY <1>1, <1>2 DEF Operation, OpType, TypeInv, TypeOK, Kind, Input
<1>4. /\ stage' \in [Gesture -> Stage]
      /\ told' \in [Gesture -> Word]
  BY <1>1, <1>2 DEF Send, Begin, TypeInv, TypeOK, Stage, Word
<1>5. op' \in [Gesture -> OpType]
  BY <1>1, <1>3 DEF TypeInv
<1>6. here' \in 0..made'
  BY <1>1 DEF TypeInv, TypeOK, ConstantsAssumption
<1>7. UNCHANGED <<tab, values, confirming, pair, signal, queue, level, applied>>
  BY DEF form, device, server
<1>. QED
  BY <1>1, <1>4, <1>5, <1>6, <1>7 DEF TypeInv, TypeOK, Stage, Word

LEMMA ServerType ==
  ASSUME TypeInv, NEW o \in OpType, o.id \in Gesture, Apply(o)
  PROVE  level' \in Qty /\ applied' \in [Gesture -> Nat]
BY DEF TypeInv, TypeOK, Apply

LEMMA TypeStep == ASSUME ConstantsAssumption PROVE PressInv /\ [Next]_vars => TypeInv'
<1> SUFFICES ASSUME PressInv, [Next]_vars PROVE TypeInv'
  OBVIOUS
<1>0. TypeInv /\ \A g \in Gesture : Press(g)
  BY DEF PressInv
<1> USE <1>0 DEF TypeInv, TypeOK
<1>1. ASSUME NEW t \in Tabs, OpenDialog(t) PROVE TypeInv'
  BY <1>1 DEF OpenDialog, Empty, Input, device, server
<1>2. ASSUME NEW v \in Input, Fill(v) PROVE TypeInv'
  BY <1>2 DEF Fill, sends, device, server
<1>3. CASE CloseDialog
  BY <1>3 DEF CloseDialog, Empty, Input, device, server
<1>4. CASE Submit
  <2>1. tab \in Tabs /\ Send /\ UNCHANGED <<form, confirming, pair, device, server>>
    BY <1>4 DEF Submit
  <2>. QED
    BY <2>1, SendType
<1>5. CASE Verify
  BY <1>5 DEF Verify, Input, form, sends, device, server
<1>6. CASE Cancel
  BY <1>6 DEF Cancel, form, sends, device, server
<1>7. CASE Confirm
  <2>1. tab \in Tabs /\ Send /\ UNCHANGED <<form, confirming, pair, device, server>>
    BY <1>7 DEF Confirm, Tabs
  <2>. QED
    BY <2>1, SendType
<1>8. ASSUME NEW g \in Gesture, Uploaded(g) PROVE TypeInv'
  BY <1>8 DEF Uploaded, form, device, server
<1>9. ASSUME NEW g \in Gesture, UploadRefused(g) \/ Refused(g) \/ AnswerUnread(g) PROVE TypeInv'
  BY <1>9 DEF UploadRefused, Refused, AnswerUnread, Fails, Over, form, device, server
<1>10. ASSUME NEW g \in Gesture, Resume(g) PROVE TypeInv'
  <2>1. op[g].first \in {"over", "upload", "sent"}
    BY DEF OpType
  <2>. QED
    BY <1>10, <2>1 DEF Resume, Begin, form, device, server
<1>11. ASSUME NEW g \in Gesture, Served(g) PROVE TypeInv'
  <2>1. op[g].id = g
    BY <1>11 DEF Served, Press
  <2>2. level' \in Qty /\ applied' \in [Gesture -> Nat]
    BY <1>11, <2>1, ServerType DEF Served
  <2>. QED
    BY <1>11, <2>2 DEF Served, form, device
<1>12. ASSUME NEW g \in Gesture, Answered(g) PROVE TypeInv'
  BY <1>12 DEF Answered, Succeeds, Empty, Input, form, device, server
<1>13. ASSUME NEW g \in Gesture, Lost(g) PROVE TypeInv'
  BY <1>13 DEF Lost, Succeeds, Enqueue, Empty, Input, form, server
<1>14. ASSUME NEW o \in queue, Replayed(o) PROVE TypeInv'
  <2>1. o \in OpType /\ o.id \in Gesture
    <3>1. o.id \in 1..made /\ made \in 0..MaxGestures
      BY DEF PressInv, QueueIsTold
    <3>. QED
      BY <3>1 DEF ConstantsAssumption, Gesture
  <2>2. level' \in Qty /\ applied' \in [Gesture -> Nat]
    BY <1>14, <2>1, ServerType DEF Replayed
  <2>. QED
    BY <1>14, <2>2 DEF Replayed, form, sends
<1>15. ASSUME NEW o \in queue, ReplayRefused(o) PROVE TypeInv'
  BY <1>15 DEF ReplayRefused, form, sends, server
<1>16. CASE QuantityShown \/ QuantityFails
  <2>1. pair' \in [known : BOOLEAN, new : BOOLEAN, asked : BOOLEAN]
    <3>1. ASSUME NEW b \in BOOLEAN, pair' = [known |-> TRUE, new |-> b, asked |-> FALSE]
          PROVE  pair' \in [known : BOOLEAN, new : BOOLEAN, asked : BOOLEAN]
      BY <3>1
    <3>2. CASE QuantityShown
      BY <3>1, <3>2 DEF QuantityShown
    <3>3. CASE QuantityFails
      BY <3>3 DEF QuantityFails
    <3>. QED
      BY <1>16, <3>2, <3>3
  <2>. QED
    BY <1>16, <2>1 DEF QuantityShown, QuantityFails, form, sends, device, server
<1>17. CASE Signal
  BY <1>17 DEF Signal, sends, device, server
<1>18. CASE CloseTab
  BY <1>18 DEF CloseTab, Empty, NoPair, Input, device, server
<1>19. CASE UNCHANGED vars
  BY <1>19 DEF vars, form, sends, device, server
<1>. QED
  BY <1>1, <1>2, <1>3, <1>4, <1>5, <1>6, <1>7, <1>8, <1>9, <1>10, <1>11, <1>12, <1>13,
     <1>14, <1>15, <1>16, <1>17, <1>18, <1>19 DEF Next

-----------------------------------------------------------------------------
\* What a press, the device and the server know of it.
counted == <<made, op, stage, told, queue, failed, applied>>

Counts == QueueIsTold /\ \A g \in Gesture : Press(g)

LEMMA SendCounts ==
  ASSUME ConstantsAssumption, PressInv, Send, UNCHANGED <<device, server>>
  PROVE  Counts'
<1>1. /\ made \in Nat /\ made' = made + 1 /\ made' \in Gesture /\ Gesture \subseteq Nat
      /\ op' = [op EXCEPT ![made'] = Operation(made')]
      /\ stage' \in [Gesture -> Stage] /\ told' \in [Gesture -> Word]
      /\ stage'[made'] \in {"over", "upload", "sent", "paused"}
      /\ told'[made'] \in {told[made'], "error"}
      /\ told'[made'] # told[made'] => stage'[made'] = "over"
      /\ \A h \in Gesture : h # made' => stage'[h] = stage[h] /\ told'[h] = told[h]
      /\ UNCHANGED <<queue, failed, applied>>
  <2>1. made \in Nat /\ Gesture \subseteq Nat /\ UNCHANGED <<queue, failed, applied>>
    BY DEF PressInv, TypeInv, Gesture, device, server, ConstantsAssumption
  <2>2. /\ made' = made + 1 /\ made' \in Gesture
        /\ op' = [op EXCEPT ![made'] = Operation(made')]
    BY DEF Send
  <2>3. stage \in [Gesture -> Stage] /\ told \in [Gesture -> Word]
    BY DEF PressInv, TypeInv, TypeOK, Stage, Word
  <2>4. CASE signal = "on"
    <3>1. Begin(made', First) /\ First \in {"over", "upload", "sent"}
      BY <2>2, <2>4 DEF Send, First
    <3>. QED
      BY <2>1, <2>2, <2>3, <3>1 DEF Begin, Stage, Word
  <2>5. CASE signal # "on"
    <3>1. stage' = [stage EXCEPT ![made'] = "paused"] /\ told' = told
      BY <2>2, <2>5 DEF Send
    <3>. QED
      BY <2>1, <2>2, <2>3, <3>1 DEF Stage
  <2>. QED
    BY <2>4, <2>5
<1>2. stage[made'] = "none" /\ told[made'] = "nothing" /\ applied[made'] = 0
  BY <1>1 DEF PressInv, Press
<1>3. op'[made'].id = made' /\ \A h \in Gesture : h # made' => op'[h] = op[h]
  BY <1>1 DEF Operation, PressInv, TypeInv
<1>4. ASSUME NEW h \in Gesture PROVE Press(h)'
  <2>1. CASE h = made'
    BY <1>1, <1>2, <1>3, <2>1 DEF Press
  <2>2. CASE h # made'
    BY <1>1, <1>3, <2>2 DEF Press, PressInv
  <2>. QED
    BY <2>1, <2>2
<1>5. ASSUME NEW o \in queue' PROVE /\ o.id \in 1..made'
                                    /\ o = op'[o.id] /\ told'[o.id] = "queued"
  <2>1. /\ o.id \in 1..made /\ o = op[o.id] /\ told[o.id] = "queued"
    BY <1>1, <1>5 DEF PressInv, QueueIsTold
  <2>2. o.id \in Gesture /\ o.id # made' /\ o.id \in 1..made'
    BY <1>1, <2>1 DEF Gesture, ConstantsAssumption
  <2>. QED
    BY <1>1, <1>3, <2>1, <2>2
<1>. QED
  BY <1>4, <1>5 DEF Counts, QueueIsTold

LEMMA Queued ==
  ASSUME ConstantsAssumption, PressInv, NEW o \in queue
  PROVE  /\ o.id \in Gesture /\ o = op[o.id] /\ told[o.id] = "queued"
         /\ stage[o.id] = "over" /\ o \in OpType
<1>1. /\ o.id \in 1..made /\ o = op[o.id] /\ told[o.id] = "queued" /\ made \in 0..MaxGestures
      /\ o \in OpType
  BY DEF PressInv, QueueIsTold, TypeInv
<1>2. o.id \in Gesture
  BY <1>1 DEF Gesture, ConstantsAssumption
<1>. QED
  BY <1>1, <1>2 DEF PressInv, Press

\* A step that tells one press nothing more than the end of it, and counts nothing.
LEMMA EndCounts ==
  ASSUME ConstantsAssumption, PressInv, NEW g \in Gesture,
         NEW last \in {"over", "cut"}, applied[g] = 0 \/ last = "cut",
         stage[g] \notin {"none", "over", "cut", "gone"}, told'= [told EXCEPT ![g] = "error"],
         stage' = [stage EXCEPT ![g] = last],
         UNCHANGED <<made, op, queue, failed, applied>>
  PROVE  Counts'
<1>1. /\ stage \in [Gesture -> Stage] /\ told \in [Gesture -> Word]
      /\ \A h \in Gesture : Press(h)
  BY DEF PressInv, TypeInv, TypeOK, Stage, Word
<1>2. \A h \in Gesture : Press(h)'
  BY <1>1 DEF Press
<1>3. \A o \in queue : o.id # g
  BY Queued
<1>4. \A o \in queue : o.id \in Gesture
  BY Queued
<1>. QED
  BY <1>1, <1>2, <1>3, <1>4 DEF Counts, QueueIsTold, PressInv

LEMMA PressStep == ASSUME ConstantsAssumption PROVE PressInv /\ [Next]_vars => Counts'
<1> SUFFICES ASSUME PressInv, [Next]_vars PROVE Counts'
  OBVIOUS
<1>0. /\ stage \in [Gesture -> Stage] /\ told \in [Gesture -> Word]
      /\ applied \in [Gesture -> Nat] /\ op \in [Gesture -> OpType]
      /\ QueueIsTold /\ \A g \in Gesture : Press(g)
  BY DEF PressInv, TypeInv, TypeOK, Stage, Word
<1>1. CASE Submit \/ Confirm
  BY <1>1, SendCounts DEF Submit, Confirm
<1>2. ASSUME NEW g \in Gesture, Uploaded(g) PROVE Counts'
  BY <1>0, <1>2 DEF Uploaded, device, server, Counts, QueueIsTold, Press
<1>3. ASSUME NEW g \in Gesture, UploadRefused(g) \/ Refused(g) \/ AnswerUnread(g) PROVE Counts'
  <2>1. CASE UploadRefused(g) \/ Refused(g)
    <3>1. applied[g] = 0 /\ stage[g] \in {"upload", "sent"}
      BY <1>0, <2>1 DEF UploadRefused, Refused, Press
    <3>. QED
      BY <2>1, <3>1, EndCounts DEF UploadRefused, Refused, Fails, Over, device, server
  <2>2. CASE AnswerUnread(g)
    BY <2>2, EndCounts DEF AnswerUnread, Fails, Over, device, server
  <2>. QED
    BY <1>3, <2>1, <2>2
<1>4. ASSUME NEW g \in Gesture, Resume(g) PROVE Counts'
  <2>1. /\ stage[g] = "paused" /\ applied[g] = 0
        /\ UNCHANGED <<made, op, queue, failed, applied>>
    BY <1>0, <1>4 DEF Resume, Press, device, server
  <2>2. CASE op[g].first = "over"
    BY <1>4, <2>1, <2>2, EndCounts DEF Resume, Begin
  <2>3. CASE op[g].first # "over"
    <3>1. /\ told' = told /\ stage' = [stage EXCEPT ![g] = op[g].first]
          /\ op[g].first \in {"upload", "sent"}
      BY <1>0, <1>4, <2>3 DEF Resume, Begin, OpType
    <3>. QED
      BY <1>0, <2>1, <3>1 DEF Counts, QueueIsTold, Press
  <2>. QED
    BY <2>2, <2>3
<1>5. ASSUME NEW g \in Gesture, Served(g) PROVE Counts'
  <2>1. stage[g] = "sent" /\ applied[g] = 0 /\ op[g].id = g
    BY <1>0, <1>5 DEF Served, Press
  <2>2. /\ applied' = [applied EXCEPT ![g] = 1] /\ stage' = [stage EXCEPT ![g] = "served"]
        /\ UNCHANGED <<made, op, told, queue, failed>>
    BY <1>0, <1>5, <2>1 DEF Served, Apply, device
  <2>. QED
    BY <1>0, <2>1, <2>2 DEF Counts, QueueIsTold, Press
<1>6. ASSUME NEW g \in Gesture, Answered(g) PROVE Counts'
  <2>1. /\ stage[g] = "served" /\ applied[g] = 1 /\ told[g] = "nothing"
        /\ stage' = [stage EXCEPT ![g] = "over"] /\ told' = [told EXCEPT ![g] = "saved"]
        /\ UNCHANGED <<made, op, queue, failed, applied>>
    BY <1>0, <1>6 DEF Answered, Succeeds, Press, device, server
  <2>2. \A h \in Gesture : Press(h)'
    BY <1>0, <2>1 DEF Press
  <2>3. \A o \in queue : o.id \in Gesture /\ o.id # g
    BY <2>1, Queued
  <2>. QED
    BY <1>0, <2>1, <2>2, <2>3 DEF Counts, QueueIsTold
<1>7. ASSUME NEW g \in Gesture, Lost(g) PROVE Counts'
  <2>1. /\ stage[g] \in {"sent", "served"}
        /\ stage' = [stage EXCEPT ![g] = "over"] /\ told' = [told EXCEPT ![g] = "queued"]
        /\ queue' = queue \cup {op[g]}
        /\ UNCHANGED <<made, op, failed, applied>>
    BY <1>7 DEF Lost, Succeeds, Enqueue, server
  <2>2. \A h \in Gesture : Press(h)'
    BY <1>0, <2>1 DEF Press
  <2>3. g \in 1..made /\ op[g].id = g
    <3>1. g <= made /\ made \in Nat /\ g \in Nat /\ g > 0
      BY <1>0, <2>1 DEF Press, PressInv, TypeInv, Gesture, ConstantsAssumption
    <3>. QED
      BY <1>0, <3>1 DEF Press
  <2>4. \A o \in queue : o.id \in Gesture
    BY Queued
  <2>. QED
    BY <1>0, <2>1, <2>2, <2>3, <2>4 DEF Counts, QueueIsTold
<1>8. ASSUME NEW o \in queue, Replayed(o) PROVE Counts'
  <2>1. /\ o.id \in Gesture /\ o = op[o.id] /\ told[o.id] = "queued" /\ stage[o.id] = "over"
    BY Queued
  <2>2. /\ applied' = [applied EXCEPT ![o.id] = 1] /\ queue' \in {queue, queue \ {o}}
        /\ UNCHANGED <<made, op, stage, told, failed>>
    <3>1. applied[o.id] > 0 => applied[o.id] = 1 /\ applied' = applied
      BY <1>0, <1>8, <2>1 DEF Replayed, Apply, Press
    <3>2. applied[o.id] = 0 => applied' = [applied EXCEPT ![o.id] = 1]
      BY <1>0, <1>8, <2>1 DEF Replayed, Apply
    <3>3. applied[o.id] \in Nat
      BY <1>0, <2>1
    <3>. QED
      BY <1>0, <1>8, <2>1, <3>1, <3>2, <3>3 DEF Replayed, sends
  <2>3. ASSUME NEW h \in Gesture PROVE Press(h)'
    <3>1. CASE h = o.id
      BY <1>0, <2>1, <2>2, <3>1 DEF Press
    <3>2. CASE h # o.id
      <4>1. applied'[h] = applied[h] /\ (op[h] \in queue /\ h <= made => op[h] \in queue')
        BY <1>0, <2>1, <2>2, <3>2 DEF Press
      <4>2. told[h] = "queued" => h <= made
        BY <1>0 DEF Press
      <4>. QED
        BY <1>0, <2>2, <4>1, <4>2 DEF Press
    <3>. QED
      BY <3>1, <3>2
  <2>. QED
    BY <1>0, <2>2, <2>3 DEF Counts, QueueIsTold
<1>9. ASSUME NEW o \in queue, ReplayRefused(o) PROVE Counts'
  <2>1. /\ o.id \in Gesture /\ o = op[o.id] /\ told[o.id] = "queued" /\ stage[o.id] = "over"
    BY Queued
  <2>2. /\ queue' = queue \ {o} /\ failed' = failed \cup {o.id}
        /\ UNCHANGED <<made, op, stage, told, applied>>
    BY <1>9 DEF ReplayRefused, sends, server
  <2>3. ASSUME NEW h \in Gesture PROVE Press(h)'
    <3>1. told[h] = "queued" => h <= made
      BY <1>0 DEF Press
    <3>2. h # o.id /\ h <= made => op[h] # o
      BY <1>0 DEF Press
    <3>. QED
      BY <1>0, <2>2, <3>1, <3>2 DEF Press
  <2>. QED
    BY <1>0, <2>2, <2>3 DEF Counts, QueueIsTold
<1>10. CASE CloseTab
  <2>1. /\ \A h \in Gesture : /\ stage'[h] \in {stage[h], "gone"}
                              /\ stage[h] \in {"none", "over", "cut"} => stage'[h] = stage[h]
                              /\ stage[h] # "none" => stage'[h] # "none"
        /\ UNCHANGED <<made, op, told, queue, failed, applied>>
    BY <1>0, <1>10 DEF CloseTab, device, server
  <2>2. \A h \in Gesture : Press(h)'
    BY <1>0, <2>1 DEF Press
  <2>. QED
    BY <1>0, <2>1, <2>2 DEF Counts, QueueIsTold
<1>11. CASE UNCHANGED counted
  BY <1>0, <1>11 DEF counted, Counts, QueueIsTold, Press
<1>12. /\ \A t \in Tabs : OpenDialog(t) => UNCHANGED counted
       /\ \A v \in Input : Fill(v) => UNCHANGED counted
       /\ CloseDialog \/ Verify \/ Cancel \/ QuantityShown \/ QuantityFails \/ Signal
            => UNCHANGED counted
       /\ UNCHANGED vars => UNCHANGED counted
  BY DEF OpenDialog, Fill, CloseDialog, Verify, Cancel, QuantityShown, QuantityFails, Signal,
         vars, sends, device, server, counted
<1>. QED
  BY <1>1, <1>2, <1>3, <1>4, <1>5, <1>6, <1>7, <1>8, <1>9, <1>10, <1>11, <1>12 DEF Next

LEMMA PressInductive == ASSUME ConstantsAssumption PROVE PressInv /\ [Next]_vars => PressInv'
BY TypeStep, PressStep DEF PressInv, Counts

LEMMA PressInit == ASSUME ConstantsAssumption PROVE Init => PressInv
<1> SUFFICES ASSUME Init PROVE PressInv
  OBVIOUS
<1>1. ASSUME NEW g \in Gesture PROVE Press(g)
  BY DEF Init, Press, Gesture, ConstantsAssumption
<1>2. QueueIsTold
  BY DEF Init, QueueIsTold
<1>. QED
  BY <1>1, <1>2, TypeInit DEF PressInv

\* Every variable of the dialog keeps its type (movement-dialog.tsx).
THEOREM TypeCorrect == ASSUME ConstantsAssumption PROVE Spec => []TypeOK
<1>1. PressInv => TypeOK
  BY DEF PressInv, TypeInv
<1>. QED
  BY <1>1, PressInit, PressInductive, PTL DEF Spec

\* A press counts once when it was announced as saved; when it was kept for later it counts
\* once, waits, or is in the list of failures; when an error was shown it is not kept, and it
\* counts only if it was recorded and its answer could not be read: for any losses, replays
\* and closings of the tab (movement-dialog.tsx:309-343, http.ts:54).
THEOREM PressesCountAsTold == ASSUME ConstantsAssumption PROVE Spec => []GesturesCountOnce
<1>1. PressInv => GesturesCountOnce
  <2> SUFFICES ASSUME PressInv, NEW g \in Gesture
               PROVE  /\ applied[g] <= 1
                      /\ told[g] = "saved" => applied[g] = 1
                      /\ told[g] = "error" => op[g] \notin queue /\ (applied[g] = 0 \/ stage[g] = "cut")
                      /\ told[g] = "queued" => applied[g] = 1 \/ op[g] \in queue \/ g \in failed
    BY DEF GesturesCountOnce
  <2>1. Press(g) /\ applied[g] <= 1
    BY DEF PressInv, Press
  <2>2. told[g] = "error" => op[g] \notin queue
    <3> SUFFICES ASSUME told[g] = "error", op[g] \in queue PROVE FALSE
      OBVIOUS
    <3>1. op[g].id = g
      BY <2>1 DEF Press, PressInv, TypeInv, Gesture, ConstantsAssumption
    <3>. QED
      BY <3>1, Queued
  <2>. QED
    BY <2>1, <2>2 DEF Press
<1>. QED
  BY <1>1, PressInit, PressInductive, PTL DEF Spec

-----------------------------------------------------------------------------
\* The form of a record, while its user waits for uploads and answers.

\* What is on its way was asked for by the value on screen.
LateIsOfShown ==
  /\ late.what \in {"none", "files", "place"}
  /\ late = [what |-> late.what, of |-> late.of, got |-> late.got, left |-> late.left]
  /\ late.what = "none" <=> late = Form!NoUpload
  /\ late.what = "files" => kind \in {"photo", "document", "due"} /\ late.got \subseteq Item
  /\ late.what = "place" => kind = "position"
  /\ late # Form!NoUpload => formPhase # "sending" /\ (formPhase = "editing" => late.of = shown)

\* The value on screen holds what was attached.
ShownHolds ==
  /\ attached \subseteq Form!Items(shown) /\ attached \subseteq Item
  /\ Form!Items(shown) \subseteq Item
  /\ Form!Main(shown) \in {"blank", "a", "b", "bad", "list"}
  /\ kind \notin {"photo", "document", "due"} => attached = {}
  /\ kind = "multi" => Form!Main(shown) # "bad"

\* What the server makes of a field when its definition is the one of the form.
Accepted(v) == IF v \in {Undef, Null} THEN ~(mode = "create" /\ required)
                                      ELSE Form!Main(v) # "bad"

\* A save holds what was on screen, and what the server takes.
SentIsGood ==
  /\ sent = [value |-> sent.value, touched |-> sent.touched, via |-> sent.via]
  /\ sent.touched \in BOOLEAN
  /\ sent.via = "none" => sent = Form!Unsent /\ formPhase # "sending"
  /\ sent.via # "none" =>
       /\ formPhase # "editing"
       /\ sent.touched => attached \subseteq Form!Items(sent.value)
       /\ ~sent.touched => sent.value = Undef
       /\ kind = "site" \/ Accepted(sent.value)

FormInv ==
  /\ kind \in Kinds /\ required \in BOOLEAN /\ refused \in BOOLEAN
  /\ formPhase \in {"editing", "sending", "gone"}
  /\ mode = "create" => base = Undef
  /\ LateIsOfShown /\ ShownHolds /\ SentIsGood
  /\ sent.via # "none" => ~refused

LEMMA FormConstants ==
  /\ Undef # Null /\ Kinds \subseteq Form!AllKinds
  /\ \A m \in {"blank", "a", "b", "bad", "list"}, s \in SUBSET Item :
       /\ Form!V(m, s) \notin {Undef, Null}
       /\ Form!Main(Form!V(m, s)) = m /\ Form!Items(Form!V(m, s)) = s
BY PagesAssumption DEF Form!ConstantsAssumption, Form!ValueType, Form!V, Form!Main, Form!Items

LEMMA StoredValues ==
  ASSUME NEW v \in Form!Stored(kind)
  PROVE  /\ Form!Items(v) \subseteq Item
         /\ Form!Main(v) \in {"blank", "a", "b", "list"}
<1>1. v \in {Undef, Null} => Form!Items(v) = {} /\ Form!Main(v) = "blank"
  BY DEF Form!Items, Form!Main
<1>2. CASE v \in {Undef, Null}
  BY <1>1, <1>2
<1>3. CASE v \notin {Undef, Null}
  <2>1. \E m \in {"a", "b", "list"}, s \in SUBSET Item : v = Form!V(m, s)
    <3>1. CASE kind = "due"
      <4>1. PICK m \in {"a", "b"}, s \in {{}} \cup {{i} : i \in Item} : v = Form!V(m, s)
        BY <1>3, <3>1 DEF Form!Stored
      <4>2. s \in SUBSET Item
        OBVIOUS
      <4>. QED
        BY <4>1, <4>2
    <3>2. CASE kind = "document"
      <4>0. Form!Stored(kind) = {Undef, Null} \cup {Form!V("list", {i}) : i \in Item}
        BY <3>2 DEF Form!Stored
      <4>1. PICK i \in Item : v = Form!V("list", {i})
        BY <1>3, <4>0
      <4>2. {i} \in SUBSET Item
        OBVIOUS
      <4>. QED
        BY <4>1, <4>2
    <3>3. CASE kind \in {"multi", "photo"}
      <4>1. Form!Stored(kind) = {Undef, Null} \cup {Form!V("list", s) : s \in SUBSET Item}
        BY <3>3 DEF Form!Stored
      <4>. QED
        BY <1>3, <4>1
    <3>4. CASE kind \notin {"due", "document", "multi", "photo"}
      <4>1. Form!Stored(kind) = {Undef, Null} \cup {Form!V(m, {}) : m \in {"a", "b"}}
        BY <3>4 DEF Form!Stored
      <4>2. {} \in SUBSET Item
        OBVIOUS
      <4>. QED
        BY <1>3, <4>1, <4>2
    <3>. QED
      BY <3>1, <3>2, <3>3, <3>4
  <2>. QED
    BY <2>1, FormConstants
<1>. QED
  BY <1>2, <1>3

LEMMA FormInit == Form!Init => FormInv
<1> SUFFICES ASSUME Form!Init PROVE FormInv
  OBVIOUS
<1>1. stored \in Form!Stored(kind)
  <2>1. Undef \in Form!Stored(kind)
    BY DEF Form!Stored
  <2>. QED
    BY <2>1 DEF Form!Init
<1>2. Form!Items(shown) \subseteq Item /\ Form!Main(shown) \in {"blank", "a", "b", "list"}
  <2>1. CASE stored = Null
    BY <2>1 DEF Form!Init, Form!Items, Form!Main
  <2>2. CASE stored # Null
    BY <1>1, <2>2, StoredValues DEF Form!Init
  <2>. QED
    BY <2>1, <2>2
<1>3. mode = "create" => base = Undef
  BY DEF Form!Init
<1>. QED
  BY <1>2, <1>3 DEF Form!Init, Form!NoUpload, Form!Unsent, FormInv, LateIsOfShown, ShownHolds, SentIsGood

\* What a gesture makes of the value on screen.
LEMMA GestureValues ==
  ASSUME FormInv, NEW v \in Form!Gestures
  PROVE  /\ Form!Items(v) \subseteq Item
         /\ Form!Main(v) \in {"blank", "a", "b", "bad", "list"}
         /\ kind = "multi" => Form!Main(v) # "bad"
<1>1. kind \in Form!AllKinds /\ Form!Items(shown) \subseteq Item
      /\ Form!Main(shown) \in {"blank", "a", "b", "bad", "list"}
  BY FormConstants DEF FormInv, ShownHolds
<1>2. \/ v \in {Undef, Null}
      \/ \E m \in {"blank", "a", "b", "bad", "list"}, s \in SUBSET Item :
           v = Form!V(m, s) /\ (kind = "multi" => m = "list")
  <2>1. CASE kind = "multi"
    <3>1. v \in Form!MultiSelectField
      BY <2>1 DEF Form!Gestures
    <3>2. PICK i \in Item :
            v = Form!V("list", (Form!Items(shown) \cup {i}) \ (Form!Items(shown) \cap {i}))
      BY <3>1 DEF Form!MultiSelectField
    <3>3. (Form!Items(shown) \cup {i}) \ (Form!Items(shown) \cap {i}) \in SUBSET Item
      BY <1>1
    <3>. QED
      BY <3>2, <3>3
  <2>2. CASE kind = "photo"
    <3>1. v \in Form!PhotoChips
      BY <2>2 DEF Form!Gestures
    <3>. QED
      BY <1>1, <2>2, <3>1 DEF Form!PhotoChips
  <2>3. CASE kind = "due"
    <3>1. v \in Form!DueDateControl
      BY <2>3 DEF Form!Gestures
    <3>. QED
      BY <1>1, <2>3, <3>1 DEF Form!DueDateControl
  <2>4. CASE kind \in Form!AllKinds \ {"multi", "photo", "due"}
    <3>1. v \in {Undef, Null} \cup {Form!V(m, {}) : m \in {"blank", "a", "b", "bad"}}
      BY <2>4 DEF Form!Gestures, Form!AllKinds, Form!TextControl, Form!NumberControl, Form!DateControl,
                  Form!BooleanControl, Form!SelectField, Form!PositionField, Form!RecordLinkField,
                  Form!DocumentControl
    <3>. QED
      BY <2>4, <3>1
  <2>. QED
    BY <1>1, <2>1, <2>2, <2>3, <2>4
<1>3. v \in {Undef, Null} => Form!Items(v) = {} /\ Form!Main(v) = "blank"
  BY DEF Form!Items, Form!Main
<1>. QED
  BY <1>2, <1>3, FormConstants

LEMMA ChangeKeepsForm == ASSUME FormInv, NEW v \in Form!Gestures, Form!Change(v) PROVE FormInv'
<1>1. /\ shown' = v /\ attached' = attached \cap Form!Items(v)
      /\ formPhase = "editing" /\ late = Form!NoUpload
      /\ UNCHANGED <<kind, required, mode, base, def, late, formPhase, sent, refused>>
  BY DEF Form!Change, Form!Waits, Form!Open, Form!form, Form!others, FormInv
<1>2. ShownHolds'
  BY <1>1, GestureValues DEF FormInv, ShownHolds, Form!Items, Form!Main
<1>3. LateIsOfShown'
  BY <1>1 DEF FormInv, LateIsOfShown, Form!NoUpload
<1>4. SentIsGood'
  BY <1>1 DEF FormInv, SentIsGood, Form!Unsent
<1>. QED
  BY <1>1, <1>2, <1>3, <1>4 DEF FormInv

LEMMA UploadsKeepForm ==
  ASSUME FormInv,
         (\E n \in 1..2 : Form!Attach(n)) \/ Form!Locate \/ (\E i \in Item : Form!FileArrives(i))
           \/ Form!FileFails \/ Form!PlaceArrives
  PROVE  FormInv'
<1> DEFINE Kept == UNCHANGED <<kind, required, mode, base, def, formPhase, sent, refused>>
<1>1. Kept
  BY DEF Form!Attach, Form!Locate, Form!FileArrives, Form!FileFails, Form!PlaceArrives, Form!form, Form!others
<1>2. SentIsGood /\ formPhase = "editing" => SentIsGood'
  BY <1>1 DEF SentIsGood, Form!Unsent
<1>3. ASSUME UNCHANGED <<shown, attached>>, LateIsOfShown' PROVE FormInv'
  <2>1. ShownHolds'
    BY <1>1, <1>3 DEF FormInv, ShownHolds, Form!Items, Form!Main
  <2>2. SentIsGood'
    BY <1>1, <1>3 DEF FormInv, SentIsGood, Form!Items, Form!Main, Form!Unsent, Accepted
  <2>. QED
    BY <1>1, <1>3, <2>1, <2>2 DEF FormInv
<1>4. ASSUME NEW n \in 1..2, Form!Attach(n) PROVE FormInv'
  <2>1. LateIsOfShown'
    BY <1>1, <1>4 DEF Form!Attach, Form!Waits, Form!Open, Form!NoUpload, FormInv, LateIsOfShown
  <2>. QED
    BY <1>3, <1>4, <2>1 DEF Form!Attach
<1>5. CASE Form!Locate
  <2>1. LateIsOfShown'
    BY <1>1, <1>5 DEF Form!Locate, Form!Waits, Form!Open, Form!NoUpload, FormInv, LateIsOfShown
  <2>. QED
    BY <1>3, <1>5, <2>1 DEF Form!Locate
<1>6. ASSUME NEW v, NEW docs, Form!Settle(v, docs), late # Form!NoUpload,
             Form!Open => /\ Form!Items(v) \subseteq Item
                          /\ Form!Main(v) \in {"blank", "a", "b", "bad", "list"}
                          /\ docs \subseteq Form!Items(v)
                          /\ docs = {} \/ kind = "photo" => attached \subseteq Form!Items(v)
                          /\ kind \notin {"photo", "document", "due"} => docs = {}
                          /\ kind = "multi" => Form!Main(v) # "bad"
      PROVE  FormInv'
  <2>1. LateIsOfShown'
    BY <1>6 DEF Form!Settle, Form!NoUpload, LateIsOfShown
  <2>2. CASE ~Form!Open
    BY <1>3, <1>6, <2>1, <2>2 DEF Form!Settle
  <2>3. CASE Form!Open
    <3>1. shown' = v /\ attached' = IF kind = "photo" \/ docs = {} THEN attached \cup docs ELSE docs
      BY <1>6, <2>3 DEF Form!Settle
    <3>2. ShownHolds'
      BY <1>1, <1>6, <2>3, <3>1 DEF FormInv, ShownHolds, Form!Items, Form!Main
    <3>3. formPhase = "editing"
      BY <1>6, <2>3 DEF FormInv, LateIsOfShown, Form!Open
    <3>. QED
      BY <1>1, <1>2, <2>1, <3>2, <3>3 DEF FormInv
  <2>. QED
    BY <2>2, <2>3
<1>7. ASSUME late.what = "files", NEW got \in SUBSET Item, Form!Open
      PROVE  LET v == Form!WithFiles(got)
             IN /\ Form!Items(v) \subseteq Item
                /\ Form!Main(v) \in {"blank", "a", "b", "bad", "list"}
                /\ got \subseteq Form!Items(v)
                /\ kind = "photo" => attached \subseteq Form!Items(v)
  <2>1. late # Form!NoUpload /\ late.of = shown /\ Form!Items(shown) \cup got \in SUBSET Item
    BY <1>7 DEF FormInv, LateIsOfShown, ShownHolds, Form!Open
  <2>2. CASE kind = "photo"
    <3>1. Form!WithFiles(got) = Form!V("list", Form!Items(shown) \cup got)
      BY <2>1, <2>2 DEF Form!WithFiles
    <3>. QED
      BY <2>1, <3>1, FormConstants DEF FormInv, ShownHolds
  <2>3. CASE kind # "photo"
    <3>1. \E m \in {"blank", "a", "b", "bad", "list"} : Form!WithFiles(got) = Form!V(m, got)
      BY <2>1, <2>3 DEF Form!WithFiles, FormInv, ShownHolds
    <3>. QED
      BY <2>3, <3>1, FormConstants
  <2>. QED
    BY <2>2, <2>3
<1>8. ASSUME NEW i \in Item, Form!FileArrives(i) PROVE FormInv'
  <2>1. late.what = "files" /\ late # Form!NoUpload /\ late.got \cup {i} \in SUBSET Item
        /\ kind \in {"photo", "document", "due"}
    BY <1>8 DEF Form!FileArrives, FormInv, LateIsOfShown
  <2>2. CASE late.left > 1
    <3>1. UNCHANGED <<shown, attached>>
      BY <1>8, <2>2 DEF Form!FileArrives
    <3>2. late' = [what |-> "files", of |-> late.of, got |-> late.got \cup {i}, left |-> late.left - 1]
      BY <1>8, <2>1, <2>2 DEF Form!FileArrives, FormInv, LateIsOfShown
    <3>3. LateIsOfShown'
      BY <1>1, <2>1, <3>1, <3>2 DEF FormInv, LateIsOfShown, Form!NoUpload
    <3>. QED
      BY <1>3, <3>1, <3>3
  <2>3. CASE ~(late.left > 1)
    <3> DEFINE got == late.got \cup {i}
    <3>1. Form!Settle(Form!WithFiles(got), got)
      BY <1>8, <2>3 DEF Form!FileArrives
    <3>2. got \in SUBSET Item /\ got # {} /\ kind # "multi"
      BY <2>1
    <3> HIDE DEF got
    <3>3. Form!Open => /\ Form!Items(Form!WithFiles(got)) \subseteq Item
                       /\ Form!Main(Form!WithFiles(got)) \in {"blank", "a", "b", "bad", "list"}
                       /\ got \subseteq Form!Items(Form!WithFiles(got))
                       /\ kind = "photo" => attached \subseteq Form!Items(Form!WithFiles(got))
      BY <1>7, <2>1, <3>2
    <3>. QED
      BY <1>6, <2>1, <3>1, <3>2, <3>3
  <2>. QED
    BY <2>2, <2>3
<1>9. CASE Form!FileFails
  <2>1. late.what = "files" /\ late # Form!NoUpload /\ late.got \in SUBSET Item
        /\ kind \in {"photo", "document", "due"}
    BY <1>9 DEF Form!FileFails, FormInv, LateIsOfShown
  <2>2. CASE late.got = {}
    <3>1. Form!Settle(shown, {})
      BY <1>9, <2>2 DEF Form!FileFails, Form!FilesKept
    <3>. QED
      BY <1>6, <2>1, <3>1 DEF FormInv, ShownHolds
  <2>3. CASE late.got # {}
    <3>1. Form!Settle(Form!WithFiles(late.got), late.got)
      BY <1>9, <2>3 DEF Form!FileFails, Form!FilesKept
    <3>2. kind # "multi"
      BY <2>1
    <3>. QED
      BY <1>6, <1>7, <2>1, <2>3, <3>1, <3>2
  <2>. QED
    BY <2>2, <2>3
<1>10. CASE Form!PlaceArrives
  <2>1. kind = "position" /\ late # Form!NoUpload /\ attached = {}
    BY <1>10 DEF Form!PlaceArrives, FormInv, LateIsOfShown, ShownHolds
  <2>2. Form!Settle(Form!V("a", {}), {}) => FormInv'
    BY <1>6, <2>1, FormConstants
  <2>3. Form!Settle(shown, {}) => FormInv'
    BY <1>6, <2>1 DEF FormInv, ShownHolds
  <2>. QED
    BY <1>10, <2>2, <2>3 DEF Form!PlaceArrives
<1>. QED
  BY <1>4, <1>5, <1>8, <1>9, <1>10

\* What a save sends is what the server takes, as far as the definition goes.
LEMMA FormTakesGood == ASSUME FormInv, Form!FormTakes(shown) PROVE kind = "site" \/ Accepted(shown)
<1>1. CASE Form!Empty(shown)
  BY <1>1 DEF Form!FormTakes, Form!Empty, Form!Blank, Form!V, Form!Main, Accepted, FormInv, ShownHolds
<1>2. CASE ~Form!Empty(shown)
  BY <1>2 DEF Form!FormTakes, Form!Empty, Form!WellFormed, Accepted
<1>. QED
  BY <1>1, <1>2

LEMMA SubmitKeepsForm == ASSUME FormInv, Form!Submit PROVE FormInv'
<1>1. /\ formPhase = "editing" /\ formPhase' = "sending" /\ late = Form!NoUpload
      /\ sent' = [value |-> IF Form!Sends THEN shown ELSE Undef, touched |-> Form!Touched, via |-> "form"]
      /\ refused' = FALSE
      /\ UNCHANGED <<kind, required, mode, base, def, shown, late, attached>>
  BY DEF Form!Submit, Form!Waits, Form!form, Form!others
<1>2. kind = "site" \/ Accepted(shown)
  BY FormTakesGood DEF Form!Submit
<1>3. Form!Touched \in BOOLEAN
  BY DEF Form!Touched
<1>4. SentIsGood'
  <2>1. sent'.value = (IF Form!Sends THEN shown ELSE Undef) /\ sent'.touched = Form!Touched /\ sent'.via = "form"
    BY <1>1
  <2>2. sent'.touched <=> shown # base
    BY <2>1 DEF Form!Touched
  <2>3. Form!Touched => sent'.value = shown
    BY <2>1 DEF Form!Sends
  <2>4. ~Form!Touched => sent'.value = Undef
    BY <2>1 DEF Form!Sends, Form!Touched, FormInv
  <2>5. kind = "site" \/ Accepted(sent'.value)
    BY <1>2, <2>1 DEF Form!Sends, Accepted, FormInv
  <2>. QED
    BY <1>1, <1>3, <2>1, <2>2, <2>3, <2>4, <2>5
       DEF SentIsGood, FormInv, ShownHolds, Accepted, Form!Items, Form!Main, Form!Touched
<1>5. ShownHolds' /\ LateIsOfShown'
  BY <1>1 DEF FormInv, ShownHolds, LateIsOfShown, Form!Items, Form!Main, Form!NoUpload
<1>. QED
  BY <1>1, <1>4, <1>5 DEF FormInv

LEMMA ServerTakesGood ==
  ASSUME FormInv, sent.via # "none", ~Form!ServerTakes(Form!Received)
  PROVE  def # "same" \/ Form!HeldElsewhere(sent.value)
<1> SUFFICES ASSUME def = "same", ~Form!HeldElsewhere(sent.value) PROVE FALSE
  OBVIOUS
<1>1. kind # "site"
  BY DEF Form!ServerTakes
<1>2. Form!Received = sent.value /\ Accepted(sent.value)
  BY <1>1 DEF Form!Received, FormInv, SentIsGood
<1> DEFINE v == sent.value
<1>3. CASE v = Undef
  BY <1>1, <1>2, <1>3 DEF Form!ServerTakes, Accepted
<1>4. CASE v = Null
  BY <1>1, <1>2, <1>4, FormConstants DEF Form!ServerTakes, Accepted
<1>5. CASE v \notin {Undef, Null}
  BY <1>1, <1>2, <1>5 DEF Form!ServerTakes, Accepted
<1>. QED
  BY <1>3, <1>4, <1>5

\* An answer to a save.
LEMMA HandleIsFair ==
  ASSUME FormInv, sent.via # "none", Form!Handle
  PROVE  /\ refused' \in BOOLEAN
         /\ refused' => refused \/ def # "same" \/ Form!HeldElsewhere(sent.value)
BY ServerTakesGood DEF Form!Handle, FormInv

LEMMA FormStep == FormInv /\ [Form!Next]_Form!vars => FormInv'
<1> SUFFICES ASSUME FormInv, [Form!Next]_Form!vars PROVE FormInv'
  OBVIOUS
<1>1. ASSUME UNCHANGED <<kind, required, mode, base, shown, late, attached>>,
             formPhase' \in {formPhase, "gone"}, formPhase' = "sending" => sent' = sent,
             refused' \in BOOLEAN, refused' = refused \/ sent' = Form!Unsent,
             sent' = sent \/ sent' = Form!Unsent
                \/ (formPhase' = "gone" /\ sent.via # "none" /\ sent' = [sent EXCEPT !.via = "queue"])
      PROVE  FormInv'
  <2>1. LateIsOfShown' /\ ShownHolds'
    BY <1>1 DEF FormInv, LateIsOfShown, ShownHolds, Form!Items, Form!Main, Form!NoUpload
  <2>2. SentIsGood'
    <3>1. CASE sent' = Form!Unsent
      BY <1>1, <3>1 DEF FormInv, SentIsGood, Form!Unsent
    <3>2. CASE sent' = sent
      BY <1>1, <3>2 DEF FormInv, SentIsGood, Form!Items, Form!Main, Accepted, Form!Unsent
    <3>3. CASE formPhase' = "gone" /\ sent.via # "none" /\ sent' = [sent EXCEPT !.via = "queue"]
      <4>1. sent' = [value |-> sent.value, touched |-> sent.touched, via |-> "queue"]
        BY <3>3 DEF FormInv, SentIsGood
      <4>. QED
        BY <1>1, <3>3, <4>1 DEF FormInv, SentIsGood, Form!Items, Form!Main, Accepted, Form!Unsent
    <3>. QED
      BY <1>1, <3>1, <3>2, <3>3
  <2>3. sent'.via # "none" => ~refused'
    BY <1>1 DEF FormInv, Form!Unsent
  <2>. QED
    BY <1>1, <2>1, <2>2, <2>3 DEF FormInv
<1>2. ASSUME NEW v \in Form!Gestures, Form!Change(v) PROVE FormInv'
  BY <1>2, ChangeKeepsForm
<1>3. ASSUME (\E n \in 1..2 : Form!Attach(n)) \/ Form!Locate \/ (\E i \in Item : Form!FileArrives(i))
               \/ Form!FileFails \/ Form!PlaceArrives
      PROVE  FormInv'
  BY <1>3, UploadsKeepForm
<1>4. CASE Form!Submit
  BY <1>4, SubmitKeepsForm
<1>5. CASE Form!SaveAnswered
  <2>1. /\ UNCHANGED <<kind, required, mode, base, def, shown, late, attached>>
        /\ formPhase = "sending" /\ Form!Handle /\ sent' = Form!Unsent
        /\ formPhase' = "editing" \/ formPhase' = "gone"
    BY <1>5 DEF Form!SaveAnswered, Form!form, Form!others, Form!Leave
  <2>2. late = Form!NoUpload
    BY <2>1 DEF FormInv, LateIsOfShown
  <2>3. refused' \in BOOLEAN
    BY <2>1, HandleIsFair DEF FormInv, SentIsGood
  <2>4. LateIsOfShown' /\ ShownHolds' /\ SentIsGood'
    BY <2>1, <2>2 DEF FormInv, LateIsOfShown, ShownHolds, Form!Items, Form!Main, SentIsGood,
                      Form!Unsent, Form!NoUpload
  <2>. QED
    BY <2>1, <2>3, <2>4 DEF FormInv, Form!Unsent
<1>6. CASE Form!SaveQueued
  <2>1. sent.via # "none"
    BY <1>6 DEF Form!SaveQueued, FormInv, SentIsGood
  <2>. QED
    BY <1>1, <1>6, <2>1 DEF Form!SaveQueued, Form!Leave, Form!form, Form!others, FormInv
<1>7. CASE Form!QueueDelivers
  <2>1. refused' \in BOOLEAN
    BY <1>7, HandleIsFair DEF Form!QueueDelivers
  <2>. QED
    BY <1>1, <1>7, <2>1 DEF Form!QueueDelivers, Form!form, Form!others
<1>8. ASSUME NEW d \in {"required", "withdrawn"}, Form!Redefine(d) PROVE FormInv'
  BY <1>1, <1>8 DEF Form!Redefine, Form!form, Form!others, FormInv
<1>9. ASSUME NEW v, Form!Colleague(v) PROVE FormInv'
  BY <1>1, <1>9 DEF Form!Colleague, Form!form, Form!others, FormInv
<1>a. ASSUME NEW m, Form!TakenElsewhere(m) PROVE FormInv'
  BY <1>1, <1>a DEF Form!TakenElsewhere, Form!form, FormInv
<1>10. CASE Form!ClickLink \/ Form!CancelLeave \/ Form!GoAway
  BY <1>1, <1>10 DEF Form!ClickLink, Form!CancelLeave, Form!GoAway, Form!Leave, Form!form, Form!others, FormInv
<1>11. ASSUME (\E s \in BOOLEAN : Form!OpenCamera(s)) \/ Form!CameraAnswers \/ Form!FreezeOrResume
                \/ Form!CloseCamera \/ Form!LateCamera
       PROVE  FormInv'
  BY <1>1, <1>11
     DEF Form!OpenCamera, Form!CameraAnswers, Form!FreezeOrResume, Form!CloseCamera, Form!LateCamera,
         Form!form, Form!others, FormInv
<1>12. CASE UNCHANGED Form!vars
  BY <1>1, <1>12 DEF Form!vars, Form!form, Form!others, FormInv
<1>. QED
  BY <1>2, <1>3, <1>4, <1>5, <1>6, <1>7, <1>8, <1>9, <1>a, <1>10, <1>11, <1>12 DEF Form!Next

LEMMA InitIsFormInit == AllInit => Form!Init
BY DEF AllInit, Form!Init

LEMMA AllNextIsFormNext == [AllNext]_allVars => [Form!Next]_Form!vars
<1>1. UNCHANGED formVars => UNCHANGED Form!vars
  BY DEF formVars, Form!vars, Form!form, Form!others, Form!cam
<1>2. InForm /\ Form!Next => Form!Next
  OBVIOUS
<1>3. (InConsole \/ InModels \/ InMovement \/ InImport \/ UNCHANGED allVars) => UNCHANGED formVars
  BY DEF InConsole, InModels, InMovement, InImport, allVars
<1>. QED
  BY <1>1, <1>2, <1>3 DEF AllNext

\* A save holds every document that was transferred and not taken off, also when a later
\* one of the same drop failed (field-renderer.tsx, the controls of files).
THEOREM AttachmentsKept == AllSpec => []AttachmentsAreSaved
<1>1. FormInv => AttachmentsAreSaved
  BY DEF FormInv, SentIsGood, AttachmentsAreSaved, Form!AttachmentsAreSaved
<1>. QED
  BY <1>1, InitIsFormInit, AllNextIsFormNext, FormInit, FormStep, PTL DEF AllSpec

\* What an answer to a save does with the value that was sent.
LEMMA HandleIsExact ==
  ASSUME FormInv, sent.via # "none", Form!Handle, ~refused'
  PROVE  /\ sent.touched /\ ~Form!Empty(sent.value) => stored' = sent.value
         /\ ~sent.touched /\ kind # "site" => stored' = stored
<1>1. sent.touched \in BOOLEAN /\ (~sent.touched => sent.value = Undef)
  BY DEF FormInv, SentIsGood
<1>2. stored' = Form!Applied(Form!Received)
  BY DEF Form!Handle
<1>3. ASSUME ~Form!Empty(sent.value) PROVE stored' = sent.value
  <2>1. sent.value \notin {Undef, Null, Form!Blank}
    BY <1>3 DEF Form!Empty
  <2>2. Form!Received = sent.value
    BY <2>1 DEF Form!Received
  <2>. QED
    BY <1>2, <2>1, <2>2 DEF Form!Applied
<1>4. ASSUME ~sent.touched, kind # "site" PROVE stored' = stored
  BY <1>1, <1>2, <1>4 DEF Form!Received, Form!Applied
<1>. QED
  BY <1>3, <1>4

\* A save that is answered was handled by the server.
LEMMA AnswersAreHandled ==
  ASSUME FormInv, [Form!Next]_Form!vars, sent.via # "none", sent' = Form!Unsent
  PROVE  Form!Handle
<1>1. sent' # sent
  BY DEF Form!Unsent
<1>2. Form!SaveAnswered \/ Form!QueueDelivers => Form!Handle
  BY DEF Form!SaveAnswered, Form!QueueDelivers
<1>3. ~Form!Submit /\ ~Form!SaveQueued
  <2>1. ~(sent'.via = "form") /\ ~(sent'.via = "queue")
    BY DEF Form!Unsent
  <2>2. Form!Submit => sent'.via = "form"
    BY DEF Form!Submit
  <2>3. Form!SaveQueued => sent'.via = "queue"
    BY DEF Form!SaveQueued, FormInv, SentIsGood
  <2>. QED
    BY <2>1, <2>2, <2>3
<1>4. Form!SaveAnswered \/ Form!QueueDelivers
  BY <1>1, <1>3
     DEF Form!Next, Form!Change, Form!Attach, Form!FileArrives, Form!Locate, Form!FileFails,
         Form!PlaceArrives, Form!Redefine, Form!Colleague, Form!TakenElsewhere, Form!ClickLink,
         Form!CancelLeave, Form!GoAway, Form!OpenCamera, Form!CameraAnswers, Form!FreezeOrResume,
         Form!CloseCamera, Form!LateCamera, Form!vars
<1>. QED
  BY <1>2, <1>4

LEMMA SaveExactStep == FormInv /\ [Form!Next]_Form!vars => [Form!SaveStep]_Form!vars
BY AnswersAreHandled, HandleIsExact DEF Form!SaveStep

LEMMA FormAgreesStep == FormInv /\ [Form!Next]_Form!vars => [Form!RefusalStep]_Form!vars
BY AnswersAreHandled, HandleIsFair DEF Form!RefusalStep, FormInv

\* What the form lets through the server takes, unless the definition of the field was
\* changed meanwhile, or the field is unique and another record holds the value: for every
\* kind of field and any options and documents (field-schema.ts, validation.py,
\* RecordService._check_uniqueness).
THEOREM FormAgrees == AllSpec => FormAgreesWithServer
<1>. QED
  BY InitIsFormInit, AllNextIsFormNext, FormInit, FormStep, FormAgreesStep, PTL
     DEF AllSpec, FormAgreesWithServer, Form!FormAgreesWithServer

\* A save writes what the form showed when the user changed it, and leaves a field the
\* user did not touch as a colleague wrote it (record-form.tsx, RecordService.update).
THEOREM SavesAreExact == AllSpec => SaveIsExact
<1>. QED
  BY InitIsFormInit, AllNextIsFormNext, FormInit, FormStep, SaveExactStep, PTL
     DEF AllSpec, SaveIsExact, Form!SaveIsExact

-----------------------------------------------------------------------------
\* The import.  The last preview asked is of what is on screen; once it was answered,
\* so is the preview shown, and nothing else changes it during a commit.

ImportType ==
  /\ file \in File \cup {None} /\ mapping \in Mapping \cup {None}
  /\ preview \in [file : File, mapping : Mapping] \cup {None}
  /\ isPreviewing \in BOOLEAN /\ seq \in Nat
  /\ asked \subseteq [seq : Nat, file : File, mapping : Mapping \cup {None}]
  /\ imported \in [Import!Line -> Nat]

ImportInv ==
  /\ ImportType
  /\ \A q \in asked :
       /\ q.seq <= seq
       /\ q.seq = seq => isPreviewing /\ (file # None => q.file = file /\ q.mapping = mapping)
  /\ \A q, r \in asked : q.seq = r.seq => q = r
  /\ preview # None /\ ~isPreviewing /\ file # None =>
       preview = [file |-> file, mapping |-> mapping]
  /\ commit # None => preview = commit /\ ~isPreviewing

LEMMA ImportInit == Import!Init => ImportInv
<1> SUFFICES ASSUME Import!Init PROVE ImportInv
  OBVIOUS
<1>1. /\ file = None /\ mapping = None /\ preview = None /\ isPreviewing = FALSE
      /\ seq = 0 /\ asked = {} /\ commit = None /\ imported = [l \in Import!Line |-> 0]
  BY DEF Import!Init
<1>. QED
  BY <1>1 DEF ImportInv, ImportType

LEMMA ImportConstants ==
  /\ Suggested \in [File -> Mapping] /\ None \notin File \cup Mapping \cup Value
  /\ ValueOf \in [Import!Line -> Value \cup {None}] /\ Import!Line \subseteq Nat
BY PagesAssumption DEF Import!ConstantsAssumption

\* A step that asks for a preview of what is on screen.
LEMMA AskKeepsImport ==
  ASSUME ImportInv, NEW f \in File, NEW m \in Mapping \cup {None}, Import!Preview(f, m),
         file' = f, mapping' = m, preview' \in {preview, None}, commit = None, commit' = None,
         UNCHANGED imported
  PROVE  ImportInv'
<1>1. /\ seq' = seq + 1 /\ seq \in Nat /\ isPreviewing' = TRUE
      /\ asked' = asked \cup {[seq |-> seq + 1, file |-> f, mapping |-> m]}
  BY DEF Import!Preview, ImportInv, ImportType
<1>2. ImportType'
  BY <1>1 DEF ImportInv, ImportType
<1>3. ASSUME NEW q \in asked'
      PROVE  /\ q.seq <= seq'
             /\ q.seq = seq' => q = [seq |-> seq + 1, file |-> f, mapping |-> m]
             /\ q.seq # seq' => q \in asked
  <2>1. CASE q \in asked
    <3>1. q.seq \in Nat /\ q.seq <= seq
      BY <2>1 DEF ImportInv, ImportType
    <3>. QED
      BY <1>1, <3>1
  <2>2. CASE q = [seq |-> seq + 1, file |-> f, mapping |-> m]
    BY <1>1, <2>2
  <2>. QED
    BY <1>1, <1>3, <2>1, <2>2
<1>. QED
  BY <1>1, <1>2, <1>3 DEF ImportInv

LEMMA StoreType ==
  ASSUME ImportInv, NEW new, Import!Store(new)
  PROVE  imported' \in [Import!Line -> Nat] /\ Import!Fresh = new \cap Import!Line
<1>1. imported \in [Import!Line -> Nat]
  BY DEF ImportInv, ImportType
<1>2. imported' = [l \in Import!Line |-> imported[l] + IF l \in new THEN 1 ELSE 0]
  BY DEF Import!Store
<1>3. imported' \in [Import!Line -> Nat]
  BY <1>1, <1>2
<1>4. \A l \in Import!Line : imported'[l] # imported[l] <=> l \in new
  BY <1>1, <1>2
<1>. QED
  BY <1>3, <1>4 DEF Import!Fresh

LEMMA ImportKeeps == ImportInv /\ [Import!Next]_Import!vars => ImportInv'
<1> SUFFICES ASSUME ImportInv, [Import!Next]_Import!vars PROVE ImportInv'
  OBVIOUS
<1> USE ImportConstants
<1>1. ASSUME NEW f \in File, Import!ChooseFile(f) PROVE ImportInv'
  BY <1>1, AskKeepsImport DEF Import!ChooseFile, Import!server
<1>2. ASSUME NEW m \in Mapping, Import!ChangeMapping(m) PROVE ImportInv'
  <2>1. /\ commit = None /\ commit' = None /\ mapping' = m
        /\ UNCHANGED <<file, preview, imported>>
    BY <1>2 DEF Import!ChangeMapping, Import!server
  <2>2. CASE file = None
    BY <1>2, <2>1, <2>2 DEF Import!ChangeMapping, ImportInv, ImportType
  <2>3. CASE file # None
    <3>1. file \in File /\ Import!Preview(file, m)
      BY <1>2, <2>3 DEF Import!ChangeMapping, ImportInv, ImportType
    <3>. QED
      BY <2>1, <3>1, AskKeepsImport
  <2>. QED
    BY <2>2, <2>3
<1>3. ASSUME NEW q \in asked, Import!PreviewArrives(q) \/ Import!PreviewFails(q) PROVE ImportInv'
  <2>1. /\ asked' = asked \ {q} /\ UNCHANGED <<file, seq, commit, imported>>
        /\ q.seq \in Nat /\ q.file \in File /\ q.mapping \in Mapping \cup {None} /\ q.seq <= seq
    BY <1>3 DEF Import!PreviewArrives, Import!PreviewFails, Import!server, ImportInv, ImportType
  <2>2. CASE ~Import!Latest(q)
    <3>1. UNCHANGED <<preview, mapping, isPreviewing>>
      BY <1>3, <2>2 DEF Import!PreviewArrives, Import!PreviewFails
    <3>. QED
      BY <2>1, <3>1 DEF ImportInv, ImportType
  <2>3. CASE Import!Latest(q)
    <3>1. /\ isPreviewing /\ (file # None => q.file = file /\ q.mapping = mapping)
          /\ commit = None /\ isPreviewing' = FALSE
      BY <1>3, <2>3 DEF Import!Latest, Import!PreviewArrives, Import!PreviewFails, ImportInv
    <3>2. \A r \in asked' : r \in asked /\ r.seq # seq
      BY <1>3, <2>1, <2>3 DEF ImportInv, Import!Latest
    <3>3. CASE Import!PreviewArrives(q)
      <4>1. /\ preview' = [file |-> q.file, mapping |-> Import!Applied(q)]
            /\ mapping' = IF q.mapping = None THEN Suggested[q.file] ELSE mapping
        BY <2>3, <3>3 DEF Import!PreviewArrives
      <4>2. /\ Import!Applied(q) \in Mapping
            /\ file # None => Import!Applied(q) = mapping'
        BY <2>1, <3>1, <4>1 DEF Import!Applied
      <4>3. mapping' \in Mapping \cup {None} /\ preview' \in [file : File, mapping : Mapping]
        BY <2>1, <4>1, <4>2 DEF ImportInv, ImportType
      <4>. QED
        BY <2>1, <3>1, <3>2, <4>1, <4>2, <4>3 DEF ImportInv, ImportType
    <3>4. CASE Import!PreviewFails(q)
      BY <2>1, <2>3, <3>1, <3>2, <3>4 DEF Import!PreviewFails, ImportInv, ImportType
    <3>. QED
      BY <1>3, <3>3, <3>4
  <2>. QED
    BY <2>2, <2>3
<1>4. CASE Import!ClearFile
  BY <1>4 DEF Import!ClearFile, Import!server, ImportInv, ImportType
<1>5. CASE Import!Commit
  BY <1>5 DEF Import!Commit, Import!CanCommit, Import!page, Import!server, ImportInv, ImportType
<1>6. CASE Import!CommitArrives \/ Import!CommitFails
  <2>1. commit' = None /\ UNCHANGED <<file, mapping, preview, isPreviewing, seq, asked>>
    BY <1>6 DEF Import!CommitArrives, Import!CommitFails, Import!page
  <2>2. (\E new \in Import!Outcomes : Import!Store(new)) \/ UNCHANGED imported
    BY <1>6 DEF Import!CommitArrives, Import!CommitFails, Import!server
  <2>3. imported' \in [Import!Line -> Nat]
    BY <2>2, StoreType DEF ImportInv, ImportType
  <2>. QED
    BY <2>1, <2>3 DEF ImportInv, ImportType
<1>7. CASE Import!Elsewhere \/ UNCHANGED Import!vars
  BY <1>7 DEF Import!Elsewhere, Import!vars, Import!page, Import!server, ImportInv, ImportType
<1>. QED
  BY <1>1, <1>2, <1>3, <1>4, <1>5, <1>6, <1>7 DEF Import!Next

LEMMA LeastOf ==
  ASSUME NEW T \in SUBSET Nat, T # {}
  PROVE  \E m \in T : \A j \in T : m <= j
<1> DEFINE below == {0..j : j \in T}
           R == StrictSubsetOrdering(Nat)
<1>1. below # {} /\ below \subseteq FiniteSubsetsOf(Nat)
  <2>1. \A j \in T : 0..j \subseteq Nat /\ IsFiniteSet(0..j)
    BY FS_Interval
  <2>. QED
    BY <2>1 DEF FiniteSubsetsOf
<1>2. IsWellFoundedOn(R, FiniteSubsetsOf(Nat))
  BY FS_StrictSubsetOrderingWellFounded
<1>3. \E b \in below : \A a \in below : <<a, b>> \notin R
  <2> HIDE DEF below, R
  <2>. QED
    BY <1>1, <1>2, WFMin
<1>4. PICK m \in T : \A j \in T : <<0..j, 0..m>> \notin R
  BY <1>3
<1>5. ASSUME NEW j \in T, j < m PROVE FALSE
  <2>1. 0..j \subseteq 0..m /\ m \in 0..m /\ m \notin 0..j /\ 0..j \subseteq Nat /\ 0..m \subseteq Nat
    BY <1>5
  <2>2. <<0..j, 0..m>> \in R
    BY <2>1 DEF StrictSubsetOrdering
  <2>. QED
    BY <1>4, <2>2
<1>. QED
  BY <1>5

\* A line is left out because a record has its value, or because the first line of the
\* file with this value has become one.
LEMMA LeftOutIsHeld ==
  ASSUME NEW lines \in SUBSET Import!Line, NEW l \in lines, l \notin Import!Created(lines),
         Import!Store(Import!Created(lines))
  PROVE  ValueOf[l] \in held'
<1> DEFINE Same == {j \in lines : ValueOf[j] = ValueOf[l]}
<1>1. held' = (held \cup {ValueOf[j] : j \in Import!Created(lines)}) \ {None}
  BY DEF Import!Store
<1>2. ValueOf[l] \in Import!Taken(l, lines) /\ ValueOf[l] # None
  BY DEF Import!Created, Import!Taken
<1>3. CASE ValueOf[l] \in held
  BY <1>1, <1>2, <1>3
<1>4. CASE ValueOf[l] \notin held
  <2>1. Same \in SUBSET Nat /\ l \in Same
    BY ImportConstants
  <2>2. PICK m \in Same : \A j \in Same : m <= j
    <3> HIDE DEF Same
    <3>. QED
      BY <2>1, LeastOf
  <2>3. m \in lines /\ ValueOf[m] = ValueOf[l] /\ m \in Nat
    BY <2>1, <2>2
  <2>4. \A j \in lines : j < m => ValueOf[j] # ValueOf[m]
    BY <2>1, <2>2, <2>3
  <2>5. ValueOf[m] \notin Import!Taken(m, lines)
    BY <1>4, <2>3, <2>4 DEF Import!Taken
  <2>6. m \in Import!Created(lines)
    BY <2>3, <2>5 DEF Import!Created
  <2>. QED
    BY <1>1, <1>2, <2>3, <2>6
<1>. QED
  BY <1>3, <1>4

\* What a commit stores is of what the preview on screen announces.
LEMMA CommitIsAnnounced ==
  ASSUME ImportInv, commit # None, NEW new \in Import!Outcomes, Import!Store(new)
  PROVE  /\ preview = commit /\ Import!Announced \in SUBSET Import!Line
         /\ Import!Announced \subseteq Import!LinesOf(commit.file)
         /\ new \in {Import!Created(Import!Announced), {}}
         /\ Import!Fresh = new /\ new \subseteq Import!Announced
<1>1. preview = commit /\ commit \in [file : File, mapping : Mapping]
  BY DEF ImportInv, ImportType
<1>2. Import!Announced = ValidLines[commit.file][commit.mapping]
  BY <1>1 DEF Import!Announced
<1>3. Import!Announced \subseteq Import!Line
  BY <1>1, <1>2 DEF Import!Line
<1>4. Import!Announced \subseteq Import!LinesOf(commit.file)
  BY <1>1, <1>2 DEF Import!LinesOf
<1>5. new \in {Import!Created(Import!Announced), {}}
  BY <1>2 DEF Import!Outcomes
<1>6. new \subseteq Import!Announced
  BY <1>5 DEF Import!Created
<1>7. Import!Fresh = new
  BY <1>3, <1>6, StoreType
<1>. QED
  BY <1>1, <1>3, <1>4, <1>5, <1>6, <1>7

LEMMA ImportStepHolds == ImportInv /\ [Import!Next]_Import!vars => [Import!ImportStep]_Import!vars
<1> SUFFICES ASSUME ImportInv, Import!Next PROVE Import!ImportStep
  OBVIOUS
<1>1. CASE Import!CommitArrives
  <2>1. PICK new \in Import!Outcomes :
          /\ Import!Store(new)
          /\ result' = [created |-> new, refused |-> Import!LinesOf(commit.file) \ new]
    BY <1>1 DEF Import!CommitArrives
  <2>2. commit # None
    BY <1>1 DEF Import!CommitArrives
  <2>3. /\ preview = commit /\ Import!Announced \in SUBSET Import!Line
        /\ Import!Announced \subseteq Import!LinesOf(commit.file)
        /\ new \in {Import!Created(Import!Announced), {}}
        /\ Import!Fresh = new /\ new \subseteq Import!Announced
    BY <2>1, <2>2, CommitIsAnnounced
  <2>4. Import!Missing \subseteq result'.refused
    BY <2>1, <2>3 DEF Import!Missing
  <2>5. ASSUME Import!Fresh # {}, NEW l \in Import!Missing PROVE ValueOf[l] \in held'
    <3>1. /\ new = Import!Created(Import!Announced)
          /\ l \in Import!Announced /\ l \notin new
      BY <2>3, <2>5 DEF Import!Missing
    <3>. QED
      BY <2>1, <2>3, <3>1, LeftOutIsHeld
  <2>. QED
    BY <2>2, <2>3, <2>4, <2>5 DEF Import!ImportStep
<1>2. CASE Import!CommitFails /\ ~Import!CommitArrives
  <2>1. commit # None /\ ((\E new \in Import!Outcomes : Import!Store(new)) \/ UNCHANGED imported)
    BY <1>2 DEF Import!CommitFails, Import!server
  <2>2. CASE UNCHANGED imported
    <3>1. Import!Fresh = {}
      BY <2>2 DEF Import!Fresh
    <3>. QED
      BY <1>2, <3>1 DEF Import!ImportStep
  <2>3. ASSUME NEW new \in Import!Outcomes, Import!Store(new) PROVE Import!ImportStep
    <3>1. preview = commit /\ Import!Fresh = new /\ new \subseteq Import!Announced
      BY <2>1, <2>3, CommitIsAnnounced
    <3>. QED
      BY <1>2, <2>1, <3>1 DEF Import!ImportStep
  <2>. QED
    BY <2>1, <2>2, <2>3
<1>3. CASE ~Import!CommitArrives /\ ~Import!CommitFails
  <2>1. UNCHANGED imported
    BY <1>3 DEF Import!Next, Import!ChooseFile, Import!ChangeMapping, Import!PreviewArrives,
       Import!PreviewFails, Import!ClearFile, Import!Commit, Import!Elsewhere, Import!server
  <2>2. Import!Fresh = {}
    BY <2>1 DEF Import!Fresh
  <2>. QED
    BY <1>3, <2>2 DEF Import!ImportStep
<1>. QED
  BY <1>1, <1>2, <1>3

LEMMA AllNextIsImportNext == [AllNext]_allVars => [Import!Next]_Import!vars
<1>1. UNCHANGED importVars => UNCHANGED Import!vars
  BY DEF importVars, Import!vars, Import!page, Import!server
<1>2. InImport /\ Import!Next => Import!Next
  OBVIOUS
<1>3. (InConsole \/ InForm \/ InModels \/ InMovement \/ UNCHANGED allVars) => UNCHANGED importVars
  BY DEF InConsole, InForm, InModels, InMovement, allVars
<1>. QED
  BY <1>1, <1>2, <1>3 DEF AllNext

\* What an import makes a record was announced by the preview on screen, and what it leaves
\* out is shown as refused, because a record has its value or the member may create none:
\* for any files, any mappings, any order of the answers and any records of others
\* (import/page.tsx, previewSeq; records.py, commit_import).
THEOREM ImportsAreAnnounced == AllSpec => ImportsAsAnnounced
<1>1. AllInit => Import!Init
  BY DEF AllInit
<1>. QED
  BY <1>1, AllNextIsImportNext, ImportInit, ImportKeeps, ImportStepHolds, PTL
     DEF AllSpec, ImportsAsAnnounced, Import!ImportsAsAnnounced

-----------------------------------------------------------------------------
\* The fields of a model.

StagedField == [key : Key, pos : Nat \cup {None}]
KeyIn(s, k) == \E i \in DOMAIN s : s[i].key = k
IsField(f)  == f = [id |-> f.id, key |-> f.key, pos |-> f.pos]

\* An identifier is that of one field, on the server and on the page.
FieldsAreKnown ==
  /\ created \in Nat
  /\ \A f \in fields \cup listed : IsField(f) /\ f.id \in 1..created
  /\ \A f, g \in fields : f.id = g.id => f = g
  /\ \A f, g \in listed : f.id = g.id => f = g
  /\ \A f \in listed, g \in fields : f.id = g.id => f.key = g.key
  /\ onNew => fields = {} /\ listed = {} /\ toSend = <<>>

\* What was wanted is a field or staged; while the staged fields are sent, it is a field
\* or still to be sent.
WantedIsKept ==
  /\ staged \in Seq(StagedField) /\ toSend \in Seq(StagedField) /\ wanted \subseteq Key
  /\ \A k \in wanted : k \in Models!KeysOf(fields) \/ KeyIn(staged, k)
  /\ toSend # <<>> => \A k \in wanted : k \in Models!KeysOf(fields) \/ KeyIn(toSend, k)

\* Fields that were read from the server: all is the set of its fields now, n the number
\* of identifiers given.
ReadFrom(fs, all, n) ==
  /\ IsFiniteSet(fs)
  /\ \A f \in fs : IsField(f) /\ f.id \in 1..n
  /\ \A f, g \in fs : f.id = g.id => f = g
  /\ \A f \in fs, g \in all : f.id = g.id => f.key = g.key

\* Nothing is read or answered but for a move; what was read for it is what it names, and
\* is still what it was, or gone.
MoveIsRead ==
  /\ onNew => moving = None
  /\ moving = None => loaded = None /\ reply = None
  /\ loaded = None \/ reply = None
  /\ moving # None => \E n \in Nat : moving \in [1..n -> Nat]
  /\ loaded # None => /\ ReadFrom(loaded, fields, created)
                      /\ Models!ToSet(moving) = {f.id : f \in loaded}
                      /\ \A f \in loaded, g \in fields : f.id = g.id => f = g
  /\ reply # None => ReadFrom(reply, fields, created)

ListsInv == FieldsAreKnown /\ WantedIsKept /\ IsFiniteSet(fields) /\ IsFiniteSet(listed)
ModelInv == ListsInv /\ MoveIsRead

LEMMA StagedKeys ==
  ASSUME NEW s, NEW k PROVE (k \in Models!KeysOf(Models!ToSet(s))) <=> KeyIn(s, k)
BY DEF Models!KeysOf, Models!ToSet, KeyIn

LEMMA AppendKeys ==
  ASSUME NEW s \in Seq(StagedField), NEW f \in StagedField
  PROVE  /\ Append(s, f) \in Seq(StagedField)
         /\ \A k : KeyIn(s, k) \/ k = f.key => KeyIn(Append(s, f), k)
<1>1. /\ Append(s, f) \in Seq(StagedField) /\ DOMAIN Append(s, f) = 1..(Len(s) + 1)
      /\ Len(s) \in Nat /\ DOMAIN s = 1..Len(s)
      /\ Append(s, f)[Len(s) + 1] = f /\ \A i \in 1..Len(s) : Append(s, f)[i] = s[i]
  OBVIOUS
<1>. QED
  BY <1>1 DEF KeyIn

LEMMA TailKeys ==
  ASSUME NEW s \in Seq(StagedField), s # <<>>
  PROVE  /\ Tail(s) \in Seq(StagedField) /\ Head(s) \in StagedField
         /\ \A k : KeyIn(s, k) => k = Head(s).key \/ KeyIn(Tail(s), k)
<1>1. /\ Tail(s) \in Seq(StagedField) /\ Head(s) \in StagedField /\ Head(s) = s[1]
      /\ Len(s) \in Nat /\ DOMAIN s = 1..Len(s) /\ Len(Tail(s)) = Len(s) - 1
      /\ DOMAIN Tail(s) = 1..(Len(s) - 1)
      /\ \A i \in 1..(Len(s) - 1) : Tail(s)[i] = s[i + 1]
  OBVIOUS
<1>2. ASSUME NEW i \in 1..Len(s), i # 1
      PROVE  i - 1 \in 1..(Len(s) - 1) /\ Tail(s)[i - 1] = s[i]
  <2>1. i - 1 \in 1..(Len(s) - 1) /\ (i - 1) + 1 = i
    BY <1>1, <1>2
  <2>. QED
    BY <1>1, <2>1
<1>. QED
  BY <1>1, <1>2 DEF KeyIn

\* Numbering a list again changes no key.
LEMMA NumberedKeys ==
  ASSUME NEW n \in Nat, NEW s \in [1..n -> StagedField]
  PROVE  /\ Models!Numbered(s) \in Seq(StagedField)
         /\ \A k : KeyIn(s, k) => KeyIn(Models!Numbered(s), k)
<1>1. /\ Models!Numbered(s) = [i \in 1..n |-> [key |-> s[i].key, pos |-> i - 1]]
      /\ DOMAIN s = 1..n
  BY DEF Models!Numbered, StagedField
<1>2. Models!Numbered(s) \in [1..n -> StagedField]
  BY <1>1 DEF StagedField
<1>3. Models!Numbered(s) \in Seq(StagedField) /\ DOMAIN Models!Numbered(s) = 1..n
  BY <1>1, <1>2
<1>4. \A i \in 1..n : Models!Numbered(s)[i].key = s[i].key
  BY <1>1
<1>. QED
  BY <1>1, <1>3, <1>4 DEF KeyIn

LEMMA SwappedKeys ==
  ASSUME NEW s \in Seq(StagedField), NEW i \in 1..(Len(s) - 1)
  PROVE  /\ Models!Swapped(s, i) \in [1..Len(s) -> StagedField]
         /\ \A k : KeyIn(s, k) => KeyIn(Models!Swapped(s, i), k)
<1>1. /\ Len(s) \in Nat /\ DOMAIN s = 1..Len(s) /\ i \in 1..Len(s) /\ i + 1 \in 1..Len(s)
      /\ s \in [1..Len(s) -> StagedField] /\ i # i + 1
  OBVIOUS
<1> DEFINE w == Models!Swapped(s, i)
<1>2. /\ w \in [1..Len(s) -> StagedField] /\ w[i] = s[i + 1] /\ w[i + 1] = s[i]
      /\ \A j \in 1..Len(s) : j # i /\ j # i + 1 => w[j] = s[j]
  BY <1>1 DEF Models!Swapped
<1> HIDE DEF w
<1>3. DOMAIN w = 1..Len(s)
  BY <1>2
<1>4. \A k : KeyIn(s, k) => KeyIn(w, k)
  BY <1>1, <1>2, <1>3 DEF KeyIn
<1>. QED
  BY <1>2, <1>4 DEF w

LEMMA JoinedLists ==
  ASSUME NEW S, NEW a \in Seq(S), NEW b \in Seq(S)
  PROVE  /\ a \o b \in Seq(S) /\ Len(a \o b) = Len(a) + Len(b)
         /\ \A j \in 1..(Len(a) + Len(b)) :
              (a \o b)[j] = IF j <= Len(a) THEN a[j] ELSE b[j - Len(a)]
OBVIOUS

LEMMA RemovedKeys ==
  ASSUME NEW s \in Seq(StagedField), NEW i \in DOMAIN s
  PROVE  /\ \E n \in Nat : Models!RemoveAt(s, i) \in [1..n -> StagedField]
         /\ \A k : KeyIn(s, k) => k = s[i].key \/ KeyIn(Models!RemoveAt(s, i), k)
<1>1. Len(s) \in Nat /\ DOMAIN s = 1..Len(s) /\ i \in 1..Len(s) /\ Len(s) - 1 \in Nat
  OBVIOUS
<1> DEFINE a == SubSeq(s, 1, i - 1)
           b == SubSeq(s, i + 1, Len(s))
           r == a \o b
<1>2. /\ a \in Seq(StagedField) /\ Len(a) = i - 1
      /\ \A j \in 1..(i - 1) : a[j] = s[j]
  BY <1>1
<1>3. /\ b \in Seq(StagedField) /\ Len(b) = Len(s) - i
      /\ \A j \in 1..(Len(s) - i) : b[j] = s[i + j]
  <2>1. i + 1 \in 1..(Len(s) + 1) /\ Len(s) - (i + 1) + 1 = Len(s) - i
    BY <1>1
  <2>2. b \in Seq(StagedField)
    BY <1>1, <2>1
  <2>3. Len(b) = Len(s) - i
    BY <1>1, <2>1
  <2>4. ASSUME NEW j \in 1..(Len(s) - i) PROVE b[j] = s[i + j]
    <3>1. j \in 1..Len(b) /\ (i + 1) + j - 1 = i + j
      BY <1>1, <2>3
    <3>. QED
      BY <1>1, <2>1, <3>1
  <2>. QED
    BY <2>2, <2>3, <2>4
<1> HIDE DEF a, b
<1>4. /\ r \in Seq(StagedField) /\ Len(r) = Len(s) - 1 /\ DOMAIN r = 1..(Len(s) - 1)
      /\ r \in [1..(Len(s) - 1) -> StagedField]
      /\ \A j \in 1..(Len(s) - 1) : r[j] = IF j <= i - 1 THEN a[j] ELSE b[j - (i - 1)]
  <2>1. r \in Seq(StagedField) /\ Len(r) = Len(a) + Len(b)
    BY <1>2, <1>3, JoinedLists
  <2>2. Len(r) = Len(s) - 1
    BY <1>1, <1>2, <1>3, <2>1
  <2>4. \A j \in 1..(Len(a) + Len(b)) : r[j] = IF j <= Len(a) THEN a[j] ELSE b[j - Len(a)]
    BY <1>2, <1>3, JoinedLists
  <2> HIDE DEF r
  <2>3. DOMAIN r = 1..(Len(s) - 1) /\ r \in [1..(Len(s) - 1) -> StagedField]
    BY <2>1, <2>2
  <2>. QED
    BY <1>1, <1>2, <1>3, <2>1, <2>2, <2>3, <2>4
<1> HIDE DEF r
<1>5. ASSUME NEW j \in 1..Len(s), j < i PROVE j \in DOMAIN r /\ r[j] = s[j]
  BY <1>1, <1>2, <1>4, <1>5
<1>6. ASSUME NEW j \in 1..Len(s), j > i PROVE j - 1 \in DOMAIN r /\ r[j - 1] = s[j]
  <2>1. j - 1 \in 1..(Len(s) - 1) /\ ~(j - 1 <= i - 1) /\ j - i \in 1..(Len(s) - i)
        /\ (j - 1) - (i - 1) = j - i /\ i + (j - i) = j
    BY <1>1, <1>6
  <2>. QED
    BY <1>3, <1>4, <2>1
<1>7. \A k : KeyIn(s, k) => k = s[i].key \/ KeyIn(r, k)
  BY <1>1, <1>5, <1>6 DEF KeyIn
<1>8. Models!RemoveAt(s, i) = r
  BY DEF Models!RemoveAt, r, a, b
<1>. QED
  BY <1>1, <1>4, <1>7, <1>8

LEMMA ModelConstants == None \notin Key /\ None \notin Nat
BY PagesAssumption DEF Models!ConstantsAssumption

LEMMA ModelInit == Models!Init => ModelInv
<1> SUFFICES ASSUME Models!Init PROVE ModelInv
  OBVIOUS
<1>1. /\ onNew = TRUE /\ staged = <<>> /\ listed = {} /\ toSend = <<>>
      /\ moving = None /\ loaded = None /\ reply = None
      /\ fields = {} /\ created = 0 /\ wanted = {}
  BY DEF Models!Init
<1>2. IsFiniteSet({})
  BY FS_EmptySet
<1>. QED
  BY <1>1, <1>2 DEF ModelInv, MoveIsRead, ListsInv, FieldsAreKnown, WantedIsKept

\* The steps of the list of staged fields, none of which is taken during a submission.
LEMMA ListKeepsModel ==
  ASSUME ListsInv, toSend = <<>>,
         UNCHANGED <<onNew, listed, toSend, fields, created>>,
         staged' \in Seq(StagedField), wanted' \subseteq Key,
         \A k \in wanted' : \/ k \in wanted /\ (KeyIn(staged, k) => KeyIn(staged', k))
                            \/ KeyIn(staged', k)
  PROVE  ListsInv'
<1>1. FieldsAreKnown' /\ IsFiniteSet(fields)' /\ IsFiniteSet(listed)'
  BY DEF ListsInv, FieldsAreKnown
<1>2. WantedIsKept'
  BY DEF ListsInv, WantedIsKept, Models!KeysOf
<1>. QED
  BY <1>1, <1>2 DEF ListsInv

LEMMA StagingKeepsModel ==
  ASSUME ListsInv,
         \/ \E k \in Key : Models!Stage(k)
         \/ \E i \in 1..(Len(staged) - 1) : Models!MoveStaged(i)
         \/ \E i \in DOMAIN staged : Models!RemoveStaged(i) \/ \E k \in Key : Models!ReplaceStaged(i, k)
  PROVE  ListsInv'
<1>0. staged \in Seq(StagedField) /\ wanted \subseteq Key /\ toSend \in Seq(StagedField)
  BY DEF ListsInv, WantedIsKept
<1>1. ASSUME NEW k \in Key, Models!Stage(k) PROVE ListsInv'
  <2>1. [key |-> k, pos |-> None] \in StagedField
    BY DEF StagedField
  <2>2. /\ toSend = <<>> /\ staged' = Append(staged, [key |-> k, pos |-> None])
        /\ wanted' = wanted \cup {k}
        /\ UNCHANGED <<onNew, listed, toSend, fields, created>>
    BY <1>1 DEF Models!Stage, Models!Calm, Models!server
  <2>. QED
    BY <1>0, <2>1, <2>2, AppendKeys, ListKeepsModel
<1>2. ASSUME NEW i \in 1..(Len(staged) - 1), Models!MoveStaged(i) PROVE ListsInv'
  <2>1. /\ toSend = <<>> /\ staged' = Models!Numbered(Models!Swapped(staged, i))
        /\ UNCHANGED <<onNew, listed, toSend, fields, created, wanted>>
    BY <1>2 DEF Models!MoveStaged, Models!Calm, Models!server
  <2>2. /\ staged' \in Seq(StagedField)
        /\ \A k : KeyIn(staged, k) => KeyIn(staged', k)
    <3> DEFINE w == Models!Swapped(staged, i)
    <3>1. /\ w \in [1..Len(staged) -> StagedField] /\ Len(staged) \in Nat
          /\ \A k : KeyIn(staged, k) => KeyIn(w, k)
      BY <1>0, SwappedKeys
    <3> HIDE DEF w
    <3>2. /\ Models!Numbered(w) \in Seq(StagedField)
          /\ \A k : KeyIn(w, k) => KeyIn(Models!Numbered(w), k)
      BY <3>1, NumberedKeys
    <3>. QED
      BY <2>1, <3>1, <3>2 DEF w
  <2>. QED
    BY <1>0, <2>1, <2>2, ListKeepsModel
<1>3. ASSUME NEW i \in DOMAIN staged, Models!RemoveStaged(i) PROVE ListsInv'
  <2>1. /\ toSend = <<>> /\ staged' = Models!Numbered(Models!RemoveAt(staged, i))
        /\ wanted' = wanted \ {staged[i].key}
        /\ UNCHANGED <<onNew, listed, toSend, fields, created>>
    BY <1>3 DEF Models!RemoveStaged, Models!Calm, Models!server
  <2>2. /\ staged' \in Seq(StagedField)
        /\ \A k : KeyIn(staged, k) => k = staged[i].key \/ KeyIn(staged', k)
    <3> DEFINE r == Models!RemoveAt(staged, i)
    <3>1. /\ \E n \in Nat : r \in [1..n -> StagedField]
          /\ \A k : KeyIn(staged, k) => k = staged[i].key \/ KeyIn(r, k)
      BY <1>0, RemovedKeys
    <3> HIDE DEF r
    <3>2. /\ Models!Numbered(r) \in Seq(StagedField)
          /\ \A k : KeyIn(r, k) => KeyIn(Models!Numbered(r), k)
      BY <3>1, NumberedKeys
    <3>. QED
      BY <2>1, <3>1, <3>2 DEF r
  <2>. QED
    BY <1>0, <2>1, <2>2, ListKeepsModel
<1>4. ASSUME NEW i \in DOMAIN staged, NEW k \in Key, Models!ReplaceStaged(i, k) PROVE ListsInv'
  <2>1. /\ toSend = <<>> /\ staged' = [staged EXCEPT ![i] = [key |-> k, pos |-> i - 1]]
        /\ wanted' = (wanted \ {staged[i].key}) \cup {k}
        /\ UNCHANGED <<onNew, listed, toSend, fields, created>>
    BY <1>4 DEF Models!ReplaceStaged, Models!Calm, Models!server
  <2>2. [key |-> k, pos |-> i - 1] \in StagedField
    <3>1. i \in 1..Len(staged) /\ Len(staged) \in Nat
      BY <1>0
    <3>. QED
      BY <3>1 DEF StagedField
  <2>3. staged' \in Seq(StagedField) /\ DOMAIN staged' = DOMAIN staged
    BY <1>0, <2>1, <2>2
  <2>4. /\ staged'[i].key = k
        /\ \A j \in DOMAIN staged : j # i => staged'[j] = staged[j]
    BY <1>0, <2>1
  <2>5. \A h : KeyIn(staged, h) => h = staged[i].key \/ KeyIn(staged', h)
    BY <2>3, <2>4 DEF KeyIn
  <2>6. KeyIn(staged', k)
    BY <2>3, <2>4 DEF KeyIn
  <2>. QED
    BY <1>0, <2>1, <2>3, <2>5, <2>6, ListKeepsModel
<1>. QED
  BY <1>1, <1>2, <1>3, <1>4

\* A field that is added has an identifier of its own.
LEMMA AddKeepsFields ==
  ASSUME ListsInv, ~onNew, NEW f \in StagedField, Models!AddField(f), UNCHANGED <<onNew, listed>>
  PROVE  /\ FieldsAreKnown' /\ IsFiniteSet(fields)' /\ IsFiniteSet(listed)'
         /\ \A k : k \in Models!KeysOf(fields) \/ k = f.key => k \in Models!KeysOf(fields)'
<1> DEFINE a == Models!Added(f)
<1>1. /\ a.id = created + 1 /\ a.key = f.key /\ IsField(a)
      /\ fields' = fields \cup {a} /\ created' = created + 1 /\ created \in Nat
  BY DEF Models!AddField, Models!Added, IsField, ListsInv, FieldsAreKnown
<1> HIDE DEF a
<1>2. IsFiniteSet(fields)' /\ IsFiniteSet(listed)'
  BY <1>1, FS_AddElement DEF ListsInv
<1>3. \A g \in fields \cup listed : IsField(g) /\ g.id \in 1..created /\ g.id # created + 1
  BY <1>1 DEF ListsInv, FieldsAreKnown
<1>4. FieldsAreKnown'
  <2>1. \A g \in fields' \cup listed' : IsField(g) /\ g.id \in 1..created'
    BY <1>1, <1>3
  <2>2. \A g, h \in fields' : g.id = h.id => g = h
    BY <1>1, <1>3 DEF ListsInv, FieldsAreKnown
  <2>3. \A g \in listed', h \in fields' : g.id = h.id => g.key = h.key
    BY <1>1, <1>3 DEF ListsInv, FieldsAreKnown
  <2>. QED
    BY <1>1, <2>1, <2>2, <2>3 DEF ListsInv, FieldsAreKnown, IsField
<1>5. \A k : k \in Models!KeysOf(fields) \/ k = f.key => k \in Models!KeysOf(fields)'
  BY <1>1 DEF Models!KeysOf
<1>. QED
  BY <1>2, <1>4, <1>5

LEMMA CreateKeepsModel == ASSUME ListsInv, Models!Create PROVE ListsInv'
<1> DEFINE F == [i \in DOMAIN staged |-> [id |-> i, key |-> staged[i].key, pos |-> i - 1]]
<1>1. /\ onNew /\ onNew' = FALSE /\ staged' = <<>> /\ toSend = <<>> /\ toSend' = <<>>
      /\ created' = Len(staged) /\ listed' = fields' /\ wanted' = wanted
      /\ fields = {}
      /\ fields' = {[id |-> i, key |-> staged[i].key, pos |-> i - 1] : i \in DOMAIN staged}
  BY DEF Models!Create, ListsInv, FieldsAreKnown
<1>2. staged \in Seq(StagedField) /\ Len(staged) \in Nat /\ DOMAIN staged = 1..Len(staged)
  BY DEF ListsInv, WantedIsKept
<1>3. FieldsAreKnown'
  BY <1>1, <1>2 DEF FieldsAreKnown, IsField
<1>4. WantedIsKept'
  <2>1. ASSUME NEW k, KeyIn(staged, k) PROVE k \in Models!KeysOf(fields')
    <3>1. PICK j \in DOMAIN staged : staged[j].key = k
      BY <2>1 DEF KeyIn
    <3>2. [id |-> j, key |-> staged[j].key, pos |-> j - 1] \in fields'
      BY <1>1
    <3>. QED
      BY <3>1, <3>2 DEF Models!KeysOf
  <2>2. \A k \in wanted : KeyIn(staged, k)
    BY <1>1 DEF ListsInv, WantedIsKept, Models!KeysOf
  <2>3. <<>> \in Seq(StagedField)
    OBVIOUS
  <2>4. Models!KeysOf(fields)' = Models!KeysOf(fields')
    BY DEF Models!KeysOf
  <2>. QED
    BY <1>1, <2>1, <2>2, <2>3, <2>4 DEF ListsInv, WantedIsKept
<1>5. IsFiniteSet(fields')
  <2>1. F \in Surjection(1..Len(staged), fields')
    BY <1>1, <1>2 DEF Surjection
  <2>2. IsFiniteSet(1..Len(staged))
    BY <1>2, FS_Interval
  <2>. QED
    BY <2>1, <2>2, FS_Surjection
<1>. QED
  BY <1>1, <1>3, <1>4, <1>5 DEF ListsInv

LEMMA SendingKeepsModel ==
  ASSUME ListsInv, Models!SubmitNewFields \/ Models!FieldAdded \/ Models!AdditionFails
  PROVE  ListsInv'
<1>0. /\ staged \in Seq(StagedField) /\ toSend \in Seq(StagedField) /\ wanted \subseteq Key
      /\ onNew => toSend = <<>>
      /\ <<>> \in Seq(StagedField)
  BY DEF ListsInv, WantedIsKept, FieldsAreKnown
<1>1. CASE Models!SubmitNewFields
  <2>1. /\ ~onNew /\ toSend' = staged
        /\ UNCHANGED <<onNew, staged, listed, fields, created, wanted>>
    BY <1>1 DEF Models!SubmitNewFields, Models!server
  <2>2. FieldsAreKnown' /\ IsFiniteSet(fields)' /\ IsFiniteSet(listed)'
    BY <2>1 DEF ListsInv, FieldsAreKnown
  <2>3. WantedIsKept'
    BY <1>0, <2>1 DEF ListsInv, WantedIsKept, Models!KeysOf
  <2>. QED
    BY <2>2, <2>3 DEF ListsInv
<1>2. CASE Models!FieldAdded
  <2>1. /\ toSend # <<>> /\ ~onNew /\ Models!AddField(Head(toSend)) /\ toSend' = Tail(toSend)
        /\ staged' = IF Tail(toSend) = <<>> THEN <<>> ELSE staged
        /\ UNCHANGED <<onNew, listed, wanted>>
    BY <1>0, <1>2 DEF Models!FieldAdded
  <2>2. /\ Tail(toSend) \in Seq(StagedField) /\ Head(toSend) \in StagedField
        /\ \A k : KeyIn(toSend, k) => k = Head(toSend).key \/ KeyIn(Tail(toSend), k)
    BY <1>0, <2>1, TailKeys
  <2>3. /\ FieldsAreKnown' /\ IsFiniteSet(fields)' /\ IsFiniteSet(listed)'
        /\ \A k : k \in Models!KeysOf(fields) \/ k = Head(toSend).key => k \in Models!KeysOf(fields)'
    BY <2>1, <2>2, AddKeepsFields
  <2>4. \A k \in wanted : k \in Models!KeysOf(fields)' \/ KeyIn(toSend', k)
    BY <2>1, <2>2, <2>3 DEF ListsInv, WantedIsKept
  <2>5. ~KeyIn(<<>>, {}) /\ \A k : ~KeyIn(<<>>, k)
    BY DEF KeyIn
  <2>6. WantedIsKept'
    <3>1. CASE Tail(toSend) = <<>>
      BY <1>0, <2>1, <2>4, <2>5, <3>1 DEF WantedIsKept
    <3>2. CASE Tail(toSend) # <<>>
      BY <1>0, <2>1, <2>2, <2>3, <2>4, <3>2 DEF ListsInv, WantedIsKept
    <3>. QED
      BY <3>1, <3>2
  <2>. QED
    BY <2>1, <2>3, <2>6 DEF ListsInv
<1>3. CASE Models!AdditionFails
  <2>1. /\ toSend # <<>> /\ ~onNew /\ toSend' = <<>>
        /\ UNCHANGED <<onNew, staged, listed, wanted>>
        /\ Models!AddField(Head(toSend)) \/ UNCHANGED <<fields, created>>
    BY <1>0, <1>3 DEF Models!AdditionFails, Models!server
  <2>2. /\ FieldsAreKnown' /\ IsFiniteSet(fields)' /\ IsFiniteSet(listed)'
        /\ \A k : k \in Models!KeysOf(fields) => k \in Models!KeysOf(fields)'
    <3>1. CASE Models!AddField(Head(toSend))
      <4>1. Head(toSend) \in StagedField
        BY <1>0, <2>1, TailKeys
      <4>. QED
        BY <2>1, <3>1, <4>1, AddKeepsFields
    <3>2. CASE UNCHANGED <<fields, created>>
      BY <2>1, <3>2 DEF ListsInv, FieldsAreKnown, Models!KeysOf
    <3>. QED
      BY <2>1, <3>1, <3>2
  <2>3. WantedIsKept'
    BY <1>0, <2>1, <2>2 DEF ListsInv, WantedIsKept
  <2>. QED
    BY <2>1, <2>2, <2>3 DEF ListsInv
<1>. QED
  BY <1>1, <1>2, <1>3

LEMMA SameCardinality == ASSUME NEW S PROVE Models!Cardinality(S) = Cardinality(S)
BY DEF Models!Cardinality, Cardinality, Models!IsFiniteSet, IsFiniteSet

\* A listing of the fields on screen names each of them once.
LEMMA ListingIsOrder ==
  ASSUME ListsInv, NEW s \in Models!Listing(listed), NEW i \in 1..(Len(s) - 1)
  PROVE  ~onNew /\ \E n \in Nat : Models!Ids(Models!Swapped(s, i)) \in [1..n -> Nat]
<1> DEFINE n == Cardinality(listed)
           w == Models!Swapped(s, i)
<1>1. n \in Nat
  BY FS_CardinalityType DEF ListsInv
<1>2. /\ s \in [1..n -> listed] /\ DOMAIN s = 1..n /\ Len(s) = n
  BY <1>1, SameCardinality DEF Models!Listing, Models!SetToSeqs
<1>3. w \in [1..n -> listed] /\ i \in 1..n
  BY <1>1, <1>2 DEF Models!Swapped
<1>4. ~onNew
  BY <1>2, <1>3 DEF ListsInv, FieldsAreKnown
<1>5. \A f \in listed : f.id \in Nat
  BY DEF ListsInv, FieldsAreKnown
<1>6. Models!Ids(w) = [j \in 1..n |-> w[j].id]
  BY <1>3 DEF Models!Ids
<1>7. Models!Ids(w) \in [1..n -> Nat]
  BY <1>3, <1>5, <1>6
<1>. QED
  BY <1>1, <1>4, <1>7 DEF n, w

\* The steps that change the fields of the server or of the page, and not the list of
\* staged fields.
LEMMA FieldsKeepModel ==
  ASSUME ListsInv, UNCHANGED <<onNew, staged, toSend>>, FieldsAreKnown',
         IsFiniteSet(fields'), IsFiniteSet(listed'), wanted' \subseteq wanted,
         \A k \in wanted' : k \in Models!KeysOf(fields) => k \in Models!KeysOf(fields')
  PROVE  ListsInv'
<1>1. Models!KeysOf(fields)' = Models!KeysOf(fields')
  BY DEF Models!KeysOf
<1>2. WantedIsKept'
  BY <1>1 DEF ListsInv, WantedIsKept
<1>. QED
  BY <1>2 DEF ListsInv

\* What a move makes of a field: another place, or nothing.
LEMMA PlacedFields ==
  ASSUME NEW f, IsField(f)
  PROVE  /\ IsField(Models!Placed(f))
         /\ Models!Placed(f).id = f.id /\ Models!Placed(f).key = f.key
         /\ Models!Placed(f).pos = Models!PlaceOf(moving, f)
BY DEF Models!Placed, IsField

LEMMA MoveWrittenKeepsModel == ASSUME ListsInv, Models!MoveWritten PROVE ListsInv'
<1> DEFINE P == [f \in fields |-> IF f.id \in Models!Rewritten THEN Models!Placed(f) ELSE f]
<1>1. /\ fields' = {P[f] : f \in fields}
      /\ UNCHANGED <<onNew, staged, listed, toSend, created, wanted>>
  BY DEF Models!MoveWritten, Models!pageVars
<1>2. \A f \in fields : IsField(f) /\ f.id \in 1..created
  BY DEF ListsInv, FieldsAreKnown
<1>3. \A f \in fields : IsField(P[f]) /\ P[f].id = f.id /\ P[f].key = f.key
  BY <1>2, PlacedFields
<1>4. P \in [fields -> fields']
  BY <1>1
<1>5. IsFiniteSet(fields')
  <2>1. P \in Surjection(fields, fields')
    BY <1>1, <1>4 DEF Surjection
  <2>. QED
    BY <2>1, FS_Surjection DEF ListsInv
<1> HIDE DEF P
<1>6. FieldsAreKnown'
  <2>1. \A g \in fields' : IsField(g) /\ g.id \in 1..created
    BY <1>1, <1>2, <1>3
  <2>2. \A g, h \in fields' : g.id = h.id => g = h
    BY <1>1, <1>3 DEF ListsInv, FieldsAreKnown
  <2>3. \A g \in listed, h \in fields' : g.id = h.id => g.key = h.key
    BY <1>1, <1>3 DEF ListsInv, FieldsAreKnown
  <2>4. onNew => fields' = {}
    BY <1>1 DEF ListsInv, FieldsAreKnown
  <2>. QED
    BY <1>1, <2>1, <2>2, <2>3, <2>4 DEF ListsInv, FieldsAreKnown, IsField
<1>7. \A k : k \in Models!KeysOf(fields) => k \in Models!KeysOf(fields')
  BY <1>1, <1>3 DEF Models!KeysOf
<1>. QED
  BY <1>1, <1>5, <1>6, <1>7, FieldsKeepModel DEF ListsInv

\* The page gets the fields that were read, at the places asked for.
LEMMA MoveAnsweredKeepsModel == ASSUME ModelInv, Models!MoveAnswered PROVE ListsInv'
<1>1. /\ reply # None /\ listed' = reply
      /\ UNCHANGED <<onNew, staged, toSend, fields, created, wanted>>
  BY DEF Models!MoveAnswered, Models!server
<1>2. ~onNew /\ ReadFrom(reply, fields, created) /\ ListsInv
  BY <1>1 DEF ModelInv, MoveIsRead
<1>3. FieldsAreKnown'
  BY <1>1, <1>2 DEF ListsInv, FieldsAreKnown, ReadFrom, IsField
<1>4. IsFiniteSet(fields') /\ IsFiniteSet(listed')
  BY <1>1, <1>2 DEF ListsInv, ReadFrom
<1>. QED
  BY <1>1, <1>2, <1>3, <1>4, FieldsKeepModel

LEMMA PageKeepsModel ==
  ASSUME ListsInv,
         \/ \E f \in listed : Models!DeleteField(f) \/ Models!UpdateField(f)
         \/ Models!SaveSettings \/ Models!Refetch
  PROVE  ListsInv'
<1>0. FieldsAreKnown /\ IsFiniteSet(fields) /\ IsFiniteSet(listed)
  BY DEF ListsInv
<1>1. ASSUME NEW f \in listed, Models!DeleteField(f) PROVE ListsInv'
  <2>1. /\ fields' = {g \in fields : g.id # f.id} /\ listed' = {g \in listed : g.id # f.id}
        /\ wanted' = wanted \ {f.key}
        /\ UNCHANGED <<onNew, staged, toSend, created>>
    BY <1>1 DEF Models!DeleteField
  <2>2. FieldsAreKnown'
    BY <1>0, <2>1 DEF FieldsAreKnown, IsField
  <2>3. IsFiniteSet(fields') /\ IsFiniteSet(listed')
    <3>1. fields' \in SUBSET fields /\ listed' \in SUBSET listed
      BY <2>1
    <3>. QED
      BY <1>0, <3>1, FS_Subset
  <2>4. \A k \in wanted' : k \in Models!KeysOf(fields) => k \in Models!KeysOf(fields')
    <3>1. \A g \in fields : g \in fields' \/ g.key = f.key
      BY <1>0, <2>1 DEF FieldsAreKnown
    <3>. QED
      BY <2>1, <3>1 DEF Models!KeysOf
  <2>. QED
    BY <2>1, <2>2, <2>3, <2>4, FieldsKeepModel
<1>2. ASSUME NEW f \in listed, Models!UpdateField(f) PROVE ListsInv'
  <2>1. PICK g \in fields : g.id = f.id /\ listed' = (listed \ {f}) \cup {g}
    BY <1>2 DEF Models!UpdateField
  <2>2. UNCHANGED <<onNew, staged, toSend, fields, created, wanted>>
    BY <1>2 DEF Models!UpdateField, Models!server
  <2>3. FieldsAreKnown'
    BY <1>0, <2>1, <2>2 DEF FieldsAreKnown, IsField
  <2>4. IsFiniteSet(listed')
    BY <1>0, <2>1, FS_RemoveElement, FS_AddElement
  <2>5. IsFiniteSet(fields') /\ Models!KeysOf(fields') = Models!KeysOf(fields)
    BY <1>0, <2>2 DEF ListsInv
  <2>. QED
    BY <2>2, <2>3, <2>4, <2>5, FieldsKeepModel
<1>3. CASE Models!SaveSettings \/ Models!Refetch
  <2>1. /\ ~onNew /\ listed' = fields
        /\ UNCHANGED <<onNew, staged, toSend, fields, created, wanted>>
    BY <1>3 DEF Models!SaveSettings, Models!Refetch, Models!server
  <2>2. FieldsAreKnown'
    BY <1>0, <2>1 DEF FieldsAreKnown, IsField
  <2>3. /\ IsFiniteSet(fields') /\ IsFiniteSet(listed')
        /\ Models!KeysOf(fields') = Models!KeysOf(fields)
    BY <1>0, <2>1 DEF ListsInv
  <2>. QED
    BY <2>1, <2>2, <2>3, FieldsKeepModel
<1>. QED
  BY <1>1, <1>2, <1>3

LEMMA ElsewhereKeepsModel == ASSUME ListsInv, Models!Elsewhere PROVE ListsInv'
<1>1. /\ ~onNew /\ UNCHANGED <<onNew, staged, toSend, listed>>
  BY DEF Models!Elsewhere, Models!pageVars
<1>3. ASSUME NEW k \in Key, Models!AddField([key |-> k, pos |-> None]), UNCHANGED wanted
      PROVE  ListsInv'
  <2>1. [key |-> k, pos |-> None] \in StagedField
    BY DEF StagedField
  <2>2. /\ FieldsAreKnown' /\ IsFiniteSet(fields)' /\ IsFiniteSet(listed)'
        /\ \A h : h \in Models!KeysOf(fields) => h \in Models!KeysOf(fields)'
    BY <1>1, <1>3, <2>1, AddKeepsFields
  <2>3. Models!KeysOf(fields)' = Models!KeysOf(fields')
    BY DEF Models!KeysOf
  <2>. QED
    BY <1>1, <1>3, <2>2, <2>3, FieldsKeepModel
<1>4. ASSUME NEW f \in fields, fields' = fields \ {f}, wanted' = wanted \ {f.key}, UNCHANGED created
      PROVE  ListsInv'
  <2>1. FieldsAreKnown'
    BY <1>1, <1>4 DEF ListsInv, FieldsAreKnown, IsField
  <2>2. IsFiniteSet(fields') /\ IsFiniteSet(listed')
    BY <1>1, <1>4, FS_RemoveElement DEF ListsInv
  <2>3. \A k \in wanted' : k \in Models!KeysOf(fields) => k \in Models!KeysOf(fields')
    BY <1>4 DEF Models!KeysOf
  <2>. QED
    BY <1>1, <1>4, <2>1, <2>2, <2>3, FieldsKeepModel
<1>. QED
  BY <1>3, <1>4 DEF Models!Elsewhere

LEMMA ListsStep == ModelInv /\ [Models!Next]_Models!vars => ListsInv'
<1> SUFFICES ASSUME ModelInv, [Models!Next]_Models!vars PROVE ListsInv'
  OBVIOUS
<1>0. ListsInv
  BY DEF ModelInv
<1>1. ASSUME UNCHANGED <<onNew, staged, listed, toSend, fields, created, wanted>>
      PROVE  ListsInv'
  <2>1. FieldsAreKnown'
    BY <1>0, <1>1 DEF ListsInv, FieldsAreKnown
  <2>2. Models!KeysOf(fields') = Models!KeysOf(fields)
    BY <1>1
  <2>. QED
    BY <1>0, <1>1, <2>1, <2>2, FieldsKeepModel DEF ListsInv
<1>2. ASSUME NEW k, Models!ChooseTitle(k) PROVE ListsInv'
  BY <1>1, <1>2 DEF Models!ChooseTitle, Models!server
<1>3. ASSUME NEW s, NEW i, Models!Move(s, i) PROVE ListsInv'
  BY <1>1, <1>3 DEF Models!Move, Models!pageVars, Models!server
<1>4. CASE Models!MoveLoaded \/ Models!MoveRefused \/ Models!MoveFails \/ Models!MoveLost
  BY <1>1, <1>4 DEF Models!MoveLoaded, Models!MoveRefused, Models!MoveFails, Models!MoveLost,
                    Models!pageVars, Models!server
<1>5. CASE UNCHANGED Models!vars
  BY <1>1, <1>5 DEF Models!vars, Models!pageVars, Models!server
<1>. QED
  BY <1>0, <1>2, <1>3, <1>4, <1>5, StagingKeepsModel, CreateKeepsModel, SendingKeepsModel,
     MoveWrittenKeepsModel, MoveAnsweredKeepsModel, PageKeepsModel, ElsewhereKeepsModel
     DEF Models!Next

\* A request that is on its way stays what it is while fields come with new identifiers
\* and others go.
LEMMA RequestStays ==
  ASSUME ModelInv, UNCHANGED <<moving, loaded, reply>>, onNew' => moving = None,
         created' \in Nat, created <= created',
         \A h \in fields' : h \in fields \/ h.id \notin 1..created
  PROVE  MoveIsRead'
<1>1. created \in Nat /\ MoveIsRead
  BY DEF ModelInv, ListsInv, FieldsAreKnown
<1>2. ASSUME NEW fs, ReadFrom(fs, fields, created) PROVE ReadFrom(fs, fields', created')
  BY <1>1, <1>2 DEF ReadFrom
<1>3. loaded # None => \A f \in loaded, g \in fields' : f.id = g.id => f = g
  BY <1>1 DEF MoveIsRead, ReadFrom
<1>. QED
  BY <1>1, <1>2, <1>3 DEF MoveIsRead

\* The steps of the request itself.
LEMMA RequestKeepsMove ==
  ASSUME ModelInv, Models!MoveLoaded \/ Models!MoveWritten
  PROVE  MoveIsRead'
<1>1. FieldsAreKnown /\ MoveIsRead /\ IsFiniteSet(fields)
  BY DEF ModelInv, ListsInv
<1>2. CASE Models!MoveLoaded
  <2>1. /\ moving # None /\ reply = None /\ loaded' = fields
        /\ Models!ToSet(moving) = {f.id : f \in fields}
        /\ UNCHANGED <<onNew, moving, reply, fields, created>>
    BY <1>2 DEF Models!MoveLoaded, Models!Asked, Models!AllFields, Models!pageVars, Models!server
  <2>2. ReadFrom(fields, fields, created)
    BY <1>1 DEF FieldsAreKnown, ReadFrom
  <2>3. \A f, g \in fields : f.id = g.id => f = g
    BY <1>1 DEF FieldsAreKnown
  <2>. QED
    BY <1>1, <2>1, <2>2, <2>3 DEF MoveIsRead
<1>3. CASE Models!MoveWritten
  <2> DEFINE P == [f \in loaded |-> Models!Placed(f)]
  <2>1. /\ loaded # None /\ loaded' = None /\ reply' = {P[f] : f \in loaded}
        /\ fields' = {IF f.id \in Models!Rewritten THEN Models!Placed(f) ELSE f : f \in fields}
        /\ UNCHANGED <<onNew, moving, created>>
    BY <1>3 DEF Models!MoveWritten, Models!pageVars
  <2>2. ReadFrom(loaded, fields, created) /\ moving # None
    BY <1>1, <2>1 DEF MoveIsRead
  <2>3. \A f \in loaded : IsField(P[f]) /\ P[f].id = f.id /\ P[f].key = f.key
    BY <2>2, PlacedFields DEF ReadFrom
  <2>4. IsFiniteSet(reply')
    <3>1. P \in Surjection(loaded, reply')
      BY <2>1 DEF Surjection
    <3>. QED
      BY <2>2, <3>1, FS_Surjection DEF ReadFrom
  <2> HIDE DEF P
  <2>5. \A h \in fields' : \E g \in fields : h.id = g.id /\ h.key = g.key
    BY <1>1, <2>1, PlacedFields DEF FieldsAreKnown
  <2>6. ReadFrom(reply', fields', created)
    BY <2>1, <2>2, <2>3, <2>4, <2>5 DEF ReadFrom
  <2>. QED
    BY <1>1, <2>1, <2>2, <2>6 DEF MoveIsRead
<1>. QED
  BY <1>2, <1>3

LEMMA MoveStep == ModelInv /\ [Models!Next]_Models!vars => MoveIsRead'
<1> SUFFICES ASSUME ModelInv, [Models!Next]_Models!vars PROVE MoveIsRead'
  OBVIOUS
<1>0. MoveIsRead /\ created \in Nat /\ (onNew => moving = None)
  BY DEF ModelInv, ListsInv, FieldsAreKnown, MoveIsRead
<1>1. ASSUME UNCHANGED <<onNew, moving, loaded, reply, fields, created>> PROVE MoveIsRead'
  BY <1>0, <1>1, RequestStays
<1>2. ASSUME UNCHANGED onNew, UNCHANGED <<moving, loaded, reply>>, NEW f, Models!AddField(f)
      PROVE  MoveIsRead'
  <2>1. created' = created + 1 /\ fields' = fields \cup {Models!Added(f)}
    BY <1>2 DEF Models!AddField
  <2>2. Models!Added(f).id = created + 1
    BY DEF Models!Added
  <2>. QED
    BY <1>0, <1>2, <2>1, <2>2, RequestStays
<1>3. ASSUME fields' \subseteq fields, UNCHANGED <<onNew, moving, loaded, reply, created>>
      PROVE  MoveIsRead'
  BY <1>0, <1>3, RequestStays
<1>4. CASE \/ \E k \in Key : Models!Stage(k) \/ Models!ChooseTitle(k)
           \/ \E i \in 1..(Len(staged) - 1) : Models!MoveStaged(i)
           \/ \E i \in DOMAIN staged : Models!RemoveStaged(i) \/ \E k \in Key : Models!ReplaceStaged(i, k)
           \/ Models!SubmitNewFields \/ Models!SaveSettings \/ Models!Refetch
           \/ \E f \in listed : Models!UpdateField(f)
           \/ UNCHANGED Models!vars
  BY <1>1, <1>4 DEF Models!Stage, Models!ChooseTitle, Models!MoveStaged, Models!RemoveStaged,
     Models!ReplaceStaged, Models!SubmitNewFields, Models!SaveSettings, Models!Refetch,
     Models!UpdateField, Models!vars, Models!pageVars, Models!request, Models!server
<1>5. CASE Models!Create
  <2>1. onNew /\ onNew' = FALSE /\ UNCHANGED <<moving, loaded, reply>>
    BY <1>5 DEF Models!Create, Models!request
  <2>. QED
    BY <1>0, <2>1 DEF MoveIsRead
<1>6. CASE Models!FieldAdded
  BY <1>2, <1>6 DEF Models!FieldAdded, Models!request
<1>7. CASE Models!AdditionFails
  <2>1. UNCHANGED <<onNew, moving, loaded, reply>>
    BY <1>7 DEF Models!AdditionFails, Models!request
  <2>2. Models!AddField(Head(toSend)) \/ UNCHANGED <<fields, created>>
    BY <1>7 DEF Models!AdditionFails, Models!server
  <2>. QED
    BY <1>1, <1>2, <2>1, <2>2
<1>8. ASSUME NEW s \in Models!Listing(listed), NEW i \in 1..(Len(s) - 1), Models!Move(s, i)
      PROVE  MoveIsRead'
  <2>1. /\ moving = None /\ moving' = Models!Ids(Models!Swapped(s, i))
        /\ UNCHANGED <<onNew, loaded, reply, fields, created>>
    BY <1>8 DEF Models!Move, Models!pageVars, Models!server
  <2>2. ~onNew /\ \E n \in Nat : moving' \in [1..n -> Nat]
    BY <2>1, ListingIsOrder DEF ModelInv
  <2>3. loaded = None /\ reply = None
    BY <1>0, <2>1 DEF MoveIsRead
  <2>. QED
    BY <2>1, <2>2, <2>3 DEF MoveIsRead
<1>9. CASE Models!MoveLoaded \/ Models!MoveWritten
  BY <1>9, RequestKeepsMove
<1>10. CASE Models!MoveRefused \/ Models!MoveFails \/ Models!MoveAnswered \/ Models!MoveLost
  <2>1. moving' = None /\ loaded' = None /\ reply' = None
    BY <1>0, <1>10 DEF Models!MoveRefused, Models!MoveFails, Models!MoveAnswered, Models!MoveLost,
                       Models!Asked, MoveIsRead
  <2>. QED
    BY <2>1 DEF MoveIsRead
<1>11. ASSUME NEW f \in listed, Models!DeleteField(f) PROVE MoveIsRead'
  BY <1>3, <1>11 DEF Models!DeleteField, Models!request
<1>12. CASE Models!Elsewhere
  <2>1. UNCHANGED <<onNew, moving, loaded, reply>>
    BY <1>12 DEF Models!Elsewhere, Models!pageVars, Models!request
  <2>. QED
    BY <1>2, <1>3, <1>12, <2>1 DEF Models!Elsewhere
<1>. QED
  BY <1>4, <1>5, <1>6, <1>7, <1>8, <1>9, <1>10, <1>11, <1>12 DEF Models!Next

LEMMA ModelStep == ModelInv /\ [Models!Next]_Models!vars => ModelInv'
BY ListsStep, MoveStep DEF ModelInv

LEMMA AllNextIsModelNext == [AllNext]_allVars => [Models!Next]_Models!vars
<1>1. UNCHANGED modelVars => UNCHANGED Models!vars
  BY DEF modelVars, Models!vars, Models!pageVars, Models!request, Models!server
<1>2. InModels /\ Models!Next => Models!Next
  OBVIOUS
<1>3. (InConsole \/ InForm \/ InMovement \/ InImport \/ UNCHANGED allVars) => UNCHANGED modelVars
  BY DEF InConsole, InForm, InMovement, InImport, allVars
<1>. QED
  BY <1>1, <1>2, <1>3 DEF AllNext

\* A field the administrator prepared is a field of the model or still in the list, for any
\* keys, any failed request and any work of others (settings/page.tsx, submitNewFields).
THEOREM StagedFieldsAreKept == AllSpec => []StagedAreKept
<1>1. AllInit => Models!Init
  BY DEF AllInit
<1>2. ModelInv => StagedAreKept
  BY StagedKeys DEF ModelInv, ListsInv, WantedIsKept, StagedAreKept, Models!StagedAreKept, Models!Staged
<1>. QED
  BY <1>1, <1>2, AllNextIsModelNext, ModelInit, ModelStep, PTL DEF AllSpec

\* A field that was read for the move stands, when the move is written, at the place the
\* page asked for.
LEMMA PlacesAreTheAsked ==
  ASSUME ModelInv, Models!MoveWritten,
         NEW f \in fields', NEW l \in loaded, f.id = l.id
  PROVE  \E c \in DOMAIN moving : c \in Nat /\ moving[c] = f.id /\ f.pos = c - 1
<1>1. /\ loaded # None
      /\ fields' = {IF h.id \in Models!Rewritten THEN Models!Placed(h) ELSE h : h \in fields}
  BY DEF Models!MoveWritten
<1>2. /\ ReadFrom(loaded, fields, created) /\ moving # None
      /\ Models!ToSet(moving) = {h.id : h \in loaded}
      /\ \A h \in loaded, g \in fields : h.id = g.id => h = g
      /\ \A g \in fields : IsField(g)
  BY <1>1 DEF ModelInv, ListsInv, FieldsAreKnown, MoveIsRead
<1>3. PICK n \in Nat : moving \in [1..n -> Nat]
  BY <1>2 DEF ModelInv, MoveIsRead
<1>4. PICK g \in fields : f = IF g.id \in Models!Rewritten THEN Models!Placed(g) ELSE g
  BY <1>1
<1>5. g = l /\ IsField(l)
  BY <1>2, <1>4, PlacedFields
<1> DEFINE c == CHOOSE i \in DOMAIN moving : moving[i] = l.id
<1>6. l.id \in Models!ToSet(moving) /\ c \in 1..n /\ moving[c] = l.id
  <2>1. l.id \in Models!ToSet(moving)
    BY <1>2
  <2>. QED
    BY <1>3, <2>1 DEF Models!ToSet
<1>7. Models!PlaceOf(moving, l) = c - 1
  BY <1>6 DEF Models!PlaceOf
<1>8. f.pos = Models!PlaceOf(moving, l)
  <2>1. CASE l.id \in Models!Rewritten
    BY <1>4, <1>5, <2>1, PlacedFields
  <2>2. CASE l.id \notin Models!Rewritten
    <3>1. f = l /\ Models!Placed(l) = l
      BY <1>4, <1>5, <2>2 DEF Models!Rewritten
    <3>. QED
      BY <1>5, <3>1, PlacedFields
  <2>. QED
    BY <2>1, <2>2
<1> HIDE DEF c
<1>. QED
  BY <1>3, <1>6, <1>7, <1>8

LEMMA MoveExactStep ==
  ModelInv /\ [Models!Next]_Models!vars =>
    [ Models!MoveWritten =>
        \A f, g \in {h \in fields' : h.id \in {l.id : l \in loaded}} :
          f.pos <= g.pos => Models!Before(moving, f.id, g.id) ]_Models!vars
<1> SUFFICES ASSUME ModelInv, Models!MoveWritten,
                    NEW f \in fields', NEW g \in fields',
                    NEW k \in loaded, NEW l \in loaded, f.id = k.id, g.id = l.id,
                    f.pos <= g.pos
             PROVE  Models!Before(moving, f.id, g.id)
  OBVIOUS
<1>1. PICK i \in DOMAIN moving : i \in Nat /\ moving[i] = f.id /\ f.pos = i - 1
  BY PlacesAreTheAsked
<1>2. PICK j \in DOMAIN moving : j \in Nat /\ moving[j] = g.id /\ g.pos = j - 1
  BY PlacesAreTheAsked
<1>. QED
  BY <1>1, <1>2 DEF Models!Before

\* A move that is written leaves the fields it has read in the order the page asked for,
\* whoever added or deleted some between the reading and the writing
\* (model_definition_service.py:240-268).
THEOREM MovesAreKept == AllSpec => MovesAreExact
<1>1. AllInit => Models!Init
  BY DEF AllInit
<1>. QED
  BY <1>1, AllNextIsModelNext, ModelInit, ModelStep, MoveExactStep, PTL
     DEF AllSpec, MovesAreExact, Models!MovesAreExact

-----------------------------------------------------------------------------
(* The cache of queries.  Once the gesture has succeeded, the query it changed  *)
(* is new, or on its way, or will be asked for when it is looked at again.     *)

Reported == phase \in {"done", "conflict"} /\ <<gesture.call, query>> \notin Web!LeftStale

NewsComes ==
  /\ fetch = "before" => overtaken
  /\ \/ data \in {"after", "none"} \/ fetch \in {"asked", "after"}
     \/ readFailed \/ fromLocal \/ overtaken
     \/ invalid /\ ~Web!Shown(screen)

\* Who presses what, as the tables have it.
GestureOfTables ==
  /\ member \in Web!Role /\ mine \in BOOLEAN
  /\ \E s \in Web!ScreensOf(member) : gesture \in Web!Page(s).offers
  /\ query \in Web!Changes[gesture.call]

CacheInv ==
  /\ Web!TypeOK
  /\ GestureOfTables
  /\ phase \in {"served", "done", "conflict"} => changed
  /\ Reported => NewsComes

LEMMA CacheInit == Web!Init => CacheInv
<1> SUFFICES ASSUME Web!Init PROVE CacheInv
  OBVIOUS
<1>1. GestureOfTables
  BY DEF Web!Init, GestureOfTables
<1>2. Web!TypeOK /\ phase = "idle"
  BY DEF Web!Init, Web!TypeOK
<1>. QED
  BY <1>1, <1>2 DEF CacheInv, Reported

\* What the tables say of the gesture that is looked at.
LEMMA GestureReports ==
  ASSUME Web!GesturesReport, CacheInv, <<gesture.call, query>> \notin Web!LeftStale
  PROVE  /\ query \in gesture.sets \cup gesture.refreshes
         /\ gesture.onConflict = {} \/ query \in gesture.onConflict
BY DEF Web!GesturesReport, CacheInv, GestureOfTables, Web!Page

LEMMA InvalidateBrings ==
  ASSUME CacheInv, Web!Invalidate, UNCHANGED <<Web!user, screen>>
  PROVE  NewsComes'
<1>1. CASE Web!Shown(screen) /\ (fetch = "none" \/ data # "none")
  <2>1. fetch' = "asked"
    BY <1>1 DEF Web!Invalidate, Web!Ask
  <2>. QED
    BY <2>1 DEF NewsComes
<1>2. CASE ~(Web!Shown(screen) /\ (fetch = "none" \/ data # "none"))
  <2>1. invalid' = TRUE /\ overtaken' = (fetch = "before") /\ fetch' = fetch /\ data' = data
    BY <1>2 DEF Web!Invalidate
  <2>2. (fetch = "before" => overtaken)'
    BY <2>1
  <2>3. CASE Web!Shown(screen)
    BY <1>2, <2>1, <2>2, <2>3 DEF NewsComes
  <2>4. CASE ~Web!Shown(screen)
    <3>1. (~Web!Shown(screen))'
      BY <2>4 DEF Web!Shown, Web!Page, Web!user
    <3>. QED
      BY <2>1, <2>2, <3>1 DEF NewsComes
  <2>. QED
    BY <2>3, <2>4
<1>. QED
  BY <1>1, <1>2

LEMMA OverwriteBrings == ASSUME Web!Overwrite PROVE NewsComes'
BY DEF Web!Overwrite, NewsComes

\* The gesture ends: it reports what it changed.
LEMMA EndBrings ==
  ASSUME Web!GesturesReport, CacheInv, Web!GestureAnswered \/ Web!GestureConflicts
  PROVE  CacheInv'
<1>1. UNCHANGED <<Web!user, screen>> /\ changed' /\ phase' \in {"done", "conflict"}
  BY DEF Web!GestureAnswered, Web!GestureConflicts, CacheInv
<1>2. UNCHANGED <<member, mine, gesture, query>>
  BY <1>1 DEF Web!user
<1>3. Web!TypeOK'
  <2>1. /\ data' \in {"none", "before", "after"} /\ fetch' \in {"none", "asked", "before", "after"}
        /\ {invalid', readFailed', overtaken', fromLocal'} \subseteq BOOLEAN
        /\ local' = local
    BY DEF Web!GestureAnswered, Web!GestureConflicts, Web!Invalidate, Web!Overwrite, Web!Ask,
           Web!cache, CacheInv, Web!TypeOK
  <2>2. changed' \in BOOLEAN
    BY DEF Web!GestureAnswered, Web!GestureConflicts, CacheInv, Web!TypeOK
  <2>. QED
    BY <1>1, <1>2, <2>1, <2>2 DEF CacheInv, Web!TypeOK
<1>4. GestureOfTables'
  BY <1>2 DEF GestureOfTables, CacheInv, Web!Page
<1>5. ASSUME <<gesture.call, query>> \notin Web!LeftStale PROVE NewsComes'
  <2>1. /\ query \in gesture.sets \cup gesture.refreshes
        /\ gesture.onConflict = {} \/ query \in gesture.onConflict
    BY <1>5, GestureReports
  <2>2. Web!Overwrite \/ Web!Invalidate
    BY <2>1 DEF Web!GestureAnswered, Web!GestureConflicts
  <2>. QED
    BY <1>1, <2>2, OverwriteBrings, InvalidateBrings
<1>. QED
  BY <1>1, <1>2, <1>3, <1>4, <1>5 DEF CacheInv, Reported

\* Where a query of the shell is not read, no screen that follows reads it.
LEMMA ShellIsMounted ==
  ASSUME Web!ShellStays, CacheInv, NEW to \in Web!Page(screen).leads
  PROVE  /\ to \in Web!ScreensOf(member)
         /\ query \in Web!ShellReads /\ Web!Shown(to) => Web!Shown(screen)
BY DEF Web!ShellStays, CacheInv, GestureOfTables, Web!TypeOK, Web!Page, Web!Shown

LEMMA OpenKeepsNews ==
  ASSUME Web!ShellStays, CacheInv, NEW to, Web!Open(to)
  PROVE  CacheInv'
<1>1. /\ to \in Web!Page(screen).leads /\ screen' = to
      /\ UNCHANGED <<Web!user, data, invalid, local, fromLocal, phase, changed>>
  BY DEF Web!Open
<1>2. UNCHANGED <<member, mine, gesture, query>>
  BY <1>1 DEF Web!user
<1>3. /\ to \in Web!ScreensOf(member)
      /\ query \in Web!ShellReads /\ Web!Shown(to) => Web!Shown(screen)
  BY <1>1, ShellIsMounted
<1>4. /\ fetch' \in {fetch, "asked"} /\ readFailed' \in BOOLEAN /\ overtaken' \in BOOLEAN
  BY DEF Web!Open, Web!Ask, CacheInv, Web!TypeOK
<1>5. Web!TypeOK' /\ GestureOfTables'
  BY <1>1, <1>2, <1>3, <1>4 DEF CacheInv, Web!TypeOK, GestureOfTables, Web!Page
<1>6. ASSUME Reported PROVE NewsComes'
  <2>1. NewsComes
    BY <1>6 DEF CacheInv
  <2>2. Web!Shown(screen)' = Web!Shown(to)
    BY <1>1, <1>2 DEF Web!Shown, Web!Page
  <2>3. CASE fetch' = "asked"
    BY <2>3 DEF NewsComes
  <2>4. CASE UNCHANGED <<fetch, readFailed, overtaken>>
    <3>1. CASE Web!Shown(to) /\ query \notin Web!ShellReads /\ invalid /\ fetch = "none"
      BY <1>1, <2>4, <3>1 DEF Web!Open, Web!Ask
    <3>2. CASE Web!Shown(to) /\ query \in Web!ShellReads
      BY <1>1, <1>3, <2>1, <2>4, <3>2 DEF NewsComes
    <3>3. CASE ~Web!Shown(to)
      BY <1>1, <2>1, <2>2, <2>4, <3>3 DEF NewsComes
    <3>4. CASE ~invalid
      BY <1>1, <2>1, <2>4, <3>4 DEF NewsComes
    <3>5. CASE fetch # "none"
      BY <1>1, <2>1, <2>4, <3>5 DEF NewsComes, CacheInv, Web!TypeOK
    <3>. QED
      BY <3>1, <3>2, <3>3, <3>4, <3>5
  <2>. QED
    BY <2>3, <2>4 DEF Web!Open, Web!Ask
<1>. QED
  BY <1>1, <1>2, <1>5, <1>6 DEF CacheInv, Reported

\* What happens to the cache alone.
ReadStep == Web!AskAgain \/ Web!FetchServed \/ Web!FetchArrives \/ Web!FetchFails \/ Web!Expire

LEMMA ReadKeepsNews == ASSUME CacheInv, ReadStep PROVE CacheInv'
<1>1. UNCHANGED <<Web!user, screen, phase, changed>>
  BY DEF ReadStep, Web!AskAgain, Web!FetchServed, Web!FetchArrives, Web!FetchFails, Web!Expire
<1>2. UNCHANGED <<member, mine, gesture, query>>
  BY <1>1 DEF Web!user
<1>3. Web!TypeOK'
  <2>1. CASE Web!AskAgain
    BY <1>1, <1>2, <2>1 DEF Web!AskAgain, Web!Ask, CacheInv, Web!TypeOK
  <2>2. CASE Web!FetchServed
    BY <1>1, <1>2, <2>2 DEF Web!FetchServed, Web!Now, CacheInv, Web!TypeOK
  <2>3. CASE Web!FetchArrives
    BY <1>1, <1>2, <2>3 DEF Web!FetchArrives, CacheInv, Web!TypeOK
  <2>4. CASE Web!FetchFails
    <3>1. Web!Copies => (IF Web!Keeps THEN local ELSE "before") \in {"none", "before", "after"}
      BY DEF CacheInv, Web!TypeOK
    <3>. QED
      BY <1>1, <1>2, <2>4, <3>1 DEF Web!FetchFails, CacheInv, Web!TypeOK
  <2>5. CASE Web!Expire
    BY <1>1, <1>2, <2>5 DEF Web!Expire, CacheInv, Web!TypeOK
  <2>. QED
    BY <2>1, <2>2, <2>3, <2>4, <2>5 DEF ReadStep
<1>4. GestureOfTables'
  BY <1>2 DEF GestureOfTables, CacheInv, Web!Page
<1>5. ASSUME Reported PROVE NewsComes'
  <2>1. NewsComes /\ changed
    BY <1>5 DEF CacheInv, Reported
  <2>2. Web!Shown(screen)' = Web!Shown(screen)
    BY <1>1, <1>2 DEF Web!Shown, Web!Page
  <2>3. CASE Web!AskAgain
    BY <2>3 DEF Web!AskAgain, Web!Ask, NewsComes
  <2>4. CASE Web!FetchServed
    BY <2>1, <2>4 DEF Web!FetchServed, Web!Now, NewsComes
  <2>5. CASE Web!FetchArrives
    BY <2>1, <2>5 DEF Web!FetchArrives, NewsComes
  <2>6. CASE Web!FetchFails
    BY <2>1, <2>6 DEF Web!FetchFails, NewsComes
  <2>7. CASE Web!Expire
    BY <2>1, <2>2, <2>7 DEF Web!Expire, NewsComes
  <2>. QED
    BY <2>3, <2>4, <2>5, <2>6, <2>7 DEF ReadStep
<1>. QED
  BY <1>1, <1>2, <1>3, <1>4, <1>5 DEF CacheInv, Reported

LEMMA CacheStep ==
  ASSUME Web!GesturesReport, Web!ShellStays
  PROVE  CacheInv /\ [Web!Next]_Web!vars => CacheInv'
<1> SUFFICES ASSUME CacheInv, [Web!Next]_Web!vars PROVE CacheInv'
  OBVIOUS
<1>1. CASE \E s \in Web!Page(screen).leads : Web!Open(s)
  BY <1>1, OpenKeepsNews
<1>2. CASE ReadStep
  BY <1>2, ReadKeepsNews
<1>3. CASE Web!GestureAnswered \/ Web!GestureConflicts
  BY <1>3, EndBrings
<1>4. CASE Web!Press \/ Web!GestureServed \/ Web!GestureFails
  <2>1. UNCHANGED <<Web!user, screen, Web!cache>> /\ phase' \in {"sent", "served", "refused", "failed"}
        /\ changed' \in BOOLEAN /\ (phase' = "served" => changed')
    BY <1>4 DEF Web!Press, Web!GestureServed, Web!GestureFails, CacheInv, Web!TypeOK, Web!cache
  <2>. QED
    BY <2>1 DEF CacheInv, Web!TypeOK, GestureOfTables, Web!Page, Reported, Web!user, Web!cache
<1>5. CASE UNCHANGED Web!vars
  <2>1. UNCHANGED <<member, mine, gesture, query, screen, data, invalid, fetch, readFailed,
                    overtaken, local, fromLocal, phase, changed>>
    BY <1>5 DEF Web!vars, Web!user, Web!cache
  <2>. QED
    BY <2>1 DEF CacheInv, Web!TypeOK, GestureOfTables, Web!Page, Reported, NewsComes, Web!Shown
<1>. QED
  BY <1>1, <1>2, <1>3, <1>4, <1>5 DEF Web!Next, ReadStep

LEMMA AllNextIsWebNext == [AllNext]_allVars => [Web!Next]_Web!vars
<1> SUFFICES ASSUME [AllNext]_allVars PROVE [Web!Next]_Web!vars
  OBVIOUS
<1>1. InConsole /\ Web!Next => [Web!Next]_Web!vars
  OBVIOUS
<1>2. UNCHANGED consoleVars => UNCHANGED Web!vars
  BY DEF consoleVars, Web!vars, Web!user, Web!cache
<1>3. (InForm \/ InModels \/ InMovement \/ InImport \/ UNCHANGED allVars) => UNCHANGED consoleVars
  BY DEF InForm, InModels, InMovement, InImport, allVars
<1>. QED
  BY <1>1, <1>2, <1>3 DEF AllNext

\* A query on screen that has finished reading shows what its user has just done, in
\* whatever order the requests are answered, fail or are given up for others, and wherever he
\* goes meanwhile: what holds of the tables of the screens (TablesAssumption, evaluated)
\* is enough for it (lib/api/query-provider.tsx and the onSuccess of the mutations).
THEOREM NewsIsShown == AllSpec => []OwnChangesAreShown
<1>1. AllInit => Web!Init
  BY DEF AllInit
<1>2. Web!GesturesReport /\ Web!ShellStays
  BY TablesAssumption
<1>3. CacheInv => OwnChangesAreShown
  <2>1. CacheInv => Web!OwnChangesAreShown
    BY DEF CacheInv, Reported, NewsComes, Web!OwnChangesAreShown, Web!AtRest, Web!TypeOK
  <2>. QED
    BY <2>1 DEF OwnChangesAreShown
<1>. QED
  BY <1>1, <1>2, <1>3, AllNextIsWebNext, CacheInit, CacheStep, PTL DEF AllSpec
-----------------------------------------------------------------------------
(* What a screen offers.  Each component keeps the promise for what it offers    *)
(* itself, so a screen that joins components keeps it, and so do the tables.    *)

Honoured(call, r, own) == Web!Allowed(call, r, own) \/ <<call, r>> \in Web!Unguarded

OffersHonoured(p, r, own) == \A g \in p.offers : Honoured(g.call, r, own)

MemberCalls == {"activateTemplate", "addVariant", "configureArticle", "createDepot", "updateDepot",
                "archiveRecord", "setThreshold", "createRecord", "updateRecord", "addEvent",
                "consign", "entry", "exit", "adjustment", "transfer", "saveDashboard",
                "pinDashboard", "deleteDashboard", "markRead"}
AdminCalls  == {"createModel", "updateModel", "addField", "updateField", "deleteField",
                "reorderFields", "inviteMember", "updateMember", "declarePayment", "ackConflict"}
EditorCalls == {"scan", "manualPayment", "adjust", "validatePayment", "rejectPayment",
                "saveOffer", "saveCurrency"}

\* What the server takes from each role (core/permissions.py), with the buttons that no
\* screen guards.
LEMMA CallsOfMembers ==
  ASSUME NEW r \in Web!OrgRole, NEW own \in BOOLEAN
  PROVE  /\ \A c \in MemberCalls : Honoured(c, r, own)
         /\ Web!CanActOnAlert(r, own) => \A c \in {"postpone", "acknowledge"} : Honoured(c, r, own)
         /\ r # "reader" => Honoured("importRecords", r, own)
         /\ r = "admin" => \A c \in AdminCalls : Honoured(c, r, own)
BY DEF MemberCalls, AdminCalls, Honoured, Web!Unguarded, Web!Movements, Web!Allowed,
       Web!CanActOnAlert, Web!OrgRole, Web!MembersApi, Web!ModelsApi, Web!EditorApi,
       Web!DashboardsApi, Web!SubscriptionsApi, Web!SyncApi, Web!PaymentCalls, Web!CatalogCalls

LEMMA CallsOfPlatform ==
  ASSUME NEW own \in BOOLEAN PROVE \A c \in EditorCalls : Honoured(c, "platform", own)
BY DEF EditorCalls, Honoured, Web!Allowed, Web!OrgRole, Web!MembersApi, Web!ModelsApi,
       Web!EditorApi, Web!DashboardsApi, Web!SubscriptionsApi, Web!SyncApi, Web!PaymentCalls,
       Web!CatalogCalls

LEMMA JoinedHonoured ==
  ASSUME NEW parts, NEW r, NEW own, \A p \in parts : OffersHonoured(p, r, own)
  PROVE  OffersHonoured(Web!Joined(parts), r, own)
BY DEF Web!Joined, Web!Part, OffersHonoured

\* The shell, and the pages of the stock, the records and the models.
LEMMA ShellHonoured ==
  ASSUME NEW r \in Web!OrgRole, NEW own \in BOOLEAN
  PROVE  OffersHonoured(Web!Shell(r), r, own)
<1> USE CallsOfMembers DEF OffersHonoured, MemberCalls, Web!Joined, Web!Part, Web!Links, Web!Gesture
<1>1. OffersHonoured(Web!AppSidebar(r), r, own) /\ OffersHonoured(Web!ModelsNavMenu(r), r, own)
  BY DEF Web!AppSidebar, Web!ModelsNavMenu, Web!OrganizationModels, Web!ForAdministrator
<1>2. /\ OffersHonoured(Web!CommandPalette(r), r, own)
      /\ OffersHonoured(Web!NotificationsBell, r, own) /\ OffersHonoured(Web!NotificationRow, r, own)
  BY DEF Web!CommandPalette, Web!NotificationsBell, Web!NotificationRow
<1>. QED
  BY <1>1, <1>2 DEF Web!Shell

LEMMA RecordHonoured ==
  ASSUME NEW r \in Web!OrgRole, NEW own \in BOOLEAN
  PROVE  OffersHonoured(Web!RecordPage, r, own)
<1>1. /\ OffersHonoured(Web!RecordCard, r, own)
      /\ OffersHonoured(Web!Links({"list", "edit"}), r, own)
      /\ OffersHonoured(Web!FieldValueView, r, own)
      /\ OffersHonoured(Web!RecordEventsPanel, r, own)
  BY CallsOfMembers
     DEF OffersHonoured, MemberCalls, Web!Joined, Web!Part, Web!Links, Web!Gesture, Web!RecordCard,
         Web!FieldValueView, Web!DocumentChip, Web!PhotoThumbnail, Web!RecordLinkValue,
         Web!RecordEventsPanel
<1>2. OffersHonoured(Web!ArticleStockView, r, own)
  <2>1. /\ OffersHonoured(Web!Part({"depots", "catalog-currencies"}, {}, {}), r, own)
        /\ OffersHonoured(Web!AddVariantDialog, r, own) /\ OffersHonoured(Web!MovementDialog, r, own)
        /\ OffersHonoured(Web!StockLevelsTable, r, own)
        /\ OffersHonoured(Web!VariantThresholdDialog, r, own)
        /\ OffersHonoured(Web!ConsignmentPanel, r, own)
        /\ OffersHonoured(Web!LotsPanel, r, own) /\ OffersHonoured(Web!MovementHistory, r, own)
    BY CallsOfMembers
       DEF OffersHonoured, MemberCalls, Web!Part, Web!Offered, Web!Gesture, Web!AddVariantDialog,
           Web!MovementDialog, Web!Movements, Web!StockLevelsTable, Web!VariantThresholdDialog,
           Web!ConsignmentPanel, Web!LotsPanel, Web!MovementHistory
  <2>. QED
    BY <2>1, JoinedHonoured DEF Web!ArticleStockView
<1>3. OffersHonoured(Web!StockPanel, r, own)
  <2>1. /\ OffersHonoured(Web!Part({"article"}, {}, {}), r, own)
        /\ OffersHonoured(Web!ArticleSetupForm, r, own)
    BY CallsOfMembers
       DEF OffersHonoured, MemberCalls, Web!Part, Web!Offered, Web!Gesture, Web!ArticleSetupForm
  <2>. QED
    BY <1>2, <2>1, JoinedHonoured DEF Web!StockPanel
<1>. QED
  BY <1>1, <1>3, JoinedHonoured DEF Web!RecordPage

LEMMA RecordFormsHonoured ==
  ASSUME NEW r \in Web!OrgRole, NEW own \in BOOLEAN
  PROVE  /\ OffersHonoured(Web!NewRecordPage, r, own) /\ OffersHonoured(Web!EditRecordPage, r, own)
         /\ OffersHonoured(Web!RecordsPage(r), r, own) /\ OffersHonoured(Web!ImportPage(r), r, own)
         /\ OffersHonoured(Web!RedirectPage, r, own)
<1> USE CallsOfMembers
    DEF OffersHonoured, MemberCalls, Web!Joined, Web!Part, Web!Links, Web!Gesture, Web!Nothing
<1>1. OffersHonoured(Web!NewRecordPage, r, own) /\ OffersHonoured(Web!EditRecordPage, r, own)
  BY DEF Web!NewRecordPage, Web!EditRecordPage, Web!RecordForm
<1>2. OffersHonoured(Web!RecordsPage(r), r, own)
  BY DEF Web!RecordsPage, Web!RecordList, Web!RecordColumns
<1>3. OffersHonoured(Web!ImportPage(r), r, own) /\ OffersHonoured(Web!RedirectPage, r, own)
  BY DEF Web!ImportPage, Web!RedirectPage
<1>. QED
  BY <1>1, <1>2, <1>3

LEMMA ModelsHonoured ==
  ASSUME NEW r \in Web!OrgRole, NEW own \in BOOLEAN
  PROVE  /\ OffersHonoured(Web!ModelsPage, r, own) /\ OffersHonoured(Web!TemplateLibrary, r, own)
         /\ OffersHonoured(Web!NewModelPage(r), r, own) /\ OffersHonoured(Web!SettingsPage(r), r, own)
<1> USE CallsOfMembers
    DEF OffersHonoured, MemberCalls, AdminCalls, Web!Joined, Web!Part, Web!Offered, Web!Gesture,
        Web!Nothing
<1>1. OffersHonoured(Web!ModelsPage, r, own) /\ OffersHonoured(Web!TemplateLibrary, r, own)
  BY DEF Web!ModelsPage, Web!TemplateLibrary
<1>2. OffersHonoured(Web!NewModelPage(r), r, own)
  BY DEF Web!NewModelPage
<1>3. OffersHonoured(Web!SettingsPage(r), r, own)
  <2>1. r = "admin" => OffersHonoured(Web!ModelSettingsForm, r, own)
    BY DEF Web!ModelSettingsForm, Web!ExistingFieldList
  <2>. QED
    BY <2>1 DEF Web!SettingsPage
<1>. QED
  BY <1>1, <1>2, <1>3

\* The dashboard, the lists it opens, and the pages of the organization.
LEMMA DashboardsHonoured ==
  ASSUME NEW r \in Web!OrgRole, NEW own \in BOOLEAN
  PROVE  /\ OffersHonoured(Web!DashboardPage, r, own)
         /\ OffersHonoured(Web!DrilldownDialog(Web!DeadlinesDrilldown), r, own)
         /\ OffersHonoured(Web!DrilldownDialog(Web!UnderstockDrilldown), r, own)
         /\ OffersHonoured(Web!DrilldownDialog(Web!ExpiringDrilldown), r, own)
<1> USE DEF OffersHonoured, Web!Joined, Web!Part
<1>1. OffersHonoured(Web!DashboardPage, r, own)
  BY CallsOfMembers
     DEF MemberCalls, Web!DashboardPage, Web!DashboardScope, Web!SavedDashboardsMenu,
         Web!SaveDashboardDialog, Web!GlobalDashboardView, Web!AssetDashboardView,
         Web!StockDashboardView, Web!Offered, Web!Links, Web!Gesture
<1>2. /\ OffersHonoured(Web!DrilldownDialog(Web!DeadlinesDrilldown), r, own)
      /\ OffersHonoured(Web!DrilldownDialog(Web!UnderstockDrilldown), r, own)
      /\ OffersHonoured(Web!DrilldownDialog(Web!ExpiringDrilldown), r, own)
  BY DEF Web!DrilldownDialog, Web!DeadlinesDrilldown, Web!UnderstockDrilldown, Web!ExpiringDrilldown
<1>. QED
  BY <1>1, <1>2

LEMMA OrganizationHonoured ==
  ASSUME NEW r \in Web!OrgRole, NEW own \in BOOLEAN
  PROVE  /\ OffersHonoured(Web!DepotsPage, r, own) /\ OffersHonoured(Web!AlertsPage(r, own), r, own)
         /\ OffersHonoured(Web!MembersPage(r), r, own)
         /\ OffersHonoured(Web!ConflictsPage(r), r, own)
         /\ OffersHonoured(Web!SubscriptionPage(r), r, own)
<1> USE CallsOfMembers
    DEF OffersHonoured, MemberCalls, AdminCalls, Web!Joined, Web!Part, Web!Offered, Web!Links,
        Web!Gesture, Web!Nothing
<1>1. OffersHonoured(Web!DepotsPage, r, own)
  BY DEF Web!DepotsPage, Web!DepotFormDialog
<1>2. OffersHonoured(Web!AlertsPage(r, own), r, own)
  <2>1. OffersHonoured(Web!AlertRow(r, own), r, own)
    BY DEF Web!AlertRow, Web!PostponeAlertDialog
  <2>2. OffersHonoured(Web!AlertList, r, own)
    BY DEF Web!AlertList
  <2>. QED
    BY <2>1, <2>2 DEF Web!AlertsPage
<1>3. OffersHonoured(Web!MembersPage(r), r, own)
  BY DEF Web!MembersPage, Web!MemberList, Web!InviteMemberDialog
<1>4. OffersHonoured(Web!ConflictsPage(r), r, own)
  BY DEF Web!ConflictsPage, Web!ConflictList
<1>5. OffersHonoured(Web!SubscriptionPage(r), r, own)
  BY DEF Web!SubscriptionPage, Web!SubscriptionState, Web!DeclarePaymentDialog
<1>. QED
  BY <1>1, <1>2, <1>3, <1>4, <1>5

\* The screens of the platform's team.
LEMMA PlatformHonoured ==
  ASSUME NEW own \in BOOLEAN
  PROVE  /\ OffersHonoured(Web!OverviewPage, "platform", own)
         /\ OffersHonoured(Web!OrganizationsPage, "platform", own)
         /\ OffersHonoured(Web!PaymentsPage, "platform", own)
         /\ OffersHonoured(Web!CatalogPage, "platform", own)
<1> USE CallsOfPlatform
    DEF OffersHonoured, EditorCalls, Web!Joined, Web!Part, Web!Offered, Web!Links, Web!Gesture,
        Web!EditorNav
<1>1. OffersHonoured(Web!OverviewPage, "platform", own)
  BY DEF Web!OverviewPage, Web!QuickLinkCard
<1>2. OffersHonoured(Web!OrganizationsPage, "platform", own)
  BY DEF Web!OrganizationsPage, Web!OrganizationList, Web!SubscriptionAdjustDialog
<1>3. OffersHonoured(Web!PaymentsPage, "platform", own)
  BY DEF Web!PaymentsPage, Web!PaymentValidateDialog, Web!PaymentRejectDialog,
         Web!ManualPaymentDialog, Web!Decision
<1>4. OffersHonoured(Web!CatalogPage, "platform", own)
  BY DEF Web!CatalogPage, Web!CatalogLists, Web!OfferFormDialog, Web!CurrencyFormDialog
<1>. QED
  BY <1>1, <1>2, <1>3, <1>4

\* The page of a member is joined with the shell.
LEMMA MembersHonoured ==
  ASSUME NEW r \in Web!OrgRole, NEW own \in BOOLEAN, NEW s \in DOMAIN Web!MemberPages(r, own)
  PROVE  OffersHonoured(Web!MemberPages(r, own)[s], r, own)
<1> DEFINE InShell(page) == Web!Joined({page, Web!Shell(r)})
<1>1. ASSUME NEW page, OffersHonoured(page, r, own) PROVE OffersHonoured(InShell(page), r, own)
  BY <1>1, ShellHonoured, JoinedHonoured
<1>2. \A page : OffersHonoured(page, r, own) => OffersHonoured(Web!Joined({page, Web!Shell(r)}), r, own)
  BY <1>1
<1>. QED
  BY <1>2, RecordHonoured, RecordFormsHonoured, ModelsHonoured, DashboardsHonoured,
     OrganizationHonoured DEF Web!MemberPages

LEMMA PagesHonoured ==
  ASSUME NEW r \in Web!Role, NEW own \in BOOLEAN, NEW s \in Web!ScreensOf(r)
  PROVE  OffersHonoured(Web!Pages(r, own)[s], r, own)
<1>1. CASE r = "platform"
  <2>1. s \in DOMAIN Web!PlatformPages /\ Web!Pages(r, own) = Web!PlatformPages
    BY <1>1 DEF Web!ScreensOf, Web!Pages, Web!Views
  <2>. QED
    BY <1>1, <2>1, PlatformHonoured DEF Web!PlatformPages
<1>2. CASE r \in Web!OrgRole
  <2>1. Web!Views[r] = Web!MemberViews(r)
    BY <1>2 DEF Web!Views, Web!OrgRole
  <2>2. s \in DOMAIN Web!MemberPages(r, TRUE) /\ Web!Pages(r, own) = Web!MemberPages(r, own)
    <3>1. Web!Views[r].own = Web!MemberPages(r, TRUE) /\ Web!Views[r].other = Web!MemberPages(r, FALSE)
      BY <2>1 DEF Web!MemberViews
    <3>2. CASE own = TRUE
      BY <3>1, <3>2 DEF Web!ScreensOf, Web!Pages
    <3>3. CASE own = FALSE
      BY <3>1, <3>3 DEF Web!ScreensOf, Web!Pages
    <3>. QED
      BY <3>2, <3>3
  <2>3. DOMAIN Web!MemberPages(r, TRUE) = DOMAIN Web!MemberPages(r, own)
    BY DEF Web!MemberPages
  <2>. QED
    BY <1>2, <2>2, <2>3, MembersHonoured
<1>. QED
  BY <1>1, <1>2 DEF Web!Role

RefusalInv ==
  /\ GestureOfTables
  /\ phase = "refused" => ~Web!Allowed(gesture.call, member, mine)

LEMMA RefusalStep == RefusalInv /\ [Web!Next]_Web!vars => RefusalInv'
<1> SUFFICES ASSUME RefusalInv, [Web!Next]_Web!vars PROVE RefusalInv'
  OBVIOUS
<1>1. UNCHANGED <<member, mine, gesture, query>>
  BY DEF Web!Next, Web!Open, Web!AskAgain, Web!FetchServed, Web!FetchArrives, Web!FetchFails,
         Web!Expire, Web!Press, Web!GestureServed, Web!GestureAnswered, Web!GestureFails,
         Web!GestureConflicts, Web!vars, Web!user
<1>2. phase' = "refused" => ~Web!Allowed(gesture.call, member, mine)
  BY DEF RefusalInv, Web!Next, Web!Open, Web!AskAgain, Web!FetchServed, Web!FetchArrives,
         Web!FetchFails, Web!Expire, Web!Press, Web!GestureServed, Web!GestureAnswered,
         Web!GestureFails, Web!GestureConflicts, Web!vars
<1>. QED
  BY <1>1, <1>2 DEF RefusalInv, GestureOfTables, Web!Page

\* No member is refused what a screen offered him, except by the buttons listed as
\* unguarded: of each component of each screen, for each role, and for the alerts of
\* others as of one's own (lib/alert-format.ts and the pages, core/permissions.py).
THEOREM OffersAreKept == AllSpec => []OffersAreHonoured
<1>1. AllInit => RefusalInv
  BY DEF AllInit, RefusalInv, GestureOfTables, Web!Init
<1>2. RefusalInv => OffersAreHonoured
  <2> SUFFICES ASSUME RefusalInv, phase = "refused"
               PROVE  <<gesture.call, member>> \in Web!Unguarded
    BY DEF OffersAreHonoured, Web!OffersAreHonoured
  <2>1. PICK s \in Web!ScreensOf(member) : gesture \in Web!Pages(member, mine)[s].offers
    BY DEF RefusalInv, GestureOfTables, Web!Page
  <2>2. member \in Web!Role /\ mine \in BOOLEAN
    BY DEF RefusalInv, GestureOfTables
  <2>. QED
    BY <2>1, <2>2, PagesHonoured DEF RefusalInv, OffersHonoured, Honoured
<1>. QED
  BY <1>1, <1>2, AllNextIsWebNext, RefusalStep, PTL DEF AllSpec
=============================================================================
