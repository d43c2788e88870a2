--------------------------- MODULE EasySlotsProofs --------------------------
(***************************************************************************)
(* Proofs about EasySlots for any recipes, any number of writes and any    *)
(* number of lost commands and links: no recipe that was a tea all along   *)
(* gets into a slot, whether writes overlap or not; and, as long as they   *)
(* do not, what Home Assistant shows for a slot is what the machine has in *)
(* it.                                                                     *)
(***************************************************************************)
EXTENDS EasySlots, TLAPS

\* A recipe that is a tea has been made one by an edit.
Edited(r) == r \in tea => r \in turned

\* What is sent as a tea has been made one by an edit.
BlobEdited(b) == b.tea => b.uid \in turned

\* Every tea on its way into a slot has been made one by an edit: what is recorded,
\* which later writes fill up with and which may become a tea before they do, what
\* is in a batch, and what a write sends and then records.
TeaInv ==
    /\ \A l \in Letters : BlobEdited(batch[l]) /\ Edited(record[l])
    /\ \A w \in Writers : Busy(w) => \A l \in Letters :
          BlobEdited(write[w].content[l]) /\ Edited(write[w].content[l].uid)
    /\ NoTeaInSlots

\* One write at a time.
AloneInv == \A v, w \in Writers : Busy(v) /\ Busy(w) => v = w

\* A client with a link knows the machine's mode, and its last ACK says so too.
ModeInv == link => known = mode /\ ack \in {"none", mode}

\* The third slot closes a batch, so an unfinished one never has it.
BatchInv == batch["C"] = NoBlob

\* The machine has what a write wants, as far as the write can tell.
Landed(w) == write[w].ok \/ (At(w, "batch") /\ write[w].next = 4)

\* A write fills the slots it was not asked for with what is recorded for them.
\* While the machine takes its batch, the batch holds what was sent so far; when
\* it knows that all of it went through, the slots hold what it sent.
WriteInv(w) ==
    LET me == write[w] IN
    /\ \A x \in Letters \ {me.letter} : record[x] \in store => me.content[x].uid = record[x]
    /\ me.pc = "switch" => me.next = 1
    /\ me.pc \in {"switch", "batch"} => ~me.ok
    /\ me.pc = "back" => me.ok
    /\ me.pc = "batch" /\ link /\ me.sure => mode = "pro"
    /\ me.pc = "batch" /\ link /\ mode = "pro" =>
         /\ me.next \in {2, 3} => batch["A"] = me.content["A"]
         /\ me.next = 3 => batch["B"] = me.content["B"]
         /\ me.next = 4 => slots = me.content
    /\ me.ok /\ me.sure => slots = me.content

\* The record agrees with the machine, but for the slot of a write that has
\* landed and is not recorded yet.
AgreeInv ==
    \A l \in Letters \ unsure : record[l] \in store =>
        \/ slots[l].uid = record[l]
        \/ \E w \in Writers : Busy(w) /\ write[w].letter = l /\ Landed(w)

\* The inductive invariant for writes that do not overlap.
SlotsInv ==
    /\ AloneInv /\ ModeInv /\ BatchInv /\ AgreeInv
    /\ \A w \in Writers : Busy(w) => WriteInv(w)

-----------------------------------------------------------------------------
(* The building blocks *)

\* The letters are written in their order.
LEMMA SlotOrder == SlotOf(1) = "A" /\ SlotOf(2) = "B" /\ SlotOf(3) = "C"
  BY DEF SlotOf, Letters, LetterRank

\* Writes that have not begun, or are over, are typed.
LEMMA IdleType ==
  /\ IdleWrite \in WriteState /\ DoneWrite \in WriteState
  /\ IdleWrite.pc = "idle" /\ DoneWrite.pc = "done"
  <1>1. (CHOOSE r \in Recipes : TRUE) \in Recipes BY EasySlotsAssumption
  <1>2. [l \in Letters |-> [uid |-> CHOOSE r \in Recipes : TRUE, tea |-> FALSE]] \in Content
    BY <1>1 DEF Content, Blob
  <1>3. IdleWrite \in WriteState BY <1>2 DEF IdleWrite, WriteState, PC, Letters
  <1>4. DoneWrite \in WriteState /\ DoneWrite.pc = "done" BY <1>3 DEF DoneWrite, WriteState, PC
  <1>5. IdleWrite.pc = "idle" BY DEF IdleWrite
  <1> QED BY <1>3, <1>4, <1>5

\* A blob names a recipe, and so is never the empty one.
LEMMA BlobType == NoBlob \notin Blob /\ \A b \in Blob : b.uid \in Recipes /\ b.uid # NoRecipe
  BY EasySlotsAssumption DEF NoBlob, Blob

\* What fills the slots are recipes that exist, as they are: the target's own, or
\* the recorded one.
LEMMA FillType ==
  ASSUME TypeOK, NEW l \in Letters, NEW r \in store
  PROVE  /\ Fill(l, r) \in Content
         /\ \A x \in Letters :
              /\ Fill(l, r)[x] \in {Now(r), Now(record[x])}
              /\ x # l /\ record[x] \in store => Fill(l, r)[x].uid = record[x]
  <1>1. \A q \in store : Now(q) \in Blob /\ Now(q).uid = q BY DEF TypeOK, Now, Blob
  <1>2. \A x \in Letters : (IF x # l /\ record[x] \in store THEN record[x] ELSE r) \in store OBVIOUS
  <1>3. \A x \in Letters : Fill(l, r)[x] = Now(IF x # l /\ record[x] \in store THEN record[x] ELSE r)
    BY DEF Fill
  <1>4. Fill(l, r) \in Content BY <1>1, <1>2 DEF Fill, Content
  <1>5. \A x \in Letters : Fill(l, r)[x] \in {Now(r), Now(record[x])} BY <1>3
  <1>6. \A x \in Letters : x # l /\ record[x] \in store => Fill(l, r)[x].uid = record[x]
    BY <1>1, <1>3
  <1> QED BY <1>4, <1>5, <1>6

\* A lost command or link counts.
LEMMA DropType ==
  ASSUME drops \in 0 .. MaxDrops, drops < MaxDrops, drops' = drops + 1
  PROVE  drops' \in 0 .. MaxDrops
  BY EasySlotsAssumption

\* A command that switches the mode.
LEMMA SwitchType ==
  ASSUME TypeOK, NEW m \in Modes, Switch(m)
  PROVE  /\ mode' \in Modes /\ known' \in Modes /\ ack' \in Modes \cup {"none"}
         /\ link' \in BOOLEAN /\ drops' \in 0 .. MaxDrops
         /\ batch' \in [Letters -> Blob \cup {NoBlob}] /\ batch' \in {batch, Empty}
         /\ slots' = slots
  <1>1. Empty \in [Letters -> Blob \cup {NoBlob}] BY DEF Empty
  <1>2. drops' \in 0 .. MaxDrops BY DropType DEF TypeOK, Switch, Drop
  <1>3. link' \in BOOLEAN BY DEF TypeOK, Switch, Drop
  <1>4. mode' \in Modes /\ known' \in Modes /\ ack' \in Modes \cup {"none"}
    BY DEF TypeOK, Switch, client, machine
  <1>5. batch' \in {batch, Empty} /\ slots' = slots BY DEF Switch, machine
  <1> QED BY <1>1, <1>2, <1>3, <1>4, <1>5 DEF TypeOK

\* A command that fills a slot.
LEMMA TakeSlotType ==
  ASSUME TypeOK, NEW l \in Letters, NEW r \in Blob, TakeSlot(l, r)
  PROVE  /\ batch' \in [Letters -> Blob \cup {NoBlob}]
         /\ slots' \in [Letters -> Blob \cup {NoBlob}]
         /\ mode' = mode
         /\ \A x \in Letters : batch'[x] \in {r, batch[x], NoBlob}
         /\ \/ slots' = slots
            \/ \A x \in Letters : slots'[x] # NoBlob /\ slots'[x] \in {r, batch[x]}
  <1>1. Empty \in [Letters -> Blob \cup {NoBlob}] /\ \A x \in Letters : Empty[x] = NoBlob
    BY DEF Empty
  <1>2. /\ [batch EXCEPT ![l] = r] \in [Letters -> Blob \cup {NoBlob}]
        /\ \A x \in Letters : [batch EXCEPT ![l] = r][x] \in {r, batch[x]}
    BY DEF TypeOK
  <1> QED BY <1>1, <1>2 DEF TakeSlot, TypeOK

-----------------------------------------------------------------------------
(* Types *)

LEMMA NextTyped == TypeOK /\ [Next]_vars => TypeOK'
  <1> SUFFICES ASSUME TypeOK, [Next]_vars PROVE TypeOK' OBVIOUS
  <1> USE EasySlotsAssumption DEF TypeOK, vars, recipes, client, machine
  <1>0. DoneWrite \in WriteState /\ IdleWrite \in WriteState BY IdleType
  <1>1. ASSUME NEW w \in Writers, BeginWrite(w) PROVE TypeOK'
    <2>1. PICK l \in Letters, r \in store \ tea :
            write' = [write EXCEPT ![w] =
                        [IdleWrite EXCEPT !.letter = l, !.content = Fill(l, r),
                                          !.pc = IF known = "easy" THEN "switch" ELSE "batch"]]
      BY <1>1 DEF BeginWrite
    <2>2. write' \in [Writers -> WriteState]
      BY <1>0, <2>1, FillType DEF WriteState, PC
    <2> QED BY <1>1, <2>2 DEF BeginWrite
  <1>2. ASSUME NEW w \in Writers, SwitchToPro(w) PROVE TypeOK'
    <2>1. write' \in [Writers -> WriteState]
      <3>1. [write[w] EXCEPT !.pc = "batch", !.switched = TRUE, !.sure = ack' = "pro"] \in WriteState
        BY ZenonT(60) DEF WriteState, PC
      <3> QED BY <1>0, <1>2, <3>1 DEF SwitchToPro, Ends
    <2>2. CASE Switch("pro") BY <1>2, <2>1, <2>2, SwitchType DEF SwitchToPro, Modes
    <2>3. CASE UNCHANGED <<client, link, machine, drops>> BY <1>2, <2>1, <2>3 DEF SwitchToPro
    <2> QED BY <1>2, <2>2, <2>3 DEF SwitchToPro
  <1>3. ASSUME NEW w \in Writers, WriteSlot(w) PROVE TypeOK'
    <2>1. write' \in [Writers -> WriteState]
      <3>1. CASE link /\ write[w].next <= 3 BY <1>3, <3>1 DEF WriteSlot, WriteState
      <3>2. CASE link /\ write[w].next = 4 
        <4> DEFINE pc == IF write[w].switched THEN "restore" ELSE "back"
        <4>0. ~(write[w].next <= 3) BY <3>2
        <4>1. write' = [write EXCEPT ![w].ok = TRUE, ![w].pc = pc] BY <1>3, <3>2, <4>0, Zenon DEF WriteSlot
        <4>2. write' = [write EXCEPT ![w] = [write[w] EXCEPT !.ok = TRUE, !.pc = pc]] BY <4>1
        <4>3. [write[w] EXCEPT !.ok = TRUE, !.pc = pc] \in WriteState BY ZenonT(60) DEF WriteState, PC
        <4> QED BY <4>2, <4>3
      <3>3. CASE ~link BY <1>0, <1>3, <3>3 DEF WriteSlot, Ends, WriteState, PC
      <3>4. write[w].next <= 3 \/ write[w].next = 4 BY DEF WriteState
      <3> QED BY <3>1, <3>2, <3>3, <3>4
    <2>2. unsure' \subseteq Letters BY <1>3 DEF WriteSlot, WriteState
    <2>3. slots' \in [Letters -> Blob \cup {NoBlob}] /\ batch' \in [Letters -> Blob \cup {NoBlob}] /\ mode' = mode
      <3>1. CASE link /\ write[w].next <= 3
        <4>1. write[w].next \in 1 .. 3 BY <3>1 DEF WriteState
        <4>2. SlotOf(write[w].next) \in Letters BY <4>1, SlotOrder DEF Letters
        <4>3. write[w].content[SlotOf(write[w].next)] \in Blob BY <4>2 DEF WriteState, Content
        <4>4. TakeSlot(SlotOf(write[w].next), write[w].content[SlotOf(write[w].next)])
          BY <1>3, <3>1, <4>1 DEF WriteSlot
        <4> QED BY <4>2, <4>3, <4>4, TakeSlotType
      <3> QED BY <1>3, <3>1 DEF WriteSlot
    <2> QED BY <1>3, <2>1, <2>2, <2>3 DEF WriteSlot
  <1>4. ASSUME NEW w \in Writers, RestoreEasy(w) PROVE TypeOK'
    <2>1. write' \in [Writers -> WriteState]
      BY <1>0, <1>4 DEF RestoreEasy, Ends, WriteState, PC
    <2>2. CASE Switch("easy") BY <1>4, <2>1, <2>2, SwitchType DEF RestoreEasy, Modes
    <2>3. CASE UNCHANGED <<client, link, machine, drops>> BY <1>4, <2>1, <2>3 DEF RestoreEasy
    <2> QED BY <1>4, <2>2, <2>3 DEF RestoreEasy
  <1>5. ASSUME NEW w \in Writers, Record(w) PROVE TypeOK'
    <2>1. write' \in [Writers -> WriteState] BY <1>0, <1>5 DEF Record, Ends
    <2>2. write[w].letter \in Letters /\ write[w].content[write[w].letter].uid \in Recipes
      BY DEF WriteState, Content, Blob
    <2>3. record' \in [Letters -> Recipes \cup {NoRecipe}] BY <1>5, <2>2 DEF Record, Recorded
    <2> QED BY <1>5, <2>1, <2>2, <2>3 DEF Record
  <1>6. ASSUME NEW m \in Modes, SetMode(m) PROVE TypeOK'
    BY <1>6, SwitchType DEF SetMode
  <1>7. ASSUME NEW r \in Recipes, Edit(r) \/ Delete(r) PROVE TypeOK' BY <1>7 DEF Edit, Delete
  <1>8. CASE SwitchAtMachine
    <2>1. batch' \in [Letters -> Blob \cup {NoBlob}] BY <1>8 DEF SwitchAtMachine, Empty
    <2>2. link' \in BOOLEAN /\ drops' \in 0 .. MaxDrops BY <1>8, DropType DEF SwitchAtMachine, Drop
    <2> QED BY <1>8, <2>1, <2>2 DEF SwitchAtMachine
  <1>9. CASE LinkDrops
    <2>1. link' \in BOOLEAN /\ drops' \in 0 .. MaxDrops BY <1>9, DropType DEF LinkDrops, Drop
    <2> QED BY <1>9, <2>1 DEF LinkDrops
  <1>10. CASE Reconnect BY <1>10 DEF Reconnect
  <1>11. CASE UNCHANGED vars BY <1>11
  <1> QED BY <1>1, <1>2, <1>3, <1>4, <1>5, <1>6, <1>7, <1>8, <1>9, <1>10, <1>11 DEF Next, WriteStep

-----------------------------------------------------------------------------
(* No tea in a slot *)

\* A write that goes on keeps its target and its content.
LEMMA StepKeepsContent ==
  ASSUME TypeOK, NEW w \in Writers, WriteStep(w)
  PROVE  /\ Busy(w)
         /\ \A v \in Writers \ {w} : write'[v] = write[v]
         /\ \/ write'[w].pc = "done"
            \/ write'[w].content = write[w].content /\ write'[w].letter = write[w].letter
  <1> USE IdleType DEF TypeOK, WriteState, Ends, Busy, At
  <1>1. CASE SwitchToPro(w)
    <2> DEFINE on == [write[w] EXCEPT !.pc = "batch", !.switched = TRUE, !.sure = ack' = "pro"]
    <2>1. write' = [write EXCEPT ![w] = DoneWrite] \/ write' = [write EXCEPT ![w] = on]
      BY <1>1 DEF SwitchToPro
    <2>2. on.content = write[w].content /\ on.letter = write[w].letter OBVIOUS
    <2> HIDE DEF on
    <2> QED BY <1>1, <2>1, <2>2 DEF SwitchToPro
  <1>2. CASE WriteSlot(w) BY <1>2 DEF WriteSlot
  <1>3. CASE RestoreEasy(w) BY <1>3 DEF RestoreEasy
  <1>4. CASE Record(w) BY <1>4 DEF Record
  <1> QED BY <1>1, <1>2, <1>3, <1>4 DEF WriteStep

\* A write sends its own content, one slot after the other.
LEMMA SlotSent ==
  ASSUME TypeOK, NEW w \in Writers, WriteSlot(w)
  PROVE  \/ /\ link /\ write[w].next \in 1 .. 3
            /\ SlotOf(write[w].next) \in Letters
            /\ write[w].content[SlotOf(write[w].next)] \in Blob
            /\ TakeSlot(SlotOf(write[w].next), write[w].content[SlotOf(write[w].next)])
         \/ UNCHANGED machine
  <1>1. CASE link /\ write[w].next <= 3
    <2>1. write[w].next \in 1 .. 3 BY <1>1 DEF TypeOK, WriteState
    <2>2. SlotOf(write[w].next) \in Letters BY <2>1, SlotOrder DEF Letters
    <2>3. write[w].content[SlotOf(write[w].next)] \in Blob BY <2>2 DEF TypeOK, WriteState, Content
    <2> QED BY <1>1, <2>1, <2>2, <2>3 DEF WriteSlot
  <1> QED BY <1>1 DEF WriteSlot

\* Edits only add to what has been made a tea, and then account for it.
LEMMA EditedKept ==
  ASSUME [Next]_vars
  PROVE  /\ turned \subseteq turned' /\ \A r : Edited(r) => Edited(r)'
         /\ (\E r \in Recipes : Edit(r)) \/ (tea' = tea /\ turned' = turned)
  <1>1. CASE \E r \in Recipes : Edit(r) BY <1>1 DEF Edit, Edited
  <1>2. CASE tea' = tea /\ turned' = turned BY <1>2 DEF Edited
  <1> QED BY <1>1, <1>2 DEF Next, WriteStep, BeginWrite, SwitchToPro, WriteSlot, RestoreEasy, Record,
                         SetMode, Delete, SwitchAtMachine, LinkDrops, Reconnect, recipes, vars

LEMMA NextTea == TypeOK /\ TeaInv /\ [Next]_vars => TeaInv'
  <1> SUFFICES ASSUME TypeOK, TeaInv, [Next]_vars PROVE TeaInv' OBVIOUS
  <1>0. \A x \in Letters : Empty[x] = NoBlob BY DEF Empty
  <1>1. ~NoBlob.tea BY DEF NoBlob
  <1>2. ASSUME NEW w \in Writers, BeginWrite(w) PROVE TeaInv'
    <2>1. PICK l \in Letters, r \in store \ tea :
            write' = [write EXCEPT ![w] =
                        [IdleWrite EXCEPT !.letter = l, !.content = Fill(l, r),
                                          !.pc = IF known = "easy" THEN "switch" ELSE "batch"]]
      BY <1>2 DEF BeginWrite
    <2>2. \A x \in Letters : BlobEdited(Fill(l, r)[x]) /\ Edited(Fill(l, r)[x].uid)
      <3>1. BlobEdited(Now(r)) /\ Edited(Now(r).uid) BY DEF BlobEdited, Edited, Now
      <3>2. \A x \in Letters : BlobEdited(Now(record[x])) /\ Edited(Now(record[x]).uid)
        BY DEF BlobEdited, Edited, Now, TeaInv
      <3> QED BY <3>1, <3>2, FillType
    <2>3. \A v \in Writers \ {w} : write'[v] = write[v] BY <2>1 DEF TypeOK
    <2>4. write'[w].content = Fill(l, r) BY <2>1 DEF TypeOK, IdleWrite
    <2>5. UNCHANGED <<record, tea, turned, batch, slots>> BY <1>2 DEF BeginWrite, recipes, machine
    <2>6. \A v \in Writers : Busy(v)' => \A x \in Letters :
            BlobEdited(write'[v].content[x]) /\ Edited(write'[v].content[x].uid)
      BY <2>2, <2>3, <2>4 DEF TeaInv, Busy
    <2> QED BY <2>5, <2>6 DEF TeaInv, NoTeaInSlots, BlobEdited, Edited
  <1>3. ASSUME NEW w \in Writers, WriteStep(w) PROVE TeaInv'
    <2>0. tea' = tea /\ turned' = turned
      BY <1>3 DEF WriteStep, SwitchToPro, WriteSlot, RestoreEasy, Record, recipes
    <2>1. \A v \in Writers : Busy(v)' => \A l \in Letters :
            BlobEdited(write'[v].content[l]) /\ Edited(write'[v].content[l].uid)
      BY <1>3, StepKeepsContent DEF TeaInv, Busy
    <2>2. \A l \in Letters : Edited(record'[l])
      <3>1. CASE Record(w)
        <4>1. Edited(write[w].content[write[w].letter].uid)
          BY <1>3, StepKeepsContent DEF TeaInv, TypeOK, WriteState
        <4> QED BY <3>1, <4>1 DEF Record, Recorded, TeaInv, TypeOK
      <3>2. CASE ~Record(w)
        BY <1>3, <3>2 DEF WriteStep, SwitchToPro, WriteSlot, RestoreEasy, TeaInv
      <3> QED BY <3>1, <3>2
    <2>3. /\ \A l \in Letters : BlobEdited(batch'[l]) /\ BlobEdited(slots'[l])
          /\ \A l \in Letters : slots'[l] = NoBlob => \A x \in Letters : slots'[x] = NoBlob
      <3>0. \A l \in Letters : BlobEdited(slots[l]) BY DEF TeaInv, NoTeaInSlots, BlobEdited
      <3>1. CASE WriteSlot(w) /\ ~UNCHANGED machine
        <4> DEFINE l == SlotOf(write[w].next)
                   r == write[w].content[l]
        <4>1. l \in Letters /\ r \in Blob /\ TakeSlot(l, r) BY <3>1, SlotSent
        <4>2. BlobEdited(r) BY <1>3, <4>1, StepKeepsContent DEF TeaInv
        <4> HIDE DEF l, r
        <4>3. BlobEdited(NoBlob) BY <1>1 DEF BlobEdited
        <4>4. \A x \in Letters : BlobEdited(batch'[x]) BY <4>1, <4>2, <4>3, TakeSlotType DEF TeaInv
        <4>5. /\ \A x \in Letters : BlobEdited(slots'[x])
              /\ \A x \in Letters : slots'[x] = NoBlob => \A y \in Letters : slots'[y] = NoBlob
          BY <3>0, <4>1, <4>2, TakeSlotType DEF TeaInv, NoTeaInSlots
        <4> QED BY <4>4, <4>5
      <3>2. CASE Switch("pro") \/ Switch("easy")
        <4>1. slots' = slots /\ batch' \in {batch, Empty} BY <3>2, SwitchType DEF Modes
        <4> QED BY <1>0, <1>1, <3>0, <4>1 DEF TeaInv, NoTeaInSlots, BlobEdited
      <3>3. CASE UNCHANGED machine BY <3>0, <3>3 DEF TeaInv, NoTeaInSlots, machine
      <3> QED BY <1>3, <3>1, <3>2, <3>3 DEF WriteStep, SwitchToPro, RestoreEasy, Record
    <2> QED BY <2>0, <2>1, <2>2, <2>3 DEF TeaInv, NoTeaInSlots, BlobEdited, Edited
  <1>4. ASSUME NEW m \in Modes, SetMode(m) PROVE TeaInv'
    <2>1. slots' = slots /\ batch' \in {batch, Empty} /\ UNCHANGED <<record, write, tea, turned>>
      BY <1>4, SwitchType DEF SetMode, recipes
    <2> QED BY <1>0, <1>1, <2>1 DEF TeaInv, NoTeaInSlots, Busy, BlobEdited, Edited
  <1>5. CASE SwitchAtMachine
    <2>1. slots' = slots /\ batch' = Empty /\ UNCHANGED <<record, write, tea, turned>>
      BY <1>5 DEF SwitchAtMachine, recipes
    <2> QED BY <1>0, <1>1, <2>1 DEF TeaInv, NoTeaInSlots, Busy, BlobEdited, Edited
  <1>6. CASE UNCHANGED <<record, write, machine>>
    <2>1. \A b : BlobEdited(b) => (b.tea => b.uid \in turned') BY EditedKept DEF BlobEdited
    <2>2. \A r : Edited(r) => (r \in tea' => r \in turned') BY EditedKept DEF Edited
    <2> QED BY <1>6, <2>1, <2>2 DEF TeaInv, NoTeaInSlots, Busy, BlobEdited, Edited, machine
  <1> QED BY <1>2, <1>3, <1>4, <1>5, <1>6 DEF Next, Edit, Delete, LinkDrops, Reconnect, vars

-----------------------------------------------------------------------------
(* The record agrees with the machine *)

\* Of the writes that are on their way, there is none but w.
LEMMA StaysAlone ==
  ASSUME AloneInv, NEW w \in Writers, Busy(w), \A v \in Writers \ {w} : write'[v] = write[v]
  PROVE  AloneInv' /\ \A v \in Writers \ {w} : ~Busy(v)'
  BY DEF AloneInv, Busy

\* What a switch of the mode leaves behind.
LEMMA SwitchKeeps ==
  ASSUME TypeOK, ModeInv, BatchInv, NEW m \in Modes, Switch(m), link
  PROVE  ModeInv' /\ BatchInv' /\ slots' = slots
  <1>1. Empty["C"] = NoBlob BY DEF Empty, Letters
  <1>2. BatchInv' /\ slots' = slots BY <1>1, SwitchType DEF BatchInv
  <1>3. ModeInv' BY DEF Switch, Drop, ModeInv, client, machine
  <1> QED BY <1>2, <1>3

LEMMA NextSlots == ASSUME ~Overlap PROVE TypeOK /\ SlotsInv /\ [Next]_vars => SlotsInv'
  <1> SUFFICES ASSUME TypeOK, SlotsInv, [Next]_vars PROVE SlotsInv' OBVIOUS
  <1> USE DEF SlotsInv
  <1>1. ASSUME NEW w \in Writers, BeginWrite(w) PROVE SlotsInv'
    <2>1. PICK l \in Letters, r \in store \ tea :
            write' = [write EXCEPT ![w] =
                        [IdleWrite EXCEPT !.letter = l, !.content = Fill(l, r),
                                          !.pc = IF known = "easy" THEN "switch" ELSE "batch"]]
      BY <1>1 DEF BeginWrite
    <2>2. /\ \A v \in Writers \ {w} : write'[v] = write[v]
          /\ write'[w].letter = l /\ write'[w].content = Fill(l, r) /\ write'[w].next = 1
          /\ ~write'[w].ok
          /\ write'[w].pc = IF known = "easy" THEN "switch" ELSE "batch"
      BY <2>1 DEF TypeOK, IdleWrite
    <2>3. \A v \in Writers : ~Busy(v) BY <1>1 DEF BeginWrite, MayBegin
    <2>4. AloneInv' BY <2>2, <2>3 DEF AloneInv, Busy
    <2>5. UNCHANGED <<store, record, known, ack, link, mode, slots, batch, unsure>>
      BY <1>1 DEF BeginWrite, recipes, client, machine
    <2>6. WriteInv(w)'
      <3>1. \A x \in Letters \ {l} : record[x] \in store => Fill(l, r)[x].uid = record[x] BY FillType
      <3> QED BY <2>2, <2>5, <3>1, <1>1 DEF WriteInv, ModeInv, BeginWrite, Modes, TypeOK
    <2>7. AgreeInv' BY <2>3, <2>5 DEF AgreeInv
    <2> QED BY <2>2, <2>3, <2>4, <2>5, <2>6, <2>7 DEF ModeInv, BatchInv, Busy
  <1>2. ASSUME NEW w \in Writers, SwitchToPro(w) PROVE SlotsInv'
    <2>0. At(w, "switch") /\ Busy(w) /\ ~Landed(w)
      BY <1>2 DEF SwitchToPro, At, Busy, Landed, WriteInv
    <2>1. \A v \in Writers \ {w} : write'[v] = write[v] BY <1>2, StepKeepsContent DEF WriteStep
    <2>2. AloneInv' /\ \A v \in Writers \ {w} : ~Busy(v)' BY <2>0, <2>1, StaysAlone
    <2>3. UNCHANGED <<store, record, unsure>> BY <1>2 DEF SwitchToPro, recipes
    <2>4. ModeInv' /\ BatchInv' /\ slots' = slots
      BY <1>2, SwitchKeeps DEF SwitchToPro, Modes, client, machine, ModeInv, BatchInv
    <2>5. AgreeInv'
      BY <2>0, <2>3, <2>4 DEF AgreeInv, AloneInv
    <2>6. CASE write' = [write EXCEPT ![w] = DoneWrite]
      <3>1. ~Busy(w)' BY <2>6, IdleType DEF Busy, TypeOK
      <3> QED BY <2>2, <2>4, <2>5, <3>1
    <2> DEFINE on == [write[w] EXCEPT !.pc = "batch", !.switched = TRUE, !.sure = ack' = "pro"]
    <2>7. CASE write' = [write EXCEPT ![w] = on]
      <3>1. /\ write'[w].pc = "batch" /\ write'[w].next = 1 /\ ~write'[w].ok
            /\ write'[w].sure => ack' = "pro"
            /\ write'[w].letter = write[w].letter /\ write'[w].content = write[w].content
        BY <2>0, <2>7 DEF TypeOK, WriteState, WriteInv, At
      <3>2. write'[w].sure /\ link' => mode' = "pro" BY <2>4, <3>1 DEF ModeInv
      <3>3. WriteInv(w) BY <2>0
      <3>4. WriteInv(w)' BY <2>3, <3>1, <3>2, <3>3 DEF WriteInv
      <3> QED BY <2>2, <2>4, <2>5, <3>4
    <2> QED BY <1>2, <2>6, <2>7 DEF SwitchToPro, Ends
  <1>3. ASSUME NEW w \in Writers, WriteSlot(w) PROVE SlotsInv'
    <2>0. At(w, "batch") /\ Busy(w) /\ ~write[w].ok /\ WriteInv(w)
      BY <1>3 DEF WriteSlot, At, Busy, WriteInv
    <2>1. \A v \in Writers \ {w} : write'[v] = write[v] BY <1>3, StepKeepsContent DEF WriteStep
    <2>2. AloneInv' /\ \A v \in Writers \ {w} : ~Busy(v)' BY <2>0, <2>1, StaysAlone
    <2>3. UNCHANGED <<store, record, known, ack, link, mode>> /\ ModeInv'
      BY <1>3 DEF WriteSlot, recipes, client, machine, TakeSlot, ModeInv
    <2>4. CASE link /\ write[w].next <= 3
      <3> DEFINE n == write[w].next
                 l == SlotOf(n)
                 b == [batch EXCEPT ![l] = write[w].content[l]]
      <3>1. /\ n \in 1 .. 3 /\ l \in Letters /\ l = CASE n = 1 -> "A" [] n = 2 -> "B" [] n = 3 -> "C"
            /\ unsure' = unsure
        BY <1>3, <2>4, SlotOrder DEF WriteSlot, TypeOK, WriteState, Letters
      <3>2. TakeSlot(l, write[w].content[l]) BY <1>3, <2>4, <3>1 DEF WriteSlot
      <3>3. /\ write'[w].pc = "batch" /\ write'[w].next = n + 1 /\ ~write'[w].ok
            /\ write'[w].sure = write[w].sure
            /\ write'[w].letter = write[w].letter /\ write'[w].content = write[w].content
        <4>1. write' = [write EXCEPT ![w].next = @ + 1] BY <1>3, <2>4 DEF WriteSlot
        <4> QED BY <2>0, <4>1 DEF TypeOK, WriteState, At
      <3>4. ~Landed(w) BY <2>0, <3>1 DEF Landed
      <3>5. \A x \in Letters \ unsure : record[x] \in store => slots[x].uid = record[x]
        BY <2>0, <3>4 DEF AgreeInv, AloneInv
      <3>6. CASE mode = "easy"
        <4>1. batch' = batch /\ slots' = slots BY <3>2, <3>6 DEF TakeSlot
        <4>2. WriteInv(w)' BY <2>0, <2>3, <3>3, <3>6, <4>1 DEF WriteInv, At
        <4>3. AgreeInv' BY <2>3, <3>1, <3>5, <4>1 DEF AgreeInv
        <4> QED BY <2>2, <2>3, <4>1, <4>2, <4>3 DEF BatchInv
      <3>7. CASE mode = "pro" /\ n # 3
        <4>1. b["C"] = NoBlob BY <3>1, <3>7 DEF BatchInv, TypeOK, Letters
        <4>2. batch' = b /\ slots' = slots BY <3>2, <3>7, <4>1 DEF TakeSlot, Letters
        <4>3. WriteInv(w)'
          BY <2>0, <2>3, <2>4, <3>1, <3>3, <3>7, <4>2 DEF WriteInv, At, TypeOK, Letters
        <4>4. AgreeInv' BY <2>3, <3>1, <3>5, <4>2 DEF AgreeInv
        <4> QED BY <2>2, <2>3, <4>1, <4>2, <4>3, <4>4 DEF BatchInv
      <3>8. CASE mode = "pro" /\ n = 3
        <4>1. write[w].content \in [Letters -> Blob] BY DEF TypeOK, WriteState, Content
        <4>2. b = write[w].content
          <5>1. batch["A"] = write[w].content["A"] /\ batch["B"] = write[w].content["B"]
            BY <2>0, <2>4, <3>8 DEF WriteInv, At
          <5>2. l = "C" BY <3>1, <3>8
          <5>3. DOMAIN b = Letters /\ \A x \in Letters : b[x] = write[w].content[x]
            BY <5>1, <5>2 DEF TypeOK, Letters
          <5>4. b = [x \in Letters |-> write[w].content[x]] BY <5>3 DEF TypeOK
          <5> QED BY <4>1, <5>4
        <4>3. slots' = write[w].content /\ batch' = Empty
          BY <3>2, <3>8, <4>1, <4>2, BlobType DEF TakeSlot
        <4>4. WriteInv(w)' BY <2>0, <2>3, <3>3, <3>8, <4>3 DEF WriteInv, At
        <4>5. Busy(w)' /\ Landed(w)' BY <3>3, <3>8 DEF Busy, Landed, At
        <4>6. AgreeInv' BY <2>0, <2>3, <3>3, <4>3, <4>5 DEF AgreeInv, WriteInv
        <4>7. BatchInv' BY <4>3 DEF BatchInv, Empty, Letters
        <4> QED BY <2>2, <2>3, <4>4, <4>6, <4>7
      <3> QED BY <3>6, <3>7, <3>8 DEF TypeOK, Modes
    <2>5. CASE link /\ write[w].next = 4
      <3>1. UNCHANGED <<slots, batch, unsure>> BY <1>3, <2>5 DEF WriteSlot, machine
      <3> DEFINE pc == IF write[w].switched THEN "restore" ELSE "back"
      <3>2. ~(write[w].next <= 3) BY <2>5
      <3>3. write' = [write EXCEPT ![w].ok = TRUE, ![w].pc = pc]
        BY <1>3, <2>5, <3>2, Zenon DEF WriteSlot
      <3>4. /\ write'[w].pc \in {"restore", "back"} /\ write'[w].ok
            /\ write'[w].sure = write[w].sure
            /\ write'[w].letter = write[w].letter /\ write'[w].content = write[w].content
        BY <3>3 DEF TypeOK, WriteState
      <3>5. WriteInv(w)' BY <2>0, <2>3, <2>5, <3>1, <3>4 DEF WriteInv, At
      <3>6. Busy(w)' /\ Landed(w)' BY <3>4 DEF Busy, Landed
      <3>7. AgreeInv' BY <2>0, <2>3, <3>1, <3>4, <3>6 DEF AgreeInv, AloneInv
      <3> QED BY <2>2, <2>3, <3>1, <3>5, <3>7 DEF BatchInv
    <2>6. CASE ~link
      <3>1. UNCHANGED <<slots, batch>> BY <1>3, <2>6 DEF WriteSlot, machine
      <3>2. unsure' = IF write[w].next = 4 THEN unsure \cup {write[w].letter} ELSE unsure
        BY <1>3, <2>6 DEF WriteSlot
      <3>3. \A x \in Letters \ unsure' : record[x] \in store => slots[x].uid = record[x]
        BY <2>0, <3>2 DEF AgreeInv, AloneInv, Landed
      <3>4. AgreeInv' BY <2>3, <3>1, <3>3 DEF AgreeInv
      <3>5. Busy(w)' => WriteInv(w)'
        <4>1. CASE write[w].switched
          <5>1. write' = [write EXCEPT ![w].pc = "restore"] BY <1>3, <2>6, <4>1 DEF WriteSlot
          <5>2. /\ write'[w].pc = "restore" /\ ~write'[w].ok
                /\ write'[w].letter = write[w].letter /\ write'[w].content = write[w].content
            BY <2>0, <5>1 DEF TypeOK, WriteState
          <5> QED BY <2>0, <2>3, <5>2 DEF WriteInv
        <4>2. CASE ~write[w].switched
          <5>1. write' = [write EXCEPT ![w] = DoneWrite] BY <1>3, <2>6, <4>2 DEF WriteSlot, Ends
          <5> QED BY <5>1, IdleType DEF Busy, TypeOK
        <4> QED BY <4>1, <4>2
      <3> QED BY <2>2, <2>3, <3>1, <3>4, <3>5 DEF BatchInv
    <2>7. write[w].next <= 3 \/ write[w].next = 4 BY DEF TypeOK, WriteState
    <2> QED BY <2>4, <2>5, <2>6, <2>7
  <1>4. ASSUME NEW w \in Writers, RestoreEasy(w) PROVE SlotsInv'
    <2>0. At(w, "restore") /\ Busy(w) /\ WriteInv(w) /\ (Landed(w) <=> write[w].ok)
      BY <1>4 DEF RestoreEasy, At, Busy, Landed
    <2>1. \A v \in Writers \ {w} : write'[v] = write[v] BY <1>4, StepKeepsContent DEF WriteStep
    <2>2. AloneInv' /\ \A v \in Writers \ {w} : ~Busy(v)' BY <2>0, <2>1, StaysAlone
    <2>3. UNCHANGED <<store, record, unsure>> BY <1>4 DEF RestoreEasy, recipes
    <2>4. ModeInv' /\ BatchInv' /\ slots' = slots
      BY <1>4, SwitchKeeps DEF RestoreEasy, Modes, client, machine, ModeInv, BatchInv
    <2>5. CASE write[w].ok
      <3>1. write' = [write EXCEPT ![w].pc = "back"] BY <1>4, <2>5 DEF RestoreEasy
      <3>2. /\ write'[w].pc = "back" /\ write'[w].ok /\ write'[w].sure = write[w].sure
            /\ write'[w].letter = write[w].letter /\ write'[w].content = write[w].content
        BY <2>5, <3>1 DEF TypeOK, WriteState
      <3>3. WriteInv(w)' BY <2>0, <2>3, <2>4, <2>5, <3>2 DEF WriteInv
      <3>4. AgreeInv' BY <2>0, <2>3, <2>4, <3>2 DEF AgreeInv, AloneInv, Busy, Landed
      <3> QED BY <2>2, <2>4, <3>3, <3>4
    <2>6. CASE ~write[w].ok
      <3>1. write' = [write EXCEPT ![w] = DoneWrite] BY <1>4, <2>6 DEF RestoreEasy, Ends
      <3>2. ~Busy(w)' BY <3>1, IdleType DEF Busy, TypeOK
      <3>3. AgreeInv' BY <2>0, <2>3, <2>4, <2>6 DEF AgreeInv, AloneInv
      <3> QED BY <2>2, <2>4, <3>2, <3>3
    <2> QED BY <2>5, <2>6
  <1>5. ASSUME NEW w \in Writers, Record(w) PROVE SlotsInv'
    <2> DEFINE l == write[w].letter
    <2>0. At(w, "back") /\ Busy(w) /\ WriteInv(w) /\ write[w].ok /\ l \in Letters
      BY <1>5 DEF Record, At, Busy, WriteInv, TypeOK, WriteState
    <2>1. \A v \in Writers \ {w} : write'[v] = write[v] BY <1>5, StepKeepsContent DEF WriteStep
    <2>2. AloneInv' /\ \A v \in Writers \ {w} : ~Busy(v)' BY <2>0, <2>1, StaysAlone
    <2>3. ~Busy(w)'
      <3>1. write' = [write EXCEPT ![w] = DoneWrite] BY <1>5 DEF Record, Ends
      <3> QED BY <3>1, IdleType DEF Busy, TypeOK
    <2>4. UNCHANGED <<store, known, ack, link, mode, slots, batch>>
      BY <1>5 DEF Record, recipes, client, machine
    <2>5. AgreeInv'
      <3> SUFFICES ASSUME NEW x \in Letters \ unsure', record'[x] \in store
                   PROVE  slots[x].uid = record'[x]
        BY <2>4 DEF AgreeInv
      <3>1. CASE x = l
        <4>1. write[w].sure BY <1>5, <3>1 DEF Record
        <4> QED BY <1>5, <2>0, <3>1, <4>1 DEF Record, Recorded, WriteInv, TypeOK
      <3>2. CASE x # l
        <4>1. record'[x] = record[x] /\ x \notin unsure BY <1>5, <3>2 DEF Record, Recorded, TypeOK
        <4> QED BY <2>0, <3>2, <4>1 DEF AgreeInv, AloneInv
      <3> QED BY <3>1, <3>2
    <2> QED BY <2>2, <2>3, <2>4, <2>5 DEF ModeInv, BatchInv
  <1>6. ASSUME NEW m \in Modes, SetMode(m) PROVE SlotsInv'
    <2>1. \A w \in Writers : ~Busy(w) BY <1>6 DEF SetMode, MayBegin
    <2>2. UNCHANGED <<store, record, write, unsure>> BY <1>6 DEF SetMode, recipes
    <2>3. ModeInv' /\ BatchInv' /\ slots' = slots BY <1>6, SwitchKeeps DEF SetMode
    <2>4. AloneInv' /\ \A w \in Writers : ~Busy(w)' BY <2>1, <2>2 DEF AloneInv, Busy
    <2>5. AgreeInv' BY <2>1, <2>2, <2>3 DEF AgreeInv
    <2> QED BY <2>3, <2>4, <2>5
  <1>7. ASSUME NEW r \in Recipes, Edit(r) \/ Delete(r) PROVE SlotsInv'
    BY <1>7 DEF Edit, Delete, AloneInv, ModeInv, BatchInv, AgreeInv, WriteInv, Busy, Landed, At,
                client, machine
  <1>8. CASE SwitchAtMachine
    <2>1. link' = FALSE /\ batch' = Empty /\ UNCHANGED <<store, record, write, slots, unsure>>
      BY <1>8 DEF SwitchAtMachine, Drop, recipes
    <2>2. BatchInv' BY <2>1 DEF BatchInv, Empty, Letters
    <2> QED BY <2>1, <2>2 DEF AloneInv, ModeInv, AgreeInv, WriteInv, Busy, Landed, At
  <1>9. CASE LinkDrops
    BY <1>9 DEF LinkDrops, Drop, recipes, AloneInv, ModeInv, BatchInv, AgreeInv, WriteInv, Busy, Landed,
                At, client, machine
  <1>10. CASE Reconnect
    BY <1>10 DEF Reconnect, recipes, AloneInv, ModeInv, BatchInv, AgreeInv, WriteInv, Busy, Landed, At, machine
  <1>11. CASE UNCHANGED vars
    BY <1>11 DEF vars, recipes, AloneInv, ModeInv, BatchInv, AgreeInv, WriteInv, Busy, Landed, At, client, machine
  <1> QED BY <1>1, <1>2, <1>3, <1>4, <1>5, <1>6, <1>7, <1>8, <1>9, <1>10, <1>11 DEF Next, WriteStep

-----------------------------------------------------------------------------

\* The initial states satisfy all of it.
LEMMA InitHolds == Init => TypeOK /\ TeaInv /\ SlotsInv
  <1> SUFFICES ASSUME Init PROVE TypeOK /\ TeaInv /\ SlotsInv OBVIOUS
  <1>1. write \in [Writers -> WriteState] /\ \A w \in Writers : ~Busy(w)
    BY IdleType DEF Init, Busy
  <1>2. \A l \in Letters : Empty[l] = NoBlob BY DEF Empty
  <1>3. Empty \in [Letters -> Blob \cup {NoBlob}] BY DEF Empty
  <1>4. TypeOK BY <1>1, <1>3, EasySlotsAssumption DEF Init, TypeOK
  <1>5. TeaInv
    BY <1>1, <1>2, <1>4, EasySlotsAssumption
    DEF Init, TeaInv, NoTeaInSlots, BlobEdited, Edited, NoBlob, TypeOK
  <1>6. SlotsInv
    BY <1>1, <1>2, EasySlotsAssumption
    DEF Init, SlotsInv, AloneInv, ModeInv, BatchInv, AgreeInv, Letters
  <1> QED BY <1>4, <1>5, <1>6

\* The calls, the record and the machine keep their types.
THEOREM TypeCorrect == Spec => []TypeOK
  BY InitHolds, NextTyped, PTL DEF Spec

\* async_write_easy_slot checks the kind of the recipe it is asked for only, and
\* fills the other two slots with what was recorded earlier: a tea gets into a
\* slot only by an edit of such a recipe.  This holds for overlapping calls as well.
THEOREM TeaStaysOut == Spec => []NoTeaInSlots
  <1>1. TypeOK /\ TeaInv /\ [Next]_vars => (TypeOK /\ TeaInv)' BY NextTyped, NextTea
  <1>2. TeaInv => NoTeaInSlots BY DEF TeaInv
  <1> QED BY <1>1, <1>2, InitHolds, PTL DEF Spec

\* Calls that do not overlap leave the record in agreement with the machine,
\* for every slot whose write knows what became of it.
THEOREM RecordAgrees == ASSUME ~Overlap PROVE Spec => []SlotsAgree
  <1>1. TypeOK /\ SlotsInv /\ [Next]_vars => (TypeOK /\ SlotsInv)' BY NextTyped, NextSlots
  <1>2. SlotsInv => SlotsAgree BY DEF SlotsInv, AgreeInv, SlotsAgree
  <1> QED BY <1>1, <1>2, InitHolds, PTL DEF Spec
=============================================================================
