----------------------------- MODULE EasySlots ------------------------------
(***************************************************************************)
(* Writing Easy Mode slots (coordinator/recipes.py async_write_easy_slot,  *)
(* brewing.py async_write_easy_slots) and the mode switch it may need      *)
(* (coordinator/connection.py).  The machine takes slots in Pro mode only, *)
(* keeps a batch only when all three are written, never tells what a slot  *)
(* holds, and drops the link when it changes its mode (now and then).  The *)
(* coordinator fills in the other two slots from its record in             *)
(* entry.options["easy_slots"], with those recipes as they are by then: an *)
(* edit may have made one a tea, which no slot can brew.                   *)
(*                                                                         *)
(* The machine is awake; the retry for a sleeping one is in RecipeChain.   *)
(***************************************************************************)
EXTENDS Naturals

CONSTANTS
    Recipes,   \* uids of the local recipes; one may be edited or deleted
    Writers,   \* calls of the slot buttons, the service and the tool
    Overlap,   \* whether a write may begin while another is on its way
    MaxDrops   \* bound: lost switch commands and link drops

Letters == {"A", "B", "C"}
LetterRank == [A |-> 1, B |-> 2, C |-> 3]
NoRecipe == "none"
Modes == {"pro", "easy"}

ASSUME EasySlotsAssumption ==
    /\ Recipes # {} /\ NoRecipe \notin Recipes
    /\ MaxDrops \in Nat

VARIABLES
    store,      \* the uids in coordinator.recipes
    tea,        \* the recipes whose cup type is tea
    record,     \* entry.options["easy_slots"]
    write,      \* each call
    known,      \* the mode the client believes: the last ACK, or MachineInfo
    ack,        \* the mode of the last ACK since the link came up
    prefer,     \* entry.options["mode"]
    link,       \* the link is up
    mode,       \* the machine: its mode
    slots,      \* the machine: what each slot holds
    batch,      \* the machine: slots of an unfinished batch
    drops,      \* losses so far
    unsure,     \* history: slots whose last write ended without knowing what it did
    turned      \* history: recipes that an edit has made a tea

recipes == <<store, tea, turned>>
client == <<known, ack>>
machine == <<mode, slots, batch>>
vars == <<recipes, record, write, client, prefer, link, machine, drops, unsure>>

(* switch:  waiting for the ACK of the switch to Pro                       *)
(* batch:   between two slots                                              *)
(* restore: about to switch back                                           *)
(* back:    about to record what was written                               *)
PC == {"idle", "switch", "batch", "restore", "back", "done"}

(* What a slot is sent: a recipe, as it was when the write began.          *)
Blob == [uid : Recipes, tea : BOOLEAN]
NoBlob == [uid |-> NoRecipe, tea |-> FALSE]
Content == [Letters -> Blob]

WriteState == [pc : PC, letter : Letters, content : Content, next : 1 .. 4,
               switched : BOOLEAN, sure : BOOLEAN, ok : BOOLEAN]

TypeOK ==
    /\ store \subseteq Recipes /\ tea \subseteq Recipes /\ turned \subseteq Recipes
    /\ record \in [Letters -> Recipes \cup {NoRecipe}]
    /\ slots \in [Letters -> Blob \cup {NoBlob}]
    /\ batch \in [Letters -> Blob \cup {NoBlob}]
    /\ write \in [Writers -> WriteState]
    /\ known \in Modes /\ ack \in Modes \cup {"none"} /\ mode \in Modes /\ prefer \in Modes
    /\ link \in BOOLEAN
    /\ drops \in 0 .. MaxDrops
    /\ unsure \subseteq Letters

Empty == [l \in Letters |-> NoBlob]

IdleWrite == [pc |-> "idle", letter |-> "A",
              content |-> [l \in Letters |-> [uid |-> CHOOSE r \in Recipes : TRUE, tea |-> FALSE]],
              next |-> 1, switched |-> FALSE, sure |-> TRUE, ok |-> FALSE]

Init ==
    /\ store = Recipes /\ tea \in SUBSET Recipes /\ turned = {}
    /\ record = [l \in Letters |-> NoRecipe] /\ slots = Empty /\ batch = Empty
    /\ write = [w \in Writers |-> IdleWrite]
    /\ mode \in Modes /\ known = mode /\ ack = "none" /\ prefer = mode
    /\ link = TRUE
    /\ drops = 0
    /\ unsure = {}

At(w, pc) == write[w].pc = pc
DoneWrite == [IdleWrite EXCEPT !.pc = "done"]
Ends(w) == write' = [write EXCEPT ![w] = DoneWrite]
Busy(w) == write[w].pc \notin {"idle", "done"}
MayBegin == Overlap \/ \A w \in Writers : ~Busy(w)

-----------------------------------------------------------------------------
(* The machine and its link *)

Drop == link' = FALSE /\ drops < MaxDrops /\ drops' = drops + 1

\* 11511 arrives and is acknowledged, arrives and costs the link, or is lost.
Switch(m) ==
    \/ /\ mode' = m /\ batch' = Empty
       /\ ack' = m /\ known' = m
       /\ UNCHANGED <<link, drops, slots>>
    \/ /\ mode' = m /\ batch' = Empty
       /\ Drop
       /\ UNCHANGED <<client, slots>>
    \/ /\ drops < MaxDrops /\ drops' = drops + 1
       /\ UNCHANGED <<client, link, machine>>

\* Someone turns the mode at the machine.
SwitchAtMachine ==
    /\ Drop
    /\ mode' \in Modes \ {mode} /\ batch' = Empty
    /\ link
    /\ UNCHANGED <<recipes, record, write, client, prefer, slots, unsure>>

LinkDrops ==
    /\ link
    /\ Drop
    /\ UNCHANGED <<recipes, record, write, client, prefer, machine, unsure>>

\* A fresh client knows the mode from MachineInfo.  A batch finds its own
\* client dead at the next send, less than a second later: a connect takes longer.
Reconnect ==
    /\ ~link
    /\ \A w \in Writers : ~At(w, "batch") /\ ~At(w, "switch")
    /\ link' = TRUE
    /\ known' = mode /\ ack' = "none"
    /\ UNCHANGED <<recipes, record, write, prefer, machine, drops, unsure>>

\* 11510: taken in Pro mode; the third of a batch saves all three.
TakeSlot(l, blob) ==
    LET b == [batch EXCEPT ![l] = blob] IN
    /\ IF mode = "easy" THEN UNCHANGED <<batch, slots>>
       ELSE IF \A x \in Letters : b[x] # NoBlob
       THEN slots' = b /\ batch' = Empty
       ELSE batch' = b /\ UNCHANGED slots
    /\ UNCHANGED mode

-----------------------------------------------------------------------------
(* async_write_easy_slot *)

Now(r) == [uid |-> r, tea |-> r \in tea]

\* Variant: the target's recipe goes into every slot.
FillWithTarget(l, r) == [x \in Letters |-> Now(r)]

\* The other two slots: what the record names, if that recipe still exists, else
\* the target's own recipe.  They are not asked for their kind.
Fill(l, r) ==
    [x \in Letters |-> Now(IF x # l /\ record[x] \in store THEN record[x] ELSE r)]

\* Variant: what is written is not asked for its kind.
BeginWriteAnyKind(w) ==
    /\ At(w, "idle")
    /\ MayBegin
    /\ link
    /\ \E l \in Letters, r \in store :
         write' = [write EXCEPT ![w] =
                     [IdleWrite EXCEPT !.letter = l, !.content = Fill(l, r),
                                       !.pc = IF known = "easy" THEN "switch" ELSE "batch"]]
    /\ UNCHANGED <<recipes, record, client, prefer, link, machine, drops, unsure>>

\* Up to the mode switch: a known recipe that is not a tea, and a link.
BeginWrite(w) ==
    /\ At(w, "idle")
    /\ MayBegin
    /\ link
    /\ \E l \in Letters, r \in store \ tea :
         write' = [write EXCEPT ![w] =
                     [IdleWrite EXCEPT !.letter = l, !.content = Fill(l, r),
                                       !.pc = IF known = "easy" THEN "switch" ELSE "batch"]]
    /\ UNCHANGED <<recipes, record, client, prefer, link, machine, drops, unsure>>

\* _async_switch_mode_with_retry("pro"): the machine is awake, so one send; it
\* goes on without the ACK.  A dead link is an exception, and switched_to_pro
\* is not set then, whatever the machine did.
SwitchToPro(w) ==
    /\ At(w, "switch")
    /\ \/ /\ link
          /\ Switch("pro")
          /\ write' = [write EXCEPT ![w] =
                         IF ~link' THEN DoneWrite
                         ELSE [@ EXCEPT !.pc = "batch", !.switched = TRUE,
                                        !.sure = ack' = "pro"]]
       \/ /\ ~link
          /\ Ends(w)
          /\ UNCHANGED <<client, link, machine, drops>>
    /\ UNCHANGED <<recipes, record, prefer, unsure>>

\* async_write_easy_slots: A, B and C, one after the other, and the order; no
\* send is acknowledged.
SlotOf(n) == CHOOSE l \in Letters : LetterRank[l] = n

WriteSlot(w) ==
    /\ At(w, "batch")
    /\ \/ /\ link /\ write[w].next <= 3
          /\ LET l == SlotOf(write[w].next) IN TakeSlot(l, write[w].content[l])
          /\ write' = [write EXCEPT ![w].next = @ + 1]
          /\ UNCHANGED unsure
       \/ /\ link /\ write[w].next = 4
          /\ write' = [write EXCEPT ![w].ok = TRUE,
                                    ![w].pc = IF write[w].switched THEN "restore" ELSE "back"]
          /\ UNCHANGED <<machine, unsure>>
       \/ /\ ~link
          /\ IF write[w].switched THEN write' = [write EXCEPT ![w].pc = "restore"] ELSE Ends(w)
          /\ unsure' = IF write[w].next = 4 THEN unsure \cup {write[w].letter} ELSE unsure
          /\ UNCHANGED machine
    /\ UNCHANGED <<recipes, record, client, prefer, link, drops>>

\* The finally: back to Easy, best effort.
RestoreEasy(w) ==
    /\ At(w, "restore")
    /\ \/ link /\ Switch("easy")
       \/ ~link /\ UNCHANGED <<client, link, machine, drops>>
    /\ IF write[w].ok THEN write' = [write EXCEPT ![w].pc = "back"] ELSE Ends(w)
    /\ UNCHANGED <<recipes, record, prefer, unsure>>

\* Only the slot that was asked for is recorded.
Recorded(w) ==
    [record EXCEPT ![write[w].letter] = write[w].content[write[w].letter].uid]

Record(w) ==
    /\ At(w, "back")
    /\ record' = Recorded(w)
    /\ unsure' = IF write[w].sure THEN unsure \ {write[w].letter}
                 ELSE unsure \cup {write[w].letter}
    /\ Ends(w)
    /\ UNCHANGED <<recipes, client, prefer, link, machine, drops>>

-----------------------------------------------------------------------------

\* async_set_mode: the preference is kept, confirmed or not.
SetMode(m) ==
    /\ MayBegin
    /\ link
    /\ m # prefer
    /\ Switch(m)
    /\ prefer' = IF link' THEN m ELSE prefer
    /\ UNCHANGED <<recipes, record, write, unsure>>

\* async_edit_local_recipe: the cup type is one of the fields an edit may change.
\* The uid stays, and with it what the record names.
Edit(r) ==
    /\ r \in store
    /\ tea' = IF r \in tea THEN tea \ {r} ELSE tea \cup {r}
    /\ turned' = IF r \in tea THEN turned ELSE turned \cup {r}
    /\ UNCHANGED <<store, record, write, client, prefer, link, machine, drops, unsure>>

\* delete_local_recipe
Delete(r) ==
    /\ r \in store
    /\ store' = store \ {r}
    /\ UNCHANGED <<tea, turned, record, write, client, prefer, link, machine, drops, unsure>>

WriteStep(w) == SwitchToPro(w) \/ WriteSlot(w) \/ RestoreEasy(w) \/ Record(w)

Next ==
    \/ \E w \in Writers : BeginWrite(w) \/ WriteStep(w)
    \/ \E m \in Modes : SetMode(m)
    \/ \E r \in Recipes : Edit(r) \/ Delete(r)
    \/ SwitchAtMachine \/ LinkDrops \/ Reconnect

Spec == Init /\ [][Next]_vars

-----------------------------------------------------------------------------

\* The recipe Home Assistant shows for a slot (by its uid) is the one the machine
\* has in it, through writes of other slots, failed writes, edits and deletions;
\* but for a slot whose switch to Pro was never confirmed, or whose link went away
\* between the third slot and the order that closes the batch.
SlotsAgree ==
    \A l \in Letters \ unsure :
        record[l] \in store /\ (\A w \in Writers : ~Busy(w)) => slots[l].uid = record[l]

\* Asking for a tea never puts one into a slot, and neither does anything that is
\* on its way meanwhile: the only teas the machine gets are recipes that were
\* coffee when they were written, and that an edit made a tea before a write of
\* another slot sent them again.  And the machine never gets less than a full
\* batch: what it saves names all three slots.
NoTeaInSlots ==
    \A l \in Letters :
        /\ slots[l].tea => slots[l].uid \in turned
        /\ slots[l] = NoBlob => \A x \in Letters : slots[x] = NoBlob
=============================================================================
