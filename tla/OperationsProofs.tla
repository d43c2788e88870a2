-------------------------- MODULE OperationsProofs --------------------------
(***************************************************************************)
(* Proofs about Operations: its types, what a poll makes of the machine's  *)
(* reports (PollAgrees), the pause that survives the lag of its report     *)
(* (PauseKept) and, over the history of OperationsIntent, the arm that is  *)
(* only dropped once its page was left (ArmDroppedOnceLeft).               *)
(*                                                                         *)
(* The coordinator sees the machine through the notifications in flight.   *)
(* The invariant is about the path of statuses they will lead it along:    *)
(* the last one agrees with the machine as it is now.                      *)
(***************************************************************************)
EXTENDS OperationsIntent, SequenceTheorems, TLAPS

(* What a status says *)

\* client.status after a notification n.
After(s, n) == StatusAfter(StatusAfter(s, n[1]), n[2])

\* The status a page leaves: nothing runs.
Resting(p) == [screen |-> p, lastPage |-> p, label |-> "none", grinding |-> FALSE,
               pouring |-> FALSE, state |-> "idle"]

\* The status of a manual run on its page p.
Running(s, p) ==
    /\ s.lastPage = p
    /\ IF p = "pour" THEN s.screen = "none" /\ (s.pouring \/ s.label \in {"starting", "brewing"})
       ELSE s.grinding

\* A status that is up to date with the machine.
Agrees(s) ==
    /\ s.screen \in {"none", page}
    /\ page \in Pages /\ phase # "running" => s = Resting(page)
    /\ page \in Manual /\ run = page /\ phase = "running" => Running(s, page)

\* A run has a phase and is on its page; a pour may run on the home page.
MachineInv ==
    /\ run = "none" <=> phase = "none"
    /\ run = "recipe" => page = "recipe"
    /\ run \in Manual => page \in {run, "home"}

\* A cancel that stops something stops a manual run.
CallInv == \A t \in Calls : call[t].pc \in {"stop", "quit"} => call[t].op \in Manual

-----------------------------------------------------------------------------
(* What the machine reports of its steps *)

\* It shows a page and nothing runs there,
Shows(n) ==
    /\ page' \in Pages /\ phase' # "running"
    /\ n \in {<<page', NoFrame>>, <<"grind_stop", page'>>, <<"brew_stop", page'>>}

\* or shows a recipe, or an error,
Hides(n) ==
    /\ page' \in {"prompt", "recipe"}
    /\ \/ n \in {<<"recipe_loaded", NoFrame>>, <<"starting", NoFrame>>, <<"brewing", NoFrame>>}
       \/ n \in {<<"grind_begin", "brewing">>, <<"brew_begin", "brewing">>, <<"brew_pause", Unmapped>>,
                 <<"pod", "recipe_loaded">>, <<"easy_begin", "starting">>, <<"enjoy", "ready">>,
                 <<"error", "no_beans">>}

\* or a manual run goes on.
Begins(n) ==
    /\ run \in Manual /\ run' = run /\ page' = page
    /\ phase # "running" /\ phase' = "running"
    /\ n \in IF run = "grind" THEN {<<"grind_begin", NoFrame>>}
             ELSE {<<"brewing", NoFrame>>, <<"brew_begin", "brewing">>}

Says(n) == reports' = Append(reports, n) /\ (Shows(n) \/ Hides(n) \/ Begins(n))

\* The start of a manual run is only reported once it begins.
Starts ==
    /\ run = "none" /\ phase' = "starting"
    /\ UNCHANGED <<page, reports>>

MachineType ==
    /\ page \in Pages \cup {"prompt", "recipe"}
    /\ run \in Operation
    /\ phase \in {"none", "starting", "running", "paused", "held"}

Moves == MachineInv' /\ MachineType' /\ (UNCHANGED machine \/ Starts \/ \E n : Says(n))

\* What a frame makes of a status.
LEMMA OfPage ==
  ASSUME NEW s, NEW f \in Pages
  PROVE  StatusAfter(s, f) = Resting(f) /\ Resting(f) \in Status
  <1>1. StatusAfter(s, f) = Resting(f) BY DEF StatusAfter, Resting, Pages, Manual, Labels, Unmapped
  <1>2. Resting(f) \in Status BY DEF Resting, Status
  <1> QED BY <1>1, <1>2

LEMMA OfLabel ==
  ASSUME NEW s \in Status, NEW f \in Labels \cup {Unmapped}
  PROVE  /\ StatusAfter(s, f) \in Status /\ StatusAfter(s, f).screen = "none"
         /\ StatusAfter(s, f) = [s EXCEPT !.screen = "none", !.label = IF f = Unmapped THEN "none" ELSE f]
  <1> USE DEF Status, Pages, Manual, Labels, Unmapped
  <1>1. StatusAfter(s, f) = [s EXCEPT !.screen = "none", !.label = IF f = Unmapped THEN "none" ELSE f]
    BY DEF StatusAfter
  <1>2. StatusAfter(s, f).screen = "none" BY <1>1
  <1> QED BY <1>1, <1>2

LEMMA OfEvent ==
  ASSUME NEW s \in Status, NEW f \in Events \cup {NoFrame}
  PROVE  /\ StatusAfter(s, f) \in Status
         /\ StatusAfter(s, f).screen = s.screen /\ StatusAfter(s, f).lastPage = s.lastPage
         /\ StatusAfter(s, f).label = s.label
         /\ f = "grind_begin" => StatusAfter(s, f).grinding
         /\ f = NoFrame => StatusAfter(s, f) = s
  <1> USE DEF Status, Pages, Manual, Labels, Unmapped, NoFrame, Events
  <1>1. CASE f = "grind_begin" BY <1>1 DEF StatusAfter
  <1>2. CASE f = "grind_stop" BY <1>2 DEF StatusAfter
  <1>3. CASE f = "brew_begin" BY <1>3 DEF StatusAfter
  <1>4. CASE f = "brew_stop" BY <1>4 DEF StatusAfter
  <1>5. CASE f = "brew_pause" BY <1>5 DEF StatusAfter
  <1>6. CASE f \notin {"grind_begin", "grind_stop", "brew_begin", "brew_stop", "brew_pause"}
    BY <1>6 DEF StatusAfter
  <1> QED BY <1>1, <1>2, <1>3, <1>4, <1>5, <1>6

\* The status a report leads to agrees with the machine.
LEMMA Told ==
  ASSUME MachineInv, NEW s \in Status, Agrees(s), NEW n, Shows(n) \/ Hides(n) \/ Begins(n)
  PROVE  /\ n \in Frames \X Frames
         /\ After(s, n) \in Status
         /\ Agrees(After(s, n))'
  <1>0. /\ \A f \in Pages : f \in Frames
        /\ \A f \in {"recipe_loaded", "starting", "brewing", "ready", "no_beans", Unmapped} :
              f \in Labels \cup {Unmapped} /\ f \in Frames
        /\ \A f \in {"grind_begin", "grind_stop", "brew_begin", "brew_stop", "brew_pause", "pod",
                     "easy_begin", "enjoy", "error", NoFrame} : f \in Events \cup {NoFrame} /\ f \in Frames
    BY DEF Frames, Labels, Events
  <1>1. CASE Shows(n)
    <2>1. n \in Frames \X Frames BY <1>0, <1>1 DEF Shows
    <2>2. CASE n = <<page', NoFrame>>
      <3>1. StatusAfter(s, page') = Resting(page') /\ Resting(page') \in Status BY <1>1, OfPage DEF Shows
      <3>2. After(s, n) = Resting(page') BY <1>0, <2>2, <3>1, OfEvent DEF After
      <3> QED BY <1>1, <2>1, <3>1, <3>2 DEF Shows, Agrees, Resting
    <2>3. CASE n[2] = page'
      <3>1. After(s, n) = Resting(page') /\ Resting(page') \in Status BY <1>1, <2>3, OfPage DEF Shows, After
      <3> QED BY <1>1, <2>1, <3>1 DEF Shows, Agrees, Resting
    <2> QED BY <1>1, <2>2, <2>3 DEF Shows
  <1>2. CASE Hides(n)
    <2>1. n \in Frames \X Frames BY <1>0, <1>2 DEF Hides
    <2>2. After(s, n) \in Status /\ After(s, n).screen = "none"
      <3>1. CASE n[2] = NoFrame
        <4>1. n[1] \in Labels \cup {Unmapped} BY <1>0, <1>2, <3>1 DEF Hides, NoFrame, Unmapped
        <4>2. StatusAfter(s, n[1]) \in Status /\ StatusAfter(s, n[1]).screen = "none"
          BY <4>1, OfLabel
        <4> QED BY <1>0, <3>1, <4>2, OfEvent DEF After
      <3>2. CASE n[2] # NoFrame
        <4>1. n[1] \in Events \cup {NoFrame} /\ n[2] \in Labels \cup {Unmapped}
          BY <1>0, <1>2, <3>2 DEF Hides
        <4>2. StatusAfter(s, n[1]) \in Status BY <4>1, OfEvent
        <4> QED BY <4>1, <4>2, OfLabel DEF After
      <3> QED BY <3>1, <3>2
    <2> QED BY <1>2, <2>1, <2>2 DEF Hides, Agrees, Pages, Manual
  <1>3. CASE Begins(n)
    <2>1. n \in Frames \X Frames BY <1>0, <1>3 DEF Begins
    <2>2. page \in {run, "home"} /\ s = Resting(page)
      BY <1>3 DEF Begins, MachineInv, Agrees, Pages
    <2>3. CASE run = "grind"
      <3>1. StatusAfter(s, "grind_begin") \in Status /\ StatusAfter(s, "grind_begin").grinding
            /\ StatusAfter(s, "grind_begin").screen = page /\ StatusAfter(s, "grind_begin").lastPage = page
        BY <1>0, <2>2, OfEvent DEF Resting
      <3>2. After(s, n) = StatusAfter(s, "grind_begin") BY <1>0, <1>3, <2>3, <3>1, OfEvent DEF Begins, After
      <3> QED BY <1>3, <2>1, <2>3, <3>1, <3>2 DEF Begins, Agrees, Running
    <2>4. CASE run # "grind"
      <3>1. PICK u : u \in {s, StatusAfter(s, "brew_begin")} /\ After(s, n) = StatusAfter(u, "brewing")
        <4>1. CASE n = <<"brewing", NoFrame>>
          BY <1>0, <4>1, OfEvent, OfLabel DEF After
        <4>2. CASE n = <<"brew_begin", "brewing">> BY <4>2 DEF After
        <4> QED BY <1>3, <2>4, <4>1, <4>2 DEF Begins
      <3>2. u \in Status /\ u.lastPage = page
        <4>1. s.lastPage = page BY <2>2 DEF Resting
        <4>2. "brew_begin" \in Events \cup {NoFrame} BY <1>0
        <4>3. /\ StatusAfter(s, "brew_begin") \in Status
              /\ StatusAfter(s, "brew_begin").lastPage = s.lastPage
          BY <4>2, OfEvent
        <4> QED BY <3>1, <4>1, <4>3
      <3>3. /\ StatusAfter(u, "brewing") \in Status
            /\ StatusAfter(u, "brewing") = [u EXCEPT !.screen = "none", !.label = "brewing"]
        BY <1>0, <3>2, OfLabel DEF Unmapped
      <3>4. /\ After(s, n) \in Status /\ After(s, n).screen = "none" /\ After(s, n).label = "brewing"
            /\ After(s, n).lastPage = page
        BY <3>1, <3>2, <3>3 DEF Status
      <3> QED BY <1>3, <2>1, <2>4, <3>4 DEF Begins, Agrees, Running, Manual
    <2> QED BY <2>3, <2>4
  <1> QED BY <1>1, <1>2, <1>3

\* What the commands and the person at the machine do.
LEMMA ManualCommand ==
  ASSUME TypeOK, MachineInv, NEW p \in Manual,
         EnterPage(p) \/ StartManual(p) \/ StopManual(p) \/ PauseManual(p) \/ RestartManual(p)
  PROVE  Moves
  <1> USE DEF TypeOK, MachineInv, MachineType, Operation, Moves, Says, Report, machine, Manual, Pages
  <1>1. CASE EnterPage(p) BY <1>1 DEF EnterPage, Shows
  <1>2. CASE StartManual(p) BY <1>2 DEF StartManual, CanStart, Starts
  <1>3. CASE StopManual(p) BY <1>3 DEF StopManual, CanStop, Shows
  <1>4. CASE PauseManual(p) BY <1>4 DEF PauseManual, Shows
  <1>5. CASE RestartManual(p) BY <1>5 DEF RestartManual, Resumed, Begins
  <1> QED BY <1>1, <1>2, <1>3, <1>4, <1>5

LEMMA RecipeCommand ==
  ASSUME TypeOK, MachineInv,
         SendRecipe \/ StartRecipe \/ StopRecipe \/ PauseRecipe \/ RestartRecipe \/ \E S : LeaveTo(S)
  PROVE  Moves
  <1> USE DEF TypeOK, MachineInv, MachineType, Operation, Moves, Says, Report, machine, Manual, Pages
  <1>1. CASE SendRecipe BY <1>1 DEF SendRecipe, Hides
  <1>2. CASE StartRecipe BY <1>2 DEF StartRecipe, Hides
  <1>3. CASE StopRecipe BY <1>3 DEF StopRecipe, Shows
  <1>4. CASE PauseRecipe BY <1>4 DEF PauseRecipe, Hides
  <1>5. CASE RestartRecipe BY <1>5 DEF RestartRecipe, Hides
  <1>6. CASE \E S : LeaveTo(S) BY <1>6 DEF LeaveTo, Shows
  <1> QED BY <1>1, <1>2, <1>3, <1>4, <1>5, <1>6

LEMMA ByHand ==
  ASSUME TypeOK, MachineInv, AtTheMachine
  PROVE  Moves /\ UNCHANGED coordinator
  <1> USE DEF TypeOK, MachineInv, MachineType, Operation, Moves, Says, Report, machine, Manual, Pages
  <1>1. CASE \E p \in Manual : OpenPage(p) BY <1>1 DEF OpenPage, Shows
  <1>2. CASE \E p \in Manual : KnobStart(p) BY <1>2 DEF KnobStart, Starts
  <1>3. CASE BackOut BY <1>3 DEF BackOut, Shows
  <1>4. CASE KnobStartRecipe \/ EasySlot \/ InsertPod
    BY <1>4 DEF KnobStartRecipe, EasySlot, InsertPod, Hides
  <1>5. CASE RunBegins
    <2>1. CASE run = "recipe" BY <1>5, <2>1 DEF RunBegins, Hides
    <2>2. CASE run # "recipe" BY <1>5, <2>2 DEF RunBegins, Begins
    <2> QED BY <2>1, <2>2
  <1>6. CASE KnobPause BY <1>6 DEF KnobPause, Shows
  <1>7. CASE KnobResume BY <1>7 DEF KnobResume, Resumed, Begins
  <1>8. CASE RunEnds
    <2>1. CASE run = "recipe" BY <1>8, <2>1 DEF RunEnds, Hides
    <2>2. CASE run # "recipe" BY <1>8, <2>2 DEF RunEnds, Shows
    <2> QED BY <2>1, <2>2
  <1>9. CASE RunFails BY <1>9 DEF RunFails, Hides
  <1> QED BY <1>1, <1>2, <1>3, <1>4, <1>5, <1>6, <1>7, <1>8, <1>9 DEF AtTheMachine

\* A step is a notification, or the machine moves and its status is not yet told.
LEMMA Steps ==
  ASSUME TypeOK, MachineInv, CallInv, Next
  PROVE  Notify \/ (Moves /\ status' = status)
  <1>0. UNCHANGED machine => Moves
    BY DEF machine, Moves, MachineInv, MachineType, TypeOK
  <1>1. CASE Poll BY <1>0, <1>1 DEF Poll
  <1>2. CASE ManualButton
    BY <1>2, ManualCommand DEF ManualButton, ArmManual, ConfirmManual
  <1>3. CASE \E t \in Calls : RecipeButton(t) \/ ExecuteRecipe(t)
    BY <1>3, RecipeCommand DEF RecipeButton, ArmRecipe, ConfirmRecipe, ExecuteRecipe, GoesTo
  <1>4. CASE PauseButton
    <2>1. CASE PauseRun \/ ResumeRun BY <2>1, ManualCommand DEF PauseRun, ResumeRun
    <2>2. CASE PauseResumeRecipe BY <2>2, RecipeCommand DEF PauseResumeRecipe, coordinator
    <2> QED BY <1>4, <2>1, <2>2 DEF PauseButton
  <1>5. CASE CancelButton
    <2>1. CASE CancelArmed BY <2>1, RecipeCommand DEF CancelArmed
    <2>2. CASE \E t \in Calls : CancelManual(t) BY <2>2, ManualCommand DEF CancelManual, GoesTo
    <2>3. CASE CancelOther BY <2>3, RecipeCommand DEF CancelOther
    <2> QED BY <1>5, <2>1, <2>2, <2>3 DEF CancelButton
  <1>6. CASE \E t \in Calls : RecipeStep(t)
    <2>1. PICK t \in Calls : RecipeStep(t) BY <1>6
    <2>2. CASE ChainSends(t) \/ ChainExecutes(t)
      BY <2>2, RecipeCommand DEF ChainSends, ChainExecutes, GoesTo
    <2>3. CASE ChainArmed(t) \/ ChainAborted(t) \/ StartVerified(t) \/ StartUnconfirmed(t)
      BY <1>0, <2>3 DEF ChainArmed, ChainAborted, StartVerified, StartUnconfirmed, GoesTo
    <2> QED BY <2>1, <2>2, <2>3 DEF RecipeStep
  <1>7. CASE \E t \in Calls : CancelStep(t)
    <2>1. PICK t \in Calls : CancelStep(t) BY <1>7
    <2>2. CASE StopChecked(t) BY <1>0, <2>2 DEF StopChecked, GoesTo
    <2>3. CASE StopResent(t)
      <3>1. call[t].op \in Manual BY <2>3 DEF StopResent, CallInv
      <3> QED BY <2>3, <3>1, ManualCommand DEF StopResent, GoesTo
    <2>4. CASE QuitSent(t) BY <2>4, RecipeCommand DEF QuitSent, GoesTo
    <2> QED BY <2>1, <2>2, <2>3, <2>4 DEF CancelStep
  <1>8. CASE AtTheMachine BY <1>8, ByHand DEF coordinator
  <1> QED BY <1>1, <1>2, <1>3, <1>4, <1>5, <1>6, <1>7, <1>8 DEF Next

-----------------------------------------------------------------------------
(* The path of statuses *)

Path(s) ==
    /\ s \in [0 .. Len(reports) -> Status]
    /\ s[0] = status
    /\ \A i \in 1 .. Len(reports) : s[i] = After(s[i - 1], reports[i])
    /\ Agrees(s[Len(reports)])

\* A step leaves the path alone, extends it by what it reports, or goes along it.
Onward(s, u) ==
    \/ reports' = reports /\ status' = status /\ u = s
    \/ /\ Len(reports') = Len(reports) + 1 /\ status' = status
       /\ \A i \in 0 .. Len(reports) : u[i] = s[i]
    \/ /\ Len(reports) = Len(reports') + 1 /\ UNCHANGED <<page, run, phase>>
       /\ \A i \in 0 .. Len(reports') : u[i] = s[i + 1]

LEMMA PathGoesOn ==
  ASSUME TypeOK, MachineInv, NEW s, Path(s), Notify \/ (Moves /\ status' = status)
  PROVE  /\ reports' \in Seq(Frames \X Frames) /\ status' \in Status
         /\ MachineInv' /\ MachineType'
         /\ \E u : Path(u)' /\ Onward(s, u)
  <1>1. /\ reports \in Seq(Frames \X Frames) /\ status \in Status /\ MachineType
        /\ Len(reports) \in Nat /\ s[Len(reports)] \in Status
    BY LenProperties DEF TypeOK, Path, MachineType
  <1>2. CASE Notify
    <2>1. /\ reports # << >> /\ reports' = Tail(reports) /\ status' = After(status, Head(reports))
          /\ UNCHANGED <<page, run, phase>>
      BY <1>2 DEF Notify, After
    <2>2. /\ Head(reports) = reports[1] /\ reports' \in Seq(Frames \X Frames)
          /\ Len(reports') = Len(reports) - 1 /\ Len(reports) # 0
          /\ \A i \in 1 .. Len(reports') : reports'[i] = reports[i + 1]
      BY <1>1, <2>1, HeadTailProperties, EmptySeq
    <2>0. PICK u : u = [i \in 0 .. Len(reports') |-> s[i + 1]] OBVIOUS
    <2>3. \A i \in 0 .. Len(reports') : i + 1 \in 0 .. Len(reports) /\ u[i] = s[i + 1]
      BY <1>1, <2>0, <2>2
    <2>4. u \in [0 .. Len(reports') -> Status] BY <2>0, <2>3 DEF Path
    <2>5. u[0] = status' BY <1>1, <2>1, <2>2, <2>3 DEF Path
    <2>6. \A i \in 1 .. Len(reports') : u[i] = After(u[i - 1], reports'[i])
      <3> SUFFICES ASSUME NEW i \in 1 .. Len(reports') PROVE u[i] = After(u[i - 1], reports'[i])
        OBVIOUS
      <3>1. i + 1 \in 1 .. Len(reports) /\ i - 1 \in 0 .. Len(reports') /\ i \in 0 .. Len(reports')
            /\ (i + 1) - 1 = i /\ (i - 1) + 1 = i
        BY <1>1, <2>2
      <3>2. s[i + 1] = After(s[(i + 1) - 1], reports[i + 1]) BY <3>1 DEF Path
      <3> QED BY <2>2, <2>3, <3>1, <3>2
    <2>7. u[Len(reports')] = s[Len(reports)] BY <1>1, <2>2, <2>3
    <2>8. Agrees(u[Len(reports)])' BY <2>1, <2>7 DEF Path, Agrees
    <2>9. status' \in Status
      <3>1. 0 \in 0 .. Len(reports') BY <1>1, <2>2
      <3> QED BY <2>4, <2>5, <3>1
    <2>10. MachineInv' /\ MachineType' BY <1>1, <2>1 DEF MachineInv, MachineType
    <2>11. Path(u)' BY <2>4, <2>5, <2>6, <2>8 DEF Path
    <2>12. Onward(s, u)
      <3>1. Len(reports) = Len(reports') + 1 BY <1>1, <2>2
      <3> QED BY <2>1, <2>3, <3>1 DEF Onward
    <2> QED BY <2>2, <2>9, <2>10, <2>11, <2>12
  <1>3. CASE Moves /\ status' = status /\ (UNCHANGED machine \/ Starts)
    <2>1. Agrees(s[Len(reports)])' /\ reports' = reports
      BY <1>3 DEF machine, Path, Agrees, Starts, MachineInv
    <2>2. Path(s)' /\ Onward(s, s) BY <1>3, <2>1 DEF Path, Onward
    <2> QED BY <1>1, <1>3, <2>1, <2>2 DEF Moves
  <1>4. CASE Moves /\ status' = status /\ \E n : Says(n)
    <2>1. PICK n, z : Says(n) /\ z = s[Len(reports)] BY <1>4
    <2>2. /\ n \in Frames \X Frames /\ After(z, n) \in Status
          /\ Agrees(After(z, n))' /\ reports' = Append(reports, n)
      BY <1>1, <2>1, Told DEF Says, Path
    <2>3. /\ reports' \in Seq(Frames \X Frames) /\ Len(reports') = Len(reports) + 1
          /\ \A i \in 1 .. Len(reports) : reports'[i] = reports[i]
          /\ reports'[Len(reports) + 1] = n
      BY <1>1, <2>2, AppendProperties
    <2>0. PICK u : u = [i \in 0 .. Len(reports') |-> IF i \in 0 .. Len(reports) THEN s[i] ELSE After(z, n)]
      OBVIOUS
    <2>4. u \in [0 .. Len(reports') -> Status] BY <2>0, <2>2 DEF Path
    <2>5. (\A i \in 0 .. Len(reports) : u[i] = s[i]) /\ u[Len(reports')] = After(z, n)
      BY <1>1, <2>0, <2>3
    <2>6. u[0] = status' BY <1>1, <1>4, <2>5 DEF Path
    <2>7. \A i \in 1 .. Len(reports') : u[i] = After(u[i - 1], reports'[i])
      <3> SUFFICES ASSUME NEW i \in 1 .. Len(reports') PROVE u[i] = After(u[i - 1], reports'[i])
        OBVIOUS
      <3>1. CASE i \in 1 .. Len(reports)
        <4>1. i \in 0 .. Len(reports) /\ i - 1 \in 0 .. Len(reports) BY <1>1, <3>1
        <4> QED BY <2>3, <2>5, <3>1, <4>1 DEF Path
      <3>2. CASE i = Len(reports) + 1
        <4>1. i - 1 = Len(reports) /\ Len(reports) \in 0 .. Len(reports) BY <1>1, <3>2
        <4> QED BY <2>1, <2>3, <2>5, <3>2, <4>1
      <3> QED BY <1>1, <2>3, <3>1, <3>2
    <2>8. Agrees(u[Len(reports)])' BY <2>2, <2>5 DEF Agrees
    <2>9. Path(u)' BY <2>4, <2>6, <2>7, <2>8 DEF Path
    <2>10. Onward(s, u) BY <1>4, <2>3, <2>5 DEF Onward
    <2> QED BY <1>1, <1>4, <2>3, <2>9, <2>10 DEF Moves
  <1> QED BY <1>2, <1>3, <1>4 DEF Moves

-----------------------------------------------------------------------------
(* The bookkeeping *)

LEMMA BookAfterType ==
  ASSUME NEW b \in Book, NEW f
  PROVE  BookAfter(b, f) \in Book
  <1> USE DEF Book, Operation, Manual
  <1>1. CASE f \in {"pod", "easy_begin"} BY <1>1 DEF BookAfter
  <1>2. CASE f \in {"grind_begin", "brew_begin"} BY <1>2 DEF BookAfter
  <1>3. CASE f \in {"brew_stop", "enjoy", "error"} BY <1>3 DEF BookAfter, FinishRun, ClearManualRun
  <1>4. CASE f \notin {"pod", "easy_begin", "grind_begin", "brew_begin", "brew_stop", "enjoy", "error"}
    BY <1>4 DEF BookAfter
  <1> QED BY <1>1, <1>2, <1>3, <1>4

\* A poll keeps an arm or drops it, and what it makes active was on its page.
LEMMA ReconcileType ==
  ASSUME NEW b \in Book, status \in Status
  PROVE  ReconcileManual(ReconcileArmed(b)) \in Book
  <1>1. PICK c : c = ReconcileArmed(b) OBVIOUS
  <1>2. c \in Book BY <1>1 DEF ReconcileArmed, Book, Operation
  <1>3. \A x \in Book : /\ ClearManualRun(x) \in Book /\ FinishRun(x) \in Book
                        /\ [x EXCEPT !.pauseSeen = TRUE] \in Book
    BY DEF FinishRun, ClearManualRun, Book, Operation
  <1>4. \A x \in Book : \A op \in Manual : Adopt(x, op) \in Book /\ SeenRunning(x, op) \in Book
    <2>1. \A x \in Book : \A op \in Manual : Adopt(x, op) \in Book BY DEF Adopt, Book, Operation
    <2>2. \A x \in Book : \A op \in Manual : SeenRunning(x, op) \in Book BY DEF SeenRunning, Book
    <2> QED BY <2>1, <2>2
  <1>5. ReconcileManual(c) \in Book BY <1>2, <1>3, <1>4 DEF ReconcileManual
  <1> QED BY <1>1, <1>5

LEMMA DeriveType ==
  ASSUME NEW b \in Book, status \in Status
  PROVE  DeriveState(b) \in Shown
  BY DEF DeriveState, Shown, Status

LEMMA CoordinatorType ==
  ASSUME TypeOK, CallInv, Next
  PROVE  /\ book' \in Book /\ call' \in [Calls -> CallState] /\ CallInv'
         /\ lastScreen' \in Pages \cup {"none"} /\ shown' \in Shown /\ refresh' \in BOOLEAN
  <1> USE DEF TypeOK
  <1>1. CASE Notify
    <2>1. PICK n : book' = BookAfter(BookAfter(book, n[1]), n[2]) BY <1>1 DEF Notify
    <2> QED BY <1>1, <2>1, BookAfterType DEF Notify, CallInv
  <1>2. CASE Poll
    <2>1. book' \in Book BY <1>2, ReconcileType DEF Poll
    <2>2. shown' \in Shown BY <1>2, <2>1, DeriveType DEF Poll
    <2> QED BY <1>2, <2>1, <2>2 DEF Poll, Status, CallInv
  <1>3. ASSUME UNCHANGED <<lastScreen, shown, refresh, status, call>>, book' \in Book
        PROVE  /\ book' \in Book /\ call' \in [Calls -> CallState] /\ CallInv'
               /\ lastScreen' \in Pages \cup {"none"} /\ shown' \in Shown /\ refresh' \in BOOLEAN
    BY <1>3 DEF CallInv
  <1>4. ASSUME NEW t \in Calls, NEW pc, NEW op, GoesTo(t, pc, op), book' \in Book,
               pc \in {"done", "chain", "sent", "verify", "stop", "quit"}, op \in Operation,
               pc \in {"stop", "quit"} => op \in Manual
        PROVE  /\ book' \in Book /\ call' \in [Calls -> CallState] /\ CallInv'
               /\ lastScreen' \in Pages \cup {"none"} /\ shown' \in Shown /\ refresh' \in BOOLEAN
    BY <1>4 DEF GoesTo, CallState, CallInv
  <1>5. \A o \in Operation, x \in Operation, y \in BOOLEAN, z \in BOOLEAN :
          /\ [book EXCEPT !.armed = o] \in Book
          /\ [book EXCEPT !.active = o] \in Book
          /\ [book EXCEPT !.active = o, !.armed = x] \in Book
          /\ [[book EXCEPT !.active = o] EXCEPT !.armed = x] \in Book
          /\ [book EXCEPT !.paused = y, !.pauseSeen = z] \in Book
          /\ [book EXCEPT !.pauseSeen = z] \in Book
    BY DEF Book
  <1>6. Cancelled \in Book /\ "none" \in Operation /\ "recipe" \in Operation /\ Manual \subseteq Operation
        /\ book.active \in Operation
    BY DEF Cancelled, Book, Operation
  <1>7. CASE ManualButton
    <2>1. PICK p \in Manual : ArmManual(p) \/ ConfirmManual(p) BY <1>7 DEF ManualButton
    <2>2. p \in Operation BY <1>6
    <2>3. CASE ArmManual(p) BY <1>3, <1>5, <2>2, <2>3 DEF ArmManual
    <2>4. CASE ConfirmManual(p) BY <1>3, <1>5, <1>6, <2>2, <2>4 DEF ConfirmManual
    <2> QED BY <2>1, <2>3, <2>4
  <1>8. CASE \E t \in Calls : RecipeButton(t) \/ ExecuteRecipe(t)
    <2>1. PICK t \in Calls : RecipeButton(t) \/ ExecuteRecipe(t) BY <1>8
    <2>2. CASE ArmRecipe(t) BY <1>4, <1>6, <2>2 DEF ArmRecipe
    <2>3. CASE ConfirmRecipe(t) BY <1>4, <1>5, <1>6, <2>3 DEF ConfirmRecipe
    <2>4. CASE ExecuteRecipe(t) BY <1>4, <1>5, <1>6, <2>4 DEF ExecuteRecipe
    <2> QED BY <2>1, <2>2, <2>3, <2>4 DEF RecipeButton
  <1>9. CASE PauseButton
    BY <1>3, <1>5, <1>9 DEF PauseButton, PauseRun, ResumeRun, PauseResumeRecipe, coordinator
  <1>10. CASE CancelArmed \/ CancelOther BY <1>3, <1>6, <1>10 DEF CancelArmed, CancelOther
  <1>11. CASE \E t \in Calls : CancelManual(t) BY <1>4, <1>6, <1>11 DEF CancelManual
  <1>12. CASE \E t \in Calls : RecipeStep(t)
    <2>1. PICK t \in Calls : RecipeStep(t) BY <1>12
    <2>2. call[t].op \in Operation BY DEF CallState
    <2>3. CASE ChainSends(t) BY <1>4, <2>2, <2>3 DEF ChainSends
    <2>4. CASE ChainArmed(t) BY <1>4, <1>5, <1>6, <2>4 DEF ChainArmed
    <2>5. CASE ChainExecutes(t) BY <1>4, <1>6, <2>5 DEF ChainExecutes
    <2>6. CASE ChainAborted(t)
      <3>1. book' \in Book BY <1>5, <1>6, <2>6 DEF ChainAborted
      <3> QED BY <1>4, <1>6, <2>6, <3>1 DEF ChainAborted
    <2>7. CASE StartVerified(t) \/ StartUnconfirmed(t)
      <3>1. \A b \in Book : Disarmed(t, b) \in Book BY DEF Disarmed, Book, Operation
      <3>2. book' \in Book BY <1>5, <1>6, <2>7, <3>1 DEF StartVerified, StartUnconfirmed
      <3> QED BY <1>4, <1>6, <2>7, <3>2 DEF StartVerified, StartUnconfirmed
    <2> QED BY <2>1, <2>3, <2>4, <2>5, <2>6, <2>7 DEF RecipeStep
  <1>13. CASE \E t \in Calls : CancelStep(t)
    <2>1. PICK t \in Calls : CancelStep(t) BY <1>13
    <2>2. call[t].op \in Operation BY DEF CallState
    <2>3. CASE StopChecked(t) BY <1>4, <2>2, <2>3 DEF StopChecked, CallInv
    <2>4. CASE StopResent(t) BY <1>4, <2>2, <2>4 DEF StopResent, CallInv
    <2>5. CASE QuitSent(t) BY <1>4, <1>6, <2>5 DEF QuitSent
    <2> QED BY <2>1, <2>3, <2>4, <2>5 DEF CancelStep
  <1>14. CASE AtTheMachine
    <2>1. UNCHANGED coordinator
      BY <1>14 DEF AtTheMachine, OpenPage, KnobStart, BackOut, KnobStartRecipe, EasySlot, InsertPod,
                   RunBegins, KnobPause, KnobResume, RunEnds, RunFails
    <2> QED BY <1>3, <2>1 DEF coordinator
  <1> QED BY <1>1, <1>2, <1>7, <1>8, <1>9, <1>10, <1>11, <1>12, <1>13, <1>14 DEF Next, CancelButton

-----------------------------------------------------------------------------
(* What a poll makes of a status that is up to date *)

LEMMA ReconcileArmedIs ==
  ASSUME NEW b \in Book
  PROVE  /\ ReconcileArmed(b) \in Book
         /\ ReconcileArmed(b) \in {b, [b EXCEPT !.armed = "none"]}
         /\ ReconcileArmed(b).active = b.active /\ ReconcileArmed(b).paused = b.paused
         /\ ReconcileArmed(b).runSeen = b.runSeen /\ ReconcileArmed(b).pauseSeen = b.pauseSeen
         /\ ReconcileArmed(b).armed \in {b.armed, "none"}
  BY DEF ReconcileArmed, Book, Operation

LEMMA PollRunning ==
  ASSUME TypeOK, NEW p \in Manual, Running(status, p), Poll
  PROVE  /\ book.armed \in {"none", p} /\ book.active \in {"none", p} => book'.active = p
         /\ book'.active = p => ~book'.pauseSeen
         /\ book.active = p => book'.active = p /\ book'.paused = (book.paused /\ ~book.pauseSeen)
  <1>1. PICK b : b = ReconcileArmed(book) OBVIOUS
  <1>2. /\ b \in Book /\ b.active = book.active /\ b.paused = book.paused
        /\ b.pauseSeen = book.pauseSeen /\ b.armed \in {book.armed, "none"}
    BY <1>1, ReconcileArmedIs DEF TypeOK
  <1>3. status.lastPage = p /\ ManualRunning(p) BY DEF Running, ManualRunning, Manual
  <1>4. PICK c : c = Adopt(b, p) OBVIOUS
  <1>5. book' = IF c.active = p THEN SeenRunning(c, p) ELSE c
    BY <1>1, <1>3, <1>4 DEF Poll, ReconcileManual
  <1>6. /\ c \in Book /\ c.paused = b.paused /\ c.pauseSeen = b.pauseSeen
        /\ b.active = p => c.active = p
        /\ b.active = "none" /\ b.armed \in {"none", p} => c.active = p
    BY <1>2, <1>4 DEF Adopt, Book, Operation, Manual
  <1>7. /\ SeenRunning(c, p).active = c.active /\ ~SeenRunning(c, p).pauseSeen
        /\ SeenRunning(c, p).paused = (c.paused /\ ~c.pauseSeen)
    BY <1>6 DEF SeenRunning, Book
  <1> QED BY <1>2, <1>5, <1>6, <1>7

LEMMA PollResting ==
  ASSUME TypeOK, NEW p \in Pages, status = Resting(p), Poll
  PROVE  /\ book'.active \notin Manual \ {p}
         /\ p \in Manual /\ book.active = p /\ ~book.runSeen => book'.active = p
         /\ p \in Manual /\ book.active = p /\ book.paused =>
              /\ book'.active = p /\ book'.paused
              /\ book.armed = "none" => shown' = "paused"
  <1>1. PICK b : b = ReconcileArmed(book) OBVIOUS
  <1>2. /\ b \in Book /\ b.active = book.active /\ b.paused = book.paused
        /\ b.runSeen = book.runSeen /\ b.armed \in {book.armed, "none"}
    BY <1>1, ReconcileArmedIs DEF TypeOK
  <1>3. /\ status.lastPage = p /\ status.screen = p /\ status.label = "none"
        /\ \A op : ~ManualRunning(op)
    BY DEF Resting, ManualRunning
  <1>4. book' = IF b.active \notin Manual THEN ClearManualRun(b)
                ELSE IF b.active # p THEN FinishRun(b)
                ELSE IF b.paused THEN [b EXCEPT !.pauseSeen = TRUE]
                ELSE IF b.runSeen THEN FinishRun(b) ELSE b
    BY <1>1, <1>3 DEF Poll, ReconcileManual, Pages, Manual
  <1>5. /\ ClearManualRun(b).active = b.active /\ FinishRun(b).active = "none"
        /\ [b EXCEPT !.pauseSeen = TRUE].active = b.active
        /\ [b EXCEPT !.pauseSeen = TRUE].paused = b.paused
        /\ [b EXCEPT !.pauseSeen = TRUE].armed = b.armed
    BY <1>2 DEF ClearManualRun, FinishRun, Book
  <1>6. book'.active \notin Manual \ {p} BY <1>4, <1>5 DEF Manual
  <1>7. ASSUME p \in Manual, book.active = p, ~book.runSeen PROVE book'.active = p
    BY <1>2, <1>4, <1>5, <1>7
  <1>8. ASSUME p \in Manual, book.active = p, book.paused
        PROVE  book'.active = p /\ book'.paused /\ (book.armed = "none" => shown' = "paused")
    <2>1. book' = [b EXCEPT !.pauseSeen = TRUE] BY <1>2, <1>4, <1>8
    <2>2. book'.active = p /\ book'.paused /\ book'.armed = b.armed BY <1>2, <1>5, <1>8, <2>1
    <2>3. book.armed = "none" => DeriveState(book') = "paused"
      BY <1>2, <1>3, <1>8, <2>2 DEF DeriveState, Manual
    <2> QED BY <2>2, <2>3 DEF Poll
  <1> QED BY <1>6, <1>7, <1>8

-----------------------------------------------------------------------------
(* The invariant *)

\* After a refresh the last poll has seen the screen.
ScreenInv == ~refresh => lastScreen = status.screen

\* The pause of a manual run that was pressed with nothing in flight: its
\* report is in, or it is the only one in flight and no poll has taken the
\* run on the screen for a resumed one.
PausedInv ==
    phase = "paused" /\ run \in Manual /\ page = run =>
        \/ reports = << >>
        \/ /\ reports = << <<run, NoFrame>> >> /\ Running(status, run)
           /\ book.active = run /\ book.paused => ~book.pauseSeen

IInv ==
    /\ TypeOK /\ MachineInv /\ CallInv /\ ScreenInv
    /\ \E s : Path(s)
    /\ ~Hasty => PausedInv

\* With nothing in flight the status agrees with the machine.
LEMMA UpToDate ==
  ASSUME NEW s, Path(s), reports = << >>
  PROVE  Agrees(status)
  BY DEF Path

LEMMA InitHolds == Init => IInv /\ \E s : Path(s) /\ s[1] = Resting("home") /\ DOMAIN s = 0 .. 1
  <1> SUFFICES ASSUME Init PROVE IInv /\ \E s : Path(s) /\ s[1] = Resting("home") /\ DOMAIN s = 0 .. 1
    OBVIOUS
  <1>0. PICK n : n = <<"home", NoFrame>> OBVIOUS
  <1>1. /\ reports = <<n>> /\ Len(reports) = 1 /\ reports[1] = n /\ n \in Frames \X Frames
        /\ status \in Status
    BY <1>0 DEF Init, Frames, Pages, Status
  <1>2. TypeOK
    <2>1. book \in Book BY DEF Init, Book, Operation
    <2>2. call \in [Calls -> CallState] BY DEF Init, CallDone, CallState, Operation
    <2>3. reports \in Seq(Frames \X Frames) BY <1>1
    <2> QED BY <1>1, <2>1, <2>2, <2>3 DEF Init, TypeOK, Shown, Pages, Operation
  <1>3. MachineInv /\ CallInv /\ ScreenInv /\ PausedInv
    BY DEF Init, MachineInv, CallInv, ScreenInv, PausedInv, Manual, CallDone
  <1>4. After(status, n) = Resting("home") /\ Resting("home") \in Status
    <2>1. StatusAfter(status, "home") = Resting("home") /\ Resting("home") \in Status BY OfPage DEF Pages
    <2>2. StatusAfter(Resting("home"), NoFrame) = Resting("home") BY <2>1, OfEvent
    <2> QED BY <1>0, <2>1, <2>2 DEF After
  <1>5. Agrees(Resting("home")) BY DEF Init, Agrees, Resting, Manual
  <1>6. PICK s : s = [i \in 0 .. 1 |-> IF i = 0 THEN status ELSE Resting("home")] OBVIOUS
  <1>7. s[0] = status /\ s[1] = Resting("home") /\ s \in [0 .. 1 -> Status] BY <1>1, <1>4, <1>6
  <1>8. \A i \in 1 .. 1 : i = 1 /\ i - 1 = 0 OBVIOUS
  <1>9. Path(s) BY <1>1, <1>4, <1>5, <1>7, <1>8 DEF Path
  <1> QED BY <1>2, <1>3, <1>7, <1>9 DEF IInv

LEMMA ScreenKept ==
  ASSUME TypeOK, ScreenInv, Next
  PROVE  ScreenInv'
  <1> USE DEF ScreenInv
  <1>1. CASE Notify BY <1>1 DEF Notify
  <1>2. CASE Poll BY <1>2 DEF Poll
  <1>3. CASE UNCHANGED <<lastScreen, refresh, status>> BY <1>3
  <1>4. CASE ManualButton \/ PauseButton \/ CancelArmed \/ CancelOther
    BY <1>3, <1>4 DEF ManualButton, ArmManual, ConfirmManual, PauseButton, PauseRun, ResumeRun,
                      PauseResumeRecipe, CancelArmed, CancelOther, coordinator
  <1>5. CASE \E t \in Calls : RecipeButton(t) \/ ExecuteRecipe(t) \/ CancelManual(t)
    BY <1>3, <1>5 DEF RecipeButton, ArmRecipe, ConfirmRecipe, ExecuteRecipe, CancelManual, GoesTo
  <1>6. CASE \E t \in Calls : RecipeStep(t) \/ CancelStep(t)
    BY <1>3, <1>6 DEF RecipeStep, ChainSends, ChainArmed, ChainExecutes, ChainAborted, StartVerified,
                      StartUnconfirmed, CancelStep, StopChecked, StopResent, QuitSent, GoesTo
  <1>7. CASE AtTheMachine
    BY <1>3, <1>7 DEF AtTheMachine, OpenPage, KnobStart, BackOut, KnobStartRecipe, EasySlot, InsertPod,
                      RunBegins, KnobPause, KnobResume, RunEnds, RunFails, coordinator
  <1> QED BY <1>1, <1>2, <1>4, <1>5, <1>6, <1>7 DEF Next, CancelButton

\* Only the pause button pauses a manual run.
LEMMA PausedBy ==
  ASSUME TypeOK, MachineInv, CallInv, Next, phase' = "paused", run' \in Manual
  PROVE  \/ Notify \/ Poll
         \/ CanPress /\ UNCHANGED machine
         \/ CanPress /\ PauseRun
         \/ /\ UNCHANGED machine /\ UNCHANGED status
            /\ \/ book' = book
               \/ /\ book'.active \in {book.active, "none"}
                  /\ book'.paused = book.paused /\ book'.pauseSeen = book.pauseSeen
  <1> USE DEF MachineInv, machine, Manual
  <1>1. CASE CanPress /\ ManualButton
    BY <1>1 DEF ManualButton, ArmManual, EnterPage, ConfirmManual, StartManual, CanStart
  <1>2. CASE CanPress /\ \E t \in Calls : RecipeButton(t) \/ ExecuteRecipe(t)
    BY <1>2 DEF RecipeButton, ArmRecipe, ConfirmRecipe, ExecuteRecipe, LeaveTo, StartRecipe
  <1>3. CASE CanPress /\ PauseButton
    BY <1>3 DEF PauseButton, ResumeRun, RestartManual, PauseResumeRecipe, RestartRecipe, PauseRecipe
  <1>4. CASE CanPress /\ CancelButton
    BY <1>4 DEF CancelButton, CancelArmed, LeaveTo, CancelManual, StopManual, CancelOther, StopRecipe
  <1>5. CASE \E t \in Calls : RecipeStep(t)
    <2>1. PICK t \in Calls : RecipeStep(t) BY <1>5
    <2>2. CASE ChainSends(t) \/ ChainExecutes(t)
      BY <2>2 DEF ChainSends, SendRecipe, ChainExecutes, StartRecipe, GoesTo
    <2>3. CASE ChainArmed(t) \/ ChainAborted(t)
      BY <2>3 DEF ChainArmed, ChainAborted, GoesTo, TypeOK, Book
    <2>4. CASE StartVerified(t) \/ StartUnconfirmed(t)
      BY <2>4 DEF StartVerified, StartUnconfirmed, Disarmed, GoesTo, TypeOK, Book
    <2> QED BY <2>1, <2>2, <2>3, <2>4 DEF RecipeStep
  <1>6. CASE \E t \in Calls : CancelStep(t)
    BY <1>6 DEF CancelStep, StopChecked, StopResent, StopManual, QuitSent, LeaveTo, GoesTo
  <1>7. CASE AtTheMachine
    BY <1>7 DEF AtTheMachine, OpenPage, KnobStart, BackOut, KnobStartRecipe, EasySlot, InsertPod,
                RunBegins, KnobPause, KnobResume, RunEnds, RunFails
  <1> QED BY <1>1, <1>2, <1>3, <1>4, <1>5, <1>6, <1>7 DEF Next

LEMMA PauseHolds ==
  ASSUME IInv, ~Hasty, Next
  PROVE  PausedInv'
  <1> SUFFICES ASSUME phase' = "paused", run' \in Manual, page' = run'
               PROVE  \/ reports' = << >>
                      \/ /\ reports' = << <<run', NoFrame>> >> /\ Running(status', run')
                         /\ book'.active = run' /\ book'.paused => ~book'.pauseSeen
    BY DEF PausedInv, Running
  <1>0. TypeOK /\ MachineInv /\ CallInv /\ PausedInv BY DEF IInv
  <1>1. CASE Notify
    <2>1. UNCHANGED <<page, run, phase>> /\ reports # << >> /\ reports' = Tail(reports) BY <1>1 DEF Notify
    <2>2. reports = << <<run, NoFrame>> >> BY <1>0, <2>1 DEF PausedInv
    <2> QED BY <2>1, <2>2
  <1>2. CASE Poll
    <2>1. UNCHANGED machine /\ UNCHANGED status BY <1>2 DEF Poll
    <2>2. CASE reports # << >>
      <3>1. run \in Manual /\ Running(status, run) /\ reports = << <<run, NoFrame>> >>
        BY <1>0, <2>1, <2>2 DEF PausedInv, machine
      <3>2. book'.active = run => ~book'.pauseSeen BY <1>0, <1>2, <3>1, PollRunning
      <3> QED BY <2>1, <3>1, <3>2 DEF machine
    <2> QED BY <2>1, <2>2 DEF machine
  <1>3. CASE CanPress /\ UNCHANGED machine BY <1>3 DEF CanPress, machine
  <1>4. CASE CanPress /\ PauseRun
    <2>1. reports = << >> /\ PauseManual(book.active) /\ status' = status BY <1>4 DEF CanPress, PauseRun
    <2>2. book'.pauseSeen = FALSE BY <1>0, <1>4 DEF PauseRun, TypeOK, Book
    <2>3. CASE UNCHANGED machine BY <2>1, <2>3 DEF machine
    <2>4. CASE phase = "running" /\ Report(page, NoFrame) /\ UNCHANGED <<page, run>>
      <3>1. reports' = << <<run', NoFrame>> >> BY <2>1, <2>4 DEF Report
      <3>2. Agrees(status) BY <2>1, UpToDate DEF IInv
      <3>3. Running(status, run) BY <2>4, <3>2 DEF Agrees
      <3> QED BY <2>1, <2>2, <2>4, <3>1, <3>3
    <2> QED BY <2>1, <2>3, <2>4 DEF PauseManual
  <1>5. CASE /\ UNCHANGED machine /\ UNCHANGED status
             /\ \/ book' = book
                \/ /\ book'.active \in {book.active, "none"}
                   /\ book'.paused = book.paused /\ book'.pauseSeen = book.pauseSeen
    <2>1. UNCHANGED <<page, run, phase, reports, status>> BY <1>5 DEF machine
    <2> QED BY <1>0, <1>5, <2>1 DEF PausedInv, Manual
  <1> QED BY <1>0, <1>1, <1>2, <1>3, <1>4, <1>5, PausedBy

\* One step along a path.
LEMMA Follows ==
  ASSUME IInv, Next, NEW s, Path(s)
  PROVE  IInv' /\ \E u : Path(u)' /\ Onward(s, u)
  <1>1. TypeOK /\ MachineInv /\ CallInv /\ ScreenInv BY DEF IInv
  <1>2. /\ reports' \in Seq(Frames \X Frames) /\ status' \in Status /\ MachineInv' /\ MachineType'
        /\ \E u : Path(u)' /\ Onward(s, u)
    BY <1>1, Steps, PathGoesOn
  <1>3. TypeOK' /\ CallInv' BY <1>1, <1>2, CoordinatorType DEF TypeOK, MachineType
  <1>4. ScreenInv' BY <1>1, ScreenKept
  <1>5. (\E u : Path(u))' BY <1>2
  <1>6. (~Hasty => PausedInv)' BY PauseHolds
  <1> QED BY <1>2, <1>3, <1>4, <1>5, <1>6 DEF IInv

LEMMA StepHolds == IInv /\ [Next]_vars => IInv'
  <1> SUFFICES ASSUME IInv, [Next]_vars PROVE IInv' OBVIOUS
  <1>1. CASE Next BY <1>1, Follows DEF IInv
  <1>2. CASE UNCHANGED vars
    BY <1>2 DEF vars, coordinator, machine, IInv, TypeOK, MachineInv, CallInv, ScreenInv, Path, Agrees,
                PausedInv, Running
  <1> QED BY <1>1, <1>2

-----------------------------------------------------------------------------
(* The theorems *)

\* The bookkeeping, the client's status and the machine's reports keep their
\* types whatever is pressed, turned and reported in whichever order.
THEOREM TypeCorrect == Spec => []TypeOK
  <1>1. IInv => TypeOK BY DEF IInv
  <1> QED BY <1>1, InitHolds, StepHolds, PTL DEF Spec

\* _reconcile_manual_operation: a poll that has seen every report agrees with
\* the machine on which manual operation is active, for any number of calls in
\* flight and however early the buttons are pressed.
THEOREM PollsAgree == Spec => PollAgrees
  <1> DEFINE Agreed ==
        /\ run \in Manual /\ phase = "running" /\ page = run
             /\ book.armed \in {"none", run} /\ book.active \in {"none", run}
             => book'.active = run
        /\ run \in Manual /\ phase = "starting" /\ page = run
             /\ book.active = run /\ ~book.runSeen
             => book'.active = run
        /\ run = "none" /\ page \in Pages => book'.active \notin Manual \ {page}
  <1>1. ASSUME IInv PROVE Poll /\ reports = << >> => Agreed
    <2> SUFFICES ASSUME Poll, reports = << >> PROVE Agreed OBVIOUS
    <2>1. TypeOK /\ MachineInv /\ Agrees(status) BY <1>1, UpToDate DEF IInv
    <2>2. ASSUME run \in Manual, phase = "running", page = run,
                 book.armed \in {"none", run}, book.active \in {"none", run}
          PROVE  book'.active = run
      BY <2>1, <2>2, PollRunning DEF Agrees
    <2>3. ASSUME run \in Manual, phase = "starting", page = run, book.active = run, ~book.runSeen
          PROVE  book'.active = run
      BY <2>1, <2>3, PollResting DEF Agrees, Pages
    <2>4. ASSUME run = "none", page \in Pages PROVE book'.active \notin Manual \ {page}
      BY <2>1, <2>4, PollResting DEF Agrees, MachineInv
    <2> QED BY <2>2, <2>3, <2>4
  <1> QED BY <1>1, InitHolds, StepHolds, PTL DEF Spec, PollAgrees

\* async_pause_resume: for a user who waits for the machine's reports, a pause
\* from Home Assistant survives every poll, those before its report is in
\* too, and is shown once it is.
THEOREM PauseSurvives == ASSUME ~Hasty PROVE Spec => PauseKept
  <1> DEFINE Kept == /\ book'.active = run /\ book'.paused
                     /\ reports = << >> /\ book.armed = "none" => shown' = "paused"
             Paused == /\ run \in Manual /\ phase = "paused" /\ page = run
                       /\ book.active = run /\ book.paused
  <1>1. ASSUME IInv PROVE Poll /\ Paused => Kept
    <2> SUFFICES ASSUME Poll, Paused PROVE Kept OBVIOUS
    <2>1. TypeOK /\ PausedInv BY <1>1 DEF IInv
    <2>2. CASE reports = << >>
      <3>1. Agrees(status) BY <1>1, <2>2, UpToDate DEF IInv
      <3>2. status = Resting(run) BY <3>1 DEF Agrees, Pages
      <3> QED BY <2>1, <3>2, PollResting DEF Pages
    <2>3. CASE reports # << >>
      <3>1. Running(status, run) /\ ~book.pauseSeen BY <2>1, <2>3 DEF PausedInv
      <3> QED BY <2>1, <2>3, <3>1, PollRunning
    <2> QED BY <2>2, <2>3
  <1> QED BY <1>1, InitHolds, StepHolds, PTL DEF Spec, PauseKept

-----------------------------------------------------------------------------
(* The arm and its page *)

\* Until the machine leaves the armed page, nothing the coordinator has seen or
\* will see of it is that page followed by home.
ArmInv(s) ==
    book.armed \in Manual /\ ~pageLeft =>
        /\ lastScreen = book.armed =>
             page = book.armed /\ \A j \in 0 .. Len(reports) : s[j].screen # "home"
        /\ \A i, j \in 0 .. Len(reports) :
             s[i].screen = book.armed => page = book.armed /\ (i <= j => s[j].screen # "home")

IntentInv == IInv /\ \E s : Path(s) /\ ArmInv(s)

\* A manual operation is only armed by its button.
LEMMA ArmedBy ==
  ASSUME TypeOK, Next, book'.armed \in Manual, book'.armed # book.armed
  PROVE  CanPress /\ ArmManual(book'.armed)
  <1> USE DEF Manual
  <1>0. book \in Book BY DEF TypeOK
  <1>1. CASE Notify
    <2>1. \A b \in Book : \A f : BookAfter(b, f).armed \in {b.armed, "none"}
      BY DEF BookAfter, FinishRun, ClearManualRun, Book
    <2> QED BY <1>0, <1>1, <2>1, BookAfterType DEF Notify
  <1>2. CASE Poll
    <2>1. \A b \in Book : ReconcileManual(b).armed \in {b.armed, "none"}
      BY DEF ReconcileManual, Adopt, SeenRunning, FinishRun, ClearManualRun, Book
    <2> QED BY <1>0, <1>2, <2>1, ReconcileArmedIs DEF Poll
  <1>3. CASE CanPress /\ ManualButton
    <2>1. PICK p \in Manual : ArmManual(p) \/ ConfirmManual(p) BY <1>3 DEF ManualButton
    <2>2. ~ConfirmManual(p) BY <1>0 DEF ConfirmManual, Book
    <2>3. ArmManual(p) => book'.armed = p BY <1>0 DEF ArmManual, Book
    <2> QED BY <1>3, <2>1, <2>2, <2>3
  <1>4. ~\E t \in Calls : RecipeButton(t) \/ ExecuteRecipe(t)
    BY <1>0 DEF RecipeButton, ArmRecipe, ConfirmRecipe, ExecuteRecipe, Book
  <1>5. ~PauseButton
    BY <1>0 DEF PauseButton, PauseRun, ResumeRun, PauseResumeRecipe, coordinator, Book
  <1>6. ~CancelButton
    BY DEF CancelButton, CancelArmed, CancelManual, CancelOther, Cancelled
  <1>7. ~\E t \in Calls : RecipeStep(t)
    BY <1>0 DEF RecipeStep, ChainSends, ChainArmed, ChainExecutes, ChainAborted, StartVerified,
                StartUnconfirmed, Disarmed, Book
  <1>8. ~\E t \in Calls : CancelStep(t) BY DEF CancelStep, StopChecked, StopResent, QuitSent
  <1>9. ~AtTheMachine
    BY DEF AtTheMachine, OpenPage, KnobStart, BackOut, KnobStartRecipe, EasySlot, InsertPod,
           RunBegins, KnobPause, KnobResume, RunEnds, RunFails, coordinator
  <1> QED BY <1>1, <1>2, <1>3, <1>4, <1>5, <1>6, <1>7, <1>8, <1>9 DEF Next

\* The screen of the last poll changes with a poll.
LEMMA PolledScreen ==
  ASSUME Next
  PROVE  \/ lastScreen' = lastScreen
         \/ lastScreen' = status.screen /\ reports' = reports
  <1>1. CASE Notify \/ Poll BY <1>1 DEF Notify, Poll, machine
  <1>2. CASE ManualButton \/ PauseButton \/ CancelArmed \/ CancelOther
    BY <1>2 DEF ManualButton, ArmManual, ConfirmManual, PauseButton, PauseRun, ResumeRun,
                PauseResumeRecipe, CancelArmed, CancelOther, coordinator
  <1>3. CASE \E t \in Calls : RecipeButton(t) \/ ExecuteRecipe(t) \/ CancelManual(t)
    BY <1>3 DEF RecipeButton, ArmRecipe, ConfirmRecipe, ExecuteRecipe, CancelManual, GoesTo
  <1>4. CASE \E t \in Calls : RecipeStep(t) \/ CancelStep(t)
    BY <1>4 DEF RecipeStep, ChainSends, ChainArmed, ChainExecutes, ChainAborted, StartVerified,
                StartUnconfirmed, CancelStep, StopChecked, StopResent, QuitSent, GoesTo
  <1>5. CASE AtTheMachine
    BY <1>5 DEF AtTheMachine, OpenPage, KnobStart, BackOut, KnobStartRecipe, EasySlot, InsertPod,
                RunBegins, KnobPause, KnobResume, RunEnds, RunFails, coordinator
  <1> QED BY <1>1, <1>2, <1>3, <1>4, <1>5 DEF Next, CancelButton

LEMMA ArmFollows ==
  ASSUME ~Hasty, IInv, IntentNext, NEW s, Path(s), ArmInv(s),
         NEW u, Path(u)', Onward(s, u), TypeOK'
  PROVE  ArmInv(u)'
  <1>0. /\ Len(reports) \in Nat /\ Len(reports') \in Nat /\ TypeOK /\ ScreenInv /\ Next
        /\ s[0] = status
    BY LenProperties DEF IInv, TypeOK, IntentNext, Path
  <1>1. /\ s[Len(reports)].screen \in {"none", page}
        /\ u[Len(reports')].screen \in {"none", page'}
    BY DEF Path, Agrees
  <1> SUFFICES ASSUME book'.armed \in Manual, ~pageLeft'
               PROVE  /\ lastScreen' = book'.armed =>
                           page' = book'.armed /\ \A j \in 0 .. Len(reports') : u[j].screen # "home"
                      /\ \A i, j \in 0 .. Len(reports') :
                           u[i].screen = book'.armed => page' = book'.armed /\ (i <= j => u[j].screen # "home")
    BY DEF ArmInv
  <1>2. CASE book'.armed # book.armed
    <2>1. CanPress /\ ArmManual(book'.armed) BY <1>0, <1>2, ArmedBy
    <2>2. reports = << >> /\ ~refresh /\ lastScreen' = lastScreen /\ EnterPage(book'.armed)
      BY <2>1 DEF CanPress, ArmManual
    <2>3. Len(reports) = 0 /\ lastScreen = s[0].screen /\ s[0].screen \in {"none", page}
      BY <1>0, <1>1, <2>2 DEF ScreenInv
    <2>4. CASE UNCHANGED machine
      <3>1. u = s /\ Len(reports') = 0 /\ page' = page BY <1>0, <2>3, <2>4 DEF Onward, machine
      <3>2. \A i \in 0 .. Len(reports') : i = 0 BY <3>1
      <3> QED BY <2>2, <2>3, <3>1, <3>2 DEF Manual
    <2>5. CASE page # book'.armed /\ page' = book'.armed /\ Report(book'.armed, NoFrame)
      <3>1. Len(reports') = 1 BY <2>2, <2>5 DEF Report
      <3>2. u[0] = s[0] BY <1>0, <2>3, <3>1 DEF Onward
      <3>3. u[0].screen # book'.armed /\ lastScreen' # book'.armed /\ u[1].screen \in {"none", book'.armed}
        BY <1>1, <2>2, <2>3, <2>5, <3>1, <3>2 DEF Manual
      <3>4. \A i \in 0 .. Len(reports') : i = 0 \/ i = 1 BY <3>1
      <3> QED BY <2>5, <3>3, <3>4 DEF Manual
    <2> QED BY <2>2, <2>4, <2>5 DEF EnterPage
  <1>3. CASE book'.armed = book.armed
    <2>1. /\ book.armed \in Manual /\ ~pageLeft
          /\ page = book.armed => page' = page
      BY <1>3 DEF IntentNext
    <2>2. /\ lastScreen = book.armed =>
               page' = book.armed /\ \A j \in 0 .. Len(reports) : s[j].screen # "home"
          /\ \A i, j \in 0 .. Len(reports) :
               s[i].screen = book.armed => page' = book.armed /\ (i <= j => s[j].screen # "home")
      BY <2>1 DEF ArmInv
    <2>3. CASE reports' = reports /\ status' = status /\ u = s
      <3>1. 0 \in 0 .. Len(reports) /\ \A j \in 0 .. Len(reports) : 0 <= j BY <1>0
      <3>2. status.screen = book.armed =>
              page' = book.armed /\ \A j \in 0 .. Len(reports) : s[j].screen # "home"
        BY <1>0, <2>2, <3>1
      <3> QED BY <1>0, <1>3, <2>2, <2>3, <3>2, PolledScreen
    <2>4. CASE /\ Len(reports') = Len(reports) + 1 /\ status' = status
               /\ \A i \in 0 .. Len(reports) : u[i] = s[i]
      <3>1. lastScreen' = lastScreen BY <1>0, <2>4, PolledScreen
      <3>2. page' = book.armed => u[Len(reports')].screen # "home" BY <1>1, <2>1 DEF Manual
      <3>3. u[Len(reports')].screen = book.armed => page' = book.armed BY <1>1, <2>1 DEF Manual
      <3>4. \A i \in 0 .. Len(reports') : i \in 0 .. Len(reports) \/ i = Len(reports')
        BY <1>0, <2>4
      <3>5. \A i \in 0 .. Len(reports) : ~(Len(reports') <= i) BY <1>0, <2>4
      <3>6. ASSUME lastScreen' = book'.armed
            PROVE  page' = book'.armed /\ \A j \in 0 .. Len(reports') : u[j].screen # "home"
        BY <1>3, <2>2, <2>4, <3>1, <3>2, <3>4, <3>6
      <3>7. ASSUME NEW i \in 0 .. Len(reports'), NEW j \in 0 .. Len(reports'), u[i].screen = book'.armed
            PROVE  page' = book'.armed /\ (i <= j => u[j].screen # "home")
        <4>1. CASE i \in 0 .. Len(reports) BY <1>3, <2>2, <2>4, <3>2, <3>4, <3>7, <4>1
        <4>2. CASE i = Len(reports') BY <1>3, <3>2, <3>3, <3>4, <3>5, <3>7, <4>2
        <4> QED BY <3>4, <4>1, <4>2
      <3> QED BY <3>6, <3>7
    <2>5. CASE /\ Len(reports) = Len(reports') + 1
               /\ \A i \in 0 .. Len(reports') : u[i] = s[i + 1]
      <3>1. lastScreen' = lastScreen BY <1>0, <2>5, PolledScreen
      <3>2. \A i, j \in 0 .. Len(reports') : i + 1 \in 0 .. Len(reports) /\ (i <= j => i + 1 <= j + 1)
        BY <1>0, <2>5
      <3> QED BY <1>3, <2>2, <2>5, <3>1, <3>2
    <2> QED BY <2>3, <2>4, <2>5 DEF Onward
  <1> QED BY <1>2, <1>3

\* _reconcile_armed_with_screen: for a user who waits for the machine's reports,
\* a poll drops an arm only once the machine has left the armed page, never
\* because of a home report that was on its way when the arm was pressed.
THEOREM ArmKeptUntilLeft == ASSUME ~Hasty PROVE IntentSpec => ArmDroppedOnceLeft
  <1> DEFINE Dropped == Poll /\ book.armed \in Manual /\ book'.armed = "none" /\ book'.active = "none"
  <1>1. IntentInit => IntentInv
    <2> SUFFICES ASSUME IntentInit PROVE IntentInv OBVIOUS
    <2>1. IInv /\ \E s : Path(s) BY InitHolds DEF IntentInit
    <2>2. book.armed = "none" BY DEF IntentInit, Init
    <2> QED BY <2>1, <2>2 DEF IntentInv, ArmInv, Manual
  <1>2. IntentInv /\ [IntentNext]_allVars => IntentInv'
    <2> SUFFICES ASSUME IntentInv, [IntentNext]_allVars PROVE IntentInv' OBVIOUS
    <2>1. CASE IntentNext
      <3>1. PICK s : Path(s) /\ ArmInv(s) BY DEF IntentInv
      <3>2. IInv' /\ \E u : Path(u)' /\ Onward(s, u) BY <2>1, <3>1, Follows DEF IntentInv, IntentNext
      <3>3. PICK u : Path(u)' /\ Onward(s, u) BY <3>2
      <3>4. ArmInv(u)' BY <2>1, <3>1, <3>2, <3>3, ArmFollows DEF IntentInv, IInv
      <3> QED BY <3>2, <3>3, <3>4 DEF IntentInv
    <2>2. CASE UNCHANGED allVars
      <3>1. IInv' BY <2>2, StepHolds DEF IntentInv, allVars
      <3> QED BY <2>2, <3>1 DEF IntentInv, allVars, vars, coordinator, machine, Path, Agrees, ArmInv
    <2> QED BY <2>1, <2>2
  <1>3. ASSUME IntentInv PROVE Dropped => pageLeft
    <2> SUFFICES ASSUME Dropped, ~pageLeft PROVE FALSE OBVIOUS
    <2>1. PICK s : Path(s) /\ ArmInv(s) BY <1>3 DEF IntentInv
    <2>2. TypeOK /\ Len(reports) \in Nat /\ s[0] = status BY <1>3, <2>1, LenProperties DEF IntentInv, IInv, TypeOK, Path
    <2>3. ~(status.screen = "home" /\ lastScreen = book.armed) BY <2>1, <2>2 DEF ArmInv
    <2>4. ReconcileArmed(book) = book BY <2>3 DEF ReconcileArmed
    <2>5. ReconcileManual(book).armed = "none" => ReconcileManual(book).active \in Manual
      BY <2>2 DEF ReconcileManual, Adopt, SeenRunning, FinishRun, ClearManualRun, TypeOK, Book, Manual
    <2> QED BY <2>4, <2>5 DEF Poll, Manual
  <1> QED BY <1>1, <1>2, <1>3, PTL DEF IntentSpec, ArmDroppedOnceLeft
=============================================================================
