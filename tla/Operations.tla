----------------------------- MODULE Operations -----------------------------
(***************************************************************************)
(* Arming, starting, pausing and cancelling what the machine does: the     *)
(* two-stage buttons (button.py, coordinator/operations.py, the recipe     *)
(* flow of coordinator/recipes.py and brewing.py), the decoding of the     *)
(* machine's notifications (ble/client.py) and the poll that reconciles    *)
(* the coordinator's bookkeeping with them (coordinator/state.py).         *)
(*                                                                         *)
(* The link is up and the machine awake throughout; Session is about the   *)
(* rest.  A step is the code between two awaits.  A write without response *)
(* returns long before the machine reports its effect (about a second), so *)
(* a command and the code after it are one step.                           *)
(*                                                                         *)
(* The machine and the person at its knobs are external: what they do is   *)
(* what the code and its comments say of them.                             *)
(***************************************************************************)
EXTENDS Naturals, Sequences

CONSTANTS
    Calls,       \* calls of the recipe and cancel buttons that may be in flight
    Hasty,       \* whether buttons are pressed ahead of the machine's reports
    MaxReports   \* bound: notifications on their way from the machine

ASSUME OperationsAssumption == MaxReports \in Nat /\ Hasty \in BOOLEAN

Manual == {"grind", "pour"}
Operation == Manual \cup {"recipe", "none"}

(* The machine's notifications: pages and activities come as status codes, *)
(* the rest as command-tagged frames.                                      *)
Pages == Manual \cup {"home"}
Labels == {"recipe_loaded", "starting", "brewing", "ready", "no_beans"}
Events == {"grind_begin", "grind_stop", "brew_begin", "brew_stop", "brew_pause",
           "enjoy", "error", "pod", "easy_begin"}
NoFrame == "none"
Unmapped == "unmapped"   \* a status code in neither of the client's maps
Frames == Pages \cup Labels \cup Events \cup {Unmapped, NoFrame}

VARIABLES
    book,        \* the coordinator's bookkeeping
    lastScreen,  \* _last_reconcile_screen
    shown,       \* data["state"], as of the last poll
    refresh,     \* a notification has scheduled an async_refresh
    status,      \* client.status
    call,        \* where each call is suspended
    page,        \* the machine: its screen
    run,         \* the machine: what it is doing
    phase,       \* the machine: how far that is
    reports      \* notifications on their way, in order

coordinator == <<book, lastScreen, shown, refresh, status, call>>
machine == <<page, run, phase, reports>>
vars == <<coordinator, machine>>

\* _armed_operation, _active_operation ("manual_grind" and "manual_pour" are
\* "grind" and "pour" here), _manual_paused, _manual_run_seen,
\* _manual_pause_seen and _pod_prompt_active.
Book == [armed : Operation, active : Operation, paused : BOOLEAN,
         runSeen : BOOLEAN, pauseSeen : BOOLEAN, pod : BOOLEAN]

Status == [screen : Pages \cup {"none"}, lastPage : Pages \cup {"none"},
           label : Labels \cup {"none"}, grinding : BOOLEAN, pouring : BOOLEAN,
           state : {"idle", "grinding", "brewing", "paused"}]

Shown == Labels \cup {"armed_recipe", "standalone", "idle", "grinding",
                      "brewing", "paused"}

\* chain, sent: async_arm_recipe, before and after the recipe is sent
\* verify:      async_confirm_recipe, waiting for the start
\* stop, quit:  async_cancel of a manual run, before and after the stop check
CallState == [pc : {"done", "chain", "sent", "verify", "stop", "quit"},
              op : Operation]

TypeOK ==
    /\ book \in Book
    /\ lastScreen \in Pages \cup {"none"}
    /\ shown \in Shown
    /\ refresh \in BOOLEAN
    /\ status \in Status
    /\ call \in [Calls -> CallState]
    /\ page \in Pages \cup {"prompt", "recipe"}
    /\ run \in Operation
    /\ phase \in {"none", "starting", "running", "paused", "held"}
    /\ reports \in Seq(Frames \X Frames)

CallDone == [pc |-> "done", op |-> "none"]

Init ==
    /\ book = [armed |-> "none", active |-> "none", paused |-> FALSE,
               runSeen |-> FALSE, pauseSeen |-> FALSE, pod |-> FALSE]
    /\ lastScreen = "none"
    /\ shown = "idle"
    /\ refresh = FALSE
    /\ status = [screen |-> "none", lastPage |-> "none", label |-> "none",
                 grinding |-> FALSE, pouring |-> FALSE, state |-> "idle"]
    /\ call = [t \in Calls |-> CallDone]
    /\ page = "home" /\ run = "none" /\ phase = "none"
    /\ reports = << <<"home", NoFrame>> >>

-----------------------------------------------------------------------------
(* Notifications *)

\* _scan_for_status_frame and _handle_response.
StatusAfter(s, f) ==
    CASE f \in Pages ->
           [screen |-> f, lastPage |-> f, label |-> "none", grinding |-> FALSE,
            pouring |-> FALSE, state |-> "idle"]
      [] f \in Labels -> [s EXCEPT !.screen = "none", !.label = f]
      [] f = Unmapped -> [s EXCEPT !.screen = "none", !.label = "none"]
      [] f = "grind_begin" -> [s EXCEPT !.grinding = TRUE, !.state = "grinding"]
      [] f = "grind_stop" -> [s EXCEPT !.grinding = FALSE, !.state = "idle"]
      [] f = "brew_begin" -> [s EXCEPT !.pouring = TRUE, !.state = "brewing"]
      [] f = "brew_stop" -> [s EXCEPT !.pouring = FALSE, !.state = "idle"]
      [] f = "brew_pause" -> [s EXCEPT !.state = "paused"]
      [] OTHER -> s

\* _clear_manual_run
ClearManualRun(b) ==
    [b EXCEPT !.paused = FALSE, !.runSeen = FALSE, !.pauseSeen = FALSE]

FinishRun(b) == ClearManualRun([b EXCEPT !.active = "none"])

\* The manual operation whose armed page a begin signal starts.
BeginOf(f) == IF f = "grind_begin" THEN "grind" ELSE "pour"

\* _dispatch_event
BookAfter(b, f) ==
    CASE f = "pod" -> [b EXCEPT !.pod = TRUE]
      [] f = "easy_begin" -> [b EXCEPT !.armed = "none", !.active = "recipe"]
      [] f \in {"grind_begin", "brew_begin"} ->
           IF b.armed \in {"recipe", BeginOf(f)}
           THEN [b EXCEPT !.pod = FALSE, !.armed = "none", !.active = b.armed]
           ELSE [b EXCEPT !.pod = FALSE]
      [] f \in {"brew_stop", "enjoy", "error"} -> FinishRun(b)
      [] f = "grind_stop" /\ b.active = "grind" -> [b EXCEPT !.active = "none"]
      [] OTHER -> b

\* _on_notification: the one or two frames of a notification, then a refresh.
\* The refresh of one notification has run when the next arrives.
Notify ==
    /\ reports # << >>
    /\ ~refresh
    /\ LET n == Head(reports) IN
         /\ status' = StatusAfter(StatusAfter(status, n[1]), n[2])
         /\ book' = BookAfter(BookAfter(book, n[1]), n[2])
    /\ reports' = Tail(reports)
    /\ refresh' = TRUE
    /\ UNCHANGED <<lastScreen, shown, call, page, run, phase>>

-----------------------------------------------------------------------------
(* The poll *)

\* Variant: level-triggered, without the page having been observed.
ReconcileArmedLevel(b) ==
    IF status.screen = "home" /\ b.armed \in Manual
    THEN [b EXCEPT !.armed = "none"]
    ELSE b

\* _reconcile_armed_with_screen
ReconcileArmed(b) ==
    IF status.screen = "home" /\ b.armed \in Manual /\ lastScreen = b.armed
    THEN [b EXCEPT !.armed = "none"]
    ELSE b

\* _manual_running
ManualRunning(op) ==
    IF op = "pour" THEN status.pouring \/ status.label \in {"starting", "brewing"}
    ELSE status.grinding

\* Variant: running means resumed, whether or not the pause was seen.
SeenRunningAnyway(b, op) ==
    [b EXCEPT !.runSeen = TRUE, !.paused = FALSE, !.pauseSeen = FALSE]

\* The machine runs op and the coordinator has it as active: a pause that the
\* machine has shown is over.
SeenRunning(b, op) ==
    [b EXCEPT !.runSeen = TRUE, !.paused = @ /\ ~b.pauseSeen, !.pauseSeen = FALSE]

\* Variant: only event-driven, no adoption of a run started at the machine.
AdoptNothing(b, op) == b

\* A run that starts on its page, with nothing else armed or active, is taken over.
Adopt(b, op) ==
    IF b.active = "none" /\ b.armed \in {"none", op}
    THEN [b EXCEPT !.armed = "none", !.active = op]
    ELSE b

\* Variant: whatever page a run starts on names the operation.
ReconcileManualAnyPage(b) ==
    IF ManualRunning(status.lastPage) THEN Adopt(b, status.lastPage) ELSE b

\* _reconcile_manual_operation
ReconcileManual(b) ==
    LET op == status.lastPage
        own == b.active
    IN  IF op \in Manual /\ ManualRunning(op)
        THEN LET c == Adopt(b, op)
             IN IF c.active = op THEN SeenRunning(c, op) ELSE c
        ELSE IF own \notin Manual THEN ClearManualRun(b)
        ELSE IF status.screen \notin {"none", own} THEN FinishRun(b)
        ELSE IF status.screen = own /\ b.paused THEN [b EXCEPT !.pauseSeen = TRUE]
        ELSE IF status.screen = own /\ b.runSeen THEN FinishRun(b)
        ELSE b

\* _derive_state_string
DeriveState(b) ==
    IF b.armed = "recipe" THEN "armed_recipe"
    ELSE IF status.label # "none" THEN status.label
    ELSE IF b.paused /\ status.screen # "home" THEN "paused"
    ELSE IF status.screen \in Manual /\ ~status.grinding /\ ~status.pouring THEN "standalone"
    ELSE IF status.screen = "none" /\ b.armed \in Manual THEN "standalone"
    ELSE status.state

\* _async_update_data: after a notification, and on every tick.
Poll ==
    /\ book' = ReconcileManual(ReconcileArmed(book))
    /\ lastScreen' = status.screen
    /\ shown' = DeriveState(book')
    /\ refresh' = FALSE
    /\ UNCHANGED <<status, call, machine>>

-----------------------------------------------------------------------------
(* The machine: what the commands do *)

Report(f, g) ==
    /\ Len(reports) < MaxReports
    /\ reports' = Append(reports, <<f, g>>)

\* 8006 and 8007: open the grind or the pour page.  A page that is already
\* open is not reported again, and a run is not left.
EnterPage(p) ==
    \/ /\ run = "none" /\ page # p
       /\ page' = p
       /\ Report(p, NoFrame)
       /\ UNCHANGED <<run, phase>>
    \/ (run # "none" \/ page = p) /\ UNCHANGED machine

\* 3500 and 4506: 3500 grinds on the grind page, 4506 also pours from home.
CanStart(p) == run = "none" /\ page \in {p} \cup (IF p = "pour" THEN {"home"} ELSE {})

StartManual(p) ==
    \/ /\ CanStart(p)
       /\ run' = p
       /\ phase' = "starting"
       /\ UNCHANGED <<page, reports>>
    \/ ~CanStart(p) /\ UNCHANGED machine

\* 3505 and 4507: dropped in the start transition; else the run stops and the
\* machine stays on its page.  Only the grinder announces the stop.
CanStop(p) == run = p /\ phase # "starting"

StopManual(p) ==
    \/ /\ CanStop(p)
       /\ run' = "none" /\ phase' = "none"
       /\ IF p = "grind" THEN Report("grind_stop", page) ELSE Report(page, NoFrame)
       /\ UNCHANGED page
    \/ ~CanStop(p) /\ UNCHANGED machine

\* 8018 and 8019: the paused run shows its page.
PauseManual(p) ==
    \/ /\ run = p /\ phase = "running"
       /\ phase' = "paused"
       /\ Report(page, NoFrame)
       /\ UNCHANGED <<page, run>>
    \/ ~(run = p /\ phase = "running") /\ UNCHANGED machine

Resumed(p) == IF p = "grind" THEN "grind_begin" ELSE "brewing"

\* 8020 and 8021
RestartManual(p) ==
    \/ /\ run = p /\ phase \in {"paused", "held"}
       /\ phase' = "running"
       /\ Report(Resumed(p), NoFrame)
       /\ UNCHANGED <<page, run>>
    \/ ~(run = p /\ phase \in {"paused", "held"}) /\ UNCHANGED machine

\* 8012, 8013, 8017 and 8022: back to the home page.
LeaveTo(from) ==
    \/ /\ run = "none" /\ page \in from
       /\ page' = "home"
       /\ Report("home", NoFrame)
       /\ UNCHANGED <<run, phase>>
    \/ ~(run = "none" /\ page \in from) /\ UNCHANGED machine

\* 8001, 8004 and 4513: a machine that is busy does not take a recipe.
SendRecipe ==
    /\ run = "none"
    /\ page' = "prompt"
    /\ Report("recipe_loaded", NoFrame)
    /\ UNCHANGED <<run, phase>>

\* 8002 and 4512
StartRecipe ==
    \/ /\ run = "none" /\ page = "prompt"
       /\ page' = "recipe" /\ run' = "recipe" /\ phase' = "starting"
       /\ Report("starting", NoFrame)
    \/ ~(run = "none" /\ page = "prompt") /\ UNCHANGED machine

\* 40519
StopRecipe ==
    \/ /\ run = "recipe"
       /\ page' = "home" /\ run' = "none" /\ phase' = "none"
       /\ Report("home", NoFrame)
    \/ run # "recipe" /\ UNCHANGED machine

\* 40518 and 40524: ignored unless a recipe runs.
PauseRecipe ==
    \/ /\ run = "recipe" /\ phase = "running"
       /\ phase' = "paused"
       /\ Report("brew_pause", Unmapped)
       /\ UNCHANGED <<page, run>>
    \/ ~(run = "recipe" /\ phase = "running") /\ UNCHANGED machine

RestartRecipe ==
    \/ /\ run = "recipe" /\ phase = "paused"
       /\ phase' = "running"
       /\ Report("brewing", NoFrame)
       /\ UNCHANGED <<page, run>>
    \/ ~(run = "recipe" /\ phase = "paused") /\ UNCHANGED machine

-----------------------------------------------------------------------------
(* The machine: what happens at it *)

OpenPage(p) ==
    /\ run = "none" /\ page = "home"
    /\ page' = p
    /\ Report(p, NoFrame)
    /\ UNCHANGED <<run, phase, coordinator>>

BackOut ==
    /\ run = "none" /\ page # "home"
    /\ page' = "home"
    /\ Report("home", NoFrame)
    /\ UNCHANGED <<run, phase, coordinator>>

KnobStart(p) ==
    /\ run = "none" /\ page = p
    /\ run' = p /\ phase' = "starting"
    /\ UNCHANGED <<page, reports, coordinator>>

KnobStartRecipe ==
    /\ run = "none" /\ page = "prompt"
    /\ page' = "recipe" /\ run' = "recipe" /\ phase' = "starting"
    /\ Report("starting", NoFrame)
    /\ UNCHANGED coordinator

\* A brew from the Easy Mode dial.
EasySlot ==
    /\ run = "none" /\ page = "home"
    /\ page' = "recipe" /\ run' = "recipe" /\ phase' = "starting"
    /\ Report("easy_begin", "starting")
    /\ UNCHANGED coordinator

InsertPod ==
    /\ run = "none" /\ page = "home"
    /\ page' = "prompt"
    /\ Report("pod", "recipe_loaded")
    /\ UNCHANGED <<run, phase, coordinator>>

\* The end of the start transition.  The begin signal of a pour is not
\* always sent; a recipe begins to grind or, without beans, to pour.
RunBegins ==
    /\ phase = "starting"
    /\ phase' = "running"
    /\ \/ run = "grind" /\ Report("grind_begin", NoFrame)
       \/ run = "pour" /\ Report("brewing", NoFrame)
       \/ run = "pour" /\ Report("brew_begin", "brewing")
       \/ run = "recipe" /\ Report("grind_begin", "brewing")
       \/ run = "recipe" /\ Report("brew_begin", "brewing")
    /\ UNCHANGED <<page, run, coordinator>>

KnobPause ==
    /\ run \in Manual /\ phase = "running"
    /\ phase' = "held"
    /\ Report(page, NoFrame)
    /\ UNCHANGED <<page, run, coordinator>>

KnobResume ==
    /\ run \in Manual /\ phase \in {"paused", "held"}
    /\ phase' = "running"
    /\ Report(Resumed(run), NoFrame)
    /\ UNCHANGED <<page, run, coordinator>>

RunEnds ==
    /\ phase = "running"
    /\ run' = "none" /\ phase' = "none"
    /\ \/ run = "grind" /\ Report("grind_stop", page)
       \/ run = "pour" /\ Report("brew_stop", page)
       \/ run = "recipe" /\ Report("enjoy", "ready")
    /\ UNCHANGED <<page, coordinator>>

\* No beans, or another alarm that ends the run.
RunFails ==
    /\ run # "none" /\ phase \in {"starting", "running"}
    /\ run' = "none" /\ phase' = "none" /\ page' = "recipe"
    /\ Report("error", "no_beans")
    /\ UNCHANGED coordinator

-----------------------------------------------------------------------------
(* The buttons *)

\* First press of the grind or pour button: async_arm_grind, async_arm_pour.
ArmManual(p) ==
    /\ book.armed # p
    /\ EnterPage(p)
    /\ book' = [book EXCEPT !.armed = p]
    /\ UNCHANGED <<lastScreen, shown, refresh, status, call>>

\* Second press: async_confirm_grind, async_confirm_pour.
ConfirmManual(p) ==
    /\ book.armed = p
    /\ StartManual(p)
    /\ book' = [book EXCEPT !.active = p, !.armed = "none"]
    /\ UNCHANGED <<lastScreen, shown, refresh, status, call>>

GoesTo(t, pc, op) ==
    /\ call' = [call EXCEPT ![t] = [pc |-> pc, op |-> op]]
    /\ UNCHANGED <<lastScreen, shown, refresh, status>>

\* First press of the recipe button: async_arm_recipe up to the 8022 of its chain.
ArmRecipe(t) ==
    /\ call[t].pc = "done"
    /\ book.armed # "recipe"
    /\ LeaveTo({"grind", "pour", "prompt", "recipe"})
    /\ GoesTo(t, "chain", "none")
    /\ UNCHANGED book

\* The execute_recipe service: the same chain, then the start in one call.
ExecuteRecipe(t) ==
    /\ call[t].pc = "done"
    /\ LeaveTo({"grind", "pour", "prompt", "recipe"})
    /\ GoesTo(t, "chain", "recipe")
    /\ book' = [book EXCEPT !.active = "recipe"]

\* The chain's last step, once 8022, 8102 and 8104 are acknowledged.
ChainSends(t) ==
    /\ call[t].pc = "chain"
    /\ SendRecipe
    /\ GoesTo(t, "sent", call[t].op)
    /\ UNCHANGED book

\* The recipe is acknowledged: it is armed, or executed.
ChainArmed(t) ==
    /\ call[t].pc = "sent" /\ call[t].op = "none"
    /\ book' = [book EXCEPT !.armed = "recipe"]
    /\ GoesTo(t, "done", "none")
    /\ UNCHANGED machine

ChainExecutes(t) ==
    /\ call[t].pc = "sent" /\ call[t].op = "recipe"
    /\ StartRecipe
    /\ GoesTo(t, "verify", "recipe")
    /\ UNCHANGED book

\* AckTimeout
ChainAborted(t) ==
    /\ call[t].pc \in {"chain", "sent"}
    /\ book' = [book EXCEPT !.active = IF call[t].op = "recipe" THEN "none" ELSE @]
    /\ GoesTo(t, "done", "none")
    /\ UNCHANGED machine

\* Second press of the recipe button: async_confirm_recipe up to its check.
ConfirmRecipe(t) ==
    /\ call[t].pc = "done"
    /\ book.armed = "recipe"
    /\ StartRecipe
    /\ book' = [book EXCEPT !.active = "recipe"]
    /\ GoesTo(t, "verify", "none")

\* What async_confirm_recipe does in the end; async_execute_recipe leaves the
\* arm of another press alone.
Disarmed(t, b) == IF call[t].op = "none" THEN [b EXCEPT !.armed = "none"] ELSE b

\* A coffee brew is seen to start, or the go command of a tea is acknowledged.
StartVerified(t) ==
    /\ call[t].pc = "verify"
    /\ book' = Disarmed(t, book)
    /\ GoesTo(t, "done", "none")
    /\ UNCHANGED machine

\* BrewStartUnconfirmed or AckTimeout
StartUnconfirmed(t) ==
    /\ call[t].pc = "verify"
    /\ status.label \notin {"starting", "brewing"}
    /\ book' = Disarmed(t, [book EXCEPT !.active = "none"])
    /\ GoesTo(t, "done", "none")
    /\ UNCHANGED machine

\* async_pause_resume of a manual run
PauseRun ==
    /\ book.armed = "none"
    /\ book.active \in Manual
    /\ shown # "paused"
    /\ PauseManual(book.active)
    /\ book' = [book EXCEPT !.paused = TRUE, !.pauseSeen = FALSE]
    /\ UNCHANGED <<lastScreen, shown, refresh, status, call>>

ResumeRun ==
    /\ book.armed = "none"
    /\ book.active \in Manual
    /\ shown = "paused"
    /\ RestartManual(book.active)
    /\ book' = [book EXCEPT !.pauseSeen = TRUE]
    /\ UNCHANGED <<lastScreen, shown, refresh, status, call>>

\* async_pause_resume of anything else: by what the state sensor shows.
PauseResumeRecipe ==
    /\ book.armed = "none"
    /\ book.active \notin Manual
    /\ \/ shown = "paused" /\ RestartRecipe
       \/ shown \in {"starting", "brewing", "grinding"} /\ PauseRecipe
    /\ UNCHANGED coordinator

\* async_cancel clears the bookkeeping first, whatever follows.
Cancelled == [armed |-> "none", active |-> "none", paused |-> FALSE,
              runSeen |-> FALSE, pauseSeen |-> FALSE, pod |-> FALSE]

ArmedScreen(op) == IF op = "recipe" THEN "prompt" ELSE op

CancelArmed ==
    /\ book.armed # "none" \/ book.pod
    /\ LeaveTo({ArmedScreen(book.armed)} \cup (IF book.pod THEN {"prompt"} ELSE {}))
    /\ book' = Cancelled
    /\ UNCHANGED <<lastScreen, shown, refresh, status, call>>

CancelManual(t) ==
    /\ call[t].pc = "done"
    /\ book.armed = "none" /\ ~book.pod
    /\ book.active \in Manual
    /\ StopManual(book.active)
    /\ book' = Cancelled
    /\ GoesTo(t, "stop", book.active)

CancelOther ==
    /\ book.armed = "none" /\ ~book.pod
    /\ book.active \notin Manual
    /\ StopRecipe
    /\ book' = Cancelled
    /\ UNCHANGED <<lastScreen, shown, refresh, status, call>>

IsRunning(op) == IF op = "grind" THEN status.grinding ELSE status.pouring

\* _async_verify_component_stop: stopped, or the stop is sent once more.
StopChecked(t) ==
    /\ call[t].pc = "stop"
    /\ ~IsRunning(call[t].op)
    /\ GoesTo(t, "quit", call[t].op)
    /\ UNCHANGED <<book, machine>>

StopResent(t) ==
    /\ call[t].pc = "stop"
    /\ IsRunning(call[t].op)
    /\ StopManual(call[t].op)
    /\ GoesTo(t, "quit", call[t].op)
    /\ UNCHANGED book

QuitSent(t) ==
    /\ call[t].pc = "quit"
    /\ LeaveTo({call[t].op})
    /\ GoesTo(t, "done", "none")
    /\ UNCHANGED book

-----------------------------------------------------------------------------

ManualButton == \E p \in Manual : ArmManual(p) \/ ConfirmManual(p)

RecipeButton(t) == ArmRecipe(t) \/ ConfirmRecipe(t)

RecipeStep(t) ==
    \/ ChainSends(t) \/ ChainArmed(t) \/ ChainExecutes(t) \/ ChainAborted(t)
    \/ StartVerified(t) \/ StartUnconfirmed(t)

PauseButton == PauseRun \/ ResumeRun \/ PauseResumeRecipe

CancelButton == CancelArmed \/ (\E t \in Calls : CancelManual(t)) \/ CancelOther

CancelStep(t) == StopChecked(t) \/ StopResent(t) \/ QuitSent(t)

AtTheMachine ==
    \/ \E p \in Manual : OpenPage(p) \/ KnobStart(p)
    \/ BackOut \/ KnobStartRecipe \/ EasySlot \/ InsertPod
    \/ RunBegins \/ KnobPause \/ KnobResume \/ RunEnds \/ RunFails

\* The event loop runs its callbacks in order: the refresh of a notification
\* is ahead of a press that comes in after it.  Who is not hasty presses a
\* button when what the machine did before has been reported.
CanPress == ~refresh /\ (Hasty \/ reports = << >>)

Next ==
    \/ Notify
    \/ Poll
    \/ CanPress /\ ManualButton
    \/ CanPress /\ \E t \in Calls : RecipeButton(t) \/ ExecuteRecipe(t)
    \/ CanPress /\ (PauseButton \/ CancelButton)
    \/ \E t \in Calls : RecipeStep(t) \/ CancelStep(t)
    \/ AtTheMachine

Spec == Init /\ [][Next]_vars

-----------------------------------------------------------------------------

\* A poll that has seen everything the machine reported agrees with it: a
\* manual run on its page, whoever started it, is the active one unless
\* something else is armed or active; one started from Home Assistant is kept
\* until it begins; and no manual run is active while the machine rests on
\* another page.
PollAgrees ==
    [][Poll /\ reports = << >> =>
         /\ run \in Manual /\ phase = "running" /\ page = run
              /\ book.armed \in {"none", run} /\ book.active \in {"none", run}
              => book'.active = run
         /\ run \in Manual /\ phase = "starting" /\ page = run
              /\ book.active = run /\ ~book.runSeen
              => book'.active = run
         /\ run = "none" /\ page \in Pages => book'.active \notin Manual \ {page}]_vars

\* A manual run paused from Home Assistant stays the active one and paused
\* through every poll, although the machine shows it like an idle page and the
\* report of that lags the press; once it is in, the run is shown as paused, so
\* that the next press resumes it.
PauseKept ==
    [][Poll /\ run \in Manual /\ phase = "paused" /\ page = run
         /\ book.active = run /\ book.paused
         => /\ book'.active = run /\ book'.paused
            /\ reports = << >> /\ book.armed = "none" => shown' = "paused"]_vars
=============================================================================
