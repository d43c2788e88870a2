----------------------------- MODULE Telemetry ------------------------------
(***************************************************************************)
(* What the machine's notifications become: ble/client.py decodes status   *)
(* frames (screen and activity codes) and command frames, and the          *)
(* coordinator mirrors the grind knob and runs the grinder calibration.    *)
(*                                                                         *)
(* Two codes do not say what they mean.  0x3B is both a step of a brew and *)
(* the measuring step of a scale calibration, so the client remembers the  *)
(* frames before it; and the grinder's own start and stop frames come in a *)
(* grind and in a calibration sweep.  Notifications get lost, and the link *)
(* may come up in the middle of anything, with a client that has seen      *)
(* nothing.                                                                *)
(***************************************************************************)
EXTENDS Naturals, Sequences

CONSTANTS
    Sizes,        \* grind sizes
    MaxLost,      \* bound: lost notifications
    MaxDrops,     \* bound: lost links
    MaxPresses    \* bound: presses of button.calibrate_grinder

ASSUME TelemetryAssumption ==
    MaxLost \in Nat /\ MaxDrops \in Nat /\ MaxPresses \in Nat /\ Sizes # {} /\ Sizes \subseteq Nat \ {0}

VARIABLES
    doing,     \* the machine: what it does
    knob,      \* the machine: the grind size on its page
    sweepOf,   \* the machine: the press its sweep answers, 0 for its own menu
    link,      \* the link is up
    client,    \* XBloomClient's latches and status (a new one for each link)
    setpoint,  \* coordinator.grind_size
    fired,     \* the notification events of the last step
    presses,   \* presses so far
    sending,   \* a press that has yet to schedule its fallback, or 0
    waiting,   \* the presses whose 180 s fallback is pending
    heard,     \* history: what the machine does, as far as it has told the client
    known,     \* history: this link has shown that the run is a brew
    ours,      \* history: the sweep was started on this link, and not given up
    flagged,   \* history: the press that raised the calibration flag of this link, or 0
    lost, drops

machine == <<doing, knob, sweepOf>>
calibration == <<presses, sending, waiting>>
vars == <<machine, link, client, setpoint, fired, calibration, heard, known, ours, flagged, lost, drops>>

(* What the machine does, and the status code it shows meanwhile.          *)
CodeOf ==
    [home |-> "home", grind |-> "grind", grinding |-> "other", pour |-> "pour", pouring |-> "0x3B",
     loaded |-> "recipe_loaded", confirm |-> "awaiting_confirm", starting |-> "starting",
     brewing |-> "brewing", brewStep |-> "0x3B", soak |-> "soak", brewOther |-> "other",
     ready |-> "ready", calEntry |-> "0x39", calNoLoad |-> "0x3A", calMeasure |-> "0x3B",
     calStep |-> "0x3C", calOther |-> "other", calDone |-> "0x25", sweep |-> "0x26", sweepDone |-> "0x25",
     descale |-> "0x2F"]

Activities == DOMAIN CodeOf
Pages == {"home", "grind", "pour"}
Brew == {"loaded", "confirm", "starting", "brewing", "brewStep", "soak", "brewOther"}
ScaleCalibration == {"calEntry", "calNoLoad", "calMeasure", "calStep", "calOther"}

None == "none"
OtherSize == 0       \* a size that is none of Sizes, or not known yet
Labels == {None, "recipe_loaded", "awaiting_confirm", "starting", "brewing", "ready",
           "calibrating_scale", "calibrating_grinder", "descaling"}
States == {"idle", "grinding", "brewing", "paused"}

NewClient ==
    [scaleCal |-> FALSE, context |-> FALSE, label |-> None, screen |-> None,
     grinder |-> FALSE, brewer |-> FALSE, state |-> "idle", calibrating |-> FALSE, size |-> OtherSize]

TypeOK ==
    /\ doing \in Activities /\ knob \in Sizes /\ sweepOf \in 0 .. MaxPresses
    /\ link \in BOOLEAN
    /\ client \in [scaleCal : BOOLEAN, context : BOOLEAN, label : Labels,
                   screen : Pages \cup {None}, grinder : BOOLEAN, brewer : BOOLEAN,
                   state : States, calibrating : BOOLEAN, size : Sizes \cup {OtherSize}]
    /\ setpoint \in Sizes
    /\ fired \subseteq {"grinding_started", "grinding_complete", "calibration_started", "calibration_complete"}
    /\ presses \in 0 .. MaxPresses /\ sending \in 0 .. MaxPresses /\ waiting \subseteq 1 .. MaxPresses
    /\ heard \in Activities \cup {None} /\ known \in BOOLEAN /\ ours \in BOOLEAN
    /\ flagged \in 0 .. MaxPresses
    /\ lost \in 0 .. MaxLost /\ drops \in 0 .. MaxDrops
    /\ client.scaleCal => ~client.context    \* a calibration run is never a brew

Init ==
    /\ doing = "home" /\ knob \in Sizes /\ sweepOf = 0
    /\ link = FALSE /\ client = NewClient /\ setpoint \in Sizes /\ fired = {}
    /\ presses = 0 /\ sending = 0 /\ waiting = {}
    /\ heard = None /\ known = FALSE /\ ours = FALSE /\ flagged = 0 /\ lost = 0 /\ drops = 0

----------------------------------------------------------------------------
(* Decoding a status frame.                                                *)
RawStateLabel(code) ==
    CASE code \in {"recipe_loaded", "awaiting_confirm", "starting", "brewing", "ready"} -> code
      [] code \in {"0x3B", "soak"} -> "brewing"
      [] code = "0x26" -> "calibrating_grinder"
      [] code = "0x2F" -> "descaling"
      [] code \in {"0x39", "0x3A"} -> "calibrating_scale"
      [] OTHER -> None

ScreenCode(code) == IF code \in Pages THEN code ELSE None

Arming == {"0x39", "0x3A", "0x3C"}
BrewContextCodes == {"awaiting_confirm", "recipe_loaded", "starting", "brewing"}

\* Variant: a brew does not end the calibration.
EndsOnDoneOnly(code) == code = "0x25"

EndsScaleCalibration(code) ==
    \/ code = "0x25"
    \/ code \notin Arming \cup {"0x3B"} /\ (RawStateLabel(code) # None \/ ScreenCode(code) # None)

EndsBrewContext(code) ==
    \/ code = "0x25" \/ ScreenCode(code) # None
    \/ RawStateLabel(code) \in {"ready", "descaling", "calibrating_grinder", "calibrating_scale"}

Context(c, code) ==
    IF c.scaleCal THEN FALSE
    ELSE IF code \in BrewContextCodes THEN TRUE
    ELSE IF EndsBrewContext(code) THEN FALSE ELSE c.context

\* Variant: the label is that of the code, whatever went before.
LabelByMap(c, code) == IF c.scaleCal THEN "calibrating_scale" ELSE RawStateLabel(code)
StateLabel(c, code) ==
    IF c.scaleCal THEN "calibrating_scale"
    ELSE IF code = "0x3B" /\ ~c.context /\ ~c.brewer /\ ~c.grinder THEN None
    ELSE RawStateLabel(code)

\* Variant: a page does not reset what ran.
OnPageKeepsRun(c) == c

(* A page or home on the screen means that nothing runs.                   *)
OnPage(c) ==
    IF c.screen = None THEN c
    ELSE [c EXCEPT !.grinder = FALSE, !.brewer = FALSE, !.state = "idle"]

ScanStatus(c, code) ==
    LET armed == [c EXCEPT !.scaleCal = code \in Arming \/ (@ /\ ~EndsScaleCalibration(code))]
        known1 == [armed EXCEPT !.context = Context(armed, code)]
    IN  OnPage([known1 EXCEPT !.label = StateLabel(known1, code), !.screen = ScreenCode(code)])

(* Decoding a command frame: _handle_response.                             *)
\* Variant: the stop frame of a stage ends the sweep.
GrinderStopEndsCalibration(c) == [c EXCEPT !.grinder = FALSE, !.state = "idle", !.calibrating = FALSE]
GrinderStop(c) == [c EXCEPT !.grinder = FALSE, !.state = "idle"]

HandleResponse(c, frame) ==
    CASE frame.cmd = "grinder_begin" -> [c EXCEPT !.grinder = TRUE, !.state = "grinding"]
      [] frame.cmd = "grinder_stop"  -> GrinderStop(c)
      [] frame.cmd = "brewer_begin"  -> [c EXCEPT !.brewer = TRUE, !.state = "brewing"]
      [] frame.cmd = "brewer_stop"   -> [c EXCEPT !.brewer = FALSE, !.state = "idle"]
      [] frame.cmd = "brewer_pause"  -> [c EXCEPT !.state = "paused"]
      [] frame.cmd = "bloom"         -> [c EXCEPT !.state = "brewing"]
      [] frame.cmd = "in_grinder"    -> [c EXCEPT !.screen = "grind", !.size = frame.size]
      [] frame.cmd = "grinder_size"  -> [c EXCEPT !.size = frame.size]
      [] frame.cmd = "out_grinder"   -> [c EXCEPT !.screen = "home"]
      [] frame.cmd = "calibrate_start" -> [c EXCEPT !.calibrating = TRUE]
      [] frame.cmd = "current_grinder_85" -> [c EXCEPT !.calibrating = FALSE, !.size = OtherSize]
      [] OTHER -> c

(* _apply_grinder_knob: a knob turn, or the snapshot on entering the page, *)
(* reaches the number entity only on the grind page with nothing running:  *)
(* a recipe sends its own size the same way.                               *)
\* Variant: every size frame is taken for the knob.
KnobAlways(c, frame) == frame.cmd \in {"in_grinder", "grinder_size"}
KnobApplies(c, frame) ==
    frame.cmd \in {"in_grinder", "grinder_size"} /\ c.screen = "grind" /\ ~c.grinder

Events(c, frame) ==
    CASE frame.cmd = "grinder_begin" /\ ~c.calibrating -> {"grinding_started"}
      [] frame.cmd = "grinder_stop" /\ ~c.calibrating -> {"grinding_complete"}
      [] frame.cmd = "current_grinder_85" /\ c.calibrating -> {"calibration_complete"}
      [] OTHER -> {}

(* One frame of a notification: the status scan, then _parse_response.     *)
OnFrame(r, frame) ==
    IF frame.cmd = "status" THEN [r EXCEPT !.client = ScanStatus(@, frame.code)]
    ELSE LET c == HandleResponse(r.client, frame)
         IN  [client |-> c,
              setpoint |-> IF KnobApplies(c, frame) THEN frame.size ELSE r.setpoint,
              fired |-> r.fired \cup Events(r.client, frame)]

Status(d) == [cmd |-> "status", code |-> CodeOf[d]]
Cmd(name) == [cmd |-> name]
Size(name, n) == [cmd |-> name, size |-> n]

----------------------------------------------------------------------------
(* The machine, one notification at a time: what it does next, and the     *)
(* frames that tell.                                                       *)
Told(d) == <<d, <<Status(d)>>>>
Also(d, name) == <<d, <<Cmd(name), Status(d)>>>>

Moves ==
    CASE doing = "home" ->
            {<<"grind", <<Status("grind"), Size("in_grinder", knob)>>>>, Told("pour"),
             Told("loaded"), Told("starting"), Told("calEntry"), Told("descale"),
             Told("sweep"), Also("sweep", "calibrate_start")}
      [] doing = "grind" ->
            {Also("home", "out_grinder"), Also("grinding", "grinder_begin")}
      [] doing = "grinding" -> {Also("grind", "grinder_stop")}
      [] doing = "pour" -> {Told("home"), Also("pouring", "brewer_begin")}
      [] doing = "pouring" -> {Told("pour"), Also("pour", "brewer_stop"),
                               <<"pouring", <<Cmd("brewer_pause")>>>>}
      [] doing = "loaded" -> {Told("confirm"), Told("starting"), Told("home")}
                             \cup {<<"loaded", <<Size("grinder_size", n)>>>> : n \in Sizes}
      [] doing = "confirm" -> {Told("starting"), Told("home")}
      [] doing = "starting" -> {Also("brewing", "grinder_begin"), Told("brewing")}
      [] doing = "brewing" -> {<<"brewStep", <<Cmd("grinder_stop"), Cmd("brewer_begin"), Status("brewStep")>>>>,
                               Also("brewStep", "bloom"), Told("brewStep"), Told("soak"), Told("ready"),
                               <<"brewing", <<Cmd("brewer_pause")>>>>, Told("home")}
      [] doing = "soak" -> {Told("brewing")}
      [] doing = "brewStep" -> {Told("brewing"), Told("brewOther"), Also("ready", "brewer_stop"), Told("home")}
      [] doing = "brewOther" -> {Told("brewStep")}
      [] doing = "ready" -> {Told("home")}
      [] doing = "calEntry" -> {Told("calNoLoad"), Told("home")}
      [] doing = "calNoLoad" -> {Told("calMeasure")}
      [] doing = "calMeasure" -> {Told("calStep"), Told("calOther"), Told("calDone")}
      [] doing \in {"calStep", "calOther"} -> {Told("calMeasure")}
      [] doing \in {"calDone", "sweepDone", "descale"} -> {Told("home")}
      [] doing = "sweep" ->
            {<<"sweep", <<Cmd("grinder_begin")>>>>, <<"sweep", <<Cmd("grinder_stop")>>>>,
             Also("sweepDone", "current_grinder_85")}

(* The frames of a notification, three at most, are decoded in their order.*)
Decoded(frames) ==
    LET one   == OnFrame([client |-> client, setpoint |-> setpoint, fired |-> {}], frames[1])
        two   == OnFrame(one, frames[2])
        three == OnFrame(two, frames[3])
    IN  CASE Len(frames) = 1 -> one [] Len(frames) = 2 -> two [] Len(frames) = 3 -> three

(* _on_notification, or the notification is lost.                          *)
IsBrewFrame(f) ==
    f.cmd = "brewer_begin" \/ (f.cmd = "status" /\ f.code \in BrewContextCodes)
Shows(frames) == \E i \in DOMAIN frames : IsBrewFrame(frames[i])
Run(d) == IF d \in Brew THEN "brew" ELSE d

Notified(d, frames) ==
    LET r == Decoded(frames)
        tells == \E i \in DOMAIN frames : frames[i].cmd = "status"
    IN
    /\ \/ /\ link
          /\ client' = r.client /\ setpoint' = r.setpoint /\ fired' = r.fired
          /\ heard' = IF tells THEN d ELSE heard
          /\ known' = (Shows(frames) \/ (known /\ Run(d) = Run(doing)))
          /\ UNCHANGED lost
       \/ /\ link => lost < MaxLost
          /\ lost' = IF link THEN lost + 1 ELSE lost
          /\ fired' = {} /\ known' = (known /\ Run(d) = Run(doing))
          /\ heard' = IF d = doing THEN heard ELSE None
          /\ UNCHANGED <<client, setpoint>>
    /\ flagged' = IF client'.calibrating THEN flagged ELSE 0

Machine ==
    /\ \E m \in Moves : doing' = m[1] /\ Notified(m[1], m[2])
    /\ ours' = (ours /\ doing' = "sweep")
    /\ UNCHANGED <<knob, sweepOf, link, calibration, drops>>

(* A status frame is repeated now and then.                                *)
Heartbeat ==
    /\ Notified(doing, <<Status(doing)>>)
    /\ UNCHANGED <<machine, link, calibration, ours, drops>>

KnobTurned(n) ==
    /\ doing = "grind" /\ knob' = n
    /\ Notified(doing, <<Size("grinder_size", n)>>)
    /\ UNCHANGED <<doing, sweepOf, link, calibration, ours, drops>>

SetNumber(n) ==
    /\ setpoint' = n /\ fired' = {}
    /\ UNCHANGED <<machine, link, client, calibration, heard, known, ours, flagged, lost, drops>>

----------------------------------------------------------------------------
Connect ==
    /\ ~link /\ link' = TRUE /\ client' = NewClient
    /\ heard' = None /\ known' = FALSE /\ fired' = {}
    /\ UNCHANGED <<machine, setpoint, calibration, ours, flagged, lost, drops>>

Drop ==
    /\ link /\ drops < MaxDrops /\ drops' = drops + 1
    /\ link' = FALSE /\ ours' = FALSE /\ flagged' = 0 /\ fired' = {} /\ heard' = None /\ known' = FALSE
    /\ UNCHANGED <<machine, client, setpoint, calibration, lost>>

(* async_calibrate_grinder: the command, then the flag and the event, then *)
(* a refresh is awaited, then the fallback is scheduled.  The machine      *)
(* starts its sweep over for a second press.                               *)
Press ==
    /\ link /\ sending = 0 /\ presses < MaxPresses
    /\ presses' = presses + 1 /\ sending' = presses + 1
    /\ client' = [client EXCEPT !.calibrating = TRUE]
    /\ flagged' = presses + 1 /\ fired' = {"calibration_started"}
    /\ IF doing \in {"home", "sweep"}
       THEN doing' = "sweep" /\ sweepOf' = presses + 1 /\ ours' = TRUE
       ELSE UNCHANGED <<doing, sweepOf, ours>>
    /\ UNCHANGED <<knob, link, setpoint, waiting, heard, known, lost, drops>>

\* Variant: the press leaves no fallback.
ScheduledNever ==
    /\ sending # 0 /\ sending' = 0 /\ fired' = {}
    /\ UNCHANGED <<machine, link, client, setpoint, presses, waiting, heard, known, ours, flagged, lost, drops>>

Scheduled ==
    /\ sending # 0 /\ waiting' = waiting \cup {sending} /\ sending' = 0 /\ fired' = {}
    /\ UNCHANGED <<machine, link, client, setpoint, presses, heard, known, ours, flagged, lost, drops>>

(* _async_calibration_timeout_fallback.  A sweep takes less than the 180   *)
(* seconds.  Without a client the task ends with an exception.             *)
Fallback(p) ==
    /\ p \in waiting /\ (sweepOf = p => doing # "sweep")
    /\ waiting' = waiting \ {p}
    /\ IF link /\ client.calibrating
       THEN /\ client' = [client EXCEPT !.calibrating = FALSE]
            /\ fired' = {"calibration_complete"} /\ ours' = FALSE /\ flagged' = 0
       ELSE UNCHANGED <<client, ours, flagged>> /\ fired' = {}
    /\ UNCHANGED <<machine, link, setpoint, presses, sending, heard, known, lost, drops>>

Next ==
    \/ Machine \/ Heartbeat \/ Connect \/ Drop \/ Press \/ Scheduled
    \/ \E n \in Sizes : KnobTurned(n) \/ SetNumber(n)
    \/ \E p \in waiting : Fallback(p)

Spec == Init /\ [][Next]_vars

----------------------------------------------------------------------------
InSync == link /\ heard = doing

(* A brew is never taken for something else: once this link has seen what  *)
(* a brew shows first, 0x3B is reported as brewing, whatever calibration   *)
(* came before and whichever frames of either got lost (to MaxLost).       *)
BrewNotSwallowed ==
    InSync /\ known /\ doing \in {"brewStep", "pouring"} => client.label = "brewing"

(* A scale calibration is never announced as a brew, not even by a client  *)
(* that connected in the middle of it or missed its first screens.         *)
CalibrationNeverBrew ==
    InSync /\ doing \in ScaleCalibration => client.label # "brewing"

(* A run that ended without its own stop frame (cancelled, or the frame    *)
(* was lost) does not stay: on a page or at home nothing is running.       *)
NoStaleRun ==
    InSync /\ doing \in Pages =>
        ~client.grinder /\ ~client.brewer /\ client.state = "idle" /\ client.label = None

(* While a calibration started here is under way on the same link, its     *)
(* starts and stops of the motor are not announced as grinding.            *)
SweepSilent ==
    ours /\ doing = "sweep" => fired \cap {"grinding_started", "grinding_complete"} = {}

(* A calibration started here never stays open: while the flag its press   *)
(* raised is up, on the same link, that press still has its own fallback   *)
(* pending or is about to schedule it, whatever became of the sweep, of    *)
(* its last frame and of other presses.  A flag the machine's own menu     *)
(* raised has none.                                                        *)
CalibrationBacked ==
    link /\ client.calibrating /\ flagged # 0 => flagged \in waiting \/ flagged = sending

(* The grind size the user chose changes by the user's hand only: in Home  *)
(* Assistant, or on the knob while the grind page is open; never by the    *)
(* size a recipe sends.                                                    *)
OnlyByHand ==
    [][setpoint' # setpoint => (\E n \in Sizes : SetNumber(n)) \/ "grind" \in {doing, doing'}]_vars
=============================================================================
