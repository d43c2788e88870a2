-------------------------- MODULE TelemetryProofs ---------------------------
(***************************************************************************)
(* Proofs about Telemetry for any grind sizes and any number of drops and  *)
(* presses.  What the client makes of a code depends on the frames before  *)
(* it, so two of the properties hold only while few notifications are      *)
(* lost; the inductive invariant says how many it takes for a latch, a run *)
(* or a screen to be stale in each activity, and the theorems say how many *)
(* the decoder copes with.                                                 *)
(***************************************************************************)
EXTENDS Telemetry, TLAPS

\* A calibration of this link is under way, and its fallback or the press that
\* is about to schedule it is still there.
OursInv ==
    ours => /\ link /\ client.calibrating /\ doing = "sweep" /\ sweepOf # 0
            /\ sweepOf \in waiting \/ sending = sweepOf

\* The press that raised the flag has a fallback to come, and the flag is up.
FlagInv ==
    flagged # 0 => link /\ client.calibrating /\ (flagged \in waiting \/ flagged = sending)

\* The client takes 0x3B for a step of a brew, unless the latch is set.
Dirty(c) == c.context \/ c.brewer \/ c.grinder

\* Notifications lost before a run that is over can still be taken for one:
\* home ends it, and so do the first two screens of a calibration.
RunInv ==
    link /\ Dirty(client) =>
        /\ doing = "home" => lost >= 1
        /\ doing = "calEntry" => client.scaleCal \/ lost >= 2
        /\ doing \in ScaleCalibration \ {"calEntry"} => client.scaleCal \/ lost >= 3

\* A calibration is announced as a brew only after three losses.
MeasureInv == InSync /\ doing \in ScaleCalibration /\ client.label = "brewing" => lost >= 3

\* Notifications lost before the latch of a scale calibration is stale.
LatchInv ==
    link /\ client.scaleCal =>
        \/ doing \in ScaleCalibration
        \/ doing \in {"home", "calDone", "sweep"} /\ lost >= 1
        \/ lost >= 2

\* A run that this link knows to be a brew has left its mark.
KnownInv ==
    link /\ known /\ doing \in Brew \cup {"pouring"} =>
        client.context \/ client.brewer \/ lost >= 2

\* A brew is announced as something else only after two losses.
BrewInv == InSync /\ known /\ doing \in {"brewStep", "pouring"} => client.label = "brewing" \/ lost >= 2

\* Notifications lost before the grind page is still shown.
ScreenInv ==
    link /\ client.screen = "grind" =>
        \/ doing = "grind"
        \/ doing \in {"home", "grinding", "sweep"} /\ lost >= 1
        \/ lost >= 2

\* The inductive invariant.
IInv ==
    /\ TypeOK /\ OursInv /\ FlagInv /\ SweepSilent /\ NoStaleRun
    /\ RunInv /\ MeasureInv /\ LatchInv /\ KnownInv /\ BrewInv /\ ScreenInv

----------------------------------------------------------------------------
(* Decoding *)

ClientType ==
    [scaleCal : BOOLEAN, context : BOOLEAN, label : Labels, screen : Pages \cup {None},
     grinder : BOOLEAN, brewer : BOOLEAN, state : States, calibrating : BOOLEAN,
     size : Sizes \cup {OtherSize}]

Codes == {CodeOf[d] : d \in Activities}

\* The codes, by what they end and show.
LEMMA CodeFacts ==
  ASSUME NEW d \in Activities
  PROVE  /\ ScreenCode(CodeOf[d]) = IF d \in Pages THEN d ELSE None
         /\ RawStateLabel(CodeOf[d]) \in Labels
         /\ d \in Pages => RawStateLabel(CodeOf[d]) = None
         /\ CodeOf[d] \in Arming <=> d \in {"calEntry", "calNoLoad", "calStep"}
         /\ CodeOf[d] \in BrewContextCodes <=> d \in {"loaded", "confirm", "starting", "brewing"}
         /\ CodeOf[d] = "0x3B" <=> d \in {"pouring", "brewStep", "calMeasure"}
         /\ EndsScaleCalibration(CodeOf[d]) <=>
              d \notin {"grinding", "pouring", "brewStep", "brewOther"} \cup ScaleCalibration
         /\ EndsBrewContext(CodeOf[d]) <=>
              d \in Pages \cup {"ready", "calEntry", "calNoLoad", "calDone", "sweep", "sweepDone", "descale"}
         /\ d \in {"calEntry", "calNoLoad"} => RawStateLabel(CodeOf[d]) = "calibrating_scale"
         /\ d \in {"calStep", "calOther"} => RawStateLabel(CodeOf[d]) = None
         /\ d \in {"pouring", "brewStep", "calMeasure"} => RawStateLabel(CodeOf[d]) = "brewing"
  <1> USE DEF CodeOf, ScreenCode, RawStateLabel, Arming, BrewContextCodes, EndsScaleCalibration,
              EndsBrewContext, Pages, Labels, None, ScaleCalibration
  <1>1. Activities = {"home", "grind", "grinding", "pour", "pouring", "loaded", "confirm", "starting",
                      "brewing", "brewStep", "soak", "brewOther", "ready", "calEntry", "calNoLoad",
                      "calMeasure", "calStep", "calOther", "calDone", "sweep", "sweepDone", "descale"}
    BY DEF Activities
  <1>2. CASE d \in Pages BY <1>2
  <1>3. CASE d \in Brew BY <1>3 DEF Brew
  <1>4. CASE d \in ScaleCalibration BY <1>4
  <1>5. CASE d \in {"grinding", "pouring", "ready", "calDone", "sweep", "sweepDone", "descale"} BY <1>5
  <1> QED BY <1>1, <1>2, <1>3, <1>4, <1>5 DEF Brew

\* A status frame, field by field.
LEMMA ScanFields ==
  ASSUME NEW c \in ClientType, NEW d \in Activities, NEW s, s = ScanStatus(c, CodeOf[d])
  PROVE  /\ s.scaleCal <=> \/ CodeOf[d] \in Arming
                           \/ c.scaleCal /\ ~EndsScaleCalibration(CodeOf[d])
         /\ s.context <=> /\ ~s.scaleCal
                          /\ \/ CodeOf[d] \in BrewContextCodes
                             \/ c.context /\ ~EndsBrewContext(CodeOf[d])
         /\ s.label = IF s.scaleCal THEN "calibrating_scale"
                      ELSE IF CodeOf[d] = "0x3B" /\ ~s.context /\ ~c.brewer /\ ~c.grinder THEN None
                      ELSE RawStateLabel(CodeOf[d])
         /\ s.screen = ScreenCode(CodeOf[d])
         /\ s.grinder <=> c.grinder /\ ScreenCode(CodeOf[d]) = None
         /\ s.brewer <=> c.brewer /\ ScreenCode(CodeOf[d]) = None
         /\ s.state = IF ScreenCode(CodeOf[d]) = None THEN c.state ELSE "idle"
         /\ s.calibrating = c.calibrating
         /\ s \in ClientType
  <1> DEFINE code == CodeOf[d]
             armed == [c EXCEPT !.scaleCal = code \in Arming \/ (@ /\ ~EndsScaleCalibration(code))]
             ctx == [armed EXCEPT !.context = Context(armed, code)]
             lab == [ctx EXCEPT !.label = StateLabel(ctx, code), !.screen = ScreenCode(code)]
  <1> USE DEF ClientType
  <1> HIDE DEF code
  <1>1. s = OnPage(lab) BY DEF ScanStatus, code
  <1>2. /\ armed.scaleCal <=> code \in Arming \/ (c.scaleCal /\ ~EndsScaleCalibration(code))
        /\ armed \in ClientType /\ armed = [c EXCEPT !.scaleCal = armed.scaleCal]
    OBVIOUS
  <1> HIDE DEF armed
  <1>3. /\ ctx.context <=> /\ ~armed.scaleCal
                           /\ \/ code \in BrewContextCodes
                              \/ c.context /\ ~EndsBrewContext(code)
        /\ ctx \in ClientType /\ ctx = [armed EXCEPT !.context = ctx.context]
    BY <1>2 DEF Context
  <1> HIDE DEF ctx
  <1>4. /\ ScreenCode(code) \in Pages \cup {None}
        /\ StateLabel(ctx, code) \in Labels
    BY CodeFacts DEF code, StateLabel, None, Labels
  <1>5. lab \in ClientType /\ lab.screen = ScreenCode(code) /\ lab.label = StateLabel(ctx, code)
        /\ lab.scaleCal = ctx.scaleCal /\ lab.context = ctx.context /\ lab.grinder = ctx.grinder
        /\ lab.brewer = ctx.brewer /\ lab.state = ctx.state /\ lab.calibrating = ctx.calibrating
    BY <1>3, <1>4
  <1> HIDE DEF lab
  <1>6. ctx.scaleCal = armed.scaleCal /\ ctx.grinder = c.grinder /\ ctx.brewer = c.brewer
        /\ ctx.state = c.state /\ ctx.calibrating = c.calibrating
    BY <1>2, <1>3
  <1>7. CASE ScreenCode(code) = None
    <2>1. s = lab BY <1>1, <1>5, <1>7 DEF OnPage
    <2> QED BY <1>2, <1>3, <1>5, <1>6, <1>7, <2>1 DEF code, StateLabel
  <1>8. CASE ScreenCode(code) # None
    <2>1. s = [lab EXCEPT !.grinder = FALSE, !.brewer = FALSE, !.state = "idle"]
      BY <1>1, <1>5, <1>8 DEF OnPage
    <2>2. s \in ClientType /\ ~s.grinder /\ ~s.brewer /\ s.state = "idle" /\ s.screen = lab.screen
          /\ s.label = lab.label /\ s.scaleCal = lab.scaleCal /\ s.context = lab.context
          /\ s.calibrating = lab.calibrating
      BY <1>5, <2>1 DEF States
    <2> QED BY <1>2, <1>3, <1>5, <1>6, <1>8, <2>2 DEF code, StateLabel
  <1> QED BY <1>7, <1>8

\* The activities that show they are steps of a brew.
Shown == {"loaded", "confirm", "starting", "brewing"}

\* What a status frame makes of a client, by what the machine does.
ScannedTo(c, d, s) ==
    /\ s \in ClientType /\ (s.scaleCal => ~s.context) /\ s.calibrating = c.calibrating
    /\ s.screen = IF d \in Pages THEN d ELSE None
    /\ d \in Pages => ~s.scaleCal /\ ~Dirty(s) /\ s.state = "idle" /\ s.label = None
    /\ d \notin Pages => (s.grinder <=> c.grinder) /\ (s.brewer <=> c.brewer)
    /\ d \in ScaleCalibration /\ c.scaleCal => s.scaleCal
    /\ d \in {"calEntry", "calNoLoad"} => s.scaleCal
    /\ s.scaleCal => \/ d \in ScaleCalibration
                     \/ c.scaleCal /\ d \in {"grinding", "pouring", "brewStep", "brewOther"}
    /\ d \in Shown => s.context
    /\ d \in Brew \cup {"pouring"} /\ c.context /\ ~c.scaleCal => s.context
    /\ s.context => c.context \/ d \in Shown
    /\ d \in ScaleCalibration /\ s.label = "brewing" => ~s.scaleCal /\ Dirty(c)
    /\ d \in {"brewStep", "pouring"} /\ ~c.scaleCal /\ (c.context \/ c.brewer) => s.label = "brewing"

LEMMA Scanned ==
  ASSUME NEW c \in ClientType, NEW d \in Activities
  PROVE  ScannedTo(c, d, ScanStatus(c, CodeOf[d]))
  <1> DEFINE s == ScanStatus(c, CodeOf[d])
  <1> HIDE DEF s
  <1>1. s \in ClientType BY ScanFields DEF s
  <1>2. /\ s.scaleCal <=> \/ d \in {"calEntry", "calNoLoad", "calStep"}
                          \/ c.scaleCal /\ d \in {"grinding", "pouring", "brewStep", "brewOther"} \cup ScaleCalibration
        /\ s.context <=> /\ ~s.scaleCal
                         /\ \/ d \in Shown
                            \/ /\ c.context
                               /\ d \notin Pages \cup {"ready", "calEntry", "calNoLoad", "calDone", "sweep",
                                                       "sweepDone", "descale"}
        /\ s.screen = IF d \in Pages THEN d ELSE None
        /\ s.grinder <=> c.grinder /\ d \notin Pages
        /\ s.brewer <=> c.brewer /\ d \notin Pages
        /\ d \in Pages => s.state = "idle"
        /\ s.calibrating = c.calibrating
    BY ScanFields, CodeFacts DEF s, Shown, None, Pages
  <1>3. s.label = IF s.scaleCal THEN "calibrating_scale"
                  ELSE IF d \in {"pouring", "brewStep", "calMeasure"} /\ ~s.context /\ ~c.brewer /\ ~c.grinder
                       THEN None
                  ELSE RawStateLabel(CodeOf[d])
    BY ScanFields, CodeFacts DEF s
  <1>4. d \in ScaleCalibration /\ s.label = "brewing" => ~s.scaleCal /\ Dirty(c)
    BY <1>2, <1>3, CodeFacts DEF ScaleCalibration, Dirty, None, Shown
  <1>5. d \in {"brewStep", "pouring"} /\ ~c.scaleCal /\ (c.context \/ c.brewer) => s.label = "brewing"
    BY <1>2, <1>3, CodeFacts DEF ScaleCalibration, Pages
  <1>6. d \in Pages => ~s.scaleCal /\ ~Dirty(s) /\ s.state = "idle" /\ s.label = None
    BY <1>2, <1>3, CodeFacts DEF Pages, ScaleCalibration, Dirty, Shown
  <1> QED BY <1>1, <1>2, <1>4, <1>5, <1>6 DEF ScannedTo, s, Brew, Pages, ScaleCalibration, Shown

\* The commands the machine announces something with.
Names == {"out_grinder", "grinder_begin", "grinder_stop", "brewer_begin", "brewer_stop", "brewer_pause",
          "bloom", "calibrate_start", "current_grinder_85"}

\* What a command frame makes of a client.
LEMMA Commanded ==
  ASSUME NEW c \in ClientType, NEW x \in Names, NEW h, h = HandleResponse(c, Cmd(x))
  PROVE  /\ h \in ClientType /\ h.scaleCal = c.scaleCal /\ h.context = c.context /\ h.label = c.label
         /\ h.grinder <=> x = "grinder_begin" \/ (c.grinder /\ x # "grinder_stop")
         /\ h.brewer <=> x = "brewer_begin" \/ (c.brewer /\ x # "brewer_stop")
         /\ h.calibrating <=> x = "calibrate_start" \/ (c.calibrating /\ x # "current_grinder_85")
         /\ h.screen = IF x = "out_grinder" THEN "home" ELSE c.screen
  <1> USE DEF HandleResponse, Cmd, ClientType, States, Pages, GrinderStop, Names
  <1>1. CASE x \in {"grinder_begin", "grinder_stop", "brewer_begin"} BY ZenonT(60), <1>1
  <1>2. CASE x \in {"brewer_stop", "brewer_pause", "bloom"} BY ZenonT(60), <1>2
  <1>3. CASE x \in {"out_grinder", "calibrate_start", "current_grinder_85"} BY ZenonT(60), <1>3
  <1> QED BY <1>1, <1>2, <1>3

\* A size frame changes the size, and entering the grind page the screen.
LEMMA Sized ==
  ASSUME NEW c \in ClientType, NEW x \in {"in_grinder", "grinder_size"}, NEW n \in Sizes,
         NEW h, h = HandleResponse(c, Size(x, n))
  PROVE  /\ h \in ClientType /\ h.scaleCal = c.scaleCal /\ h.context = c.context /\ h.label = c.label
         /\ h.grinder = c.grinder /\ h.brewer = c.brewer /\ h.state = c.state
         /\ h.calibrating = c.calibrating
         /\ h.screen = IF x = "in_grinder" THEN "grind" ELSE c.screen
  BY DEF HandleResponse, Size, ClientType, Pages

----------------------------------------------------------------------------
(* Notifications *)

\* Which commands announce which step, in one notification with its status.
Announced ==
    {<<"home", "sweep", "calibrate_start">>, <<"grind", "home", "out_grinder">>,
     <<"grind", "grinding", "grinder_begin">>, <<"grinding", "grind", "grinder_stop">>,
     <<"pour", "pouring", "brewer_begin">>, <<"pouring", "pour", "brewer_stop">>,
     <<"starting", "brewing", "grinder_begin">>, <<"brewing", "brewStep", "bloom">>,
     <<"brewStep", "ready", "brewer_stop">>, <<"sweep", "sweepDone", "current_grinder_85">>}

\* A notification with a status frame.
Telling(d, f) ==
    \/ f = <<Status(d)>>
    \/ \E x \in Names : f = <<Cmd(x), Status(d)>> /\ <<doing, d, x>> \in Announced
    \/ doing = "brewing" /\ d = "brewStep" /\ f = <<Cmd("grinder_stop"), Cmd("brewer_begin"), Status(d)>>
    \/ doing = "home" /\ d = "grind" /\ f = <<Status(d), Size("in_grinder", knob)>>

\* A notification without one; the machine goes on with what it does.
Untold(d, f) ==
    /\ d = doing
    /\ \/ \E x \in Names : /\ f = <<Cmd(x)>>
                           /\ <<doing, x>> \in {<<"pouring", "brewer_pause">>, <<"brewing", "brewer_pause">>,
                                                <<"sweep", "grinder_begin">>, <<"sweep", "grinder_stop">>}
       \/ \E n \in Sizes : f = <<Size("grinder_size", n)>> /\ doing \in {"loaded", "grind"}

\* Where the steps that matter come from and lead to; staying is none.
Follows(d) ==
    /\ d = "calEntry" => doing \in {"home", "calEntry"}
    /\ d = "calNoLoad" => doing \in {"calEntry", "calNoLoad"}
    /\ d \in {"calMeasure", "calStep", "calOther"} => doing \in ScaleCalibration \ {"calEntry"}
    /\ d = "sweep" => doing \in {"home", "sweep"}
    /\ d = "grinding" => doing \in {"grind", "grinding"}
    /\ d = "pouring" => doing \in {"pour", "pouring"}
    /\ d \in {"brewStep", "brewOther"} => doing \in Brew
    /\ doing \in ScaleCalibration => d \in ScaleCalibration \cup {"home", "calDone"}
    /\ doing = "grind" => d \in {"grind", "home", "grinding"}

\* The machine's notifications have these forms.
LEMMA MoveForms ==
  ASSUME doing \in Activities, NEW m \in Moves
  PROVE  /\ m[1] \in Activities /\ Follows(m[1])
         /\ (Telling(m[1], m[2]) /\ m[1] # doing) \/ Untold(m[1], m[2])
  <1>0. Activities = {"home", "grind", "grinding", "pour", "pouring", "loaded", "confirm", "starting",
                      "brewing", "brewStep", "soak", "brewOther", "ready", "calEntry", "calNoLoad",
                      "calMeasure", "calStep", "calOther", "calDone", "sweep", "sweepDone", "descale"}
    BY DEF Activities, CodeOf
  <1> USE <1>0 DEF Moves, Told, Also, Telling, Untold, Announced, Names, Follows, Brew, ScaleCalibration
  <1>1. CASE doing = "home" BY <1>1
  <1>2. CASE doing \in {"grind", "grinding", "pour"} BY <1>2
  <1>3. CASE doing = "pouring" BY <1>3
  <1>4. CASE doing = "loaded" BY <1>4
  <1>5. CASE doing \in {"confirm", "starting", "soak"} BY <1>5
  <1>6. CASE doing = "brewing" BY <1>6
  <1>7. CASE doing \in {"brewStep", "brewOther", "ready", "calEntry"} BY <1>7
  <1>8. CASE doing \in {"calNoLoad", "calMeasure", "calStep", "calOther", "calDone"} BY <1>8
  <1>9. CASE doing = "sweep" BY <1>9
  <1>10. CASE doing \in {"sweepDone", "descale"} BY <1>10
  <1> QED BY <1>1, <1>2, <1>3, <1>4, <1>5, <1>6, <1>7, <1>8, <1>9, <1>10

Grinds == {"grinding_started", "grinding_complete"}
AllEvents == Grinds \cup {"calibration_started", "calibration_complete"}

\* What a notification with a status frame makes of the client: the commands
\* before the status turn it into c1.
HeardTo(d, f, c) ==
    \E c1 \in ClientType :
        /\ c1.scaleCal = client.scaleCal /\ c1.context = client.context
        /\ c1.grinder => client.grinder \/ d \in {"grinding", "brewing"}
        /\ c1.brewer => client.brewer \/ d \in {"pouring", "brewStep"}
        /\ client.brewer => c1.brewer \/ d \in {"pour", "ready"}
        /\ Shows(f) => d \in Shown \/ (d \in {"brewStep", "pouring"} /\ c1.brewer)
        /\ client.calibrating /\ d # "sweepDone" => c1.calibrating
        /\ ScannedTo(c1, d, c)

\* A status frame in a notification.
LEMMA StatusFrame ==
  ASSUME NEW r, NEW d \in Activities, r.client \in ClientType,
         r = [client |-> r.client, setpoint |-> r.setpoint, fired |-> r.fired]
  PROVE  /\ OnFrame(r, Status(d)).client = ScanStatus(r.client, CodeOf[d])
         /\ OnFrame(r, Status(d)).setpoint = r.setpoint
         /\ OnFrame(r, Status(d)).fired = r.fired
         /\ ScannedTo(r.client, d, OnFrame(r, Status(d)).client)
  <1>1. OnFrame(r, Status(d)) =
          [client |-> ScanStatus(r.client, CodeOf[d]), setpoint |-> r.setpoint, fired |-> r.fired]
    BY DEF OnFrame, Status
  <1> QED BY <1>1, Scanned

\* A command frame in a notification.
LEMMA CommandFrame ==
  ASSUME NEW r, NEW x \in Names, r.client \in ClientType
  PROVE  OnFrame(r, Cmd(x)) = [client |-> HandleResponse(r.client, Cmd(x)), setpoint |-> r.setpoint,
                               fired |-> r.fired \cup Events(r.client, Cmd(x))]
  BY DEF OnFrame, Cmd, Names, KnobApplies

\* The events are those of the calendar, and the motor is silent in a sweep.
LEMMA EventFacts ==
  ASSUME NEW c \in ClientType, NEW x \in Names
  PROVE  /\ Events(c, Cmd(x)) \subseteq AllEvents
         /\ c.calibrating \/ x \notin {"grinder_begin", "grinder_stop"} =>
              Events(c, Cmd(x)) \cap Grinds = {}
  BY DEF Events, Cmd, Names, AllEvents, Grinds, ClientType

\* Before the first frame.
Start == [client |-> client, setpoint |-> setpoint, fired |-> {}]

\* A notification that tells what the machine does.
LEMMA Hearing ==
  ASSUME TypeOK, NEW d \in Activities, NEW f, Telling(d, f)
  PROVE  /\ HeardTo(d, f, Decoded(f).client)
         /\ Decoded(f).fired \subseteq AllEvents
         /\ d = "sweep" => Decoded(f).fired \cap Grinds = {}
         /\ Decoded(f).setpoint \in Sizes
         /\ d # "grind" => Decoded(f).setpoint = setpoint
         /\ \E i \in DOMAIN f : f[i].cmd = "status"
  <1>0. client \in ClientType BY DEF TypeOK, ClientType
  <1>1. Start.client = client /\ Start.setpoint = setpoint /\ Start.fired = {}
        /\ Start = [client |-> Start.client, setpoint |-> Start.setpoint, fired |-> Start.fired]
    BY DEF Start
  <1>2. CodeOf[d] \in BrewContextCodes <=> d \in Shown BY CodeFacts DEF Shown
  <1>3. CASE f = <<Status(d)>>
    <2>1. Decoded(f) = OnFrame(Start, Status(d)) BY <1>3 DEF Decoded, Start
    <2>2. ~Shows(f) \/ d \in Shown BY <1>2, <1>3 DEF Shows, IsBrewFrame, Status
    <2>3. \E i \in DOMAIN f : f[i].cmd = "status" BY <1>3 DEF Status
    <2>4. ScannedTo(client, d, Decoded(f).client) /\ Decoded(f).fired = {} /\ Decoded(f).setpoint = setpoint
      BY <1>0, <1>1, <2>1, StatusFrame
    <2>5. HeardTo(d, f, Decoded(f).client) BY <1>0, <2>2, <2>4 DEF HeardTo
    <2> QED BY <2>3, <2>4, <2>5 DEF TypeOK
  <1>4. ASSUME NEW x \in Names, f = <<Cmd(x), Status(d)>>, <<doing, d, x>> \in Announced
        PROVE  /\ HeardTo(d, f, Decoded(f).client)
               /\ Decoded(f).fired \subseteq AllEvents
               /\ d = "sweep" => Decoded(f).fired \cap Grinds = {}
               /\ Decoded(f).setpoint = setpoint
               /\ \E i \in DOMAIN f : f[i].cmd = "status"
    <2> DEFINE one == OnFrame(Start, Cmd(x))
               h == HandleResponse(client, Cmd(x))
    <2>1. Decoded(f) = OnFrame(one, Status(d)) BY <1>4 DEF Decoded, Start
    <2>2. one = [client |-> h, setpoint |-> setpoint, fired |-> {} \cup Events(client, Cmd(x))]
      BY <1>0, <1>1, CommandFrame
    <2> HIDE DEF one, h
    <2>3. /\ h \in ClientType /\ h.scaleCal = client.scaleCal /\ h.context = client.context
          /\ h.grinder <=> x = "grinder_begin" \/ (client.grinder /\ x # "grinder_stop")
          /\ h.brewer <=> x = "brewer_begin" \/ (client.brewer /\ x # "brewer_stop")
          /\ h.calibrating <=> x = "calibrate_start" \/ (client.calibrating /\ x # "current_grinder_85")
      BY <1>0, Commanded DEF h
    <2>4. ScannedTo(h, d, Decoded(f).client) /\ Decoded(f).fired = one.fired /\ Decoded(f).setpoint = setpoint
      BY <2>1, <2>2, <2>3, StatusFrame
    <2>5. Shows(f) => d \in Shown \/ x = "brewer_begin"
      BY <1>2, <1>4 DEF Shows, IsBrewFrame, Status, Cmd, Names
    <2>6. \E i \in DOMAIN f : f[i].cmd = "status" BY <1>4 DEF Status
    <2>7. /\ x = "grinder_begin" => d \in {"grinding", "brewing"}
          /\ x = "brewer_begin" => d = "pouring"
          /\ x = "brewer_stop" => d \in {"pour", "ready"}
          /\ x = "current_grinder_85" => d = "sweepDone"
          /\ d = "sweep" => x = "calibrate_start"
      BY <1>4 DEF Announced
    <2>8. HeardTo(d, f, Decoded(f).client) BY <2>3, <2>4, <2>5, <2>7 DEF HeardTo
    <2>9. one.fired \subseteq AllEvents /\ (d = "sweep" => one.fired \cap Grinds = {})
      BY <1>0, <2>2, <2>7, EventFacts
    <2> QED BY <2>4, <2>6, <2>8, <2>9
  <1>5. CASE doing = "brewing" /\ d = "brewStep" /\ f = <<Cmd("grinder_stop"), Cmd("brewer_begin"), Status(d)>>
    <2> DEFINE one == OnFrame(Start, Cmd("grinder_stop"))
               two == OnFrame(one, Cmd("brewer_begin"))
    <2>0. "grinder_stop" \in Names /\ "brewer_begin" \in Names BY DEF Names
    <2>1. Decoded(f) = OnFrame(two, Status(d)) BY <1>5 DEF Decoded, Start
    <2>2. /\ one = [client |-> HandleResponse(client, Cmd("grinder_stop")), setpoint |-> setpoint,
                    fired |-> {} \cup Events(client, Cmd("grinder_stop"))]
      BY <1>0, <1>1, <2>0, CommandFrame
    <2>3. /\ one.client \in ClientType /\ one.client.scaleCal = client.scaleCal
          /\ one.client.context = client.context /\ ~one.client.grinder
          /\ one.client.calibrating = client.calibrating
          /\ one.setpoint = setpoint /\ one.fired \subseteq AllEvents
      BY <1>0, <2>0, <2>2, Commanded, EventFacts DEF ClientType
    <2> HIDE DEF one
    <2>4. two = [client |-> HandleResponse(one.client, Cmd("brewer_begin")), setpoint |-> one.setpoint,
                 fired |-> one.fired \cup Events(one.client, Cmd("brewer_begin"))]
      BY <2>0, <2>3, CommandFrame
    <2>5. /\ two.client \in ClientType /\ two.client.scaleCal = one.client.scaleCal
          /\ two.client.context = one.client.context /\ ~two.client.grinder /\ two.client.brewer
          /\ two.client.calibrating = one.client.calibrating
          /\ two.setpoint = setpoint /\ two.fired \subseteq AllEvents
      BY <2>0, <2>3, <2>4, Commanded, EventFacts DEF ClientType
    <2> HIDE DEF two
    <2>6. two = [client |-> two.client, setpoint |-> two.setpoint, fired |-> two.fired] BY <2>4
    <2>7. /\ ScannedTo(two.client, d, Decoded(f).client) /\ Decoded(f).fired = two.fired
          /\ Decoded(f).setpoint = two.setpoint
      BY <2>1, <2>5, <2>6, StatusFrame
    <2>8. HeardTo(d, f, Decoded(f).client) BY <1>5, <2>3, <2>5, <2>7 DEF HeardTo
    <2>9. \E i \in DOMAIN f : f[i].cmd = "status" BY <1>5 DEF Status
    <2> QED BY <1>5, <2>5, <2>7, <2>8, <2>9 DEF TypeOK
  <1>6. CASE doing = "home" /\ d = "grind" /\ f = <<Status(d), Size("in_grinder", knob)>>
    <2> DEFINE one == OnFrame(Start, Status(d))
               h == HandleResponse(one.client, Size("in_grinder", knob))
    <2>1. Decoded(f) = OnFrame(one, Size("in_grinder", knob)) BY <1>6 DEF Decoded, Start
    <2>2. ScannedTo(client, d, one.client) /\ one.fired = {} /\ one.setpoint = setpoint
      BY <1>0, <1>1, StatusFrame
    <2>3. knob \in Sizes /\ one.client \in ClientType BY <2>2 DEF TypeOK, ScannedTo
    <2> HIDE DEF one
    <2>4. /\ Decoded(f).client = h /\ Decoded(f).setpoint \in {knob, one.setpoint}
          /\ Decoded(f).fired = one.fired
      BY <2>1 DEF OnFrame, Size, Events
    <2>5. /\ h \in ClientType /\ h.scaleCal = one.client.scaleCal /\ h.context = one.client.context
          /\ h.label = one.client.label /\ h.grinder = one.client.grinder
          /\ h.brewer = one.client.brewer /\ h.state = one.client.state
          /\ h.calibrating = one.client.calibrating /\ h.screen = "grind"
      BY <2>3, Sized
    <2> HIDE DEF h
    <2>6. ScannedTo(client, d, h) BY <1>6, <2>2, <2>5 DEF ScannedTo, Dirty, Pages
    <2>7. ~Shows(f) BY <1>2, <1>6 DEF Shows, IsBrewFrame, Status, Size, Shown
    <2>8. HeardTo(d, f, Decoded(f).client) BY <1>0, <2>4, <2>6, <2>7 DEF HeardTo
    <2>9. \E i \in DOMAIN f : f[i].cmd = "status" BY <1>6 DEF Status
    <2> QED BY <1>6, <2>2, <2>3, <2>4, <2>8, <2>9 DEF TypeOK
  <1> QED BY <1>3, <1>4, <1>5, <1>6 DEF Telling, TypeOK

\* A notification that does not.
LEMMA Overhearing ==
  ASSUME TypeOK, NEW d \in Activities, NEW f, Untold(d, f)
  PROVE  LET c == Decoded(f).client IN
         /\ d = doing /\ ~Shows(f) /\ ~\E i \in DOMAIN f : f[i].cmd = "status"
         /\ c \in ClientType /\ c.scaleCal = client.scaleCal /\ c.context = client.context
         /\ c.label = client.label /\ c.screen = client.screen /\ c.brewer = client.brewer
         /\ c.calibrating = client.calibrating
         /\ doing # "sweep" => c.grinder = client.grinder
         /\ doing = "grind" => c.state = client.state
         /\ Decoded(f).fired \subseteq AllEvents
         /\ client.calibrating => Decoded(f).fired \cap Grinds = {}
         /\ Decoded(f).setpoint \in Sizes
         /\ Decoded(f).setpoint = setpoint \/ doing = "grind" \/ client.screen = "grind"
  <1>0. client \in ClientType BY DEF TypeOK, ClientType
  <1>1. Start.client = client /\ Start.setpoint = setpoint /\ Start.fired = {} BY DEF Start
  <1>2. ASSUME NEW x \in Names, f = <<Cmd(x)>>,
               <<doing, x>> \in {<<"pouring", "brewer_pause">>, <<"brewing", "brewer_pause">>,
                                 <<"sweep", "grinder_begin">>, <<"sweep", "grinder_stop">>}
        PROVE  LET c == Decoded(f).client IN
               /\ ~Shows(f) /\ ~\E i \in DOMAIN f : f[i].cmd = "status"
               /\ c \in ClientType /\ c.scaleCal = client.scaleCal /\ c.context = client.context
               /\ c.label = client.label /\ c.screen = client.screen /\ c.brewer = client.brewer
               /\ c.calibrating = client.calibrating
               /\ doing # "sweep" => c.grinder = client.grinder
               /\ doing # "grind"
               /\ Decoded(f).fired \subseteq AllEvents
               /\ client.calibrating => Decoded(f).fired \cap Grinds = {}
               /\ Decoded(f).setpoint = setpoint
    <2>1. Decoded(f) = OnFrame(Start, Cmd(x)) BY <1>2 DEF Decoded, Start
    <2>2. Decoded(f) = [client |-> HandleResponse(client, Cmd(x)), setpoint |-> setpoint,
                        fired |-> {} \cup Events(client, Cmd(x))]
      BY <1>0, <1>1, <2>1, CommandFrame
    <2>3. ~Shows(f) /\ ~\E i \in DOMAIN f : f[i].cmd = "status"
      BY <1>2 DEF Shows, IsBrewFrame, Cmd, Names
    <2> QED BY <1>0, <1>2, <2>2, <2>3, Commanded, EventFacts DEF ClientType
  <1>3. ASSUME NEW n \in Sizes, f = <<Size("grinder_size", n)>>, doing \in {"loaded", "grind"}
        PROVE  LET c == Decoded(f).client IN
               /\ ~Shows(f) /\ ~\E i \in DOMAIN f : f[i].cmd = "status"
               /\ c \in ClientType /\ c.scaleCal = client.scaleCal /\ c.context = client.context
               /\ c.label = client.label /\ c.screen = client.screen /\ c.brewer = client.brewer
               /\ c.calibrating = client.calibrating /\ c.grinder = client.grinder
               /\ c.state = client.state
               /\ Decoded(f).fired = {}
               /\ Decoded(f).setpoint \in {n, setpoint}
               /\ Decoded(f).setpoint = setpoint \/ client.screen = "grind"
    <2> DEFINE h == HandleResponse(client, Size("grinder_size", n))
    <2>1. Decoded(f) = OnFrame(Start, Size("grinder_size", n)) BY <1>3 DEF Decoded, Start
    <2>2. /\ h \in ClientType /\ h.scaleCal = client.scaleCal /\ h.context = client.context
          /\ h.label = client.label /\ h.grinder = client.grinder /\ h.brewer = client.brewer
          /\ h.state = client.state /\ h.calibrating = client.calibrating /\ h.screen = client.screen
      BY <1>0, Sized
    <2> HIDE DEF h
    <2>3. /\ Decoded(f).client = h /\ Decoded(f).fired = {}
          /\ Decoded(f).setpoint = IF KnobApplies(h, Size("grinder_size", n)) THEN n ELSE setpoint
      BY <1>1, <2>1 DEF OnFrame, Size, Events, h
    <2>4. ~Shows(f) /\ ~\E i \in DOMAIN f : f[i].cmd = "status"
      BY <1>3 DEF Shows, IsBrewFrame, Size
    <2> QED BY <2>2, <2>3, <2>4 DEF KnobApplies
  <1> QED BY <1>2, <1>3 DEF Untold, TypeOK

----------------------------------------------------------------------------
(* The inductive step *)

\* A brew goes on as a brew, and a pour as a pour.
LEMMA SameRun ==
  ASSUME doing \in Activities, NEW d \in Brew \cup {"pouring"}, Run(d) = Run(doing)
  PROVE  doing \in Brew \cup {"pouring"}
  <1>1. "brew" \notin Activities BY DEF Activities, CodeOf
  <1> QED BY <1>1 DEF Run, Brew

LEMMA NoPress == 0 \in 0 .. MaxPresses
  BY TelemetryAssumption

\* What a notification leaves alone, and what it ends.
Around(d) ==
    /\ doing' = d /\ knob' \in Sizes /\ ours' \in BOOLEAN
    /\ ours' => ours /\ d = "sweep"
    /\ flagged' = IF client'.calibrating THEN flagged ELSE 0
    /\ UNCHANGED <<sweepOf, link, calibration, drops>>

\* The commands and the status of a notification arrive.
LEMMA HeardKeeps ==
  ASSUME IInv, NEW d \in Activities, NEW f, Telling(d, f), Follows(d), Around(d), link,
         client' = Decoded(f).client, setpoint' = Decoded(f).setpoint, fired' = Decoded(f).fired,
         heard' = d, known' = (Shows(f) \/ (known /\ Run(d) = Run(doing))), lost' = lost
  PROVE  IInv'
  <1> USE DEF IInv
  <1>1. PICK c1 \in ClientType :
          /\ c1.scaleCal = client.scaleCal /\ c1.context = client.context
          /\ c1.grinder => client.grinder \/ d \in {"grinding", "brewing"}
          /\ c1.brewer => client.brewer \/ d \in {"pouring", "brewStep"}
          /\ client.brewer => c1.brewer \/ d \in {"pour", "ready"}
          /\ Shows(f) => d \in Shown \/ (d \in {"brewStep", "pouring"} /\ c1.brewer)
          /\ client.calibrating /\ d # "sweepDone" => c1.calibrating
          /\ ScannedTo(c1, d, client')
    BY Hearing DEF HeardTo
  <1>2. link' = link /\ link' /\ doing' = d BY DEF Around
  <1>3. /\ fired' \subseteq AllEvents /\ setpoint' \in Sizes
        /\ d = "sweep" => fired' \cap Grinds = {}
    BY Hearing
  <1>4. client.scaleCal => ~client.context BY DEF TypeOK
  <1>5. TypeOK'
    <2>1. known' \in BOOLEAN BY DEF TypeOK
    <2>2. client' \in ClientType /\ (client'.scaleCal => ~client'.context) BY <1>1 DEF ScannedTo
    <2>3. flagged' \in 0 .. MaxPresses BY NoPress DEF Around, TypeOK
    <2> QED BY <1>2, <1>3, <2>1, <2>2, <2>3 DEF TypeOK, Around, calibration, ClientType, AllEvents, Grinds
  <1>6. OursInv' /\ FlagInv' /\ SweepSilent'
    BY <1>1, <1>2, <1>3 DEF OursInv, FlagInv, SweepSilent, Around, calibration, ScannedTo, Grinds
  <1>7. NoStaleRun' BY <1>1, <1>2 DEF NoStaleRun, InSync, ScannedTo, Dirty
  <1>8. d \in ScaleCalibration /\ Dirty(c1) => Dirty(client)
    BY <1>1 DEF Dirty, ScaleCalibration
  <1>9. d \in ScaleCalibration /\ Dirty(client') => Dirty(c1)
    BY <1>1 DEF Dirty, ScannedTo, ScaleCalibration, Pages, Shown
  <1>10. RunInv'
    BY <1>1, <1>2, <1>8, <1>9 DEF RunInv, ScannedTo, Follows, ScaleCalibration, Pages
  <1>11. MeasureInv'
    BY <1>1, <1>2, <1>8 DEF MeasureInv, RunInv, InSync, ScannedTo, Follows, ScaleCalibration
  <1>12. client.scaleCal /\ d \in {"grinding", "pouring", "brewStep", "brewOther"} => lost >= 2
    BY DEF LatchInv, Follows, ScaleCalibration, Brew
  <1>13. LatchInv' BY <1>1, <1>2, <1>12 DEF LatchInv, ScannedTo
  <1>14. known /\ Run(d) = Run(doing) /\ d \in Brew \cup {"pouring"} =>
           client.context \/ client.brewer \/ lost >= 2
    BY SameRun DEF KnownInv, TypeOK
  <1>15. KnownInv'
    BY <1>1, <1>2, <1>4, <1>14 DEF KnownInv, ScannedTo, Brew, Pages
  <1>16. BrewInv'
    BY <1>1, <1>2, <1>12, <1>14 DEF BrewInv, InSync, ScannedTo, Shown, Brew
  <1>17. ScreenInv' BY <1>1, <1>2 DEF ScreenInv, ScannedTo, Pages, None
  <1> QED BY <1>5, <1>6, <1>7, <1>10, <1>11, <1>13, <1>15, <1>16, <1>17

\* A notification without a status arrives.
LEMMA OverheardKeeps ==
  ASSUME IInv, NEW d \in Activities, NEW f, Untold(d, f), Around(d), link,
         client' = Decoded(f).client, setpoint' = Decoded(f).setpoint, fired' = Decoded(f).fired,
         heard' = heard, known' = (Shows(f) \/ (known /\ Run(d) = Run(doing))), lost' = lost
  PROVE  IInv'
  <1> USE DEF IInv
  <1>1. /\ d = doing /\ ~Shows(f)
        /\ client' \in ClientType /\ client'.scaleCal = client.scaleCal
        /\ client'.context = client.context /\ client'.label = client.label
        /\ client'.screen = client.screen /\ client'.brewer = client.brewer
        /\ client'.calibrating = client.calibrating
        /\ doing # "sweep" => client'.grinder = client.grinder
        /\ doing = "grind" => client'.state = client.state
        /\ fired' \subseteq AllEvents
        /\ client.calibrating => fired' \cap Grinds = {}
        /\ setpoint' \in Sizes
    BY Overhearing
  <1>2. link' = link /\ doing' = doing /\ known' = known /\ doing \notin {"home", "pour"}
    BY <1>1 DEF Around, TypeOK, Untold
  <1>3. TypeOK'
    <2>1. flagged' \in 0 .. MaxPresses BY NoPress DEF Around, TypeOK
    <2> QED BY <1>1, <1>2, <2>1 DEF TypeOK, Around, calibration, ClientType, AllEvents, Grinds
  <1>4. OursInv' /\ FlagInv' /\ SweepSilent'
    BY <1>1, <1>2 DEF OursInv, FlagInv, SweepSilent, Around, calibration, Grinds
  <1>5. NoStaleRun' BY <1>1, <1>2 DEF NoStaleRun, InSync, Pages
  <1>6. RunInv' /\ MeasureInv' /\ LatchInv'
    BY <1>1, <1>2 DEF RunInv, MeasureInv, LatchInv, InSync, Dirty, ScaleCalibration
  <1>7. KnownInv' /\ BrewInv' /\ ScreenInv'
    BY <1>1, <1>2 DEF KnownInv, BrewInv, ScreenInv, InSync
  <1> QED BY <1>3, <1>4, <1>5, <1>6, <1>7

\* A notification does not arrive.
LEMMA LostKeeps ==
  ASSUME IInv, NEW d \in Activities, Follows(d), Around(d), link => lost < MaxLost,
         lost' = IF link THEN lost + 1 ELSE lost, fired' = {},
         known' = (known /\ Run(d) = Run(doing)), heard' = IF d = doing THEN heard ELSE None,
         UNCHANGED <<client, setpoint>>
  PROVE  IInv'
  <1> USE DEF IInv
  <1>1. link' = link /\ doing' = d /\ client' = client BY DEF Around
  <1>2. lost \in Nat /\ lost' \in 0 .. MaxLost /\ (link => lost' = lost + 1)
    BY TelemetryAssumption DEF TypeOK
  <1>3. TypeOK'
    <2>1. known' \in BOOLEAN BY DEF TypeOK
    <2>2. heard' \in Activities \cup {None} BY DEF TypeOK
    <2>3. flagged' \in 0 .. MaxPresses BY NoPress DEF Around, TypeOK
    <2> QED BY <1>1, <1>2, <2>1, <2>2, <2>3 DEF TypeOK, Around, calibration
  <1>4. OursInv' /\ FlagInv' /\ SweepSilent' BY <1>1 DEF OursInv, FlagInv, SweepSilent, Around, calibration
  <1>5. InSync' => d = doing /\ InSync
    <2>1. None \notin Activities BY DEF None, Activities, CodeOf
    <2> QED BY <1>1, <2>1 DEF InSync
  <1>6. NoStaleRun' BY <1>1, <1>5 DEF NoStaleRun
  <1>7. RunInv' BY <1>1, <1>2 DEF RunInv, Follows, ScaleCalibration
  <1>8. MeasureInv' BY <1>1, <1>2, <1>5 DEF MeasureInv, InSync
  <1>9. LatchInv' BY <1>1, <1>2 DEF LatchInv, Follows
  <1>10. KnownInv'
    <2>1. known' /\ d \in Brew \cup {"pouring"} => known /\ doing \in Brew \cup {"pouring"}
      BY SameRun DEF TypeOK
    <2> QED BY <1>1, <1>2, <2>1 DEF KnownInv
  <1>11. BrewInv'
    <2>1. known' => known OBVIOUS
    <2> QED BY <1>1, <1>2, <1>5, <2>1 DEF BrewInv, InSync
  <1>12. ScreenInv' BY <1>1, <1>2 DEF ScreenInv, Follows
  <1> QED BY <1>3, <1>4, <1>6, <1>7, <1>8, <1>9, <1>10, <1>11, <1>12

\* One notification.
LEMMA NotifiedKeeps ==
  ASSUME IInv, NEW d \in Activities, NEW f, Telling(d, f) \/ Untold(d, f), Follows(d), Around(d),
         Notified(d, f)
  PROVE  IInv'
  <1> DEFINE tells == \E i \in DOMAIN f : f[i].cmd = "status"
             came == /\ link
                     /\ client' = Decoded(f).client /\ setpoint' = Decoded(f).setpoint
                     /\ fired' = Decoded(f).fired
                     /\ heard' = IF tells THEN d ELSE heard
                     /\ known' = (Shows(f) \/ (known /\ Run(d) = Run(doing)))
                     /\ lost' = lost
  <1>0. TypeOK BY DEF IInv
  <1>1. CASE came /\ Telling(d, f)
    <2>1. tells BY <1>0, <1>1, Hearing
    <2> QED BY <1>1, <2>1, HeardKeeps
  <1>2. CASE came /\ Untold(d, f)
    <2>1. ~tells BY <1>0, <1>2, Overhearing
    <2> QED BY <1>2, <2>1, OverheardKeeps
  <1>3. CASE ~came
    <2>1. /\ link => lost < MaxLost
          /\ lost' = IF link THEN lost + 1 ELSE lost
          /\ fired' = {} /\ known' = (known /\ Run(d) = Run(doing))
          /\ heard' = IF d = doing THEN heard ELSE None
          /\ UNCHANGED <<client, setpoint>>
      BY <1>3 DEF Notified
    <2> QED BY <2>1, LostKeeps
  <1> QED BY <1>1, <1>2, <1>3

\* Every step of the system.
LEMMA NextKeeps == IInv /\ [Next]_vars => IInv'
  <1> SUFFICES ASSUME IInv, [Next]_vars PROVE IInv' OBVIOUS
  <1>0. doing \in Activities /\ Follows(doing) /\ TypeOK
    BY DEF IInv, TypeOK, Follows, ScaleCalibration, Brew
  <1> DEFINE Lossy == RunInv /\ MeasureInv /\ LatchInv /\ KnownInv /\ BrewInv /\ ScreenInv
  <1>1. CASE Machine
    <2>1. PICK m \in Moves : doing' = m[1] /\ Notified(m[1], m[2]) BY <1>1 DEF Machine
    <2>0. flagged' = IF client'.calibrating THEN flagged ELSE 0 BY <2>1 DEF Notified
    <2>2. Around(m[1]) BY <1>0, <1>1, <2>0, <2>1 DEF Machine, Around, TypeOK
    <2> QED BY <1>0, <2>1, <2>2, MoveForms, NotifiedKeeps
  <1>2. CASE Heartbeat
    <2>0. flagged' = IF client'.calibrating THEN flagged ELSE 0 BY <1>2 DEF Heartbeat, Notified
    <2>1. Around(doing) BY <1>0, <1>2, <2>0 DEF Heartbeat, Around, machine, TypeOK, IInv, OursInv
    <2>2. Telling(doing, <<Status(doing)>>) BY DEF Telling
    <2> QED BY <1>0, <1>2, <2>1, <2>2, NotifiedKeeps DEF Heartbeat
  <1>3. ASSUME NEW n \in Sizes, KnobTurned(n) PROVE IInv'
    <2>0. flagged' = IF client'.calibrating THEN flagged ELSE 0 BY <1>3 DEF KnobTurned, Notified
    <2>1. Around(doing) BY <1>0, <1>3, <2>0 DEF KnobTurned, Around, TypeOK, IInv, OursInv
    <2>2. Untold(doing, <<Size("grinder_size", n)>>) BY <1>3 DEF KnobTurned, Untold
    <2> QED BY <1>0, <1>3, <2>1, <2>2, NotifiedKeeps DEF KnobTurned
  <1> USE DEF IInv, machine, calibration
  <1>4. ASSUME NEW n \in Sizes, SetNumber(n) PROVE IInv'
    <2>1. TypeOK' BY <1>4 DEF SetNumber, TypeOK
    <2>2. OursInv' /\ FlagInv' /\ SweepSilent' /\ NoStaleRun' BY <1>4 DEF SetNumber, OursInv, FlagInv, SweepSilent, NoStaleRun, InSync
    <2>3. Lossy'
      BY <1>4 DEF SetNumber, RunInv, MeasureInv, LatchInv, KnownInv, BrewInv, ScreenInv, InSync
    <2> QED BY <2>1, <2>2, <2>3
  <1>5. CASE Connect
    <2>1. NewClient \in ClientType /\ ~Dirty(NewClient) /\ ~NewClient.scaleCal /\ NewClient.screen # "grind"
      BY DEF NewClient, ClientType, Labels, States, Pages, None, Dirty
    <2>2. TypeOK' BY <1>5, <2>1 DEF Connect, TypeOK, ClientType
    <2>3. ~InSync' BY <1>0, <1>5 DEF Connect, InSync, None, Activities, CodeOf
    <2>4. ~ours' /\ flagged' = 0 BY <1>5 DEF Connect, OursInv, FlagInv
    <2> QED BY <1>5, <2>1, <2>2, <2>3, <2>4
        DEF Connect, OursInv, FlagInv, SweepSilent, NoStaleRun, RunInv, MeasureInv, LatchInv, KnownInv, BrewInv, ScreenInv
  <1>6. CASE Drop
    <2>1. TypeOK'
      <3>1. drops' \in 0 .. MaxDrops BY <1>0, <1>6, TelemetryAssumption DEF Drop, TypeOK
      <3>2. link' \in BOOLEAN /\ ours' \in BOOLEAN /\ known' \in BOOLEAN BY <1>6 DEF Drop
      <3> QED BY <1>0, <1>6, <3>1, <3>2, NoPress DEF Drop, TypeOK
    <2> QED BY <1>6, <2>1
        DEF Drop, OursInv, FlagInv, SweepSilent, NoStaleRun, InSync, RunInv, MeasureInv, LatchInv, KnownInv, BrewInv,
            ScreenInv
  <1>7. CASE Press
    <2> DEFINE c == [client EXCEPT !.calibrating = TRUE]
    <2>1. /\ c \in ClientType /\ c.calibrating /\ c.scaleCal = client.scaleCal /\ c.context = client.context
          /\ c.label = client.label /\ c.screen = client.screen /\ c.grinder = client.grinder
          /\ c.brewer = client.brewer /\ c.state = client.state
      BY <1>0 DEF TypeOK, ClientType
    <2>2. client' = c BY <1>7 DEF Press
    <2> HIDE DEF c
    <2>3. doing' = doing \/ (doing' = "sweep" /\ doing = "home")
      BY <1>7 DEF Press
    <2>4. TypeOK'
      <3>1. presses' \in 0 .. MaxPresses /\ sending' \in 0 .. MaxPresses /\ sweepOf' \in 0 .. MaxPresses
        BY <1>0, <1>7, TelemetryAssumption DEF Press, TypeOK
      <3>2. doing' \in Activities BY <1>0, <2>3 DEF Activities, CodeOf
      <3>3. ours' \in BOOLEAN BY <1>7 DEF Press, TypeOK
      <3> QED BY <1>0, <1>7, <2>1, <2>2, <3>1, <3>2, <3>3 DEF Press, TypeOK, ClientType
    <2>5. OursInv'
      <3>1. CASE doing \in {"home", "sweep"}
        <4>1. sweepOf' # 0 /\ sending' = sweepOf' /\ doing' = "sweep" /\ link'
          BY <1>0, <1>7, <3>1 DEF Press, TypeOK
        <4> QED BY <2>1, <2>2, <4>1 DEF OursInv
      <3>2. CASE doing \notin {"home", "sweep"} BY <1>7, <3>2 DEF Press, OursInv
      <3> QED BY <3>1, <3>2
    <2>6. SweepSilent' /\ FlagInv' BY <1>7, <2>1, <2>2 DEF Press, SweepSilent, FlagInv
    <2>7. UNCHANGED <<link, lost, heard, known>> BY <1>7 DEF Press
    <2>8. NoStaleRun' /\ Lossy'
      BY <2>1, <2>2, <2>3, <2>7
      DEF NoStaleRun, RunInv, MeasureInv, LatchInv, KnownInv, BrewInv, ScreenInv, InSync, Dirty,
          Pages, ScaleCalibration, Brew
    <2> QED BY <2>4, <2>5, <2>6, <2>8
  <1>8. CASE Scheduled
    <2>1. TypeOK'
      <3>1. waiting' \subseteq 1 .. MaxPresses /\ sending' \in 0 .. MaxPresses
        BY <1>0, <1>8, TelemetryAssumption DEF Scheduled, TypeOK
      <3> QED BY <1>0, <1>8, <3>1 DEF Scheduled, TypeOK
    <2>2. OursInv' /\ FlagInv' /\ SweepSilent' /\ NoStaleRun'
      BY <1>8 DEF Scheduled, OursInv, FlagInv, SweepSilent, NoStaleRun, InSync
    <2>3. Lossy'
      BY <1>8 DEF Scheduled, RunInv, MeasureInv, LatchInv, KnownInv, BrewInv, ScreenInv, InSync
    <2> QED BY <2>1, <2>2, <2>3
  <1>9. ASSUME NEW p \in waiting, Fallback(p) PROVE IInv'
    <2>0. ~ours' BY <1>9 DEF Fallback, OursInv
    <2>1. /\ client' \in ClientType /\ client'.scaleCal = client.scaleCal /\ client'.context = client.context
          /\ client'.label = client.label /\ client'.screen = client.screen
          /\ client'.grinder = client.grinder /\ client'.brewer = client.brewer
          /\ client'.state = client.state
      BY <1>0, <1>9 DEF Fallback, TypeOK, ClientType
    <2>2. UNCHANGED <<doing, link, lost, heard, known>> BY <1>9 DEF Fallback
    <2>3. fired' \subseteq {"calibration_complete"} BY <1>9 DEF Fallback
    <2>4. TypeOK' BY <1>0, <1>9, <2>0, <2>1, <2>3, NoPress DEF Fallback, TypeOK, ClientType
    <2>5. NoStaleRun' /\ Lossy'
      BY <2>1, <2>2
      DEF NoStaleRun, RunInv, MeasureInv, LatchInv, KnownInv, BrewInv, ScreenInv, InSync, Dirty
    <2>6. FlagInv' BY <1>9 DEF Fallback, FlagInv
    <2> QED BY <2>0, <2>4, <2>5, <2>6 DEF OursInv, SweepSilent
  <1>10. CASE UNCHANGED vars
    BY <1>10
    DEF vars, TypeOK, OursInv, FlagInv, SweepSilent, NoStaleRun, RunInv, MeasureInv, LatchInv, KnownInv, BrewInv,
        ScreenInv, InSync
  <1> QED BY <1>1, <1>2, <1>3, <1>4, <1>5, <1>6, <1>7, <1>8, <1>9, <1>10 DEF Next

\* IInv is an invariant.
LEMMA Inductive == Spec => []IInv
  <1>1. ASSUME Init PROVE IInv
    <2>1. NewClient \in ClientType /\ ~NewClient.scaleCal
      BY DEF NewClient, ClientType, Labels, States, Pages, None
    <2>2. "home" \in Activities BY DEF Activities, CodeOf
    <2>3. TypeOK
      <3>1. /\ sweepOf \in 0 .. MaxPresses /\ presses \in 0 .. MaxPresses /\ sending \in 0 .. MaxPresses
            /\ lost \in 0 .. MaxLost /\ drops \in 0 .. MaxDrops
        BY <1>1, TelemetryAssumption DEF Init
      <3>2. link \in BOOLEAN /\ known \in BOOLEAN /\ ours \in BOOLEAN BY <1>1 DEF Init
      <3> QED BY <1>1, <2>1, <2>2, <3>1, <3>2 DEF Init, TypeOK, ClientType
    <2> QED BY <1>1, <2>3
        DEF Init, IInv, OursInv, FlagInv, SweepSilent, NoStaleRun, InSync, RunInv, MeasureInv, LatchInv, KnownInv,
            BrewInv, ScreenInv
  <1> QED BY <1>1, NextKeeps, PTL DEF Spec

----------------------------------------------------------------------------
(* What follows for any number of drops and presses, and any sizes *)

\* The latches of XBloomClient keep their types, and a calibration run is never
\* a brew.
THEOREM TypeCorrect == Spec => []TypeOK
  <1>1. IInv => TypeOK BY DEF IInv
  <1> QED BY <1>1, Inductive, PTL

\* On a page or at home nothing is running, however many notifications of the
\* run were lost.
THEOREM PagesEndRuns == Spec => []NoStaleRun
  <1>1. IInv => NoStaleRun BY DEF IInv
  <1> QED BY <1>1, Inductive, PTL

\* The motor of a calibration that was started here is not announced.
THEOREM SweepsAreSilent == Spec => []SweepSilent
  <1>1. IInv => SweepSilent BY DEF IInv
  <1> QED BY <1>1, Inductive, PTL

\* While the flag a press raised is up, that press has its own fallback pending
\* or about to be scheduled, through lost frames, second presses and late
\* fallbacks (async_calibrate_grinder).
THEOREM FallbackPending == Spec => []CalibrationBacked
  <1>1. IInv => CalibrationBacked BY DEF IInv, FlagInv, CalibrationBacked
  <1> QED BY <1>1, Inductive, PTL

\* A scale calibration is not announced as a brew if at most two notifications
\* are lost: the end of the run before it and both of its first screens would
\* have to be.
THEOREM CalibrationIsNoBrew == ASSUME MaxLost <= 2 PROVE Spec => []CalibrationNeverBrew
  <1>1. IInv => CalibrationNeverBrew
    BY TelemetryAssumption DEF IInv, MeasureInv, CalibrationNeverBrew, TypeOK
  <1> QED BY <1>1, Inductive, PTL

\* A brew or a pour is announced if at most one notification is lost: a stale
\* calibration latch takes two.
THEOREM BrewIsSeen == ASSUME MaxLost <= 1 PROVE Spec => []BrewNotSwallowed
  <1>1. IInv => BrewNotSwallowed
    BY TelemetryAssumption DEF IInv, BrewInv, BrewNotSwallowed, TypeOK
  <1> QED BY <1>1, Inductive, PTL

\* With at most one lost notification, the chosen grind size changes in Home
\* Assistant or on the open grind page only: a recipe that sends its size never
\* meets a client that still shows the page.
THEOREM SizeByHand == ASSUME MaxLost <= 1 PROVE Spec => OnlyByHand
  <1> DEFINE ByHand == setpoint' # setpoint => (\E n \in Sizes : SetNumber(n)) \/ "grind" \in {doing, doing'}
  <1>1. ASSUME IInv, [Next]_vars PROVE [ByHand]_vars
    <2> SUFFICES ASSUME Next, setpoint' # setpoint, \A n \in Sizes : ~SetNumber(n),
                        doing # "grind", doing' # "grind"
                 PROVE  FALSE
      BY <1>1
    <2>0. TypeOK /\ doing \in Activities /\ lost < 2 BY <1>1, TelemetryAssumption DEF IInv, TypeOK
    <2>1. PICK d, f : /\ d \in Activities /\ (Telling(d, f) \/ Untold(d, f))
                      /\ doing' = d /\ Notified(d, f)
      <3>1. CASE Machine
        <4>1. PICK m \in Moves : doing' = m[1] /\ Notified(m[1], m[2]) BY <3>1 DEF Machine
        <4> QED BY <2>0, <4>1, MoveForms
      <3>2. CASE Heartbeat
        <4>1. Telling(doing, <<Status(doing)>>) /\ Notified(doing, <<Status(doing)>>) /\ doing' = doing
          BY <3>2 DEF Heartbeat, Telling, machine
        <4> QED BY <2>0, <4>1
      <3>3. ~\E n \in Sizes : KnobTurned(n) BY DEF KnobTurned
      <3>4. ~Connect /\ ~Drop /\ ~Press /\ ~Scheduled /\ ~\E p \in waiting : Fallback(p)
        BY DEF Connect, Drop, Press, Scheduled, Fallback
      <3> QED BY <3>1, <3>2, <3>3, <3>4 DEF Next
    <2>2. link /\ setpoint' = Decoded(f).setpoint BY <2>1 DEF Notified
    <2>3. ~Telling(d, f) BY <2>0, <2>1, <2>2, Hearing
    <2>4. Untold(d, f) /\ client.screen = "grind" BY <2>0, <2>1, <2>2, <2>3, Overhearing
    <2>5. doing = "loaded"
      <3> SUFFICES ASSUME doing # "loaded" PROVE FALSE OBVIOUS
      <3>1. PICK x \in Names : f = <<Cmd(x)>> BY <2>4 DEF Untold
      <3> DEFINE r == [client |-> client, setpoint |-> setpoint, fired |-> {}]
      <3>2. Decoded(f) = OnFrame(r, Cmd(x)) BY <3>1 DEF Decoded
      <3>3. Cmd(x).cmd \notin {"status", "in_grinder", "grinder_size"} BY DEF Cmd, Names
      <3>4. OnFrame(r, Cmd(x)).setpoint = setpoint BY <3>3 DEF OnFrame, KnobApplies
      <3> QED BY <2>2, <3>2, <3>4
    <2> QED BY <1>1, <2>0, <2>2, <2>4, <2>5 DEF IInv, ScreenInv, TypeOK
  <1> QED BY <1>1, Inductive, PTL DEF Spec, OnlyByHand
=============================================================================
