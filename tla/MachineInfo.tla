---------------------------- MODULE MachineInfo -----------------------------
(***************************************************************************)
(* What a link has to learn about the machine, and what is set on it.      *)
(*                                                                         *)
(* The machine sends its serial number and version (RD_MachineInfo) in     *)
(* answer to the 8100 handshake, if it is awake; a background loop of      *)
(* coordinator/connection.py reads the GATT characteristics and repeats    *)
(* the handshake until it has them.  Once they are there the coordinator   *)
(* asks for the pour radius and the vibration amplitude                    *)
(* (coordinator/advanced_settings.py).  These "type 2" commands have no    *)
(* ACK that anyone waits for, and the machine drops one that arrives while *)
(* it still answers another, so only the pauses between them keep them     *)
(* apart.  A service sets the two with commands of the same kind.          *)
(***************************************************************************)
EXTENDS Naturals

CONSTANTS
    MaxAttempts,   \* the length of _MACHINE_INFO_RETRY_DELAYS_S
    MaxLinks,      \* bound: links that come up
    MaxSets        \* bound: calls of set_advanced_settings

ASSUME MachineInfoAssumption ==
    MaxAttempts \in Nat \ {0} /\ MaxLinks \in Nat /\ MaxSets \in Nat

Fields == {"serial", "version"}
Settings == {"radius", "vibration"}
Tasks == {"first", "second"}                    \* the refresh tasks a link may have at once
Unknown == "unknown"

VARIABLES
    gatt,      \* the machine: the characteristics its firmware fills
    awake,     \* the machine: a handshake of this link has woken it
    busy,      \* the machine: the type-2 command it is answering
    held,      \* the machine: the two settings
    link,      \* the latest client is connected
    client,    \* self.client is that client, and not None
    dial,      \* async_connect, which runs under _connect_lock
    known,     \* the client: the fields of status that are filled
    shown,     \* the client: status.pour_radius and .vibration_amplitude
    info,      \* an RD_MachineInfo frame is on its way
    loop,      \* _machine_info_task
    refresh,   \* the _async_refresh_advanced_settings tasks of this link
    service,   \* async_set_advanced_settings
    asked,     \* history: a GET of this link, and whether the machine was awake
    spent,     \* history: the loop of this link has used its attempts
    crossed,   \* history: the service and a refresh overlapped, or a SET met a sleeping machine
    links, sets

machine == <<awake, busy, held>>
status == <<known, shown>>
history == <<asked, spent, crossed>>
vars == <<gatt, machine, link, client, dial, status, info, loop, refresh, service, history, links, sets>>

NoCommand == [by |-> "none", key |-> Unknown]
NoLoop == [at |-> "done", n |-> 0]
NoCall == [at |-> "idle", want |-> {}]

TypeOK ==
    /\ gatt \subseteq Fields
    /\ awake \in BOOLEAN /\ link \in BOOLEAN /\ client \in BOOLEAN /\ info \in BOOLEAN
    /\ spent \in BOOLEAN /\ crossed \in BOOLEAN
    /\ busy \in {NoCommand} \cup [by : Tasks \cup {"service"}, key : Settings]
    /\ held \in [Settings -> {"factory", "chosen"}]
    /\ shown \in [Settings -> {Unknown, "factory", "chosen"}]
    /\ dial \in {"idle", "dialing", "settling"}
    /\ known \subseteq Fields
    /\ loop \in [at : {"done", "sleep", "read"}, n : 0..MaxAttempts]
    /\ loop.at = "read" => loop.n \in 1..MaxAttempts
    /\ refresh \in [Tasks -> {"none", "radius", "vibration"}]
    /\ service \in [at : {"idle", "probe", "center", "set"}, want : SUBSET (Settings \cup {"brightness"})]
    /\ asked \in {"none", "asleep", "awake"}
    /\ links \in 0..MaxLinks /\ sets \in 0..MaxSets

Init ==
    /\ gatt \in SUBSET Fields
    /\ awake = FALSE /\ busy = NoCommand /\ held = [s \in Settings |-> "factory"]
    /\ link = FALSE /\ client = FALSE /\ dial = "idle"
    /\ known = {} /\ shown = [s \in Settings |-> Unknown] /\ info = FALSE
    /\ loop = NoLoop /\ refresh = [t \in Tasks |-> "none"] /\ service = NoCall
    /\ asked = "none" /\ spent = FALSE /\ crossed = FALSE
    /\ links = 0 /\ sets = 0

(***************************************************************************)
(* The machine and its type-2 commands.                                    *)
(***************************************************************************)

(* The 8100 handshake wakes the machine or does not, and a machine that is *)
(* awake may or may not push its RD_MachineInfo.                           *)
Handshake ==
    /\ awake' \in {awake, TRUE}
    /\ info' \in {info, awake'}

(* A type-2 command is taken only by a machine that is awake and through   *)
(* with the one before; otherwise it is dropped without a word.            *)
Takes == awake /\ busy = NoCommand

Arrives(by, key) == busy' = IF link /\ Takes THEN [by |-> by, key |-> key] ELSE busy

(* The answer to a GET or a SET carries the machine's value.               *)
Answer ==
    /\ busy # NoCommand
    /\ shown' = [shown EXCEPT ![busy.key] = held[busy.key]]
    /\ busy' = NoCommand
    /\ UNCHANGED <<gatt, awake, held, link, client, dial, known, info, loop, refresh, service, history, links, sets>>

(* RD_MachineInfo is decoded: both fields are filled.                      *)
InfoArrives ==
    /\ info /\ link
    /\ info' = FALSE /\ known' = Fields
    /\ UNCHANGED <<gatt, machine, link, client, dial, shown, loop, refresh, service, history, links, sets>>

(***************************************************************************)
(* The refresh: two GETs with a pause that outlasts the first answer.      *)
(***************************************************************************)
Idle == service.at = "idle"

(* The task starts with the client of this link.                           *)
Refresh ==
    /\ \E t \in Tasks : refresh[t] = "none" /\ refresh' = [refresh EXCEPT ![t] = "radius"]
    /\ crossed' = (crossed \/ ~Idle \/ busy.by = "service")

Asked == IF ~link THEN asked ELSE IF awake \/ asked = "awake" THEN "awake" ELSE "asleep"

GetRadius(t) ==
    /\ refresh[t] = "radius"
    /\ Arrives(t, "radius") /\ asked' = Asked
    /\ refresh' = [refresh EXCEPT ![t] = "vibration"]
    /\ UNCHANGED <<gatt, awake, held, link, client, dial, status, info, loop, service, spent, crossed, links, sets>>

\* Variant: a pause the first answer outlasts.
PauseShort(t) == t \in Tasks

PauseOver(t) == busy.by # t

GetVibration(t) ==
    /\ refresh[t] = "vibration" /\ PauseOver(t)
    /\ Arrives(t, "vibration")
    /\ refresh' = [refresh EXCEPT ![t] = "none"]
    /\ UNCHANGED <<gatt, awake, held, link, client, dial, status, info, loop, service, history, links, sets>>

(***************************************************************************)
(* The link.                                                               *)
(***************************************************************************)
Connect ==
    /\ dial = "idle" /\ ~link /\ links < MaxLinks
    /\ dial' = "dialing" /\ client' = TRUE /\ links' = links + 1
    /\ known' = {} /\ shown' = [s \in Settings |-> Unknown]
    /\ asked' = "none" /\ spent' = FALSE /\ crossed' = FALSE
    /\ UNCHANGED <<gatt, machine, link, info, loop, refresh, service, sets>>

ConnectFails ==
    /\ dial = "dialing"
    /\ dial' = "idle" /\ client' = FALSE
    /\ UNCHANGED <<gatt, machine, link, status, info, loop, refresh, service, history, links, sets>>

(* The link is up, the handshake sent; settings are pushed before the rest.*)
LinkUp ==
    /\ dial = "dialing"
    /\ dial' = "settling" /\ link' = TRUE
    /\ Handshake
    /\ UNCHANGED <<gatt, busy, held, client, status, loop, refresh, service, history, links, sets>>

\* Variant: the loop is started once, and not for each link.
RetryOnce ==
    IF links > 1 \/ loop.at # "done" \/ (client /\ "serial" \in known)
    THEN loop ELSE [at |-> "sleep", n |-> 0]

(* The serial number counts only while self.client is there.               *)
Retry ==
    IF loop.at # "done" \/ (client /\ "serial" \in known)
    THEN loop ELSE [at |-> "sleep", n |-> 0]

(* The tail of async_connect, on a client that may be lost again by now.   *)
ConnectDone ==
    /\ dial = "settling"
    /\ dial' = "idle" /\ client' = TRUE
    /\ loop' = Retry
    /\ IF "serial" \in known /\ link THEN Refresh ELSE UNCHANGED <<refresh, crossed>>
    /\ spent' = FALSE
    /\ UNCHANGED <<gatt, machine, link, status, info, service, asked, links, sets>>

(* The machine drops the link, or the connection switch is turned off.     *)
(* What refresh tasks still do with a client that is gone changes nothing. *)
Drop ==
    /\ link
    /\ link' = FALSE /\ client' = FALSE /\ loop' = NoLoop
    /\ awake' = FALSE /\ busy' = NoCommand /\ info' = FALSE
    /\ refresh' = [t \in Tasks |-> "none"]
    /\ UNCHANGED <<gatt, held, dial, status, service, history, links, sets>>

(***************************************************************************)
(* The retry loop.                                                         *)
(***************************************************************************)
LoopAborts ==
    /\ loop.at = "sleep" /\ ~(client /\ link)
    /\ loop' = NoLoop
    /\ UNCHANGED <<gatt, machine, link, client, dial, status, info, refresh, service, history, links, sets>>

\* Variant: the loop ends without the refresh.
LoopSeesInfoOnly ==
    /\ loop.at = "sleep" /\ client /\ link /\ "serial" \in known
    /\ loop' = NoLoop
    /\ UNCHANGED <<gatt, machine, link, client, dial, status, info, refresh, service, history, links, sets>>

LoopSeesInfo ==
    /\ loop.at = "sleep" /\ client /\ link /\ "serial" \in known
    /\ loop' = NoLoop /\ Refresh
    /\ UNCHANGED <<gatt, machine, link, client, dial, status, info, service, asked, spent, links, sets>>

LoopReads ==
    /\ loop.at = "sleep" /\ client /\ link /\ "serial" \notin known
    /\ loop' = [at |-> "read", n |-> loop.n + 1]
    /\ UNCHANGED <<gatt, machine, link, client, dial, status, info, refresh, service, history, links, sets>>

(* Each read may fail; the ones that worked fill their field.              *)
GattRead == \E got \in SUBSET gatt : known' = known \cup got

GattHelps ==
    /\ loop.at = "read"
    /\ GattRead /\ known' # {}
    /\ loop' = NoLoop /\ Refresh
    /\ UNCHANGED <<gatt, machine, link, client, dial, shown, info, service, asked, spent, links, sets>>

GattEmpty ==
    /\ loop.at = "read"
    /\ GattRead /\ known' = {}
    /\ Handshake
    /\ loop' = IF loop.n = MaxAttempts THEN NoLoop ELSE [loop EXCEPT !.at = "sleep"]
    /\ spent' = (loop.n = MaxAttempts)
    /\ UNCHANGED <<gatt, busy, held, link, client, dial, shown, refresh, service, asked, crossed, links, sets>>

(***************************************************************************)
(* set_advanced_settings, of any of the radius, the vibration and the      *)
(* display brightness; the radius needs the cloud account.                 *)
(***************************************************************************)
Quiet == busy = NoCommand /\ \A t \in Tasks : refresh[t] = "none"

SetBegin(want) ==
    /\ Idle /\ link /\ client /\ dial = "idle" /\ sets < MaxSets /\ want # {}
    /\ sets' = sets + 1
    /\ crossed' = (crossed \/ ~Quiet)
    /\ IF "radius" \in want /\ shown["radius"] = Unknown
       THEN Arrives("service", "radius") /\ service' = [at |-> "probe", want |-> want]
       ELSE /\ busy' = busy
            /\ service' = [at |-> IF "radius" \in want THEN "center" ELSE "set", want |-> want]
    /\ UNCHANGED <<gatt, awake, held, link, client, dial, status, info, loop, refresh, asked, spent, links>>

(* Half a second later: pour_radius_unknown and serial_unknown are errors. *)
ProbeOver ==
    /\ service.at = "probe"
    /\ service' = IF shown["radius"] # Unknown /\ "serial" \in known
                  THEN [service EXCEPT !.at = "center"] ELSE NoCall
    /\ UNCHANGED <<gatt, machine, link, client, dial, status, info, loop, refresh, history, links, sets>>

(* The cloud has the factory value this machine's levels are around, or    *)
(* the call ends; without a serial number it cannot ask.                   *)
Center ==
    /\ service.at = "center"
    /\ \/ "serial" \in known /\ service' = [service EXCEPT !.at = "set"]
       \/ service' = NoCall
    /\ UNCHANGED <<gatt, machine, link, client, dial, status, info, loop, refresh, history, links, sets>>

SetOrder(key) == "radius" \in service.want => key = "radius"

\* Variant: a pause the answer outlasts.
ServicePauseShort == service.at = "set"

ServicePause == busy.by # "service"

(* The SET is sent, and the value taken as set.                            *)
SetOne(key) ==
    /\ service.at = "set" /\ link /\ client
    /\ key \in service.want /\ SetOrder(key) /\ ServicePause
    /\ Arrives("service", key)
    /\ held' = IF Takes THEN [held EXCEPT ![key] = "chosen"] ELSE held
    /\ shown' = [shown EXCEPT ![key] = "chosen"]
    /\ crossed' = (crossed \/ ~awake)
    /\ service' = [service EXCEPT !.want = @ \ {key}]
    /\ UNCHANGED <<gatt, awake, link, client, dial, known, info, loop, refresh, asked, spent, links, sets>>

(* The brightness is last, and not a type-2 command; then the call returns.*)
SetDone ==
    /\ service.at = "set" /\ service.want \subseteq {"brightness"} /\ ServicePause
    /\ service' = NoCall
    /\ UNCHANGED <<gatt, machine, link, client, dial, status, info, loop, refresh, history, links, sets>>

(* write_failed: the link is gone.                                         *)
SetFails ==
    /\ service.at = "set" /\ service.want # {} /\ ~(link /\ client)
    /\ service' = NoCall
    /\ UNCHANGED <<gatt, machine, link, client, dial, status, info, loop, refresh, history, links, sets>>

Next ==
    \/ Answer \/ InfoArrives
    \/ \E t \in Tasks : GetRadius(t) \/ GetVibration(t)
    \/ Connect \/ ConnectFails \/ LinkUp \/ ConnectDone \/ Drop
    \/ LoopAborts \/ LoopSeesInfo \/ LoopReads \/ GattHelps \/ GattEmpty
    \/ \E want \in SUBSET (Settings \cup {"brightness"}) : SetBegin(want)
    \/ ProbeOver \/ Center \/ SetDone \/ SetFails
    \/ \E key \in Settings : SetOne(key)

Spec == Init /\ [][Next]_vars

(***************************************************************************)
(* Properties.                                                             *)
(***************************************************************************)
Up == link /\ client /\ dial = "idle"
Settled == Up /\ loop.at = "done" /\ ~info /\ Quiet /\ Idle

(* A link on which the machine has not yet said who it is has a retry loop *)
(* running, unless the loop has used all its attempts or ended on the      *)
(* version alone: no interleaving of reconnects leaves a link without one. *)
InfoRetried == Up /\ "serial" \notin known => loop.at # "done" \/ spent \/ "version" \in known

(* A link that knows the serial number has asked for the settings, or is   *)
(* about to, whichever of connect, loop and notification came first.  Only *)
(* an answer to the last handshake of the loop is not acted on.            *)
SettingsRequested ==
    Settled /\ "serial" \in known => asked # "none" \/ spent

(* When all is quiet, a link that asked an awake machine has both settings,*)
(* even if two refreshes ran on it at once and lost requests to each other.*)
BothRead ==
    Settled /\ asked = "awake" /\ ~crossed => \A s \in Settings : shown[s] # Unknown

(* What the sensors show is what the machine holds, though the value is    *)
(* taken as set without an answer, as long as the call did not run into a  *)
(* refresh or a sleeping machine.                                          *)
ShownIsHeld ==
    Settled /\ ~crossed => \A s \in Settings : shown[s] \in {Unknown, held[s]}
=============================================================================
