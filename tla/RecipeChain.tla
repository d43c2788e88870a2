---------------------------- MODULE RecipeChain -----------------------------
(***************************************************************************)
(* Loading and starting a recipe, command by command: the chains of        *)
(* brewing.py over the ACK waiters of ble/client.py, repeated by           *)
(* _async_retry_while_sleeping (coordinator/connection.py) for the calls   *)
(* of coordinator/recipes.py.                                              *)
(*                                                                         *)
(* A command is written without response and may be lost; the machine      *)
(* echoes the id of what it takes, and an echo may be lost too.  The echo  *)
(* carries the id alone: it answers whoever waits for that id.             *)
(*                                                                         *)
(* The machine is external: it acts as the code and its comments say.      *)
(***************************************************************************)
EXTENDS Naturals, Sequences

CONSTANTS
    Calls,         \* calls of the recipe button, the services and the tools
    Kinds,         \* the kinds of recipe used: grind, plain (8004), tea
    MaxTries,      \* _WAKE_RETRY_MAX_ATTEMPTS
    MaxLate,       \* bound: echoes that come after their wait timed out
    Overlap,       \* whether a call may begin while another is on its way
    MaxInAir,      \* bound: commands, and frames, on their way
    MaxFaults      \* bound: losses, drops and reconnects that fail

ASSUME RecipeChainAssumption ==
    /\ Kinds \subseteq {"grind", "plain", "tea"} /\ Kinds # {}
    /\ MaxTries \in Nat \ {0} /\ MaxInAir \in Nat /\ MaxFaults \in Nat
    /\ MaxLate \in Nat /\ Overlap \in BOOLEAN

Nobody == "nobody"
Steps == 4
Code == [grind |-> "8001", plain |-> "8004", tea |-> "4513"]

\* The commands of a chain, in order, and the one that starts the brew.
Chain(kind) == <<"8022", "8102", "8104", Code[kind]>>
Go(kind) == IF kind = "tea" THEN "4512" ELSE "8002"

Ids == {"8022", "8102", "8104", "8001", "8004", "4513", "4512", "8002"}
Labels == {"starting", "refused"}    \* raw_state_label, where it matters

VARIABLES
    call,     \* each call's state
    armed,    \* _armed_operation: the call that armed, or nobody
    link,     \* the BLE link is up
    asleep,   \* client.status.is_sleeping
    label,    \* client.status.raw_state_label
    out,      \* commands on their way to the machine
    in,       \* frames on their way back
    dozing,   \* the machine: asleep
    staged,   \* the machine: how many steps of a recipe it holds
    brewing,  \* the machine: brewing
    faults,   \* losses, drops and failed reconnects so far
    late,     \* echoes that came, or will come, too late so far
    taken     \* history: how many steps the machine took since the last 8022

client == <<asleep, label>>
wire == <<out, in>>
machine == <<dozing, staged, brewing>>
vars == <<call, armed, link, client, wire, machine, faults, late, taken>>

(* start:  about to begin an attempt of the action                         *)
(* wake:   _async_wake_machine                                             *)
(* send:   about to send a step of the chain                               *)
(* wait:   in send_and_wait                                                *)
(* go:     about to send the go command                                    *)
(* goWait: in send_and_wait for 4512                                       *)
(* verify: in _async_verify_brew_started                                   *)
(* ended:  the action returned, its result not looked at yet               *)
PC == {"idle", "start", "wake", "send", "wait", "go", "goWait", "verify", "ended",
       "ok", "failed"}

\* does:    arm, execute (arm and go in one) or confirm (go alone)
\* waiter:  its future in _pending_acks: open, resolved, or one that never
\*          will be, of a client that is gone
\* wasDown: the machine was asleep when the call began
\* stale:   the attempt uses a client that is gone
CallState ==
    [pc : PC, does : {"arm", "execute", "confirm"}, kind : Kinds, step : 1 .. Steps + 1,
     tries : 0 .. MaxTries, waiter : {"none", "open", "echoed", "gone"},
     wasDown : BOOLEAN, stale : BOOLEAN]

TypeOK ==
    /\ call \in [Calls -> CallState]
    /\ armed \in Calls \cup {Nobody}
    /\ link \in BOOLEAN /\ asleep \in BOOLEAN
    /\ label \in Labels \cup {"none"}
    /\ out \in Seq(Ids)
    /\ in \in Seq(Ids \cup Labels \cup {"awake", "asleep", "other"})
    /\ dozing \in BOOLEAN /\ brewing \in BOOLEAN
    /\ staged \in 0 .. Steps
    /\ faults \in 0 .. MaxFaults /\ late \in 0 .. MaxLate
    /\ taken \in 0 .. Steps

IdleCall == [pc |-> "idle", does |-> "arm", kind |-> CHOOSE k \in Kinds : TRUE,
             step |-> 1, tries |-> 0, waiter |-> "none", wasDown |-> FALSE,
             stale |-> FALSE]

Init ==
    /\ call = [t \in Calls |-> IdleCall]
    /\ armed = Nobody
    /\ link = TRUE /\ asleep = FALSE /\ label = "none"
    /\ out = << >> /\ in = << >>
    /\ dozing = FALSE /\ staged = 0 /\ brewing = FALSE
    /\ faults = 0 /\ late = 0
    /\ taken = 0

At(t, pc) == call[t].pc = pc
Goes(t, pc) == call' = [call EXCEPT ![t].pc = pc]
Awaited(t) == IF At(t, "goWait") THEN Go(call[t].kind) ELSE Chain(call[t].kind)[call[t].step]
Active(t) == call[t].pc \notin {"idle", "ok", "failed"}
MayBegin(t) == At(t, "idle") /\ link /\ (Overlap \/ \A u \in Calls : ~Active(u))

-----------------------------------------------------------------------------
(* The machine *)

Emit(frames) ==
    /\ Len(in) + Len(frames) <= MaxInAir
    /\ in' = in \o frames

\* An echo may get lost.
Echo(id, frames) ==
    \/ Emit(<<id>> \o frames) /\ UNCHANGED faults
    \/ faults < MaxFaults /\ faults' = faults + 1 /\ Emit(frames)

StepOf(id) == CASE id = "8022" -> 1 [] id = "8102" -> 2 [] id = "8104" -> 3 [] OTHER -> 4

\* The machine takes a command.  Asleep it ignores it, but may be woken by it;
\* 8022 drops what was loaded; a recipe is complete when its steps are in.
MachineTakes ==
    /\ out # << >>
    /\ LET id == Head(out) IN
         \/ /\ dozing
            /\ \/ UNCHANGED <<dozing, in>>
               \/ dozing' = FALSE /\ Emit(<<"awake">>)
            /\ UNCHANGED <<staged, brewing, faults, taken>>
         \/ /\ ~dozing
            /\ id \notin {"4512", "8002"}
            /\ staged' = IF brewing THEN staged
                         ELSE IF id = "8022" THEN 1
                         ELSE IF staged = StepOf(id) - 1 THEN StepOf(id) ELSE staged
            /\ taken' = IF StepOf(id) \in {1, taken + 1} THEN StepOf(id) ELSE taken
            /\ Echo(id, << >>)
            /\ UNCHANGED <<dozing, brewing>>
         \/ /\ ~dozing
            /\ id \in {"4512", "8002"}
            /\ \/ staged = Steps /\ ~brewing /\ brewing' = TRUE /\ staged' = 0
                    /\ Echo(id, <<"starting">>)
               \/ staged = Steps /\ ~brewing /\ staged' = 0 /\ UNCHANGED brewing
                    /\ Echo(id, <<"refused">>)
               \/ ~(staged = Steps /\ ~brewing) /\ UNCHANGED <<staged, brewing>>
                    /\ Echo(id, << >>)
            /\ UNCHANGED <<dozing, taken>>
    /\ out' = Tail(out)
    /\ UNCHANGED <<call, armed, link, client, late>>

BrewEnds ==
    /\ brewing
    /\ brewing' = FALSE
    /\ IF link THEN Emit(<<"other">>) ELSE UNCHANGED in
    /\ UNCHANGED <<call, armed, link, client, out, dozing, staged, faults, late, taken>>

FallsAsleep ==
    /\ ~dozing /\ ~brewing /\ staged < Steps
    /\ faults < MaxFaults /\ faults' = faults + 1
    /\ dozing' = TRUE
    /\ IF link THEN Emit(<<"asleep">>) ELSE UNCHANGED in
    /\ UNCHANGED <<call, armed, link, client, out, staged, brewing, late, taken>>

-----------------------------------------------------------------------------
(* The client *)

\* _resolve_pending_acks: everyone who waits for the id.
Resolves(id) == {t \in Calls : call[t].waiter = "open" /\ Awaited(t) = id}

\* _on_notification
Notified ==
    /\ in # << >>
    /\ LET f == Head(in) IN
         /\ call' = [t \in Calls |-> IF t \in Resolves(f)
                                     THEN [call[t] EXCEPT !.waiter = "echoed"] ELSE call[t]]
         /\ asleep' = IF f \in {"awake", "asleep"} THEN f = "asleep" ELSE asleep
         /\ label' = IF f \in Labels THEN f ELSE IF f = "other" THEN "none" ELSE label
    /\ in' = Tail(in)
    /\ UNCHANGED <<armed, link, out, machine, faults, late, taken>>

\* _send_command: written and on its way, or lost.
Transmit(id) ==
    \/ Len(out) < MaxInAir /\ out' = Append(out, id) /\ UNCHANGED faults
    \/ faults < MaxFaults /\ faults' = faults + 1 /\ UNCHANGED out

\* The link is gone, and with it what was on its way and the client object:
\* its waiters are left to their timeouts, and its user finds it dead.
Lost(c) == [t \in Calls |-> [c[t] EXCEPT !.stale = @ \/ Active(t),
                                         !.waiter = IF @ = "open" THEN "gone" ELSE @]]

LinkDown == link' = FALSE /\ out' = << >> /\ in' = << >>

Drop ==
    /\ link
    /\ faults < MaxFaults /\ faults' = faults + 1
    /\ LinkDown
    /\ call' = Lost(call)
    /\ UNCHANGED <<armed, client, machine, late, taken>>

\* A fresh client; its cleanup commands clear what was loaded.
FreshLink ==
    /\ link' = TRUE
    /\ out' = << >> /\ in' = << >>
    /\ asleep' = FALSE /\ label' = "none"
    /\ staged' = 0 /\ brewing' = FALSE
    /\ dozing' \in {dozing, FALSE}
    /\ taken' = 0

\* A resolved future wakes its task at once; a connect takes seconds.
Reconnect ==
    /\ ~link
    /\ \A t \in Calls : call[t].waiter # "echoed"
    /\ FreshLink
    /\ UNCHANGED <<call, armed, faults, late>>

-----------------------------------------------------------------------------
(* The coordinator's calls *)

\* async_arm_recipe and async_execute_recipe
Load(t) ==
    /\ MayBegin(t)
    /\ \E d \in {"arm", "execute"}, k \in Kinds :
         call' = [call EXCEPT ![t] =
                    [IdleCall EXCEPT !.does = d, !.kind = k, !.wasDown = asleep,
                                     !.pc = IF asleep THEN "wake" ELSE "start"]]
    /\ UNCHANGED <<armed, link, client, wire, machine, faults, late, taken>>

\* async_confirm_recipe
Confirm(t) ==
    /\ MayBegin(t)
    /\ armed # Nobody
    /\ call' = [call EXCEPT ![t] =
                  [IdleCall EXCEPT !.does = "confirm", !.kind = call[armed].kind,
                                   !.wasDown = asleep,
                                   !.pc = IF asleep THEN "wake" ELSE "start"]]
    /\ UNCHANGED <<armed, link, client, wire, machine, faults, late, taken>>

\* _async_wake_machine: the handshake wakes the machine; or the link is taken
\* down, for every call, and comes up again or not, but not while something is
\* armed.
Wake(t) ==
    /\ At(t, "wake")
    /\ \/ /\ link /\ dozing' = FALSE /\ asleep' = FALSE
          /\ Goes(t, "start")
          /\ UNCHANGED <<link, label, wire, staged, brewing, faults, taken>>
       \/ /\ armed = Nobody
          /\ call' = [Lost(call) EXCEPT ![t].pc = "start"]
          /\ \/ FreshLink /\ UNCHANGED faults
             \/ /\ faults < MaxFaults /\ faults' = faults + 1
                /\ LinkDown
                /\ UNCHANGED <<client, machine, taken>>
       \/ /\ armed # Nobody
          /\ Goes(t, "start")
          /\ UNCHANGED <<link, client, wire, machine, faults, taken>>
    /\ UNCHANGED <<armed, late>>

\* Variant: a repeated attempt takes up the chain at the step that got no echo.
AttemptResumes(t) ==
    /\ At(t, "start")
    /\ call' = [call EXCEPT ![t].pc = IF call[t].does = "confirm" THEN "go" ELSE "send",
                            ![t].step = IF @ > Steps THEN 1 ELSE @,
                            ![t].tries = @ + 1, ![t].waiter = "none", ![t].stale = ~link]
    /\ UNCHANGED <<armed, link, client, wire, machine, faults, late, taken>>

\* One attempt begins, with the client of this moment.
Attempt(t) ==
    /\ At(t, "start")
    /\ call' = [call EXCEPT ![t].pc = IF call[t].does = "confirm" THEN "go" ELSE "send",
                            ![t].step = 1, ![t].tries = @ + 1, ![t].waiter = "none",
                            ![t].stale = ~link]
    /\ UNCHANGED <<armed, link, client, wire, machine, faults, late, taken>>

\* Variant: the next step follows after a fixed delay, ACK or no ACK.
StepUngated(t) ==
    /\ At(t, "wait")
    /\ call' = [call EXCEPT ![t].pc = IF call[t].step < Steps THEN "send" ELSE "ended",
                            ![t].step = @ + 1, ![t].waiter = "none"]
    /\ UNCHANGED <<armed, link, client, wire, machine, faults, late, taken>>

\* _ack_step: the future is registered and the command goes out.
SendStep(t) ==
    /\ At(t, "send")
    /\ ~call[t].stale
    /\ Transmit(Chain(call[t].kind)[call[t].step])
    /\ call' = [call EXCEPT ![t].pc = "wait", ![t].waiter = "open"]
    /\ UNCHANGED <<armed, link, client, in, machine, late, taken>>

\* The echo is in: the next step, or the go command, or the end.
StepDone(t) ==
    /\ At(t, "wait")
    /\ call[t].waiter = "echoed"
    /\ call' = [call EXCEPT ![t].pc = IF call[t].step < Steps THEN "send"
                                      ELSE IF call[t].does = "execute" THEN "go" ELSE "ended",
                            ![t].step = @ + 1, ![t].waiter = "none"]
    /\ UNCHANGED <<armed, link, client, wire, machine, faults, late, taken>>

\* execute_coffee_recipe, or the payload again as 4512.
SendGo(t) ==
    /\ At(t, "go")
    /\ ~call[t].stale
    /\ Transmit(Go(call[t].kind))
    /\ IF call[t].kind = "tea"
       THEN call' = [call EXCEPT ![t].pc = "goWait", ![t].waiter = "open"]
       ELSE Goes(t, "verify")
    /\ UNCHANGED <<armed, link, client, in, machine, late, taken>>

GoAcked(t) ==
    /\ At(t, "goWait")
    /\ call[t].waiter = "echoed"
    /\ call' = [call EXCEPT ![t].pc = "ended", ![t].waiter = "none"]
    /\ UNCHANGED <<armed, link, client, wire, machine, faults, late, taken>>

\* _async_verify_brew_started
Verified(t) ==
    /\ At(t, "verify")
    /\ label = "starting"
    /\ Goes(t, "ended")
    /\ UNCHANGED <<armed, link, client, wire, machine, faults, late, taken>>

\* What the confirm does whether it succeeds or not.
Disarm(t) == armed' = IF call[t].does = "confirm" THEN Nobody ELSE armed

\* A failure that is not a timeout is not repeated: a dead client, a machine
\* that refuses, no start within the time.
Fails(t) ==
    /\ \/ call[t].pc \in {"send", "go"} /\ call[t].stale
       \/ At(t, "verify") /\ label # "starting"
    /\ call' = [call EXCEPT ![t].pc = "failed", ![t].waiter = "none"]
    /\ Disarm(t)
    /\ UNCHANGED <<link, client, wire, machine, faults, late, taken>>

\* The echo a call waits for, or its command, is still on its way.
InAir(t) == \/ \E i \in DOMAIN out : out[i] = Awaited(t)
            \/ \E i \in DOMAIN in : in[i] = Awaited(t)

\* Variant: a wait is ended by its echo or by the client's own teardown.
NoEchoOnLink(t) == call[t].waiter = "open" /\ ~InAir(t) /\ UNCHANGED late

\* No echo in time: none is on its way any more, or it comes too late.
NoEcho(t) ==
    \/ call[t].waiter = "open" /\ ~InAir(t) /\ UNCHANGED late
    \/ call[t].waiter = "gone" /\ UNCHANGED late
    \/ call[t].waiter = "open" /\ InAir(t) /\ late < MaxLate /\ late' = late + 1

Retries(t) == call[t].tries < MaxTries /\ (call[t].wasDown \/ (link /\ asleep))

\* AckTimeout: the whole action once more if the machine was or is asleep.
TimedOut(t) ==
    /\ call[t].pc \in {"wait", "goWait"}
    /\ NoEcho(t)
    /\ \/ Retries(t) /\ call' = [call EXCEPT ![t].pc = "start", ![t].waiter = "none"]
            /\ UNCHANGED armed
       \/ ~Retries(t) /\ call' = [call EXCEPT ![t].pc = "failed", ![t].waiter = "none"]
            /\ Disarm(t)
    /\ UNCHANGED <<link, client, wire, machine, faults, taken>>

\* The action returned: it is repeated as long as the machine reports itself
\* asleep, else the call is over, and an arm is armed.
Ended(t) ==
    /\ At(t, "ended")
    /\ \/ /\ link /\ asleep /\ call[t].tries < MaxTries
          /\ Goes(t, "start")
          /\ UNCHANGED armed
       \/ /\ ~(link /\ asleep /\ call[t].tries < MaxTries)
          /\ Goes(t, "ok")
          /\ armed' = CASE call[t].does = "arm" -> t
                        [] call[t].does = "confirm" -> Nobody
                        [] OTHER -> armed
    /\ UNCHANGED <<link, client, wire, machine, faults, late, taken>>

-----------------------------------------------------------------------------

CallStep(t) ==
    \/ Wake(t) \/ Attempt(t) \/ SendStep(t) \/ StepDone(t) \/ SendGo(t) \/ GoAcked(t)
    \/ Verified(t) \/ Fails(t) \/ TimedOut(t) \/ Ended(t)

Next ==
    \/ \E t \in Calls : Load(t) \/ Confirm(t) \/ CallStep(t)
    \/ MachineTakes \/ BrewEnds \/ FallsAsleep
    \/ Notified \/ Drop \/ Reconnect

\* The event loop runs every task; the wire delivers what is on it.
Fairness ==
    /\ WF_vars(MachineTakes) /\ WF_vars(Notified)
    /\ \A t \in Calls : WF_vars(CallStep(t))

Spec == Init /\ [][Next]_vars /\ Fairness

-----------------------------------------------------------------------------

\* "Chaining on ACKs is what stops a sequence from advancing past a step the
\* machine never received": the call is past a step only if the machine took it.
NoStepSkipped ==
    \A t \in Calls : call[t].pc \in {"send", "wait", "go", "goWait", "verify", "ended"}
                       /\ ~call[t].stale /\ call[t].does # "confirm" => taken >= call[t].step - 1

\* The chain keeps what RecipeOrder promises: a recipe is reported as loaded
\* only when the machine took all of it, however often the chain was repeated
\* for a machine that was asleep.
OrderOf(c) ==
    IF c.pc = "failed" /\ c.step <= Steps THEN "failed"
    ELSE IF c.pc \in {"idle", "wake", "start"} /\ c.tries = 0 THEN "idle"
    ELSE IF c.step > Steps THEN "loaded" ELSE "loading"

Order == INSTANCE RecipeOrder WITH order <- [t \in Calls |-> OrderOf(call[t])]

KeepsOrder == Order!Spec

\* Every call returns, also when its link is gone, its echo lost, or the
\* machine asleep.
CallsEnd == \A t \in Calls : Active(t) ~> call[t].pc \in {"ok", "failed"}
=============================================================================
