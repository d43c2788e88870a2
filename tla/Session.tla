------------------------------ MODULE Session ------------------------------
(***************************************************************************)
(* The BLE session of one machine: who brings the link up, who takes it    *)
(* down, and what the coordinator believes about it meanwhile              *)
(* (coordinator/connection.py, the poll of coordinator/state.py, the       *)
(* connect/disconnect of ble/client.py and ble/connection.py).             *)
(*                                                                         *)
(* Everything runs on one asyncio loop, so a step is the code between two  *)
(* awaits.  A task is a coroutine that is suspended at one of them:        *)
(*   lock      async_connect, queued on _connect_lock                      *)
(*   linking   awaiting establish_connection                               *)
(*   notify    awaiting start_notify                                       *)
(*   reset     awaiting _reset_state (handshake and cleanup commands)      *)
(*   finish    awaiting the settle sleep and the follow-ups of a connect   *)
(*   closing   async_disconnect, awaiting client.disconnect()              *)
(*   waking    _async_wake_machine, waiting for the machine to wake        *)
(*   act       a user action, sending its own commands                     *)
(* hass.async_create_task starts a coroutine eagerly, so a task created by *)
(* a handler runs to its first await within the handler's own step.        *)
(***************************************************************************)
EXTENDS Naturals, Sequences, FiniteSets

CONSTANTS
    Clients,      \* XBloomClient objects, one per connect attempt
    NoClient,     \* self.client is None
    Switches,     \* calls of the connection switch that may be in flight
    Actions,      \* calls of user actions that may be in flight
    Supervisor,   \* the reconnect task of the poll
    StaleDrop,    \* the _async_drop_stale_link task
    StandbyDrop,  \* the _async_enter_idle_standby task
    MaxOrphans    \* bound: transport errors that leave a link up

Background == {Supervisor, StaleDrop, StandbyDrop}
Tasks == Switches \cup Actions \cup Background

ASSUME SessionAssumption ==
    /\ NoClient \notin Clients
    /\ Switches \cap Actions = {}
    /\ (Switches \cup Actions) \cap Background = {}
    /\ Supervisor # StaleDrop /\ Supervisor # StandbyDrop /\ StaleDrop # StandbyDrop
    /\ MaxOrphans \in Nat

VARIABLES
    client,          \* self.client
    live,            \* clients whose BLE link is up (is_connected)
    mute,            \* links silent for longer than _BLE_SILENCE_TIMEOUT_S
    sleepers,        \* clients whose status says the machine is asleep
    callbacks,       \* _handle_unexpected_disconnect calls in the loop's queue
    orphans,         \* history: links an error path left up
    manual,          \* _manual_disconnect
    idle,            \* _idle_disconnected
    expired,         \* _session_timeout has passed since _last_activity_monotonic
    blocked,         \* time.monotonic() < _reconnect_blocked_until
    stalePending,    \* _force_reconnect_pending
    standbyPending,  \* _idle_standby_pending
    lock,            \* _connect_lock: the holder, then the waiters in order
    task,            \* where each coroutine is suspended
    engaged,         \* what the coordinator believes is armed or running
    op               \* what the machine is doing

linkVars == <<live, mute, sleepers, callbacks, orphans>>
pendings == <<stalePending, standbyPending>>
machineVars == <<engaged, op>>
vars == <<client, linkVars, manual, idle, expired, blocked, pendings,
          lock, task, machineVars>>

Pc == {"done", "lock", "linking", "notify", "reset", "finish",
       "closing", "waking", "act"}
ConnectPc == {"linking", "notify", "reset", "finish"}

\* woke: the task's connect is the reconnect of _async_wake_machine
TaskState == [pc : Pc, own : Clients \cup {NoClient}, woke : BOOLEAN]

At(pc, own, woke) == [pc |-> pc, own |-> own, woke |-> woke]
Done == At("done", NoClient, FALSE)

Connecting(t) == task[t].pc \in ConnectPc
Idle(t) == task[t].pc = "done"

\* An object nobody refers to any more stands for a newly built one.
Fresh == Clients \ ({client} \cup live \cup callbacks \cup orphans
                      \cup {task[t].own : t \in Tasks})

TypeOK ==
    /\ client \in Clients \cup {NoClient}
    /\ live \subseteq Clients
    /\ mute \subseteq Clients
    /\ sleepers \subseteq Clients
    /\ callbacks \subseteq Clients
    /\ orphans \subseteq Clients
    /\ manual \in BOOLEAN
    /\ idle \in BOOLEAN
    /\ expired \in BOOLEAN
    /\ blocked \in BOOLEAN
    /\ stalePending \in BOOLEAN
    /\ standbyPending \in BOOLEAN
    /\ lock \in Seq(Tasks)
    /\ task \in [Tasks -> TaskState]
    /\ engaged \in {"none", "armed", "active"}
    /\ op \in {"home", "running"}

Init ==
    /\ client = NoClient
    /\ live = {} /\ mute = {} /\ sleepers = {} /\ callbacks = {} /\ orphans = {}
    /\ manual = FALSE
    /\ idle = FALSE
    /\ expired = FALSE
    /\ blocked = FALSE
    /\ stalePending = FALSE
    /\ standbyPending = FALSE
    /\ lock = << >>
    /\ task = [t \in Tasks |-> Done]
    /\ engaged = "none"
    /\ op = "home"

-----------------------------------------------------------------------------
(* async_connect *)

\* What runs when async_connect() returns True to task t with client c: an
\* action goes on to _async_retry_while_sleeping, which wakes a machine that
\* reports itself asleep unless this connect was that wake.
Connected(t, c, woke) ==
    IF t \notin Actions THEN Done
    ELSE IF c \in sleepers /\ ~woke THEN At("waking", NoClient, FALSE)
    ELSE At("act", NoClient, FALSE)

\* Variant: forget to leave idle standby.
ConnectBodyInStandby(t, cur, man, over, woke, q) ==
    \/ /\ cur \in live
       /\ client' = cur
       /\ manual' = man
       /\ lock' = Tail(q)
       /\ task' = [task EXCEPT ![t] = Connected(t, cur, woke)]
       /\ expired' = over
       /\ UNCHANGED <<idle, sleepers>>
    \/ /\ cur \notin live
       /\ \E c \in Fresh :
            /\ client' = c
            /\ task' = [task EXCEPT ![t] = At("linking", c, woke)]
            /\ sleepers' = sleepers \ {c}
       /\ manual' = FALSE
       /\ expired' = FALSE
       /\ lock' = q
       /\ UNCHANGED idle

\* The body of async_connect up to its first await, run by t at the head of
\* the lock queue q; cur and man are self.client and _manual_disconnect, and
\* over says whether _session_timeout has passed.
ConnectBody(t, cur, man, over, woke, q) ==
    \/ /\ cur \in live
       /\ client' = cur
       /\ manual' = man
       /\ lock' = Tail(q)
       /\ task' = [task EXCEPT ![t] = Connected(t, cur, woke)]
       /\ expired' = over
       /\ UNCHANGED <<idle, sleepers>>
    \/ /\ cur \notin live
       /\ \E c \in Fresh :
            /\ client' = c
            /\ task' = [task EXCEPT ![t] = At("linking", c, woke)]
            /\ sleepers' = sleepers \ {c}
       /\ manual' = FALSE
       /\ idle' = FALSE
       /\ expired' = FALSE
       /\ lock' = q

\* Variant: connect without waiting for _connect_lock.
EnterConnectUnlocked(t, cur, man, over, woke) ==
    ConnectBody(t, cur, man, over, woke, <<t>>)

\* A call of async_connect: run the body if _connect_lock is free, else queue.
EnterConnect(t, cur, man, over, woke) ==
    \/ /\ lock = << >>
       /\ ConnectBody(t, cur, man, over, woke, <<t>>)
    \/ /\ lock # << >>
       /\ lock' = Append(lock, t)
       /\ task' = [task EXCEPT ![t] = At("lock", NoClient, woke)]
       /\ client' = cur
       /\ manual' = man
       /\ expired' = over
       /\ UNCHANGED <<idle, sleepers>>

AcquireLock(t) ==
    /\ task[t].pc = "lock"
    /\ lock # << >> /\ Head(lock) = t
    /\ ConnectBody(t, client, manual, expired, task[t].woke, lock)
    /\ UNCHANGED <<live, mute, callbacks, orphans, blocked, pendings, machineVars>>

\* Variant: a failed attempt keeps the lock.
ConnectFailedLocked(t) ==
    /\ blocked' = TRUE
    /\ client' = NoClient
    /\ task' = [task EXCEPT ![t] = Done]
    /\ UNCHANGED <<lock, mute, sleepers, callbacks, manual, idle, expired,
                   pendings, machineVars>>

\* A failed attempt: _note_connect_failure, self.client = None, lock released.
ConnectFailed(t) ==
    /\ blocked' = TRUE
    /\ client' = NoClient
    /\ lock' = Tail(lock)
    /\ task' = [task EXCEPT ![t] = Done]
    /\ UNCHANGED <<mute, sleepers, callbacks, manual, idle, expired, pendings,
                   machineVars>>

Advance(t, pc) ==
    /\ task' = [task EXCEPT ![t].pc = pc]
    /\ UNCHANGED <<client, mute, sleepers, callbacks, orphans, manual, idle,
                   expired, blocked, pendings, lock, engaged>>

LinkUp(t) ==
    /\ task[t].pc = "linking"
    /\ live' = live \cup {task[t].own}
    /\ Advance(t, "notify")
    /\ UNCHANGED op

LinkRefused(t) ==
    /\ task[t].pc = "linking"
    /\ ConnectFailed(t)
    /\ UNCHANGED <<live, orphans>>

NotifyStarted(t) ==
    /\ task[t].pc = "notify"
    /\ task[t].own \in live
    /\ Advance(t, "reset")
    /\ UNCHANGED <<live, op>>

\* start_notify raises on a dead link; when it raises on one that is up,
\* nothing disconnects it.
NotifyFailed(t) ==
    /\ task[t].pc = "notify"
    /\ ConnectFailed(t)
    /\ \/ task[t].own \notin live /\ UNCHANGED orphans
       \/ /\ task[t].own \in live
          /\ Cardinality(orphans) < MaxOrphans
          /\ orphans' = orphans \cup {task[t].own}
    /\ UNCHANGED live

\* RECIPE_STOP, BREWER_QUIT and GRINDER_QUIT put the machine on its home
\* page; on a dead link the failed writes are swallowed.
ResetState(t) ==
    /\ task[t].pc = "reset"
    /\ op' = IF task[t].own \in live THEN "home" ELSE op
    /\ Advance(t, "finish")
    /\ UNCHANGED live

\* Timing: a connect sleeps for 1.7 s after its link is up (client.py), so
\* what was due on the loop before has run when it returns: the drop callbacks
\* of other links, and the teardowns whose link is gone.
LoopDrained(c) ==
    /\ callbacks \subseteq {c}
    /\ \A t \in Tasks : task[t].pc = "closing" => task[t].own \in live \cup {c}

\* Variant: trust self.client instead of restoring the local variable.
ConnectReturnsUnrestored(t) ==
    /\ task[t].pc = "finish"
    /\ LoopDrained(task[t].own)
    /\ blocked' = FALSE
    /\ lock' = Tail(lock)
    /\ task' = [task EXCEPT ![t] = Connected(t, task[t].own, task[t].woke)]
    /\ UNCHANGED <<client, linkVars, manual, idle, expired, pendings, machineVars>>

\* The end of async_connect: restore self.client and release the lock.  The
\* async_refresh() before it is a Poll, which this state enables.
ConnectReturns(t) ==
    /\ task[t].pc = "finish"
    /\ LoopDrained(task[t].own)
    /\ blocked' = FALSE
    /\ client' = task[t].own
    /\ lock' = Tail(lock)
    /\ task' = [task EXCEPT ![t] = Connected(t, task[t].own, task[t].woke)]
    /\ UNCHANGED <<linkVars, manual, idle, expired, pendings, machineVars>>

-----------------------------------------------------------------------------
(* async_disconnect *)

\* async_disconnect up to client.disconnect(), on a link that is up.
StartClosing(t, woke) ==
    /\ manual' = TRUE
    /\ task' = [task EXCEPT ![t] = At("closing", client, woke)]
    /\ UNCHANGED client

\* The return of client.disconnect(): the link is closed and its drop
\* callback queued, or the transport raised and the link stayed up.
LinkClosed(c) ==
    \/ /\ live' = live \ {c}
       /\ mute' = mute \ {c}
       /\ callbacks' = callbacks \cup ({c} \cap live)
       /\ UNCHANGED orphans
    \/ /\ c \in live
       /\ Cardinality(orphans) < MaxOrphans
       /\ orphans' = orphans \cup {c}
       /\ UNCHANGED <<live, mute, callbacks>>

\* The rest of async_disconnect (self.client = None) and of the switch-off
\* or unload that called it.
SwitchedOff(t) ==
    /\ t \in Switches
    /\ task[t].pc = "closing"
    /\ LinkClosed(task[t].own)
    /\ client' = NoClient
    /\ task' = [task EXCEPT ![t] = Done]
    /\ UNCHANGED <<sleepers, manual, idle, expired, blocked, pendings, lock,
                   machineVars>>

\* Variant: the overlap guard of the silence watchdog is not re-armed.
StaleDroppedOnce ==
    /\ task[StaleDrop].pc = "closing"
    /\ LinkClosed(task[StaleDrop].own)
    /\ client' = NoClient
    /\ manual' = FALSE
    /\ task' = [task EXCEPT ![StaleDrop] = Done]
    /\ UNCHANGED <<sleepers, idle, expired, blocked, pendings, lock, machineVars>>

\* The rest of _async_drop_stale_link.
StaleDropped ==
    /\ task[StaleDrop].pc = "closing"
    /\ LinkClosed(task[StaleDrop].own)
    /\ client' = NoClient
    /\ manual' = FALSE
    /\ stalePending' = FALSE
    /\ task' = [task EXCEPT ![StaleDrop] = Done]
    /\ UNCHANGED <<sleepers, idle, expired, blocked, standbyPending, lock,
                   machineVars>>

\* The rest of _async_enter_idle_standby.
StandbyEntered ==
    /\ task[StandbyDrop].pc = "closing"
    /\ LinkClosed(task[StandbyDrop].own)
    /\ client' = NoClient
    /\ standbyPending' = FALSE
    /\ task' = [task EXCEPT ![StandbyDrop] = Done]
    /\ UNCHANGED <<sleepers, manual, idle, expired, blocked, stalePending, lock,
                   machineVars>>

\* The rest of _async_wake_machine: clear the flag and reconnect.
WakeReconnects(t) ==
    /\ t \in Actions
    /\ task[t].pc = "closing"
    /\ LinkClosed(task[t].own)
    /\ EnterConnect(t, NoClient, FALSE, expired, TRUE)
    /\ UNCHANGED <<blocked, pendings, machineVars>>

-----------------------------------------------------------------------------
(* The poll: _async_update_data and _maybe_schedule_reconnect *)

\* Variant: the silence watchdog spares a link in use, as standby does.
PollStaleUnused ==
    /\ client \in live
    /\ ~stalePending
    /\ client \in mute \ sleepers
    /\ engaged = "none"
    /\ stalePending' = TRUE
    /\ StartClosing(StaleDrop, FALSE)
    /\ UNCHANGED <<linkVars, idle, expired, blocked, standbyPending, lock, machineVars>>

PollStale ==
    /\ client \in live
    /\ ~stalePending
    /\ client \in mute \ sleepers
    /\ stalePending' = TRUE
    /\ StartClosing(StaleDrop, FALSE)
    /\ UNCHANGED <<linkVars, idle, expired, blocked, standbyPending, lock,
                   machineVars>>

IsStale == ~stalePending /\ client \in mute \ sleepers

PollStandby ==
    /\ client \in live
    /\ ~IsStale
    /\ ~standbyPending
    /\ engaged = "none"
    /\ expired
    /\ standbyPending' = TRUE
    /\ idle' = TRUE
    /\ StartClosing(StandbyDrop, FALSE)
    /\ UNCHANGED <<linkVars, expired, blocked, stalePending, lock, machineVars>>

\* A status other than idle or sleeping (a run, or the page of something
\* armed) restarts the idle countdown.
PollActivity ==
    /\ client \in live
    /\ ~IsStale
    /\ ~(~standbyPending /\ engaged = "none" /\ expired)
    /\ op = "running" \/ engaged = "armed"
    /\ client \notin sleepers
    /\ expired' = FALSE
    /\ UNCHANGED <<client, linkVars, manual, idle, blocked, pendings, lock, task,
                   machineVars>>

\* Variant: reconnect only when there is no client object.
PollReconnectIfNone ==
    /\ client = NoClient
    /\ ~manual /\ ~idle
    /\ lock = << >>
    /\ ~blocked
    /\ EnterConnect(Supervisor, client, manual, expired, FALSE)
    /\ UNCHANGED <<live, mute, callbacks, orphans, blocked, pendings, machineVars>>

PollReconnect ==
    /\ client \notin live
    /\ ~manual /\ ~idle
    /\ lock = << >>
    /\ ~blocked
    /\ EnterConnect(Supervisor, client, manual, expired, FALSE)
    /\ UNCHANGED <<live, mute, callbacks, orphans, blocked, pendings, machineVars>>

Poll == PollStale \/ PollStandby \/ PollActivity \/ PollReconnect

-----------------------------------------------------------------------------
(* The user: the connection switch, and actions on the machine *)

SwitchOn(t) ==
    /\ Idle(t)
    /\ EnterConnect(t, client, manual, expired, FALSE)
    /\ UNCHANGED <<live, mute, callbacks, orphans, blocked, pendings, machineVars>>

SwitchOff(t) ==
    /\ Idle(t)
    /\ \/ client \in live /\ StartClosing(t, FALSE)
       \/ /\ client \notin live
          /\ manual' = TRUE
          /\ client' = NoClient
          /\ UNCHANGED task
    /\ UNCHANGED <<linkVars, idle, expired, blocked, pendings, lock, machineVars>>

\* _async_ensure_connected on a link that is up, then the sleep check.
ActionOnLink(t) ==
    /\ Idle(t)
    /\ client \in live
    /\ expired' = FALSE
    /\ task' = [task EXCEPT ![t] = Connected(t, client, FALSE)]
    /\ UNCHANGED <<client, linkVars, manual, idle, blocked, pendings, lock,
                   machineVars>>

\* _async_ensure_connected in idle standby: it notes the activity first, so
\* _session_timeout starts anew, and reconnects on demand.
ActionInStandby(t) ==
    /\ Idle(t)
    /\ client \notin live
    /\ idle
    /\ EnterConnect(t, client, manual, FALSE, FALSE)
    /\ UNCHANGED <<live, mute, callbacks, orphans, blocked, pendings, machineVars>>

\* _async_ensure_connected with the link down for any other reason: refused.
ActionRefused(t) ==
    /\ Idle(t)
    /\ client \notin live
    /\ ~idle
    /\ expired' = FALSE
    /\ UNCHANGED <<client, linkVars, manual, idle, blocked, pendings, lock, task,
                   machineVars>>

\* _async_wake_machine, when the wait for an awake machine ends.
WokeUp(t) ==
    /\ task[t].pc = "waking"
    /\ \/ client \notin sleepers
       \/ engaged = "armed"
    /\ task' = [task EXCEPT ![t] = At("act", NoClient, FALSE)]
    /\ UNCHANGED <<client, linkVars, manual, idle, expired, blocked, pendings,
                   lock, machineVars>>

StillAsleep(t) ==
    /\ task[t].pc = "waking"
    /\ client \in sleepers
    /\ engaged # "armed"
    /\ \/ /\ client \in live
          /\ StartClosing(t, TRUE)
          /\ UNCHANGED <<sleepers, idle, expired, lock>>
       \/ /\ client \notin live
          /\ EnterConnect(t, NoClient, FALSE, expired, TRUE)
    /\ UNCHANGED <<live, mute, callbacks, orphans, blocked, pendings, machineVars>>

\* What an action may leave behind: something armed, something started,
\* everything cancelled, or no change (tare, a setpoint).
Outcomes == {<<"armed", "home">>, <<"active", "running">>, <<"none", "home">>,
             <<engaged, op>>}

\* The action's own commands: they reach a machine that is linked and awake.
Act(t) ==
    /\ task[t].pc = "act"
    /\ \/ /\ client \in live \ sleepers
          /\ \E o \in Outcomes : engaged' = o[1] /\ op' = o[2]
       \/ client \notin live \ sleepers /\ UNCHANGED machineVars
    /\ task' = [task EXCEPT ![t] = Done]
    /\ UNCHANGED <<client, linkVars, manual, idle, expired, blocked, pendings,
                   lock>>

-----------------------------------------------------------------------------
(* The loop's queue, the clock, and the machine *)

\* _handle_unexpected_disconnect, called for the link of any client.
HandleDisconnect(c) ==
    /\ c \in callbacks
    /\ callbacks' = callbacks \ {c}
    /\ client' = IF manual THEN client ELSE NoClient
    /\ UNCHANGED <<live, mute, sleepers, orphans, manual, idle, expired, blocked,
                   pendings, lock, task, machineVars>>

SessionTimeout ==
    /\ ~expired
    /\ expired' = TRUE
    /\ UNCHANGED <<client, linkVars, manual, idle, blocked, pendings, lock, task,
                   machineVars>>

BackoffElapses ==
    /\ blocked
    /\ blocked' = FALSE
    /\ UNCHANGED <<client, linkVars, manual, idle, expired, pendings, lock, task,
                   machineVars>>

\* Variant: the drop is attributed to self.client, whatever link dropped.
LinkDropsOfCurrent(c) ==
    /\ c \in live
    /\ live' = live \ {c}
    /\ mute' = mute \ {c}
    /\ callbacks' = callbacks \cup {client}
    /\ UNCHANGED <<client, sleepers, orphans, manual, idle, expired, blocked,
                   pendings, lock, task, machineVars>>

\* The machine or the adapter drops a link.
LinkDrops(c) ==
    /\ c \in live
    /\ live' = live \ {c}
    /\ mute' = mute \ {c}
    /\ callbacks' = callbacks \cup {c}
    /\ UNCHANGED <<client, sleepers, orphans, manual, idle, expired, blocked,
                   pendings, lock, task, machineVars>>

\* Notifications stop, or start again, on a link that is up.
LinkSilence ==
    /\ client \in live
    /\ mute' = IF client \in mute THEN mute \ {client} ELSE mute \cup {client}
    /\ UNCHANGED <<client, live, sleepers, callbacks, orphans, manual, idle,
                   expired, blocked, pendings, lock, task, machineVars>>

\* 8009 sets the sleep flag, 8011 and 8023 clear it.
SleepReport ==
    /\ client \in live
    /\ IF client \in sleepers THEN sleepers' = sleepers \ {client}
       ELSE op # "running" /\ sleepers' = sleepers \cup {client}
    /\ UNCHANGED <<client, live, mute, callbacks, orphans, manual, idle, expired,
                   blocked, pendings, lock, task, machineVars>>

\* A brew started at the machine.  Its events make the coordinator track it,
\* except a pod's recipe, which it deliberately does not infer.
StartAtMachine ==
    /\ op # "running"
    /\ op' = "running"
    /\ engaged' \in IF client \in live THEN {engaged, "active"} ELSE {engaged}
    /\ sleepers' = sleepers \ {client}
    /\ UNCHANGED <<client, live, mute, callbacks, orphans, manual, idle, expired,
                   blocked, pendings, lock, task>>

\* It ends; only a coordinator with a link hears of it.
EndAtMachine ==
    /\ op = "running"
    /\ op' = "home"
    /\ engaged' = IF client \in live /\ engaged = "active" THEN "none" ELSE engaged
    /\ UNCHANGED <<client, linkVars, manual, idle, expired, blocked, pendings,
                   lock, task>>

-----------------------------------------------------------------------------

ConnectStep(t) ==
    \/ AcquireLock(t) \/ LinkUp(t) \/ LinkRefused(t) \/ NotifyStarted(t)
    \/ NotifyFailed(t) \/ ResetState(t) \/ ConnectReturns(t)

Teardown ==
    \/ \E t \in Switches : SwitchedOff(t)
    \/ StaleDropped
    \/ StandbyEntered
    \/ \E t \in Actions : WakeReconnects(t)

TurnOn == \E t \in Switches : SwitchOn(t)
TurnOff == \E t \in Switches : SwitchOff(t)
UserAction == \E t \in Actions : ActionOnLink(t) \/ ActionInStandby(t) \/ ActionRefused(t)

ActionStep(t) == WokeUp(t) \/ StillAsleep(t) \/ Act(t)

Environment ==
    \/ SessionTimeout \/ BackoffElapses
    \/ \E c \in Clients : LinkDrops(c)
    \/ LinkSilence \/ SleepReport \/ StartAtMachine \/ EndAtMachine

Inner ==
    \/ \E t \in Tasks : ConnectStep(t)
    \/ Teardown
    \/ Poll
    \/ UserAction
    \/ \E t \in Actions : ActionStep(t)
    \/ \E c \in Clients : HandleDisconnect(c)
    \/ Environment

Next == TurnOn \/ TurnOff \/ Inner

Spec == Init /\ [][Next]_vars

-----------------------------------------------------------------------------
(* Safety *)

Owned == {task[t].own : t \in {u \in Tasks : Connecting(u)}}

\* Connects are single-flight: the coroutine between the first await and the
\* return of async_connect holds _connect_lock, whatever failed before.
SingleFlight ==
    \A t \in Tasks : Connecting(t) => lock # << >> /\ Head(lock) = t

\* The machine has one BLE slot.  Unless a transport error left a link up, at
\* most one link is up at any time and it is never lost: it is self.client's,
\* or that of the connect in flight, which puts it back into self.client.
SingleLink ==
    orphans = {} =>
        /\ live \subseteq {client} \cup Owned
        /\ \A c, d \in live : c = d

\* Once the teardown of idle standby is over, standby means that no link is
\* held, whatever connects, drops and other teardowns ran meanwhile.
StandbyHoldsNoLink ==
    orphans = {} /\ idle /\ ~standbyPending => live = {}

-----------------------------------------------------------------------------
(* Liveness.  The loop resumes every coroutine whose await is over and runs *)
(* every queued callback; Home Assistant polls for ever; each await has a   *)
(* timeout; a machine in range answers some connect attempt.  The user and  *)
(* the machine owe nothing.                                                 *)

Fairness ==
    /\ \A t \in Tasks \ {StaleDrop, StandbyDrop} :
         /\ WF_vars(ConnectStep(t))
         /\ SF_vars(LinkUp(t))
    /\ \A t \in Switches : WF_vars(SwitchedOff(t))
    /\ WF_vars(StaleDropped)
    /\ WF_vars(StandbyEntered)
    /\ \A t \in Actions : WF_vars(WakeReconnects(t)) /\ WF_vars(ActionStep(t))
    /\ \A c \in Clients : WF_vars(HandleDisconnect(c))
    /\ WF_vars(Poll)
    /\ WF_vars(BackoffElapses)

LiveSpec == Spec /\ Fairness

\* The supervisor never gives up: as long as the link is wanted (no manual
\* disconnect, no standby), one comes up, after any number of refused
\* attempts and drops.
Reconnects == (~manual /\ ~idle) ~> (live # {} \/ manual \/ idle)

\* A teardown of the poll always ends and re-arms its overlap guard, so a
\* later silence or idle period is acted on again.
TeardownsEnd == /\ stalePending ~> ~stalePending
                /\ standbyPending ~> ~standbyPending

\* A link that stays silent while the machine is awake is given up, even
\* with something armed or running.
Wedged == client \in (live \cap mute) \ sleepers
WedgedLinkDropped == Wedged ~> ~Wedged

\* No call of async_connect waits for _connect_lock for ever.
ConnectCallsReturn == \A t \in Switches : task[t].pc = "lock" ~> task[t].pc # "lock"
=============================================================================
