------------------------------ MODULE UnitSync ------------------------------
(***************************************************************************)
(* Display units and water source (coordinator/connection.py): a change in *)
(* Home Assistant's settings is pushed to the machine, a change on the     *)
(* machine's own panel comes back as an 8015 report.  Pushes run from a    *)
(* settings change and from a connect, one at a time under                 *)
(* _unit_push_lock; a connect holds _connect_lock meanwhile.               *)
(*                                                                         *)
(* A step is the code between two awaits.  Options and the coordinator's   *)
(* values change in one step: Home Assistant runs the update listener      *)
(* inside async_update_entry.  Notifications arrive in order, and an ACK   *)
(* that comes at all comes before its timeout.                             *)
(***************************************************************************)
EXTENDS Naturals, Sequences

CONSTANTS
    Keys,        \* the option keys: weight unit, temperature unit, water source
    Rank,        \* _UNIT_PUSH_ORDER: a key's place in a push
    Values,      \* the values an option may have
    Pushes,      \* tasks of _async_push_unit_preferences, one per change
    Supervisor,  \* the task of the poll tick that reconnects
    WakeAttempts,\* _WAKE_RETRY_MAX_ATTEMPTS: sends to a machine that was asleep
    MaxLinks,    \* bound: clients built by async_connect
    MaxPanel     \* bound: changes on the machine's panel

Tasks == Pushes \cup {Supervisor}
NoTask == "none"
NoKey == "none"
NoClient == 0
Clients == 0 .. MaxLinks

ASSUME UnitSyncAssumption ==
    /\ MaxLinks \in Nat /\ MaxPanel \in Nat
    /\ WakeAttempts \in Nat \ {0}
    /\ Rank \in [Keys -> Nat]
    /\ \A j, k \in Keys : Rank[j] = Rank[k] => j = k
    /\ Supervisor \notin Pushes
    /\ NoTask \notin Tasks /\ Values # {}

VARIABLES
    value,    \* _weight_unit, _temp_unit and water_source, and entry.options
    pending,  \* _pending_unit_pushes
    client,   \* self.client
    built,    \* the number of clients built so far
    link,     \* the client whose link is up
    idle,     \* _idle_disconnected
    connect,  \* the holder of _connect_lock
    lock,     \* the holder of _unit_push_lock, then those who wait for it
    task,     \* where each task is
    air,      \* notifications on their way from the machine
    mach,     \* the machine: its own values
    page,     \* the machine: TRUE on a settings page
    panel,    \* the number of changes made on the panel so far
    last,     \* history: who chose a key's value last
    givenUp   \* history: keys whose push was abandoned without an ACK

session == <<client, built, link, idle, connect>>
machine == <<mach, page, panel>>
history == <<last, givenUp>>
vars == <<value, pending, session, lock, task, air, machine, history>>

(* ready:   created, or started by the poll tick                           *)
(* dial:    async_connect waits for _connect_lock                          *)
(* linking: async_connect in client.connect                                *)
(* linked:  the link is up, the rest of the connect is to come             *)
(* queue:   _apply_unit_preferences waits for _unit_push_lock              *)
(* loop:    holds it, between two keys                                     *)
(* wait:    in send_and_wait                                               *)
(* home:    about to send 8022                                             *)
(* closing: the end of async_connect                                       *)
PC == {"new", "ready", "dial", "linking", "linked", "queue", "loop", "wait",
       "home", "closing", "done"}

TaskState == [pc : PC, client : Clients, todo : SUBSET Keys,
              key : Keys \cup {NoKey}, payload : Values, tries : Nat,
              acked : BOOLEAN, sent : BOOLEAN]

Ack(t) == [kind |-> "ack", task |-> t]
Report(v) == [kind |-> "report", value |-> v]

TypeOK ==
    /\ value \in [Keys -> Values] /\ mach \in [Keys -> Values]
    /\ pending \subseteq Keys /\ givenUp \subseteq Keys
    /\ client \in Clients /\ built \in Clients /\ link \in Clients
    /\ idle \in BOOLEAN /\ page \in BOOLEAN
    /\ connect \in Tasks \cup {NoTask}
    /\ lock \in Seq(Tasks)
    /\ task \in [Tasks -> TaskState]
    /\ air \in Seq([kind : {"ack"}, task : Tasks]
                   \cup [kind : {"report"}, value : [Keys -> Values]])
    /\ panel \in 0 .. MaxPanel
    /\ last \in [Keys -> {"user", "panel"}]

InitialValues == CHOOSE v \in [Keys -> Values] : TRUE

NewTask == [pc |-> "new", client |-> NoClient, todo |-> {}, key |-> NoKey,
            payload |-> CHOOSE v \in Values : TRUE, tries |-> 0,
            acked |-> FALSE, sent |-> FALSE]

Init ==
    /\ value = InitialValues /\ mach = InitialValues
    /\ pending = {} /\ givenUp = {}
    /\ client = NoClient /\ built = 0 /\ link = NoClient /\ idle = FALSE
    /\ connect = NoTask /\ lock = << >>
    /\ task = [t \in Tasks |-> NewTask]
    /\ air = << >> /\ page = FALSE /\ panel = 0
    /\ last = [k \in Keys |-> "panel"]

At(t, pc) == task[t].pc = pc
Goes(t, pc) == task' = [task EXCEPT ![t].pc = pc]
Ends(t) == task' = [task EXCEPT ![t] = [NewTask EXCEPT !.pc = "done"]]
Up == link # NoClient /\ client = link

-----------------------------------------------------------------------------
(* The settings and the panel *)

\* _handle_unit_options_change: the changed keys are queued and a push is
\* started; options equal to the current values are an echo.
ChangeOptions(t) ==
    /\ At(t, "new")
    /\ \E v \in [Keys -> Values] :
         LET changed == {k \in Keys : v[k] # value[k]} IN
         /\ changed # {}
         /\ value' = v
         /\ pending' = pending \cup changed
         /\ last' = [k \in Keys |-> IF k \in changed THEN "user" ELSE last[k]]
         /\ givenUp' = givenUp \ changed
    /\ Goes(t, "ready")
    /\ UNCHANGED <<session, lock, air, machine>>

\* A tap on the panel; with the link up the machine reports it.
TapPanel ==
    /\ panel < MaxPanel
    /\ panel' = panel + 1
    /\ \E k \in Keys, x \in Values :
         /\ x # mach[k]
         /\ mach' = [mach EXCEPT ![k] = x]
         /\ last' = [last EXCEPT ![k] = "panel"]
    /\ air' = IF link = NoClient THEN air ELSE Append(air, Report(mach'))
    /\ UNCHANGED <<value, pending, session, lock, task, page, givenUp>>

\* Variant: the report is adopted whatever is still to be delivered.
AdoptAll(v) == v

\* _async_sync_units_from_machine: the machine wins, but for a key with a push
\* of its own outstanding.
Adopt(v) == [k \in Keys |-> IF k \in pending THEN value[k] ELSE v[k]]

\* A notification: a report, or the ACK of a send that still waits
\* (_resolve_pending_acks).
Notified ==
    /\ air # << >>
    /\ LET n == Head(air) IN
         \/ /\ n.kind = "report"
            /\ value' = Adopt(n.value)
            /\ UNCHANGED task
         \/ /\ n.kind = "ack"
            /\ task' = [task EXCEPT ![n.task].acked = TRUE]
            /\ UNCHANGED value
    /\ air' = Tail(air)
    /\ UNCHANGED <<pending, session, lock, machine, history>>

-----------------------------------------------------------------------------
(* The link *)

\* _handle_unexpected_disconnect
Drop ==
    /\ link # NoClient
    /\ link' = NoClient /\ client' = NoClient
    /\ air' = << >>
    /\ UNCHANGED <<value, pending, built, idle, connect, lock, task, machine, history>>

\* Idle standby, long after the last action.
Standby ==
    /\ Up
    /\ connect = NoTask
    /\ \A t \in Tasks : task[t].pc \in {"new", "done"}
    /\ link' = NoClient /\ client' = NoClient /\ idle' = TRUE
    /\ air' = << >>
    /\ UNCHANGED <<value, pending, built, connect, lock, task, machine, history>>

\* The poll tick reconnects a link that was lost.
Tick ==
    /\ task[Supervisor].pc \in {"new", "done"}
    /\ ~Up /\ ~idle /\ built < MaxLinks
    /\ Goes(Supervisor, "dial")
    /\ UNCHANGED <<value, pending, session, lock, air, machine, history>>

\* _apply_unit_preferences(c) from its first line to the lock.
Apply(t, c) ==
    /\ lock' = Append(lock, t)
    /\ task' = [task EXCEPT ![t].pc = "queue", ![t].client = c]

\* _async_push_unit_preferences once it is past _async_ensure_connected: with
\* nothing left to push it is over; the client is the one of this moment.
Proceeds(t, c) ==
    \/ pending = {} /\ Ends(t) /\ UNCHANGED lock
    \/ pending # {} /\ Apply(t, c)

\* _async_ensure_connected
EnsureConnected(t) ==
    /\ At(t, "ready")
    /\ \/ ~Up /\ idle /\ Goes(t, "dial") /\ UNCHANGED lock
       \/ (Up \/ ~idle) /\ Proceeds(t, client)
    /\ UNCHANGED <<value, pending, session, air, machine, history>>

\* async_connect returns, with c as self.client, to the task that called it.
Returns(t, c) ==
    \/ t = Supervisor /\ Ends(t) /\ UNCHANGED lock
    \/ t \in Pushes /\ Proceeds(t, c)

\* async_connect takes _connect_lock: connected by now, or a new client.
Dial(t) ==
    /\ At(t, "dial")
    /\ connect = NoTask
    /\ \/ /\ Up
          /\ Returns(t, client)
          /\ UNCHANGED session
       \/ /\ ~Up
          /\ built < MaxLinks
          /\ built' = built + 1 /\ client' = built'
          /\ connect' = t /\ idle' = FALSE
          /\ task' = [task EXCEPT ![t].pc = "linking", ![t].client = built']
          /\ UNCHANGED <<link, lock>>
       \/ /\ ~Up
          /\ built = MaxLinks    \* the bound: the machine is out of reach
          /\ client' = NoClient /\ idle' = FALSE
          /\ Returns(t, NoClient)
          /\ UNCHANGED <<built, link, connect>>
    /\ UNCHANGED <<value, pending, air, machine, history>>

\* client.connect: the link is up, and the handshake makes the machine report.
Linked(t) ==
    /\ At(t, "linking")
    /\ link' = task[t].client
    /\ air' = << Report(mach) >>
    /\ Goes(t, "linked")
    /\ UNCHANGED <<value, pending, client, built, idle, connect, lock, machine, history>>

LinkFails(t) ==
    /\ At(t, "linking")
    /\ client' = NoClient /\ connect' = NoTask
    /\ Returns(t, NoClient)
    /\ UNCHANGED <<value, pending, built, link, idle, air, machine, history>>

\* Variant: a connect leaves the pending changes to the pushes.
PushOnConnectNever(t) ==
    /\ At(t, "linked")
    /\ Goes(t, "closing")
    /\ UNCHANGED <<value, pending, session, lock, air, machine, history>>

\* The connected machine gets what could not reach it before.
PushOnConnect(t) ==
    /\ At(t, "linked")
    /\ \/ pending # {} /\ Apply(t, task[t].client)
       \/ pending = {} /\ Goes(t, "closing") /\ UNCHANGED lock
    /\ UNCHANGED <<value, pending, session, air, machine, history>>

\* The end of async_connect: self.client is restored, whatever became of it.
Connected(t) ==
    /\ At(t, "closing")
    /\ client' = task[t].client /\ connect' = NoTask
    /\ Returns(t, task[t].client)
    /\ UNCHANGED <<value, pending, built, link, idle, air, machine, history>>

-----------------------------------------------------------------------------
(* _apply_unit_preferences *)

Holds(t) == lock # << >> /\ Head(lock) = t

Acquire(t) ==
    /\ At(t, "queue")
    /\ Holds(t)
    /\ task' = [task EXCEPT ![t].pc = "loop", ![t].todo = Keys, ![t].sent = FALSE]
    /\ UNCHANGED <<value, pending, session, lock, air, machine, history>>

\* The lock is left; a connect goes on, a push is over.
Left(t, s) ==
    [NewTask EXCEPT !.pc = IF connect = t THEN "closing" ELSE "done",
                    !.client = IF connect = t THEN s.client ELSE NoClient]

Release(t) ==
    /\ lock' = Tail(lock)
    /\ task' = [task EXCEPT ![t] = Left(t, @)]

\* The machine takes a SET or not; the ACK may be lost on its way.
Deliver(t, k, x) ==
    \/ UNCHANGED <<mach, page, air>>
    \/ /\ mach' = [mach EXCEPT ![k] = x]
       /\ page' = TRUE
       /\ \/ air' = Append(air, Ack(t))
          \/ UNCHANGED air

Alive(t) == task[t].client # NoClient /\ link = task[t].client

\* The next key that is pending, with the value of this moment.
SendKey(t) ==
    /\ At(t, "loop") /\ Alive(t)
    /\ \E k \in task[t].todo \cap pending, n \in {2, WakeAttempts} :
         /\ \A j \in task[t].todo \cap pending : Rank[k] <= Rank[j]
         /\ Deliver(t, k, value[k])
         /\ task' = [task EXCEPT ![t].pc = "wait", ![t].key = k, ![t].tries = n - 1,
                                 ![t].payload = value[k], ![t].acked = FALSE,
                                 ![t].todo = {j \in @ : Rank[j] > Rank[k]}]
    /\ UNCHANGED <<value, pending, session, lock, panel, history>>

\* Variant: the push reconnects and carries on, the lock in its hand.
SendFailsRedials(t) ==
    /\ ~Alive(t)
    /\ At(t, "loop") /\ task[t].todo \cap pending # {}
    /\ Goes(t, "dial")
    /\ UNCHANGED <<value, pending, session, lock, air, machine, history>>

\* The link went away: the key stays pending for the next connect.
SendFails(t) ==
    /\ ~Alive(t)
    /\ \/ At(t, "loop") /\ task[t].todo \cap pending # {}
       \/ At(t, "wait") /\ ~task[t].acked /\ task[t].tries > 0
    /\ Release(t)
    /\ UNCHANGED <<value, pending, session, air, machine, history>>

\* Prompt ACKs: a wait that times out has none on its way.
TimesOut(t) == At(t, "wait") /\ ~task[t].acked /\ \A i \in DOMAIN air : air[i] # Ack(t)

\* _async_send_unit_command: resent on a timeout, once, or twice to a machine
\* that was asleep.
Resend(t) ==
    /\ TimesOut(t) /\ task[t].tries > 0 /\ Alive(t)
    /\ Deliver(t, task[t].key, task[t].payload)
    /\ task' = [task EXCEPT ![t].tries = @ - 1]
    /\ UNCHANGED <<value, pending, session, lock, panel, history>>

\* Variant: what was sent is discarded whatever the setting is by now.
ClearAlways(k, x) == pending \ {k}

\* The key is cleared if the value sent is still the current one.
Clear(k, x) == IF value[k] = x THEN pending \ {k} ELSE pending

\* Acknowledged, or given up on after the last attempt.
KeyDone(t) ==
    /\ \/ At(t, "wait") /\ task[t].acked /\ UNCHANGED givenUp
       \/ /\ TimesOut(t) /\ task[t].tries = 0
          /\ givenUp' = givenUp \cup {task[t].key}
    /\ pending' = Clear(task[t].key, task[t].payload)
    /\ task' = [task EXCEPT ![t].pc = "loop", ![t].sent = TRUE, ![t].key = NoKey,
                            ![t].acked = FALSE, ![t].tries = 0,
                            ![t].payload = NewTask.payload]
    /\ UNCHANGED <<value, session, lock, air, machine, last>>

\* Nothing (more) to send: back to the home screen if anything went out.
LoopEnds(t) ==
    /\ At(t, "loop")
    /\ task[t].todo \cap pending = {}
    /\ \/ task[t].sent /\ Goes(t, "home") /\ UNCHANGED lock
       \/ ~task[t].sent /\ Release(t)
    /\ UNCHANGED <<value, pending, session, air, machine, history>>

\* _async_return_machine_home, best effort.
ReturnHome(t) ==
    /\ At(t, "home")
    /\ page' \in IF Alive(t) THEN {page, FALSE} ELSE {page}
    /\ Release(t)
    /\ UNCHANGED <<value, pending, session, air, mach, panel, history>>

-----------------------------------------------------------------------------

ConnectStep(t) ==
    Dial(t) \/ Linked(t) \/ LinkFails(t) \/ PushOnConnect(t) \/ Connected(t)

ApplyStep(t) ==
    \/ Acquire(t) \/ SendKey(t) \/ SendFails(t) \/ Resend(t) \/ KeyDone(t)
    \/ LoopEnds(t) \/ ReturnHome(t)

TaskStep(t) == ConnectStep(t) \/ ApplyStep(t)

Next ==
    \/ \E t \in Pushes : ChangeOptions(t) \/ EnsureConnected(t)
    \/ \E t \in Tasks : TaskStep(t)
    \/ TapPanel \/ Notified \/ Drop \/ Standby \/ Tick

\* The event loop runs every task and every notification.
Fairness ==
    /\ WF_vars(Notified)
    /\ \A t \in Pushes : WF_vars(EnsureConnected(t))
    /\ \A t \in Tasks : WF_vars(TaskStep(t))

Spec == Init /\ [][Next]_vars /\ Fairness

-----------------------------------------------------------------------------

\* A push that will still look at key k with the current client.
WillPush(t, k) ==
    \/ At(t, "ready")
    \/ At(t, "dial") /\ t \in Pushes
    \/ At(t, "queue") /\ Alive(t)
    \/ task[t].pc \in {"loop", "wait"} /\ Alive(t) /\ k \in task[t].todo
    \/ At(t, "wait") /\ Alive(t) /\ task[t].key = k /\ task[t].payload = value[k]

\* A change that has not reached the machine is never forgotten: while a
\* session is up and no connect is on its way, some push will still send it,
\* also when the key was changed again while its own send waited for the ACK.
NoOrphanChange ==
    Up /\ connect = NoTask =>
        \A k \in pending : \E t \in Tasks : WillPush(t, k)

Quiet == /\ \A t \in Tasks : task[t].pc \in {"new", "done"}
         /\ air = << >>

\* When everything has come to rest, a key the user chose last has the user's
\* value on the machine too, unless the push is still pending or was given up
\* on for want of an ACK.  Two changes cannot break this; a third, back to the
\* value a send still waits for after the panel took it away, can (README.md,
\* section 4), and the same holds for NeverReverted.
ChangeDelivered ==
    Quiet => \A k \in Keys : last[k] = "user" /\ k \notin pending \cup givenUp
                                => mach[k] = value[k]

\* The machine's report never takes back what the user chose in Home Assistant
\* and nobody changed on the panel since, however reports, sends and ACKs cross.
NeverReverted ==
    [][\A k \in Keys : Notified /\ value'[k] # value[k]
                         => last[k] = "panel" \/ k \in givenUp]_vars

\* A pending change gets off the list while the session stays up.
ChangePushed ==
    \A k \in Keys : k \in pending ~> k \notin pending \/ ~Up

\* Every push comes to its end, also one that finds the link down and one that
\* meets a connect: _connect_lock and _unit_push_lock are never held crosswise.
TasksEnd ==
    \A t \in Pushes : At(t, "ready") ~> At(t, "done")
=============================================================================
