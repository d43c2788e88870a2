---------------------------- MODULE UnitSyncProofs --------------------------
(***************************************************************************)
(* Proofs about UnitSync for any keys and values, any number of settings   *)
(* changes, links and taps on the panel: one push at a time talks to the   *)
(* machine, and while a session is up a pending change always has a push   *)
(* that will still look at it; as long as nobody used the panel, changes   *)
(* arrive and are not taken back.                                          *)
(***************************************************************************)
EXTENDS UnitSync, TLAPS

\* A task in send_and_wait has a key.
KeyInv == \A t \in Tasks : At(t, "wait") => task[t].key \in Keys

\* Those who have _unit_push_lock are past the queue, and everybody in line is
\* in _apply_unit_preferences, once.
LockInv ==
    /\ \A i \in 1 .. Len(lock) : task[lock[i]].pc \in {"queue", "loop", "wait", "home"}
    /\ \A i, j \in 1 .. Len(lock) : lock[i] = lock[j] => i = j
    /\ \A t \in Tasks : task[t].pc \in {"loop", "wait", "home"} => Holds(t)

\* A link belongs to self.client and, during a connect, to the connect's own
\* client; from client.connect to its end a connect has _connect_lock.
ConnInv ==
    /\ link # NoClient => client = link
    /\ \A t \in Tasks : task[t].pc \in {"linking", "linked", "closing"} => connect = t
    /\ connect # NoTask =>
         /\ task[connect].pc \in PC \ {"new", "ready", "dial", "done"}
         /\ task[connect].client # NoClient
         /\ At(connect, "linking") => link = NoClient /\ client = task[connect].client
         /\ link # NoClient => link = task[connect].client

\* With a link up, a pending key has a push to come, from the moment on that
\* the connect has looked at the pending keys itself.
PushInv ==
    link # NoClient /\ (connect # NoTask => ~At(connect, "linked")) =>
        \A k \in pending : \E t \in Tasks : WillPush(t, k)

\* The inductive invariant.
IInv == TypeOK /\ KeyInv /\ LockInv /\ ConnInv /\ PushInv

\* Every report on its way says x of key k.
Reported(k, x) ==
    \A i \in 1 .. Len(air) : air[i].kind = "report" => air[i].value[k] = x

\* Only a task that waits is acknowledged, for a key that is pending until then;
\* at most one ACK is on its way, and to a task that waits for it on a live link.
AckInv ==
    /\ \A t \in Tasks : task[t].acked => At(t, "wait")
    /\ \A t \in Tasks : At(t, "wait") => task[t].key \in pending
    /\ \A i \in 1 .. Len(air) : air[i].kind = "ack" =>
         At(air[i].task, "wait") /\ ~task[air[i].task].acked /\ Alive(air[i].task)
    /\ \A i, j \in 1 .. Len(air) : air[i].kind = "ack" /\ air[j].kind = "ack" => i = j

\* As long as nobody used the panel: the only report is the handshake's, ahead of
\* any ACK; the machine has what an ACK, received or on its way, is for; and for a
\* key whose change was delivered the machine has, and reports, the user's value.
TakenInv ==
    /\ \A i \in 1 .. Len(air) : air[i].kind = "report" => i = 1
    /\ \A i \in 1 .. Len(air) : air[i].kind = "ack" =>
         mach[task[air[i].task].key] = task[air[i].task].payload
    /\ \A t \in Tasks : task[t].acked =>
         mach[task[t].key] = task[t].payload /\ Reported(task[t].key, task[t].payload)
    /\ \A k \in Keys : last[k] = "user" /\ k \notin pending \cup givenUp =>
         mach[k] = value[k] /\ Reported(k, value[k])

SyncInv == AckInv /\ (panel = 0 => TakenInv)

\* At most one push is between two of its sends: the next one waits in line.
OnePush ==
    \A s, t \in Tasks :
        task[s].pc \in {"loop", "wait", "home"} /\ task[t].pc \in {"loop", "wait", "home"}
            => s = t

-----------------------------------------------------------------------------
(* The building blocks *)

\* A task that has not begun, or is over, is typed.
LEMMA NewTaskType ==
  /\ NewTask \in TaskState /\ NewTask.payload \in Values
  /\ NewTask.pc = "new"
  <1>1. (CHOOSE v \in Values : TRUE) \in Values BY UnitSyncAssumption
  <1>2. 0 \in Clients BY UnitSyncAssumption DEF Clients
  <1> QED BY <1>1, <1>2 DEF NewTask, TaskState, PC, NoClient

\* Joining the line for _unit_push_lock keeps it in order.
LEMMA ApplyKeeps ==
  ASSUME TypeOK, KeyInv, LockInv, NEW t \in Tasks, NEW c \in Clients, Apply(t, c),
         task[t].pc \notin {"queue", "loop", "wait", "home"}
  PROVE  /\ lock' \in Seq(Tasks) /\ task' \in [Tasks -> TaskState]
         /\ KeyInv' /\ LockInv'
  <1>1. lock' \in Seq(Tasks) /\ task' \in [Tasks -> TaskState]
    <2>1. lock' \in Seq(Tasks) BY DEF TypeOK, Apply
    <2>2. task[t] \in TaskState BY DEF TypeOK
    <2>3. [task[t] EXCEPT !.pc = "queue", !.client = c] \in TaskState
      BY <2>2 DEF TaskState, PC
    <2>4. task' = [task EXCEPT ![t] = [task[t] EXCEPT !.pc = "queue", !.client = c]]
      BY DEF TypeOK, Apply
    <2> QED BY <2>1, <2>3, <2>4 DEF TypeOK
  <1>2. KeyInv' BY DEF TypeOK, Apply, KeyInv, At, TaskState
  <1>3. /\ \A i \in 1 .. Len(lock) : lock'[i] = lock[i] /\ lock[i] \in Tasks /\ lock[i] # t
        /\ Len(lock') = Len(lock) + 1 /\ lock'[Len(lock) + 1] = t /\ Len(lock) \in Nat
    BY DEF TypeOK, LockInv, Apply
  <1>4. LockInv'
    <2>1. \A i \in 1 .. Len(lock') : task'[lock'[i]].pc \in {"queue", "loop", "wait", "home"}
      BY <1>3 DEF TypeOK, LockInv, Apply, TaskState
    <2>2. \A i, j \in 1 .. Len(lock') : lock'[i] = lock'[j] => i = j
      BY <1>3 DEF LockInv
    <2>3. ASSUME NEW u \in Tasks, task'[u].pc \in {"loop", "wait", "home"}
          PROVE  Holds(u)'
      <3>1. u # t /\ Holds(u) BY <2>3 DEF TypeOK, LockInv, Apply, TaskState
      <3> QED BY <3>1, <1>3 DEF Holds, Apply, TypeOK
    <2> QED BY <2>1, <2>2, <2>3 DEF LockInv
  <1> QED BY <1>1, <1>2, <1>4

\* Leaving _unit_push_lock passes it on to the next in line.
LEMMA ReleaseKeeps ==
  ASSUME TypeOK, KeyInv, LockInv, NEW t \in Tasks, Release(t),
         task[t].pc \in {"loop", "wait", "home"}
  PROVE  /\ lock' \in Seq(Tasks) /\ task' \in [Tasks -> TaskState]
         /\ KeyInv' /\ LockInv'
  <1>1. Left(t, task[t]) \in TaskState /\ Left(t, task[t]).pc \in {"closing", "done"}
    <2>1. task[t].client \in Clients /\ NoClient \in Clients
      BY UnitSyncAssumption DEF TypeOK, TaskState, Clients, NoClient
    <2>2. ASSUME NEW pc \in PC, NEW c \in Clients
          PROVE  [NewTask EXCEPT !.pc = pc, !.client = c] \in TaskState
      BY NewTaskType DEF TaskState
    <2>3. CASE connect = t
      <3>1. Left(t, task[t]) = [NewTask EXCEPT !.pc = "closing", !.client = task[t].client]
        BY <2>3 DEF Left
      <3>2. "closing" \in PC BY DEF PC
      <3> QED BY <3>1, <3>2, <2>1, <2>2, NewTaskType DEF TaskState
    <2>4. CASE connect # t
      <3>1. Left(t, task[t]) = [NewTask EXCEPT !.pc = "done", !.client = NoClient]
        BY <2>4 DEF Left
      <3>2. "done" \in PC BY DEF PC
      <3> QED BY <3>1, <3>2, <2>1, <2>2, NewTaskType DEF TaskState
    <2> QED BY <2>3, <2>4
  <1>2. /\ task' = [task EXCEPT ![t] = Left(t, task[t])]
        /\ lock' = Tail(lock) /\ Holds(t)
    BY DEF Release, LockInv
  <1> HIDE DEF Release, Left
  <1>3. lock' \in Seq(Tasks) /\ task' \in [Tasks -> TaskState]
    BY <1>1, <1>2 DEF TypeOK, Holds
  <1>4. KeyInv' BY <1>1, <1>2 DEF TypeOK, KeyInv, At
  <1>5. /\ Len(lock') = Len(lock) - 1 /\ Len(lock) \in Nat /\ Len(lock) # 0
        /\ lock[1] = t /\ \A i \in 1 .. Len(lock') : lock'[i] = lock[i + 1]
    BY <1>2 DEF TypeOK, Holds
  <1>6. \A i \in 1 .. Len(lock') : lock'[i] \in Tasks /\ lock'[i] # t
    <2> TAKE i \in 1 .. Len(lock')
    <2>1. i + 1 \in 1 .. Len(lock) /\ 1 \in 1 .. Len(lock) /\ i + 1 # 1 BY <1>5
    <2>2. lock'[i] = lock[i + 1] BY <1>5
    <2>3. lock[i + 1] \in Tasks BY <2>1 DEF TypeOK
    <2>4. lock[i + 1] # lock[1] BY <2>1 DEF LockInv
    <2> QED BY <1>5, <2>2, <2>3, <2>4
  <1>7. LockInv'
    <2>1. \A i \in 1 .. Len(lock') : task'[lock'[i]].pc \in {"queue", "loop", "wait", "home"}
      BY <1>2, <1>5, <1>6 DEF TypeOK, LockInv
    <2>2. \A i, j \in 1 .. Len(lock') : lock'[i] = lock'[j] => i = j
      BY SMTT(30), <1>5 DEF LockInv
    <2>3. ASSUME NEW u \in Tasks, task'[u].pc \in {"loop", "wait", "home"}
          PROVE  FALSE
      <3>1. u # t BY <2>3, <1>1, <1>2 DEF TypeOK
      <3>2. Holds(u) BY <2>3, <3>1, <1>2 DEF TypeOK, LockInv
      <3> QED BY <3>1, <3>2, <1>2 DEF Holds
    <2> QED BY <2>1, <2>2, <2>3 DEF LockInv
  <1> QED BY <1>3, <1>4, <1>7

\* A step that leaves the line alone and puts no task into it or out of it.
LEMMA LineKept ==
  ASSUME TypeOK, LockInv, lock' = lock, task' \in [Tasks -> TaskState],
         \A t \in Tasks :
            \/ task'[t].pc = task[t].pc
            \/ /\ task[t].pc \notin {"queue", "loop", "wait", "home"}
               /\ task'[t].pc \notin {"queue", "loop", "wait", "home"}
            \/ /\ task[t].pc \in {"queue", "loop", "wait", "home"} /\ Holds(t)
               /\ task'[t].pc \in {"queue", "loop", "wait", "home"}
  PROVE  LockInv'
  BY DEF TypeOK, LockInv, Holds

\* Where a release leaves its task: a connect goes on with its client.
LEMMA ReleaseLeaves ==
  ASSUME TypeOK, NEW t \in Tasks, Release(t)
  PROVE  /\ \A u \in Tasks : u # t => task'[u] = task[u]
         /\ connect = t => task'[t].pc = "closing" /\ task'[t].client = task[t].client
         /\ connect # t => task'[t].pc = "done"
  <1>1. task' = [task EXCEPT ![t] = Left(t, task[t])] BY DEF Release
  <1>2. task'[t] = Left(t, task[t]) /\ \A u \in Tasks : u # t => task'[u] = task[u]
    BY <1>1 DEF TypeOK
  <1>3. Left(t, task[t]) = [NewTask EXCEPT !.pc = IF connect = t THEN "closing" ELSE "done",
                             !.client = IF connect = t THEN task[t].client ELSE NoClient]
    BY DEF Left
  <1> QED BY <1>2, <1>3, NewTaskType DEF TaskState

\* A task that is over.
LEMMA EndsKeeps ==
  ASSUME TypeOK, KeyInv, LockInv, NEW t \in Tasks, Ends(t), UNCHANGED lock,
         task[t].pc \notin {"queue", "loop", "wait", "home"}
  PROVE  /\ task' \in [Tasks -> TaskState] /\ KeyInv' /\ LockInv'
         /\ \A u \in Tasks : u # t => task'[u] = task[u]
         /\ task'[t].pc = "done"
  <1>1. [NewTask EXCEPT !.pc = "done"] \in TaskState /\ [NewTask EXCEPT !.pc = "done"].pc = "done"
    BY NewTaskType DEF TaskState, PC
  <1>2. task' \in [Tasks -> TaskState] BY <1>1 DEF Ends, TypeOK
  <1>3. task'[t].pc = "done" /\ \A u \in Tasks : u # t => task'[u] = task[u]
    BY <1>1 DEF Ends, TypeOK
  <1>4. KeyInv' BY <1>3 DEF KeyInv, At
  <1>5. LockInv' BY <1>2, <1>3, LineKept
  <1> QED BY <1>2, <1>3, <1>4, <1>5

\* A step that only moves a task that is not in line, to where it is not either.
LEMMA GoesKeeps ==
  ASSUME TypeOK, KeyInv, LockInv, NEW t \in Tasks, UNCHANGED lock,
         NEW pc \in PC \ {"queue", "loop", "wait", "home"}, Goes(t, pc),
         task[t].pc \notin {"queue", "loop", "wait", "home"}
  PROVE  /\ task' \in [Tasks -> TaskState] /\ KeyInv' /\ LockInv'
         /\ \A u \in Tasks : u # t => task'[u] = task[u]
         /\ task'[t].pc = pc /\ task'[t].client = task[t].client
  <1>1. task' \in [Tasks -> TaskState] BY ZenonT(60) DEF Goes, TypeOK, TaskState
  <1>2. /\ task'[t].pc = pc /\ task'[t].client = task[t].client
        /\ \A u \in Tasks : u # t => task'[u] = task[u]
    BY DEF Goes, TypeOK, TaskState
  <1>3. KeyInv' BY <1>2 DEF KeyInv, At
  <1>4. LockInv' BY <1>1, <1>2, LineKept
  <1> QED BY <1>1, <1>2, <1>3, <1>4

\* What becomes of a push that is past _async_ensure_connected.
LEMMA ProceedsKeeps ==
  ASSUME TypeOK, KeyInv, LockInv, NEW t \in Tasks, NEW c \in Clients, Proceeds(t, c),
         task[t].pc \notin {"queue", "loop", "wait", "home"}
  PROVE  /\ lock' \in Seq(Tasks) /\ task' \in [Tasks -> TaskState] /\ KeyInv' /\ LockInv'
         /\ \A u \in Tasks : u # t => task'[u] = task[u]
         /\ \/ pending = {} /\ task'[t].pc = "done"
            \/ task'[t].pc = "queue" /\ task'[t].client = c
  <1>1. CASE pending = {} /\ Ends(t) /\ UNCHANGED lock
    BY <1>1, EndsKeeps DEF TypeOK
  <1>2. CASE pending # {} /\ Apply(t, c)
    <2>1. /\ task'[t].pc = "queue" /\ task'[t].client = c
          /\ \A u \in Tasks : u # t => task'[u] = task[u]
      BY <1>2 DEF Apply, TypeOK, TaskState
    <2> QED BY <1>2, <2>1, ApplyKeeps
  <1> QED BY <1>1, <1>2 DEF Proceeds

\* The same for a connect that is over.
LEMMA ReturnsKeeps ==
  ASSUME TypeOK, KeyInv, LockInv, NEW t \in Tasks, NEW c \in Clients, Returns(t, c),
         task[t].pc \notin {"queue", "loop", "wait", "home"}
  PROVE  /\ lock' \in Seq(Tasks) /\ task' \in [Tasks -> TaskState] /\ KeyInv' /\ LockInv'
         /\ \A u \in Tasks : u # t => task'[u] = task[u]
         /\ \/ (t \in Pushes => pending = {}) /\ task'[t].pc = "done"
            \/ task'[t].pc = "queue" /\ task'[t].client = c
  <1>1. CASE t = Supervisor /\ Ends(t) /\ UNCHANGED lock
    BY <1>1, EndsKeeps, UnitSyncAssumption DEF TypeOK
  <1>2. CASE t \in Pushes /\ Proceeds(t, c) BY <1>2, ProceedsKeeps
  <1> QED BY <1>1, <1>2 DEF Returns

\* A push stays a push to come through the steps of the others.
LEMMA WitnessKept ==
  ASSUME link' = link, NEW u \in Tasks, NEW k \in Keys, task'[u] = task[u],
         value'[k] = value[k], WillPush(u, k)
  PROVE  WillPush(u, k)'
  BY DEF WillPush, At, Alive

\* A task that is new, over, in a connect or on its way home is no push to come.
LEMMA NoWitness ==
  ASSUME NEW t \in Tasks, NEW k \in Keys, WillPush(t, k)
  PROVE  task[t].pc \in {"ready", "dial", "queue", "loop", "wait"}
  BY DEF WillPush, At

\* So PushInv holds after a step in which each witness is still one, or t is.
LEMMA PushKept ==
  ASSUME TypeOK, PushInv, link' = link, NEW t \in Tasks,
         \A u \in Tasks : u # t => task'[u] = task[u],
         connect # NoTask /\ At(connect, "linked")
            => link = NoClient \/ (connect' # NoTask /\ At(connect, "linked")'),
         pending' \subseteq pending,
         \A k \in pending' : value'[k] = value[k],
         \A k \in pending' : link # NoClient /\ WillPush(t, k) => WillPush(t, k)'
  PROVE  PushInv'
  <1> SUFFICES ASSUME link # NoClient, connect # NoTask => ~At(connect, "linked"),
                      NEW k \in pending'
               PROVE  \E u \in Tasks : WillPush(u, k)'
    BY DEF PushInv
  <1>1. PICK u \in Tasks : WillPush(u, k) BY DEF PushInv
  <1>2. k \in Keys BY DEF TypeOK
  <1> QED BY <1>1, <1>2, WitnessKept


-----------------------------------------------------------------------------
(* The steps *)

LEMMA ChangeOptionsKeeps ==
  ASSUME IInv, NEW t \in Pushes, ChangeOptions(t)
  PROVE  IInv'
  <1> USE DEF IInv, session, machine
  <1>1. PICK v \in [Keys -> Values] :
          LET changed == {k \in Keys : v[k] # value[k]} IN
          /\ value' = v
          /\ pending' = pending \cup changed
          /\ last' = [k \in Keys |-> IF k \in changed THEN "user" ELSE last[k]]
          /\ givenUp' = givenUp \ changed
    BY DEF ChangeOptions
  <1>2. t \in Tasks /\ At(t, "new") /\ Goes(t, "ready") /\ UNCHANGED <<session, lock, air, machine>>
    BY DEF ChangeOptions, Tasks
  <1>3. /\ task' \in [Tasks -> TaskState] /\ KeyInv' /\ LockInv'
        /\ \A u \in Tasks : u # t => task'[u] = task[u]
        /\ task'[t].pc = "ready"
    BY <1>2, GoesKeeps DEF PC, At
  <1>4. TypeOK'
    <2>1. last' \in [Keys -> {"user", "panel"}] BY <1>1 DEF TypeOK
    <2> QED BY <1>1, <1>2, <1>3, <2>1 DEF TypeOK
  <1>5. ConnInv' BY <1>2, <1>3 DEF ConnInv, At, TypeOK
  <1>6. PushInv' BY <1>2, <1>3 DEF PushInv, WillPush, At
  <1> QED BY <1>3, <1>4, <1>5, <1>6

LEMMA TapPanelKeeps ==
  ASSUME IInv, TapPanel
  PROVE  IInv'
  <1> USE DEF IInv, session
  <1>1. UNCHANGED <<value, pending, session, lock, task, page, givenUp>> BY DEF TapPanel
  <1>2. TypeOK'
    <2>1. mach' \in [Keys -> Values] /\ last' \in [Keys -> {"user", "panel"}]
      BY DEF TapPanel, TypeOK
    <2>2. panel' \in 0 .. MaxPanel BY UnitSyncAssumption DEF TapPanel, TypeOK
    <2>3. Report(mach') \in [kind : {"report"}, value : [Keys -> Values]]
      BY <2>1 DEF Report
    <2>4. air' = air \/ air' = Append(air, Report(mach')) BY DEF TapPanel
    <2> DEFINE Ntf == [kind : {"ack"}, task : Tasks]
                        \cup [kind : {"report"}, value : [Keys -> Values]]
    <2>5. air \in Seq(Ntf) /\ Report(mach') \in Ntf BY <2>3 DEF TypeOK
    <2>6. air' \in Seq(Ntf)
      <3> HIDE DEF Ntf
      <3> QED BY <2>4, <2>5
    <2> QED BY <1>1, <2>1, <2>2, <2>6 DEF TypeOK
  <1>3. KeyInv' BY <1>1 DEF KeyInv, At
  <1>4. LockInv' BY <1>1 DEF LockInv, Holds
  <1>5. ConnInv' BY <1>1 DEF ConnInv, At
  <1>6. PushInv' BY <1>1 DEF PushInv, WillPush, At, Alive
  <1> QED BY <1>2, <1>3, <1>4, <1>5, <1>6

LEMMA NotifiedKeeps ==
  ASSUME IInv, Notified
  PROVE  IInv'
  <1> USE DEF IInv, session, machine, history
  <1> DEFINE n == Head(air)
             Ntf == [kind : {"ack"}, task : Tasks]
                      \cup [kind : {"report"}, value : [Keys -> Values]]
  <1>1. /\ air # << >> /\ air' = Tail(air)
        /\ UNCHANGED <<pending, session, lock, machine, history>>
    BY DEF Notified
  <1>2. air \in Seq(Ntf) BY DEF TypeOK
  <1>3. n \in Ntf /\ air' \in Seq(Ntf)
    <2> HIDE DEF Ntf
    <2> QED BY <1>1, <1>2
  <1>4. CASE n.kind = "report" /\ value' = Adopt(n.value) /\ UNCHANGED task
    <2>1. n.value \in [Keys -> Values] BY <1>3, <1>4
    <2>2. value' \in [Keys -> Values] /\ \A k \in pending : value'[k] = value[k]
      BY <1>4, <2>1 DEF Adopt, TypeOK
    <2>3. TypeOK' BY <1>1, <1>3, <1>4, <2>2 DEF TypeOK
    <2>4. KeyInv' BY <1>4 DEF KeyInv, At
    <2>5. LockInv' BY <1>1, <1>4 DEF LockInv, Holds
    <2>6. ConnInv' BY <1>1, <1>4 DEF ConnInv, At
    <2>7. PushInv' BY <1>1, <1>4, <2>2 DEF PushInv, WillPush, At, Alive
    <2> QED BY <2>3, <2>4, <2>5, <2>6, <2>7
  <1>5. CASE n.kind = "ack" /\ task' = [task EXCEPT ![n.task].acked = TRUE] /\ UNCHANGED value
    <2>1. n.task \in Tasks BY <1>3, <1>5
    <2>2. task' \in [Tasks -> TaskState] BY ZenonT(60), <1>5, <2>1 DEF TypeOK, TaskState
    <2>3. \A u \in Tasks : /\ task'[u].pc = task[u].pc /\ task'[u].client = task[u].client
                           /\ task'[u].key = task[u].key /\ task'[u].todo = task[u].todo
                           /\ task'[u].payload = task[u].payload
      BY <1>5, <2>1 DEF TypeOK, TaskState
    <2>4. TypeOK' BY <1>1, <1>3, <1>5, <2>2 DEF TypeOK
    <2>5. KeyInv' BY <2>3 DEF KeyInv, At
    <2>6. LockInv' BY <1>1, <2>2, <2>3, LineKept
    <2>7. ConnInv' BY <1>1, <2>3 DEF ConnInv, At, TypeOK
    <2>8. PushInv'
      <3>1. \A u \in Tasks, k \in Keys : WillPush(u, k) => WillPush(u, k)'
        BY <1>1, <1>5, <2>3 DEF WillPush, At, Alive
      <3>2. connect # NoTask => (At(connect, "linked")' <=> At(connect, "linked"))
        BY <1>1, <2>3 DEF At, TypeOK
      <3> QED BY <1>1, <3>1, <3>2 DEF PushInv, TypeOK
    <2> QED BY <2>4, <2>5, <2>6, <2>7, <2>8
  <1> QED BY <1>4, <1>5 DEF Notified

LEMMA LinkGoneKeeps ==
  ASSUME IInv, Drop \/ Standby
  PROVE  IInv'
  <1> USE DEF IInv, machine, history
  <1>1. /\ link' = NoClient /\ client' = NoClient /\ air' = << >> /\ idle' \in BOOLEAN
        /\ UNCHANGED <<value, pending, built, connect, lock, task, machine, history>>
    BY DEF Drop, Standby, TypeOK
  <1>2. TypeOK'
    <2>1. NoClient \in Clients BY UnitSyncAssumption DEF Clients, NoClient
    <2> QED BY <1>1, <2>1 DEF TypeOK
  <1>3. KeyInv' BY <1>1 DEF KeyInv, At
  <1>4. LockInv' BY <1>1 DEF LockInv, Holds
  <1>5. ConnInv' 
    <2>1. link # NoClient BY DEF Drop, Standby, Up
    <2> QED BY <1>1, <2>1 DEF ConnInv, At
  <1>6. PushInv' BY <1>1 DEF PushInv
  <1> QED BY <1>2, <1>3, <1>4, <1>5, <1>6

LEMMA TickKeeps ==
  ASSUME IInv, Tick
  PROVE  IInv'
  <1> USE DEF IInv, session, machine, history
  <1> DEFINE t == Supervisor
  <1>1. /\ t \in Tasks /\ task[t].pc \in {"new", "done"} /\ Goes(t, "dial") /\ ~Up
        /\ UNCHANGED <<value, pending, session, lock, air, machine, history>>
    BY DEF Tick, Tasks
  <1> HIDE DEF t
  <1>2. /\ task' \in [Tasks -> TaskState] /\ KeyInv' /\ LockInv'
        /\ \A u \in Tasks : u # t => task'[u] = task[u]
        /\ task'[t].pc = "dial"
    BY <1>1, GoesKeeps DEF PC
  <1>3. TypeOK' BY <1>1, <1>2 DEF TypeOK
  <1>4. ConnInv' BY <1>1, <1>2 DEF ConnInv, At, TypeOK
  <1>5. PushInv' BY <1>1 DEF PushInv, Up, ConnInv
  <1> QED BY <1>2, <1>3, <1>4, <1>5

LEMMA EnsureConnectedKeeps ==
  ASSUME IInv, NEW t \in Pushes, EnsureConnected(t)
  PROVE  IInv'
  <1> USE DEF IInv, session, machine, history
  <1>1. /\ t \in Tasks /\ At(t, "ready")
        /\ UNCHANGED <<value, pending, session, air, machine, history>>
    BY DEF EnsureConnected, Tasks
  <1>2. CASE ~Up /\ idle /\ Goes(t, "dial") /\ UNCHANGED lock
    <2>1. /\ task' \in [Tasks -> TaskState] /\ KeyInv' /\ LockInv'
          /\ \A u \in Tasks : u # t => task'[u] = task[u]
          /\ task'[t].pc = "dial"
      BY <1>1, <1>2, GoesKeeps DEF PC, At
    <2>2. TypeOK' BY <1>1, <1>2, <2>1 DEF TypeOK
    <2>3. ConnInv' BY <1>1, <2>1 DEF ConnInv, At, TypeOK
    <2>4. PushInv' BY <1>1, <1>2 DEF PushInv, Up, ConnInv
    <2> QED BY <2>1, <2>2, <2>3, <2>4
  <1>3. CASE (Up \/ ~idle) /\ Proceeds(t, client)
    <2>0. client \in Clients BY DEF TypeOK
    <2>1. /\ lock' \in Seq(Tasks) /\ task' \in [Tasks -> TaskState] /\ KeyInv' /\ LockInv'
          /\ \A u \in Tasks : u # t => task'[u] = task[u]
          /\ \/ pending = {} /\ task'[t].pc = "done"
             \/ task'[t].pc = "queue" /\ task'[t].client = client
      BY <1>1, <1>3, <2>0, ProceedsKeeps DEF At
    <2>2. TypeOK' BY <1>1, <1>3, <2>1 DEF TypeOK
    <2>3. ConnInv' BY <1>1, <2>1 DEF ConnInv, At, TypeOK
    <2>4. PushInv' BY <1>1, <2>1 DEF PushInv, ConnInv, WillPush, At, Alive, NoClient
    <2> QED BY <2>1, <2>2, <2>3, <2>4
  <1> QED BY <1>2, <1>3 DEF EnsureConnected

LEMMA DialKeeps ==
  ASSUME IInv, NEW t \in Tasks, Dial(t)
  PROVE  IInv'
  <1> USE DEF IInv, session, machine, history
  <1>1. /\ At(t, "dial") /\ connect = NoTask
        /\ UNCHANGED <<value, pending, air, machine, history>>
    BY DEF Dial
  <1>2. NoTask \notin Tasks /\ NoClient \in Clients
    BY UnitSyncAssumption DEF Clients, NoClient
  <1>3. CASE Up /\ Returns(t, client) /\ UNCHANGED session
    <2>0. client \in Clients BY DEF TypeOK
    <2>1. /\ lock' \in Seq(Tasks) /\ task' \in [Tasks -> TaskState] /\ KeyInv' /\ LockInv'
          /\ \A u \in Tasks : u # t => task'[u] = task[u]
          /\ \/ (t \in Pushes => pending = {}) /\ task'[t].pc = "done"
             \/ task'[t].pc = "queue" /\ task'[t].client = client
      BY <1>1, <1>3, <2>0, ReturnsKeeps DEF At
    <2>2. TypeOK' BY <1>1, <1>3, <2>1 DEF TypeOK
    <2>3. ConnInv' BY <1>1, <1>3, <2>1 DEF ConnInv, At, TypeOK
    <2>4. PushInv'
      <3>1. CASE task'[t].pc = "queue" /\ task'[t].client = client
        BY <1>1, <1>3, <3>1 DEF PushInv, WillPush, At, Alive, Up
      <3>2. CASE (t \in Pushes => pending = {}) /\ task'[t].pc = "done"
        <4>1. \A k \in pending : ~WillPush(t, k) BY <1>1, <3>2 DEF WillPush, At
        <4> QED BY <1>1, <1>3, <2>1, <4>1, PushKept
      <3> QED BY <2>1, <3>1, <3>2
    <2> QED BY <2>1, <2>2, <2>3, <2>4
  <1>4. CASE /\ ~Up /\ built < MaxLinks
             /\ built' = built + 1 /\ client' = built'
             /\ connect' = t /\ idle' = FALSE
             /\ task' = [task EXCEPT ![t].pc = "linking", ![t].client = built']
             /\ UNCHANGED <<link, lock>>
    <2>1. built' \in Clients /\ built' # NoClient
      BY <1>4, UnitSyncAssumption DEF TypeOK, Clients, NoClient
    <2>2. task' \in [Tasks -> TaskState]
      <3>1. [task[t] EXCEPT !.pc = "linking", !.client = built'] \in TaskState
        BY ZenonT(60), <2>1 DEF TypeOK, TaskState, PC
      <3>2. task' = [task EXCEPT ![t] = [task[t] EXCEPT !.pc = "linking", !.client = built']]
        BY <1>4 DEF TypeOK
      <3> QED BY <3>1, <3>2 DEF TypeOK
    <2>3. /\ task'[t].pc = "linking" /\ task'[t].client = built'
          /\ \A u \in Tasks : u # t => task'[u] = task[u]
      BY <1>4 DEF TypeOK, TaskState
    <2>4. TypeOK' BY <1>1, <1>4, <2>1, <2>2 DEF TypeOK
    <2>5. KeyInv' BY <2>3 DEF KeyInv, At
    <2>6. LockInv' BY <1>1, <1>4, <2>2, <2>3, LineKept DEF At
    <2>7. link = NoClient BY <1>4 DEF Up, ConnInv
    <2>8. ConnInv' BY <1>1, <1>2, <1>4, <2>1, <2>3, <2>7 DEF ConnInv, At, PC
    <2>9. PushInv' BY <1>4, <2>7 DEF PushInv
    <2> QED BY <2>4, <2>5, <2>6, <2>8, <2>9
  <1>5. CASE /\ ~Up /\ client' = NoClient /\ idle' = FALSE
             /\ Returns(t, NoClient) /\ UNCHANGED <<built, link, connect>>
    <2>1. /\ lock' \in Seq(Tasks) /\ task' \in [Tasks -> TaskState] /\ KeyInv' /\ LockInv'
          /\ \A u \in Tasks : u # t => task'[u] = task[u]
          /\ task'[t].pc \in {"done", "queue"}
      BY <1>1, <1>2, <1>5, ReturnsKeeps DEF At
    <2>2. TypeOK' BY <1>1, <1>2, <1>5, <2>1 DEF TypeOK
    <2>3. link = NoClient BY <1>5 DEF Up, ConnInv
    <2>4. ConnInv' BY <1>1, <1>5, <2>1, <2>3 DEF ConnInv, At, TypeOK
    <2>5. PushInv' BY <1>5, <2>3 DEF PushInv
    <2> QED BY <2>1, <2>2, <2>4, <2>5
  <1> QED BY <1>3, <1>4, <1>5 DEF Dial

LEMMA LinkedKeeps ==
  ASSUME IInv, NEW t \in Tasks, Linked(t)
  PROVE  IInv'
  <1> USE DEF IInv, machine, history
  <1>1. /\ At(t, "linking") /\ link' = task[t].client /\ air' = << Report(mach) >>
        /\ Goes(t, "linked")
        /\ UNCHANGED <<value, pending, client, built, idle, connect, lock, machine, history>>
    BY DEF Linked
  <1>2. /\ task' \in [Tasks -> TaskState] /\ KeyInv' /\ LockInv'
        /\ \A u \in Tasks : u # t => task'[u] = task[u]
        /\ task'[t].pc = "linked" /\ task'[t].client = task[t].client
    BY <1>1, GoesKeeps DEF PC, At
  <1>3. connect = t /\ connect # NoTask /\ client = task[t].client
    BY <1>1, UnitSyncAssumption DEF ConnInv, At
  <1>4. TypeOK'
    <2> DEFINE Ntf == [kind : {"ack"}, task : Tasks]
                        \cup [kind : {"report"}, value : [Keys -> Values]]
    <2>1. Report(mach) \in Ntf BY DEF TypeOK, Report
    <2>2. air' \in Seq(Ntf)
      <3> HIDE DEF Ntf
      <3> QED BY <1>1, <2>1
    <2>3. link' \in Clients BY <1>1 DEF TypeOK, TaskState
    <2> QED BY <1>1, <1>2, <2>2, <2>3 DEF TypeOK
  <1>5. ConnInv' BY <1>1, <1>2, <1>3 DEF ConnInv, At, PC
  <1>6. PushInv' BY <1>1, <1>2, <1>3 DEF PushInv, At
  <1> QED BY <1>2, <1>4, <1>5, <1>6

LEMMA LinkFailsKeeps ==
  ASSUME IInv, NEW t \in Tasks, LinkFails(t)
  PROVE  IInv'
  <1> USE DEF IInv, machine, history
  <1>1. /\ At(t, "linking") /\ client' = NoClient /\ connect' = NoTask
        /\ Returns(t, NoClient)
        /\ UNCHANGED <<value, pending, built, link, idle, air, machine, history>>
    BY DEF LinkFails
  <1>2. NoClient \in Clients BY UnitSyncAssumption DEF Clients, NoClient
  <1>3. connect = t /\ connect # NoTask /\ link = NoClient
    BY <1>1, UnitSyncAssumption DEF ConnInv, At
  <1>4. /\ lock' \in Seq(Tasks) /\ task' \in [Tasks -> TaskState] /\ KeyInv' /\ LockInv'
        /\ \A u \in Tasks : u # t => task'[u] = task[u]
        /\ task'[t].pc \in {"done", "queue"}
    BY <1>1, <1>2, ReturnsKeeps DEF At
  <1>5. TypeOK' BY <1>1, <1>2, <1>4 DEF TypeOK
  <1>6. ConnInv' BY <1>1, <1>3, <1>4 DEF ConnInv, At
  <1>7. PushInv' BY <1>1, <1>3 DEF PushInv
  <1> QED BY <1>4, <1>5, <1>6, <1>7

LEMMA PushOnConnectKeeps ==
  ASSUME IInv, NEW t \in Tasks, PushOnConnect(t)
  PROVE  IInv'
  <1> USE DEF IInv, session, machine, history
  <1>1. At(t, "linked") /\ UNCHANGED <<value, pending, session, air, machine, history>>
    BY DEF PushOnConnect
  <1>2. /\ connect = t /\ connect # NoTask /\ task[t].client # NoClient
        /\ task[t].client \in Clients
    BY <1>1, UnitSyncAssumption DEF ConnInv, At, TypeOK, TaskState
  <1>3. CASE pending # {} /\ Apply(t, task[t].client)
    <2>1. /\ lock' \in Seq(Tasks) /\ task' \in [Tasks -> TaskState] /\ KeyInv' /\ LockInv'
      BY <1>1, <1>2, <1>3, ApplyKeeps DEF At
    <2>2. /\ task'[t].pc = "queue" /\ task'[t].client = task[t].client
          /\ \A u \in Tasks : u # t => task'[u] = task[u]
      BY <1>3 DEF Apply, TypeOK, TaskState
    <2>3. TypeOK' BY <1>1, <2>1 DEF TypeOK
    <2>4. ConnInv' BY <1>1, <1>2, <2>2 DEF ConnInv, At, PC
    <2>5. PushInv' BY <1>1, <1>2, <2>2 DEF PushInv, ConnInv, WillPush, At, Alive
    <2> QED BY <2>1, <2>3, <2>4, <2>5
  <1>4. CASE pending = {} /\ Goes(t, "closing") /\ UNCHANGED lock
    <2>1. /\ task' \in [Tasks -> TaskState] /\ KeyInv' /\ LockInv'
          /\ \A u \in Tasks : u # t => task'[u] = task[u]
          /\ task'[t].pc = "closing" /\ task'[t].client = task[t].client
      BY <1>1, <1>4, GoesKeeps DEF PC, At
    <2>2. TypeOK' BY <1>1, <1>4, <2>1 DEF TypeOK
    <2>3. ConnInv' BY <1>1, <1>2, <2>1 DEF ConnInv, At, PC
    <2>4. PushInv' BY <1>1, <1>4 DEF PushInv
    <2> QED BY <2>1, <2>2, <2>3, <2>4
  <1> QED BY <1>3, <1>4 DEF PushOnConnect

LEMMA ConnectedKeeps ==
  ASSUME IInv, NEW t \in Tasks, Connected(t)
  PROVE  IInv'
  <1> USE DEF IInv, machine, history
  <1> DEFINE c == task[t].client
  <1>1. /\ At(t, "closing") /\ client' = c /\ connect' = NoTask /\ Returns(t, c)
        /\ UNCHANGED <<value, pending, built, link, idle, air, machine, history>>
    BY DEF Connected
  <1>2. /\ connect = t /\ connect # NoTask /\ c # NoClient /\ c \in Clients
        /\ link # NoClient => link = c
    BY <1>1, UnitSyncAssumption DEF ConnInv, At, TypeOK, TaskState
  <1> HIDE DEF c
  <1>3. /\ lock' \in Seq(Tasks) /\ task' \in [Tasks -> TaskState] /\ KeyInv' /\ LockInv'
        /\ \A u \in Tasks : u # t => task'[u] = task[u]
        /\ \/ (t \in Pushes => pending = {}) /\ task'[t].pc = "done"
           \/ task'[t].pc = "queue" /\ task'[t].client = c
    BY <1>1, <1>2, ReturnsKeeps DEF At
  <1>4. TypeOK' BY <1>1, <1>2, <1>3 DEF TypeOK
  <1>5. ConnInv' BY <1>1, <1>2, <1>3 DEF ConnInv, At
  <1>6. PushInv'
    <2>1. CASE task'[t].pc = "queue" /\ task'[t].client = c
      BY <1>1, <1>2, <2>1 DEF PushInv, WillPush, At, Alive
    <2>2. CASE task'[t].pc = "done"
      <3>1. \A k \in pending : ~WillPush(t, k) BY <1>1 DEF WillPush, At
      <3> QED BY <1>1, <1>2, <1>3, <3>1, PushKept DEF At
    <2> QED BY <1>3, <2>1, <2>2
  <1> QED BY <1>3, <1>4, <1>5, <1>6

\* A step of the one who has the lock that stays with it.
LEMMA HolderKeeps ==
  ASSUME IInv, NEW t \in Tasks, task[t].pc \in {"queue", "loop", "wait", "home"}, Holds(t),
         UNCHANGED lock, UNCHANGED session, task' \in [Tasks -> TaskState],
         \A u \in Tasks : u # t => task'[u] = task[u],
         task'[t].pc \in {"queue", "loop", "wait", "home"},
         task'[t].client = task[t].client,
         task'[t].pc = "wait" => task'[t].key \in Keys
  PROVE  KeyInv' /\ LockInv' /\ ConnInv'
  <1> USE DEF IInv, session
  <1>1. KeyInv' BY DEF KeyInv, At
  <1>2. LockInv' BY LineKept
  <1>3. ConnInv' BY DEF ConnInv, At, PC, TypeOK
  <1> QED BY <1>1, <1>2, <1>3

LEMMA AcquireKeeps ==
  ASSUME IInv, NEW t \in Tasks, Acquire(t)
  PROVE  IInv'
  <1> USE DEF IInv, machine, history
  <1>1. /\ At(t, "queue") /\ Holds(t)
        /\ UNCHANGED <<value, pending, session, lock, air, machine, history>>
    BY DEF Acquire
  <1>2. task' \in [Tasks -> TaskState]
    <2>1. [task[t] EXCEPT !.pc = "loop", !.todo = Keys, !.sent = FALSE] \in TaskState
      BY ZenonT(60) DEF TypeOK, TaskState, PC
    <2>2. task' = [task EXCEPT ![t] = [task[t] EXCEPT !.pc = "loop", !.todo = Keys,
                                                      !.sent = FALSE]]
      BY DEF Acquire, TypeOK
    <2> QED BY <2>1, <2>2 DEF TypeOK
  <1>3. /\ task'[t].pc = "loop" /\ task'[t].todo = Keys /\ task'[t].client = task[t].client
        /\ \A u \in Tasks : u # t => task'[u] = task[u]
    BY DEF Acquire, TypeOK, TaskState
  <1>4. KeyInv' /\ LockInv' /\ ConnInv' BY <1>1, <1>2, <1>3, HolderKeeps DEF At
  <1>5. TypeOK' BY <1>1, <1>2 DEF TypeOK, session
  <1>6. PushInv'
    <2>1. \A k \in pending : WillPush(t, k) => WillPush(t, k)'
      BY <1>1, <1>3 DEF WillPush, At, Alive, TypeOK, session
    <2>2. connect' # NoTask /\ At(connect, "linked") => At(connect, "linked")'
      BY <1>1, <1>3 DEF At, TypeOK, session
    <2> QED BY <1>1, <1>3, <2>1, <2>2, PushKept DEF session
  <1> QED BY <1>4, <1>5, <1>6

\* What a SET does to the machine, or does not.
LEMMA DeliverType ==
  ASSUME TypeOK, NEW t \in Tasks, NEW k \in Keys, NEW x \in Values, Deliver(t, k, x)
  PROVE  /\ mach' \in [Keys -> Values] /\ page' \in BOOLEAN
         /\ air' \in Seq([kind : {"ack"}, task : Tasks]
                         \cup [kind : {"report"}, value : [Keys -> Values]])
  <1>1. mach' \in [Keys -> Values] /\ page' \in BOOLEAN BY DEF Deliver, TypeOK
  <1> DEFINE Ntf == [kind : {"ack"}, task : Tasks]
                      \cup [kind : {"report"}, value : [Keys -> Values]]
  <1>2. Ack(t) \in Ntf /\ air \in Seq(Ntf) BY DEF Ack, TypeOK
  <1>3. air' = air \/ air' = Append(air, Ack(t)) BY DEF Deliver
  <1>4. air' \in Seq(Ntf)
    <2> HIDE DEF Ntf
    <2> QED BY <1>2, <1>3
  <1> QED BY <1>1, <1>4

LEMMA SendKeyKeeps ==
  ASSUME IInv, NEW t \in Tasks, SendKey(t)
  PROVE  IInv'
  <1> USE DEF IInv, machine, history
  <1>1. /\ At(t, "loop") /\ Alive(t)
        /\ UNCHANGED <<value, pending, session, lock, panel, history>>
    BY DEF SendKey
  <1>2. PICK k \in task[t].todo \cap pending, n \in {2, WakeAttempts} :
         /\ \A j \in task[t].todo \cap pending : Rank[k] <= Rank[j]
         /\ Deliver(t, k, value[k])
         /\ task' = [task EXCEPT ![t].pc = "wait", ![t].key = k, ![t].tries = n - 1,
                                 ![t].payload = value[k], ![t].acked = FALSE,
                                 ![t].todo = {j \in @ : Rank[j] > Rank[k]}]
    BY DEF SendKey
  <1>3. k \in Keys /\ value[k] \in Values /\ n - 1 \in Nat
    BY UnitSyncAssumption DEF TypeOK
  <1> DEFINE rest == {j \in task[t].todo : Rank[j] > Rank[k]}
             now == [task[t] EXCEPT !.pc = "wait", !.key = k, !.tries = n - 1,
                                    !.payload = value[k], !.acked = FALSE, !.todo = rest]
  <1>4. task' = [task EXCEPT ![t] = now] BY <1>2 DEF TypeOK, TaskState
  <1>5. rest \subseteq Keys BY DEF TypeOK, TaskState
  <1>6. now \in TaskState
    <2> HIDE DEF rest
    <2> QED BY ZenonT(60), <1>3, <1>5 DEF TypeOK, TaskState, PC
  <1>7. /\ now.pc = "wait" /\ now.key = k /\ now.payload = value[k]
        /\ now.client = task[t].client /\ now.todo = rest
    <2> HIDE DEF rest
    <2> QED BY DEF TypeOK, TaskState
  <1>8. task' \in [Tasks -> TaskState] /\ task'[t] = now
        /\ \A u \in Tasks : u # t => task'[u] = task[u]
    <2> HIDE DEF now
    <2> QED BY <1>4, <1>6 DEF TypeOK
  <1>9. Holds(t) BY <1>1 DEF LockInv, At
  <1> HIDE DEF now
  <1>10. KeyInv' /\ LockInv' /\ ConnInv'
    BY <1>1, <1>3, <1>7, <1>8, <1>9, HolderKeeps DEF At
  <1>11. TypeOK' BY <1>1, <1>2, <1>3, <1>8, DeliverType DEF TypeOK, session
  <1>12. PushInv'
    <2>1. ASSUME NEW j \in pending, WillPush(t, j)
          PROVE  WillPush(t, j)'
      <3>1. j \in task[t].todo BY <1>1, <2>1 DEF WillPush, At
      <3>2. CASE j = k
        BY <1>1, <1>7, <1>8, <3>2 DEF WillPush, At, Alive, session
      <3>3. CASE j # k
        <4>1. j \in Keys /\ Rank[j] \in Nat /\ Rank[k] \in Nat /\ Rank[j] # Rank[k]
          BY <1>3, <3>3, UnitSyncAssumption DEF TypeOK
        <4>2. j \in rest BY <1>2, <3>1, <4>1
        <4> QED BY <1>1, <1>7, <1>8, <4>2 DEF WillPush, At, Alive, session
      <3> QED BY <3>2, <3>3
    <2>2. connect # NoTask /\ At(connect, "linked") => connect' # NoTask /\ At(connect, "linked")'
      BY <1>1, <1>8 DEF At, TypeOK, session
    <2> QED BY <1>1, <1>8, <2>1, <2>2, PushKept DEF session
  <1> QED BY <1>10, <1>11, <1>12

\* Whoever leaves the lock and is no push to come breaks nothing.
LEMMA LeavingKeeps ==
  ASSUME IInv, NEW t \in Tasks, Release(t), task[t].pc \in {"loop", "wait", "home"},
         page' \in BOOLEAN, UNCHANGED <<value, pending, session, air, mach, panel, history>>,
         \A k \in pending : link # NoClient => ~WillPush(t, k)
  PROVE  IInv'
  <1> USE DEF IInv, session, history
  <1>1. lock' \in Seq(Tasks) /\ task' \in [Tasks -> TaskState] /\ KeyInv' /\ LockInv'
    BY ReleaseKeeps
  <1>2. /\ \A u \in Tasks : u # t => task'[u] = task[u]
        /\ connect = t => task'[t].pc = "closing" /\ task'[t].client = task[t].client
        /\ connect # t => task'[t].pc = "done"
    BY ReleaseLeaves
  <1>3. TypeOK' BY <1>1 DEF TypeOK
  <1>4. ConnInv' BY <1>2 DEF ConnInv, At, PC, TypeOK
  <1>5. connect # NoTask /\ At(connect, "linked") => connect' # NoTask /\ At(connect, "linked")'
    BY <1>2 DEF At, TypeOK
  <1>6. PushInv' BY <1>2, <1>5, PushKept
  <1> QED BY <1>1, <1>3, <1>4, <1>6

LEMMA SendFailsKeeps ==
  ASSUME IInv, NEW t \in Tasks, SendFails(t)
  PROVE  IInv'
  <1>1. /\ ~Alive(t) /\ task[t].pc \in {"loop", "wait"} /\ Release(t)
        /\ UNCHANGED <<value, pending, session, air, machine, history>>
    BY DEF SendFails, At
  <1>2. \A k \in pending : ~WillPush(t, k) BY <1>1 DEF WillPush, At
  <1>3. page' \in BOOLEAN BY <1>1 DEF IInv, TypeOK, machine
  <1> QED BY <1>1, <1>2, <1>3, LeavingKeeps DEF machine

LEMMA ReturnHomeKeeps ==
  ASSUME IInv, NEW t \in Tasks, ReturnHome(t)
  PROVE  IInv'
  <1>1. /\ task[t].pc = "home" /\ Release(t)
        /\ UNCHANGED <<value, pending, session, air, mach, panel, history>>
    BY DEF ReturnHome, At
  <1>2. \A k \in pending : ~WillPush(t, k) BY <1>1 DEF WillPush, At
  <1>3. page' \in BOOLEAN BY DEF ReturnHome, IInv, TypeOK
  <1> QED BY <1>1, <1>2, <1>3, LeavingKeeps

LEMMA ResendKeeps ==
  ASSUME IInv, NEW t \in Tasks, Resend(t)
  PROVE  IInv'
  <1> USE DEF IInv, history
  <1>1. /\ At(t, "wait") /\ task[t].tries > 0 /\ task' = [task EXCEPT ![t].tries = @ - 1]
        /\ Deliver(t, task[t].key, task[t].payload)
        /\ UNCHANGED <<value, pending, session, lock, panel, history>>
    BY DEF Resend, TimesOut
  <1>2. task[t].key \in Keys /\ task[t].payload \in Values /\ task[t].tries - 1 \in Nat
    BY <1>1 DEF KeyInv, TypeOK, TaskState
  <1>3. /\ task'[t] = [task[t] EXCEPT !.tries = @ - 1]
        /\ \A u \in Tasks : u # t => task'[u] = task[u]
    BY <1>1 DEF TypeOK
  <1>4. task' \in [Tasks -> TaskState] BY ZenonT(60), <1>1, <1>2 DEF TypeOK, TaskState
  <1>5. /\ task'[t].pc = task[t].pc /\ task'[t].client = task[t].client
        /\ task'[t].key = task[t].key /\ task'[t].payload = task[t].payload
        /\ task'[t].todo = task[t].todo
    BY <1>3 DEF TypeOK, TaskState
  <1>6. Holds(t) BY <1>1 DEF LockInv, At
  <1>7. KeyInv' /\ LockInv' /\ ConnInv'
    BY <1>1, <1>2, <1>3, <1>4, <1>5, <1>6, HolderKeeps DEF At
  <1>8. TypeOK' BY <1>1, <1>2, <1>4, DeliverType DEF TypeOK, session
  <1>9. PushInv'
    <2>1. \A k \in pending : WillPush(t, k) => WillPush(t, k)'
      BY <1>1, <1>5 DEF WillPush, At, Alive, session
    <2>2. connect # NoTask /\ At(connect, "linked") => connect' # NoTask /\ At(connect, "linked")'
      BY <1>1, <1>3, <1>5 DEF At, TypeOK, session
    <2> QED BY <1>1, <1>3, <2>1, <2>2, PushKept DEF session
  <1> QED BY <1>7, <1>8, <1>9

LEMMA KeyDoneKeeps ==
  ASSUME IInv, NEW t \in Tasks, KeyDone(t)
  PROVE  IInv'
  <1> USE DEF IInv, machine
  <1>1. /\ At(t, "wait") /\ pending' = Clear(task[t].key, task[t].payload)
        /\ givenUp' \in {givenUp, givenUp \cup {task[t].key}}
        /\ UNCHANGED <<value, session, lock, air, machine, last>>
    BY DEF KeyDone, TimesOut
  <1> DEFINE now == [task[t] EXCEPT !.pc = "loop", !.sent = TRUE, !.key = NoKey,
                                    !.acked = FALSE, !.tries = 0,
                                    !.payload = NewTask.payload]
  <1>2. task' = [task EXCEPT ![t] = now] BY DEF KeyDone, TypeOK, TaskState
  <1>3. now \in TaskState BY NewTaskType DEF TypeOK, TaskState, PC
  <1>4. now.pc = "loop" /\ now.client = task[t].client /\ now.todo = task[t].todo
    BY DEF TypeOK, TaskState
  <1> HIDE DEF now
  <1>5. task' \in [Tasks -> TaskState] /\ task'[t] = now
        /\ \A u \in Tasks : u # t => task'[u] = task[u]
    BY <1>2, <1>3 DEF TypeOK
  <1>6. Holds(t) BY <1>1 DEF LockInv, At
  <1>7. KeyInv' /\ LockInv' /\ ConnInv'
    BY <1>1, <1>4, <1>5, <1>6, HolderKeeps DEF At
  <1>8. pending' \subseteq pending BY <1>1 DEF Clear
  <1>9. TypeOK'
    <2>1. givenUp' \subseteq Keys BY <1>1 DEF KeyInv, TypeOK
    <2> QED BY <1>1, <1>5, <1>8, <2>1 DEF TypeOK, session
  <1>10. PushInv'
    <2>1. ASSUME NEW k \in pending', WillPush(t, k)
          PROVE  WillPush(t, k)'
      <3>1. ~(task[t].key = k /\ task[t].payload = value[k]) BY <1>1, <2>1 DEF Clear
      <3>2. Alive(t) /\ k \in task[t].todo BY <1>1, <2>1, <3>1 DEF WillPush, At
      <3> QED BY <1>1, <1>4, <1>5, <3>2 DEF WillPush, At, Alive, session
    <2>2. connect # NoTask /\ At(connect, "linked") => connect' # NoTask /\ At(connect, "linked")'
      BY <1>1, <1>5 DEF At, TypeOK, session
    <2> QED BY <1>1, <1>5, <1>8, <2>1, <2>2, PushKept DEF session
  <1> QED BY <1>7, <1>9, <1>10

LEMMA LoopEndsKeeps ==
  ASSUME IInv, NEW t \in Tasks, LoopEnds(t)
  PROVE  IInv'
  <1> USE DEF machine, history
  <1>1. /\ At(t, "loop") /\ task[t].todo \cap pending = {}
        /\ UNCHANGED <<value, pending, session, air, machine, history>>
    BY DEF LoopEnds
  <1>2. \A k \in pending : ~WillPush(t, k) BY <1>1 DEF WillPush, At
  <1>3. CASE ~task[t].sent /\ Release(t)
    <2>1. page' \in BOOLEAN BY <1>1 DEF IInv, TypeOK
    <2> QED BY <1>1, <1>2, <1>3, <2>1, LeavingKeeps DEF At
  <1>4. CASE task[t].sent /\ Goes(t, "home") /\ UNCHANGED lock
    <2> USE DEF IInv
    <2>0. "home" \in PC BY DEF PC
    <2>1. task' \in [Tasks -> TaskState] BY ZenonT(60), <1>4, <2>0 DEF Goes, TypeOK, TaskState
    <2>2. /\ task'[t].pc = "home" /\ task'[t].client = task[t].client
          /\ \A u \in Tasks : u # t => task'[u] = task[u]
      BY <1>4 DEF Goes, TypeOK, TaskState
    <2>3. Holds(t) BY <1>1 DEF LockInv, At
    <2>4. KeyInv' /\ LockInv' /\ ConnInv'
      BY <1>1, <1>4, <2>1, <2>2, <2>3, HolderKeeps DEF At
    <2>5. TypeOK' BY <1>1, <1>4, <2>1 DEF TypeOK, session
    <2>6. connect # NoTask /\ At(connect, "linked") => connect' # NoTask /\ At(connect, "linked")'
      BY <1>1, <2>2 DEF At, TypeOK, session
    <2>7. PushInv' BY <1>1, <1>2, <2>2, <2>6, PushKept DEF session
    <2> QED BY <2>4, <2>5, <2>7
  <1> QED BY <1>3, <1>4 DEF LoopEnds

-----------------------------------------------------------------------------
(* What the machine has of a change *)

\* A step of t that does not lead into a wait.
Moved(t) ==
    /\ \A u \in Tasks : u # t => task'[u] = task[u]
    /\ task'[t].pc # "wait"
    /\ task'[t].acked => task[t].acked

LEMMA GoesMoves ==
  ASSUME TypeOK, NEW t \in Tasks, NEW pc \in PC \ {"wait"}, Goes(t, pc)
  PROVE  Moved(t)
  BY DEF Goes, Moved, TypeOK, TaskState

LEMMA ApplyMoves ==
  ASSUME TypeOK, NEW t \in Tasks, NEW c \in Clients, Apply(t, c)
  PROVE  Moved(t)
  BY DEF Apply, Moved, TypeOK, TaskState

LEMMA EndsMoves ==
  ASSUME TypeOK, NEW t \in Tasks, Ends(t)
  PROVE  Moved(t)
  <1>1. task'[t] = [NewTask EXCEPT !.pc = "done"] /\ \A u \in Tasks : u # t => task'[u] = task[u]
    BY DEF Ends, TypeOK
  <1>2. [NewTask EXCEPT !.pc = "done"].pc = "done" /\ ~[NewTask EXCEPT !.pc = "done"].acked
    BY DEF NewTask
  <1> QED BY <1>1, <1>2 DEF Moved

LEMMA ReleaseMoves ==
  ASSUME TypeOK, NEW t \in Tasks, Release(t)
  PROVE  Moved(t) /\ ~task'[t].acked
  <1>1. task'[t] = Left(t, task[t]) BY DEF Release, TypeOK
  <1>2. ~Left(t, task[t]).acked BY DEF Left, NewTask
  <1>3. /\ \A u \in Tasks : u # t => task'[u] = task[u]
        /\ task'[t].pc \in {"closing", "done"}
    BY ReleaseLeaves
  <1> QED BY <1>1, <1>2, <1>3 DEF Moved

LEMMA ProceedsMoves ==
  ASSUME TypeOK, NEW t \in Tasks, NEW c \in Clients, Proceeds(t, c)
  PROVE  Moved(t)
  BY EndsMoves, ApplyMoves DEF Proceeds

LEMMA ReturnsMoves ==
  ASSUME TypeOK, NEW t \in Tasks, NEW c \in Clients, Returns(t, c)
  PROVE  Moved(t)
  BY EndsMoves, ProceedsMoves DEF Returns

\* A notification is an ACK or a report.
LEMMA AirType ==
  ASSUME TypeOK, NEW i \in 1 .. Len(air)
  PROVE  \/ air[i].kind = "ack" /\ air[i].task \in Tasks /\ air[i] = Ack(air[i].task)
         \/ air[i].kind = "report" /\ air[i].value \in [Keys -> Values]
  <1>1. air[i] \in [kind : {"ack"}, task : Tasks]
                    \cup [kind : {"report"}, value : [Keys -> Values]]
    BY DEF TypeOK
  <1> QED BY <1>1 DEF Ack

\* Only the holder of the lock waits: with t between two sends, or in a wait that
\* timed out, no ACK is on its way.
LEMMA NoAck ==
  ASSUME IInv, AckInv, NEW t \in Tasks, At(t, "loop") \/ At(t, "home") \/ TimesOut(t)
  PROVE  \A i \in 1 .. Len(air) : air[i].kind = "report"
  <1> SUFFICES ASSUME NEW i \in 1 .. Len(air), air[i].kind # "report"
               PROVE  FALSE
    OBVIOUS
  <1>1. air[i].kind = "ack" /\ air[i].task \in Tasks /\ air[i] = Ack(air[i].task)
    BY AirType DEF IInv
  <1>2. At(air[i].task, "wait") BY <1>1 DEF AckInv
  <1>3. Holds(t) /\ Holds(air[i].task) BY <1>1, <1>2 DEF IInv, LockInv, TimesOut, At
  <1>4. air[i].task = t BY <1>3 DEF Holds
  <1>5. air[i] = Ack(t) /\ i \in DOMAIN air BY <1>1, <1>4 DEF IInv, TypeOK
  <1> QED BY <1>2, <1>4, <1>5 DEF At, TimesOut

\* And nobody else waits, or has an ACK.
LEMMA OneWaits ==
  ASSUME IInv, AckInv, NEW t \in Tasks, task[t].pc \in {"loop", "wait", "home"}
  PROVE  \A u \in Tasks : u # t => ~At(u, "wait") /\ ~task[u].acked
  BY DEF IInv, LockInv, Holds, AckInv, At

\* A step that moves a task which has no ACK to come, and nothing else that counts.
LEMMA MovedKeeps ==
  ASSUME IInv, SyncInv, NEW t \in Tasks, Moved(t), ~task'[t].acked,
         \A i \in 1 .. Len(air) : air[i] # Ack(t),
         UNCHANGED <<value, pending, link, air, mach, panel, last, givenUp>>
  PROVE  SyncInv'
  <1>1. \A i \in 1 .. Len(air) : air[i].kind = "ack" => air[i].task \in Tasks \ {t}
    BY AirType DEF IInv
  <1>2. AckInv'
    <2>1. \A u \in Tasks : task'[u].acked => task'[u].pc = "wait"
      BY DEF Moved, SyncInv, AckInv, At
    <2>2. \A u \in Tasks : task'[u].pc = "wait" => task'[u].key \in pending'
      BY DEF Moved, SyncInv, AckInv, At
    <2>3. \A i \in 1 .. Len(air) : air[i].kind = "ack" =>
            /\ task'[air[i].task].pc = "wait" /\ ~task'[air[i].task].acked
            /\ Alive(air[i].task)'
      BY <1>1 DEF Moved, SyncInv, AckInv, At, Alive
    <2> QED BY <2>1, <2>2, <2>3 DEF SyncInv, AckInv, At
  <1>3. ASSUME panel' = 0
        PROVE  TakenInv'
    <2>1. TakenInv BY <1>3 DEF SyncInv
    <2>2. \A i \in 1 .. Len(air) : air[i].kind = "ack" =>
            mach'[task'[air[i].task].key] = task'[air[i].task].payload
      BY <1>1, <2>1 DEF Moved, TakenInv
    <2>3. \A u \in Tasks : task'[u].acked =>
            mach'[task'[u].key] = task'[u].payload /\ Reported(task'[u].key, task'[u].payload)
      BY <2>1 DEF Moved, TakenInv
    <2> QED BY <2>1, <2>2, <2>3 DEF TakenInv, Reported
  <1> QED BY <1>2, <1>3 DEF SyncInv

\* The same for a task outside the lock.
LEMMA OutsideKeeps ==
  ASSUME IInv, SyncInv, NEW t \in Tasks, ~At(t, "wait"), Moved(t),
         UNCHANGED <<value, pending, link, air, mach, panel, last, givenUp>>
  PROVE  SyncInv'
  <1>1. ~task'[t].acked BY DEF Moved, SyncInv, AckInv
  <1>2. \A i \in 1 .. Len(air) : air[i] # Ack(t)
    <2>1. Ack(t).kind = "ack" /\ Ack(t).task = t BY DEF Ack
    <2> QED BY <2>1 DEF SyncInv, AckInv
  <1> QED BY <1>1, <1>2, MovedKeeps

\* A change in the settings makes its keys pending.
LEMMA ChangeOptionsSyncs ==
  ASSUME IInv, SyncInv, NEW t \in Pushes, ChangeOptions(t)
  PROVE  SyncInv'
  <1> USE DEF IInv, session, machine
  <1>1. PICK v \in [Keys -> Values] :
          LET changed == {k \in Keys : v[k] # value[k]} IN
          /\ value' = v
          /\ pending' = pending \cup changed
          /\ last' = [k \in Keys |-> IF k \in changed THEN "user" ELSE last[k]]
          /\ givenUp' = givenUp \ changed
    BY DEF ChangeOptions
  <1>2. t \in Tasks /\ At(t, "new") /\ Goes(t, "ready") /\ UNCHANGED <<link, air, mach, panel>>
    BY DEF ChangeOptions, Tasks
  <1>3. Moved(t) BY <1>2, GoesMoves DEF PC
  <1>4. ~task[t].acked /\ ~task'[t].acked BY <1>2, <1>3 DEF SyncInv, AckInv, At, Moved
  <1>5. \A i \in 1 .. Len(air) : air[i].kind = "ack" => air[i].task \in Tasks \ {t}
    BY <1>2, AirType DEF SyncInv, AckInv, At
  <1>6. AckInv'
    <2>1. \A u \in Tasks : task'[u].acked => task'[u].pc = "wait"
      BY <1>3, <1>4 DEF Moved, SyncInv, AckInv, At
    <2>2. \A u \in Tasks : task'[u].pc = "wait" => task'[u].key \in pending'
      BY <1>1, <1>3 DEF Moved, SyncInv, AckInv, At
    <2>3. \A i \in 1 .. Len(air) : air[i].kind = "ack" =>
            /\ task'[air[i].task].pc = "wait" /\ ~task'[air[i].task].acked
            /\ Alive(air[i].task)'
      BY <1>2, <1>3, <1>5 DEF Moved, SyncInv, AckInv, At, Alive
    <2> QED BY <1>2, <2>1, <2>2, <2>3 DEF SyncInv, AckInv, At
  <1>7. ASSUME panel' = 0
        PROVE  TakenInv'
    <2>1. TakenInv BY <1>2, <1>7 DEF SyncInv
    <2>2. \A i \in 1 .. Len(air) : air[i].kind = "ack" =>
            mach[task'[air[i].task].key] = task'[air[i].task].payload
      BY <1>3, <1>5, <2>1 DEF Moved, TakenInv
    <2>3. \A u \in Tasks : task'[u].acked =>
            mach[task'[u].key] = task'[u].payload /\ Reported(task'[u].key, task'[u].payload)
      BY <1>3, <1>4, <2>1 DEF Moved, TakenInv
    <2>4. ASSUME NEW k \in Keys, last'[k] = "user", k \notin pending' \cup givenUp'
          PROVE  mach[k] = value'[k] /\ Reported(k, value'[k])
      <3>1. value'[k] = value[k] /\ last[k] = "user" /\ k \notin pending \cup givenUp
        BY <1>1, <2>4
      <3> QED BY <2>1, <3>1 DEF TakenInv
    <2> QED BY <1>2, <2>1, <2>2, <2>3, <2>4 DEF TakenInv, Reported
  <1> QED BY <1>6, <1>7 DEF SyncInv

\* A tap on the panel ends the promise, and crosses no ACK.
LEMMA TapPanelSyncs ==
  ASSUME IInv, SyncInv, TapPanel
  PROVE  SyncInv'
  <1> USE DEF IInv, session
  <1>1. UNCHANGED <<pending, link, task>> /\ panel' # 0
    BY DEF TapPanel, TypeOK
  <1>2. CASE air' = air
    BY <1>1, <1>2 DEF SyncInv, AckInv, At, Alive
  <1>3. CASE air' = Append(air, Report(mach'))
    <2>1. /\ Len(air) \in Nat /\ Len(air') = Len(air) + 1 /\ air'[Len(air) + 1] = Report(mach')
          /\ \A i \in 1 .. Len(air) : air'[i] = air[i]
      BY <1>3 DEF TypeOK
    <2>2. Report(mach').kind = "report" BY DEF Report
    <2>3. \A i \in 1 .. Len(air') : air'[i].kind = "ack" => i \in 1 .. Len(air) /\ air'[i] = air[i]
      BY <2>1, <2>2
    <2>4. AckInv' BY <1>1, <2>3 DEF SyncInv, AckInv, At, Alive
    <2> QED BY <1>1, <2>4 DEF SyncInv
  <1> QED BY <1>2, <1>3 DEF TapPanel

\* A report is adopted but for the pending keys; an ACK finds its task.
LEMMA NotifiedSyncs ==
  ASSUME IInv, SyncInv, Notified
  PROVE  SyncInv'
  <1> USE DEF IInv, session, machine, history
  <1>1. /\ air # << >> /\ air' = Tail(air)
        /\ UNCHANGED <<pending, link, mach, panel, last, givenUp>>
    BY DEF Notified
  <1>2. /\ Len(air) \in Nat /\ Len(air) >= 1 /\ Len(air') = Len(air) - 1 /\ Head(air) = air[1]
        /\ \A i \in 1 .. Len(air') : i + 1 \in 1 .. Len(air) /\ air'[i] = air[i + 1]
    BY <1>1 DEF TypeOK
  <1>3. 1 \in 1 .. Len(air) BY <1>2
  <1>4. \A i, j \in 1 .. Len(air') : air'[i].kind = "ack" /\ air'[j].kind = "ack" => i = j
    BY <1>2 DEF SyncInv, AckInv
  <1>5. CASE air[1].kind = "report" /\ value' = Adopt(air[1].value) /\ UNCHANGED task
    <2>1. AckInv'
      <3>1. \A i \in 1 .. Len(air') : air'[i].kind = "ack" =>
              /\ task[air'[i].task].pc = "wait" /\ ~task[air'[i].task].acked
              /\ Alive(air'[i].task)
        BY <1>2 DEF SyncInv, AckInv, At
      <3> QED BY <1>1, <1>4, <1>5, <3>1 DEF SyncInv, AckInv, At, Alive
    <2>2. ASSUME panel' = 0
          PROVE  TakenInv'
      <3>1. TakenInv BY <1>1, <2>2 DEF SyncInv
      <3>2. \A i \in 1 .. Len(air') : air'[i].kind # "report"
        BY <1>2, <3>1 DEF TakenInv
      <3>3. \A i \in 1 .. Len(air') : air'[i].kind = "ack" =>
              mach[task[air'[i].task].key] = task[air'[i].task].payload
        BY <1>2, <3>1 DEF TakenInv
      <3>4. ASSUME NEW k \in Keys, last[k] = "user", k \notin pending \cup givenUp
            PROVE  mach[k] = value'[k]
        <4>1. mach[k] = value[k] /\ air[1].value[k] = value[k]
          BY <1>3, <1>5, <3>1, <3>4 DEF TakenInv, Reported
        <4>2. value'[k] = air[1].value[k] BY <1>5, <3>4 DEF Adopt
        <4> QED BY <4>1, <4>2
      <3> QED BY <1>1, <1>5, <3>1, <3>2, <3>3, <3>4 DEF TakenInv, Reported
    <2> QED BY <2>1, <2>2 DEF SyncInv
  <1>6. CASE /\ air[1].kind = "ack" /\ UNCHANGED value
             /\ task' = [task EXCEPT ![air[1].task].acked = TRUE]
    <2> DEFINE t == air[1].task
    <2>1. t \in Tasks /\ At(t, "wait") /\ Alive(t)
      BY <1>3, <1>6, AirType DEF SyncInv, AckInv
    <2>2. \A i \in 1 .. Len(air') : air'[i].kind # "ack"
      BY <1>2, <1>3, <1>6 DEF SyncInv, AckInv
    <2>3. \A i \in 1 .. Len(air') : air'[i].kind = "report" BY <1>2, <2>2, AirType
    <2>4. /\ task'[t].pc = task[t].pc /\ task'[t].key = task[t].key
          /\ task'[t].payload = task[t].payload
          /\ \A u \in Tasks : u # t => task'[u] = task[u]
      BY <1>6, <2>1 DEF TypeOK, TaskState
    <2>5. AckInv'
      <3>1. \A u \in Tasks : task'[u].acked => task'[u].pc = "wait"
        BY <2>1, <2>4 DEF SyncInv, AckInv, At
      <3>2. \A u \in Tasks : task'[u].pc = "wait" => task'[u].key \in pending
        BY <2>1, <2>4 DEF SyncInv, AckInv, At
      <3> QED BY <1>1, <2>2, <3>1, <3>2 DEF AckInv, At
    <2>6. ASSUME panel' = 0
          PROVE  TakenInv'
      <3>1. TakenInv BY <1>1, <2>6 DEF SyncInv
      <3>2. \A i \in 1 .. Len(air') : air'[i].kind # "report"
        BY <1>2, <3>1 DEF TakenInv
      <3>3. mach[task[t].key] = task[t].payload BY <1>3, <1>6, <3>1 DEF TakenInv
      <3>4. \A u \in Tasks : task'[u].acked => mach[task'[u].key] = task'[u].payload
        BY <2>4, <3>1, <3>3 DEF TakenInv
      <3> QED BY <1>1, <1>6, <2>2, <3>1, <3>2, <3>4 DEF TakenInv, Reported
    <2> QED BY <2>5, <2>6 DEF SyncInv
  <1> QED BY <1>2, <1>5, <1>6 DEF Notified

\* With the link everything on its way is gone; what was acknowledged is not.
LEMMA LinkGoneSyncs ==
  ASSUME IInv, SyncInv, Drop \/ Standby
  PROVE  SyncInv'
  <1>1. air' = << >> /\ UNCHANGED <<value, pending, task, mach, panel, last, givenUp>>
    BY DEF Drop, Standby, machine, history
  <1>2. Len(air') = 0 BY <1>1
  <1>3. AckInv' BY <1>1, <1>2 DEF SyncInv, AckInv, At
  <1>4. TakenInv => TakenInv' BY <1>1, <1>2 DEF TakenInv, Reported
  <1> QED BY <1>1, <1>3, <1>4 DEF SyncInv

\* A new link begins with the report of what the machine has.
LEMMA LinkedSyncs ==
  ASSUME IInv, SyncInv, NEW t \in Tasks, Linked(t)
  PROVE  SyncInv'
  <1> USE DEF IInv, machine, history
  <1>1. /\ At(t, "linking") /\ Goes(t, "linked") /\ air' = << Report(mach) >>
        /\ UNCHANGED <<value, pending, mach, panel, last, givenUp>>
    BY DEF Linked
  <1>2. Moved(t) BY <1>1, GoesMoves DEF PC
  <1>3. ~task'[t].acked BY <1>1, <1>2 DEF SyncInv, AckInv, At, Moved
  <1>4. Len(air') = 1 /\ air'[1] = Report(mach) BY <1>1
  <1>5. Report(mach).kind = "report" /\ Report(mach).value = mach BY DEF Report
  <1>6. \A i \in 1 .. Len(air') : i = 1 /\ air'[i].kind # "ack" /\ air'[i].value = mach
    BY <1>4, <1>5
  <1>7. AckInv'
    <2>1. \A u \in Tasks : task'[u].acked => task'[u].pc = "wait"
      BY <1>2, <1>3 DEF Moved, SyncInv, AckInv, At
    <2>2. \A u \in Tasks : task'[u].pc = "wait" => task'[u].key \in pending
      BY <1>2 DEF Moved, SyncInv, AckInv, At
    <2> QED BY <1>1, <1>6, <2>1, <2>2 DEF AckInv, At
  <1>8. ASSUME panel' = 0
        PROVE  TakenInv'
    <2>1. TakenInv BY <1>1, <1>8 DEF SyncInv
    <2>2. \A u \in Tasks : task'[u].acked => mach[task'[u].key] = task'[u].payload
      BY <1>2, <1>3, <2>1 DEF Moved, TakenInv
    <2> QED BY <1>1, <1>6, <2>1, <2>2 DEF TakenInv, Reported
  <1> QED BY <1>7, <1>8 DEF SyncInv

\* The rest of a connect and of a push outside the lock moves its task only.
LEMMA ConnectSyncs ==
  ASSUME IInv, SyncInv, NEW t \in Tasks,
         \/ Dial(t) \/ LinkFails(t) \/ PushOnConnect(t) \/ Connected(t)
         \/ EnsureConnected(t) \/ (Tick /\ t = Supervisor)
  PROVE  SyncInv'
  <1> USE DEF IInv, session, machine, history
  <1>1. UNCHANGED <<value, pending, link, air, mach, panel, last, givenUp>>
    BY DEF Dial, LinkFails, PushOnConnect, Connected, EnsureConnected, Tick
  <1>2. ~At(t, "wait")
    BY DEF At, Dial, LinkFails, PushOnConnect, Connected, EnsureConnected, Tick
  <1>3. /\ NoClient \in Clients /\ client \in Clients /\ task[t].client \in Clients
        /\ built + 1 \in Clients \/ built = MaxLinks
    BY UnitSyncAssumption DEF TypeOK, TaskState, Clients, NoClient
  <1>4. Moved(t)
    <2>1. CASE Dial(t)
      <3>1. CASE \E c \in Clients : Returns(t, c) BY <3>1, ReturnsMoves
      <3>2. CASE task' = [task EXCEPT ![t].pc = "linking", ![t].client = built']
        BY <3>2 DEF Moved, TypeOK, TaskState
      <3> QED BY <1>3, <2>1, <3>1, <3>2 DEF Dial
    <2>2. CASE LinkFails(t) BY <1>3, <2>2, ReturnsMoves DEF LinkFails
    <2>3. CASE PushOnConnect(t)
      BY <1>3, <2>3, ApplyMoves, GoesMoves DEF PushOnConnect, PC
    <2>4. CASE Connected(t) BY <1>3, <2>4, ReturnsMoves DEF Connected
    <2>5. CASE EnsureConnected(t)
      BY <1>3, <2>5, ProceedsMoves, GoesMoves DEF EnsureConnected, PC
    <2>6. CASE Tick /\ t = Supervisor BY <2>6, GoesMoves DEF Tick, PC
    <2> QED BY <2>1, <2>2, <2>3, <2>4, <2>5, <2>6
  <1> QED BY <1>1, <1>2, <1>4, OutsideKeeps

\* So do the steps of the holder of the lock between its sends; a push that fails
\* for want of a link has no ACK on its way.
LEMMA HolderSyncs ==
  ASSUME IInv, SyncInv, NEW t \in Tasks,
         Acquire(t) \/ SendFails(t) \/ LoopEnds(t) \/ ReturnHome(t)
  PROVE  SyncInv'
  <1> USE DEF IInv, session, machine, history
  <1>1. UNCHANGED <<value, pending, link, air, mach, panel, last, givenUp>>
    BY DEF Acquire, SendFails, LoopEnds, ReturnHome
  <1>2. CASE Acquire(t)
    <2>1. Moved(t) BY <1>2 DEF Acquire, Moved, TypeOK, TaskState
    <2>2. ~At(t, "wait") BY <1>2 DEF Acquire, At
    <2> QED BY <1>1, <2>1, <2>2, OutsideKeeps
  <1>3. CASE LoopEnds(t)
    <2>1. Moved(t) BY <1>3, GoesMoves, ReleaseMoves DEF LoopEnds, PC
    <2>2. ~At(t, "wait") BY <1>3 DEF LoopEnds, At
    <2> QED BY <1>1, <2>1, <2>2, OutsideKeeps
  <1>4. CASE ReturnHome(t)
    <2>1. Moved(t) BY <1>4, ReleaseMoves DEF ReturnHome
    <2>2. ~At(t, "wait") BY <1>4 DEF ReturnHome, At
    <2> QED BY <1>1, <2>1, <2>2, OutsideKeeps
  <1>5. CASE SendFails(t)
    <2>1. Moved(t) /\ ~task'[t].acked BY <1>5, ReleaseMoves DEF SendFails
    <2>2. \A i \in 1 .. Len(air) : air[i] # Ack(t)
      <3>1. Ack(t).kind = "ack" /\ Ack(t).task = t BY DEF Ack
      <3> QED BY <1>5, <3>1 DEF SyncInv, AckInv, SendFails
    <2> QED BY <1>1, <2>1, <2>2, MovedKeeps
  <1> QED BY <1>2, <1>3, <1>4, <1>5

\* A SET of a pending key, by the only task that waits: an ACK on its way says
\* that the machine took it.
LEMMA SentKeeps ==
  ASSUME IInv, SyncInv, NEW t \in Tasks, NEW k \in pending, NEW x \in Values,
         task[t].pc \in {"loop", "wait"}, Alive(t),
         \A i \in 1 .. Len(air) : air[i].kind = "report",
         Deliver(t, k, x),
         task'[t].pc = "wait", task'[t].key = k, task'[t].payload = x, ~task'[t].acked,
         task'[t].client = task[t].client,
         \A u \in Tasks : u # t => task'[u] = task[u],
         UNCHANGED <<value, pending, link, panel, last, givenUp>>
  PROVE  SyncInv'
  <1> USE DEF IInv
  <1>1. \A u \in Tasks : ~task'[u].acked /\ (u # t => task'[u].pc # "wait")
    BY OneWaits DEF SyncInv, At
  <1>2. Ack(t).kind = "ack" /\ Ack(t).task = t BY DEF Ack
  <1>3. k \in Keys /\ \A j \in Keys : j # k => mach'[j] = mach[j]
    BY DEF Deliver, TypeOK
  <1>4. Alive(t)' BY DEF Alive
  <1>5. CASE air' = air
    <2>1. AckInv' BY <1>1, <1>5 DEF AckInv, At
    <2>2. TakenInv => TakenInv'
      <3>1. SUFFICES ASSUME TakenInv PROVE TakenInv' OBVIOUS
      <3>2. \A j \in Keys : last'[j] = "user" /\ j \notin pending' \cup givenUp' =>
              /\ mach'[j] = value'[j]
              /\ \A i \in 1 .. Len(air') : air'[i].kind = "report" => air'[i].value[j] = value'[j]
        BY <1>3, <1>5, <3>1 DEF TakenInv, Reported
      <3> QED BY <1>1, <1>5, <3>1, <3>2 DEF TakenInv, Reported
    <2> QED BY <2>1, <2>2 DEF SyncInv
  <1>6. CASE air' = Append(air, Ack(t)) /\ mach' = [mach EXCEPT ![k] = x]
    <2>1. /\ Len(air) \in Nat /\ Len(air') = Len(air) + 1 /\ air'[Len(air) + 1] = Ack(t)
          /\ \A i \in 1 .. Len(air) : air'[i] = air[i]
      BY <1>6 DEF TypeOK
    <2>2. \A i \in 1 .. Len(air') : air'[i].kind = "ack" => i = Len(air) + 1 /\ air'[i].task = t
      BY <1>2, <2>1
    <2>3. \A i \in 1 .. Len(air') : air'[i].kind = "report" =>
            i \in 1 .. Len(air) /\ air'[i] = air[i]
      BY <1>2, <2>1
    <2>4. AckInv' BY <1>1, <1>4, <2>2 DEF AckInv, At
    <2>5. mach'[k] = x BY <1>3, <1>6 DEF TypeOK
    <2>6. TakenInv => TakenInv'
      <3>1. SUFFICES ASSUME TakenInv PROVE TakenInv' OBVIOUS
      <3>2. \A j \in Keys : last'[j] = "user" /\ j \notin pending' \cup givenUp' =>
              /\ mach'[j] = value'[j]
              /\ \A i \in 1 .. Len(air') : air'[i].kind = "report" => air'[i].value[j] = value'[j]
        BY <1>3, <2>3, <3>1 DEF TakenInv, Reported
      <3>3. \A i \in 1 .. Len(air') : air'[i].kind = "report" => i = 1
        BY <2>3, <3>1 DEF TakenInv
      <3>4. \A i \in 1 .. Len(air') : air'[i].kind = "ack" =>
              mach'[task'[air'[i].task].key] = task'[air'[i].task].payload
        BY <2>2, <2>5
      <3> QED BY <1>1, <3>2, <3>3, <3>4 DEF TakenInv, Reported
    <2> QED BY <2>4, <2>6 DEF SyncInv
  <1> QED BY <1>5, <1>6 DEF Deliver

LEMMA SendKeySyncs ==
  ASSUME IInv, SyncInv, NEW t \in Tasks, SendKey(t)
  PROVE  SyncInv'
  <1> USE DEF session, history
  <1>1. /\ At(t, "loop") /\ Alive(t)
        /\ UNCHANGED <<value, pending, link, panel, last, givenUp>>
    BY DEF SendKey
  <1>2. PICK k \in task[t].todo \cap pending, n \in {2, WakeAttempts} :
         /\ Deliver(t, k, value[k])
         /\ task' = [task EXCEPT ![t].pc = "wait", ![t].key = k, ![t].tries = n - 1,
                                 ![t].payload = value[k], ![t].acked = FALSE,
                                 ![t].todo = {j \in @ : Rank[j] > Rank[k]}]
    BY DEF SendKey
  <1>3. k \in pending /\ value[k] \in Values BY DEF IInv, TypeOK
  <1>4. /\ task'[t].pc = "wait" /\ task'[t].key = k /\ task'[t].payload = value[k]
        /\ ~task'[t].acked /\ task'[t].client = task[t].client
        /\ \A u \in Tasks : u # t => task'[u] = task[u]
    BY <1>2 DEF IInv, TypeOK, TaskState
  <1>5. \A i \in 1 .. Len(air) : air[i].kind = "report" BY <1>1, NoAck DEF SyncInv
  <1> QED BY <1>1, <1>2, <1>3, <1>4, <1>5, SentKeeps DEF At

LEMMA ResendSyncs ==
  ASSUME IInv, SyncInv, NEW t \in Tasks, Resend(t)
  PROVE  SyncInv'
  <1> USE DEF IInv, session, history
  <1>1. /\ TimesOut(t) /\ At(t, "wait") /\ ~task[t].acked /\ Alive(t)
        /\ Deliver(t, task[t].key, task[t].payload)
        /\ UNCHANGED <<value, pending, link, panel, last, givenUp>>
    BY DEF Resend, TimesOut
  <1>2. task[t].key \in pending /\ task[t].payload \in Values
    BY <1>1 DEF SyncInv, AckInv, TypeOK, TaskState
  <1>3. /\ task'[t] = [task[t] EXCEPT !.tries = @ - 1]
        /\ \A u \in Tasks : u # t => task'[u] = task[u]
    BY DEF Resend, TypeOK
  <1>4. /\ task'[t].pc = "wait" /\ task'[t].key = task[t].key
        /\ task'[t].payload = task[t].payload /\ ~task'[t].acked
        /\ task'[t].client = task[t].client
    BY <1>1, <1>3 DEF TypeOK, TaskState, At
  <1>5. \A i \in 1 .. Len(air) : air[i].kind = "report" BY <1>1, NoAck DEF SyncInv
  <1> QED BY <1>1, <1>2, <1>3, <1>4, <1>5, SentKeeps DEF At

\* A key is cleared with the machine's ACK for the value it has, or given up on.
LEMMA KeyDoneSyncs ==
  ASSUME IInv, SyncInv, NEW t \in Tasks, KeyDone(t)
  PROVE  SyncInv'
  <1> USE DEF IInv, session, machine
  <1>1. /\ At(t, "wait") /\ pending' = Clear(task[t].key, task[t].payload)
        /\ \/ task[t].acked /\ givenUp' = givenUp
           \/ TimesOut(t) /\ givenUp' = givenUp \cup {task[t].key}
        /\ UNCHANGED <<value, link, air, mach, panel, last>>
    BY DEF KeyDone, TimesOut
  <1>2. \A i \in 1 .. Len(air) : air[i].kind = "report"
    <2>1. CASE TimesOut(t) BY <2>1, NoAck DEF SyncInv
    <2>2. CASE task[t].acked
      <3> SUFFICES ASSUME NEW i \in 1 .. Len(air), air[i].kind # "report"
                   PROVE  FALSE
        OBVIOUS
      <3>1. air[i].kind = "ack" /\ air[i].task \in Tasks BY AirType
      <3>2. At(air[i].task, "wait") /\ ~task[air[i].task].acked BY <3>1 DEF SyncInv, AckInv
      <3>3. air[i].task # t BY <2>2, <3>2
      <3> QED BY <1>1, <3>1, <3>2, <3>3, OneWaits DEF SyncInv, At
    <2> QED BY <1>1, <2>1, <2>2
  <1>3. /\ task'[t].pc = "loop" /\ ~task'[t].acked
        /\ \A u \in Tasks : u # t => task'[u] = task[u]
    BY DEF KeyDone, TypeOK, TaskState
  <1>4. \A u \in Tasks : ~task'[u].acked /\ task'[u].pc # "wait"
    BY <1>1, <1>3, OneWaits DEF SyncInv, At
  <1>5. AckInv' BY <1>1, <1>2, <1>4 DEF AckInv, At
  <1>6. ASSUME panel' = 0
        PROVE  TakenInv'
    <2>1. TakenInv BY <1>1, <1>6 DEF SyncInv
    <2>2. ASSUME NEW k \in Keys, last'[k] = "user", k \notin pending' \cup givenUp'
          PROVE  mach[k] = value[k] /\ Reported(k, value[k])
      <3>1. CASE k \notin pending BY <1>1, <2>1, <2>2, <3>1 DEF TakenInv
      <3>2. CASE k \in pending
        <4>1. task[t].key = k /\ value[k] = task[t].payload BY <1>1, <2>2, <3>2 DEF Clear
        <4>2. task[t].acked BY <1>1, <2>2, <4>1
        <4> QED BY <2>1, <4>1, <4>2 DEF TakenInv
      <3> QED BY <3>1, <3>2
    <2> QED BY <1>1, <1>2, <1>4, <2>1, <2>2 DEF TakenInv, Reported
  <1> QED BY <1>5, <1>6 DEF SyncInv

LEMMA InitSyncs == Init => SyncInv
  <1> SUFFICES ASSUME Init PROVE SyncInv OBVIOUS
  <1>1. air = << >> /\ Len(air) = 0 BY DEF Init
  <1>2. \A t \in Tasks : task[t].pc = "new" /\ ~task[t].acked BY DEF Init, NewTask
  <1>3. \A k \in Keys : last[k] = "panel" BY DEF Init
  <1> QED BY <1>1, <1>2, <1>3 DEF SyncInv, AckInv, TakenInv, At

LEMMA StepSyncs == IInv /\ SyncInv /\ [Next]_vars => SyncInv'
  <1> SUFFICES ASSUME IInv, SyncInv, [Next]_vars PROVE SyncInv' OBVIOUS
  <1>1. CASE UNCHANGED vars
    BY <1>1 DEF SyncInv, AckInv, TakenInv, Reported, At, Alive, vars, session, machine, history
  <1>2. CASE \E t \in Pushes : ChangeOptions(t) \/ EnsureConnected(t)
    BY <1>2, ChangeOptionsSyncs, ConnectSyncs DEF Tasks
  <1>3. CASE \E t \in Tasks : ConnectStep(t)
    BY <1>3, ConnectSyncs, LinkedSyncs DEF ConnectStep
  <1>4. CASE \E t \in Tasks : ApplyStep(t)
    BY <1>4, HolderSyncs, SendKeySyncs, ResendSyncs, KeyDoneSyncs DEF ApplyStep
  <1>5. CASE Tick BY <1>5, ConnectSyncs DEF Tasks
  <1>6. CASE TapPanel \/ Notified \/ Drop \/ Standby
    BY <1>6, TapPanelSyncs, NotifiedSyncs, LinkGoneSyncs
  <1> QED BY <1>1, <1>2, <1>3, <1>4, <1>5, <1>6 DEF Next, TaskStep

-----------------------------------------------------------------------------
(* The theorems *)

LEMMA InitHolds == Init => IInv
  <1> SUFFICES ASSUME Init PROVE IInv OBVIOUS
  <1>1. PICK x \in Values : TRUE BY UnitSyncAssumption
  <1>2. InitialValues \in [Keys -> Values]
    <2>1. [k \in Keys |-> x] \in [Keys -> Values] OBVIOUS
    <2> QED BY <2>1 DEF InitialValues
  <1>3. TypeOK
    <2>1. 0 \in Clients /\ 0 \in 0 .. MaxPanel BY UnitSyncAssumption DEF Clients
    <2>2. task \in [Tasks -> TaskState] BY NewTaskType DEF Init
    <2>3. last \in [Keys -> {"user", "panel"}] BY DEF Init
    <2>4. lock \in Seq(Tasks) BY DEF Init
    <2>5. air \in Seq([kind : {"ack"}, task : Tasks]
                      \cup [kind : {"report"}, value : [Keys -> Values]])
      BY DEF Init
    <2>6. /\ pending \subseteq Keys /\ givenUp \subseteq Keys
          /\ idle \in BOOLEAN /\ page \in BOOLEAN /\ connect \in Tasks \cup {NoTask}
      BY DEF Init
    <2>7. client \in Clients /\ built \in Clients /\ link \in Clients
          /\ panel \in 0 .. MaxPanel
      BY <2>1 DEF Init, NoClient
    <2> QED BY <1>2, <2>2, <2>3, <2>4, <2>5, <2>6, <2>7 DEF Init, TypeOK
  <1>4. \A t \in Tasks : task[t].pc = "new" BY NewTaskType DEF Init
  <1>5. KeyInv BY <1>4 DEF KeyInv, At
  <1>6. LockInv BY <1>4 DEF LockInv, Init
  <1>7. ConnInv BY <1>4 DEF ConnInv, Init
  <1>8. PushInv BY DEF PushInv, Init
  <1> QED BY <1>3, <1>5, <1>6, <1>7, <1>8 DEF IInv

LEMMA StepHolds == IInv /\ [Next]_vars => IInv'
  <1> SUFFICES ASSUME IInv, [Next]_vars PROVE IInv' OBVIOUS
  <1>1. CASE UNCHANGED vars
    BY <1>1 DEF IInv, TypeOK, KeyInv, LockInv, ConnInv, PushInv, WillPush, Alive, At, Holds,
                vars, session, machine, history
  <1>2. CASE \E t \in Pushes : ChangeOptions(t) \/ EnsureConnected(t)
    BY <1>2, ChangeOptionsKeeps, EnsureConnectedKeeps
  <1>3. CASE \E t \in Tasks : ConnectStep(t)
    BY <1>3, DialKeeps, LinkedKeeps, LinkFailsKeeps, PushOnConnectKeeps, ConnectedKeeps
    DEF ConnectStep
  <1>4. CASE \E t \in Tasks : ApplyStep(t)
    BY <1>4, AcquireKeeps, SendKeyKeeps, SendFailsKeeps, ResendKeeps, KeyDoneKeeps,
       LoopEndsKeeps, ReturnHomeKeeps
    DEF ApplyStep
  <1>5. CASE TapPanel \/ Notified \/ Drop \/ Standby \/ Tick
    BY <1>5, TapPanelKeeps, NotifiedKeeps, LinkGoneKeeps, TickKeeps
  <1> QED BY <1>1, <1>2, <1>3, <1>4, <1>5 DEF Next, TaskStep

\* The type invariant of UnitSync: no push takes the lock from an empty line,
\* and no send is given up on for a key that is none.
THEOREM TypeCorrect == Spec => []TypeOK
  <1>1. IInv => TypeOK BY DEF IInv
  <1> QED BY <1>1, InitHolds, StepHolds, PTL DEF Spec

\* However many settings changes and connects meet, at most one push is between
\* two of its sends (_unit_push_lock): the machine never gets two interleaved.
THEOREM OnePushAtATime == Spec => []OnePush
  <1>1. IInv => OnePush BY DEF IInv, LockInv, OnePush, Holds
  <1> QED BY <1>1, InitHolds, StepHolds, PTL DEF Spec

\* A pending change always has a push that will still look at it while a session
\* is up (_pending_unit_pushes), however links, pushes and changes cross.
THEOREM NoChangeOrphaned == Spec => []NoOrphanChange
  <1>1. IInv => NoOrphanChange BY DEF IInv, PushInv, NoOrphanChange, Up
  <1> QED BY <1>1, InitHolds, StepHolds, PTL DEF Spec

\* As long as nobody used the panel, what has come to rest agrees: a change the
\* user made is on the machine unless it is pending or was given up on, whatever
\* links were lost, ACKs missed and settings changed meanwhile
\* (_async_send_unit_command, _pending_unit_pushes).
THEOREM ChangesArrive == Spec => [](panel = 0 => ChangeDelivered)
  <1>1. IInv /\ SyncInv => (panel = 0 => ChangeDelivered)
    BY DEF SyncInv, TakenInv, ChangeDelivered
  <1> QED BY <1>1, InitHolds, StepHolds, InitSyncs, StepSyncs, PTL DEF Spec

\* With nobody at the panel no report takes back what the user chose, also one
\* that was on its way when the user chose it (_async_sync_units_from_machine).
THEOREM ChangesStand ==
  ASSUME MaxPanel = 0
  PROVE  Spec => NeverReverted
  <1>1. IInv /\ SyncInv /\ [Next]_vars
          => [\A k \in Keys : Notified /\ value'[k] # value[k]
                                => last[k] = "panel" \/ k \in givenUp]_vars
    <2> SUFFICES ASSUME IInv, SyncInv, NEW k \in Keys, Notified, value'[k] # value[k],
                        last[k] # "panel", k \notin givenUp
                 PROVE  FALSE
      OBVIOUS
    <2>1. panel = 0 /\ TakenInv BY DEF IInv, TypeOK, SyncInv
    <2>2. last[k] = "user" BY DEF IInv, TypeOK
    <2>3. /\ Len(air) >= 1 /\ Head(air) = air[1]
          /\ air[1].kind = "report" /\ value' = Adopt(air[1].value)
      BY DEF Notified, IInv, TypeOK
    <2>4. 1 \in 1 .. Len(air) BY <2>3 DEF IInv, TypeOK
    <2>5. k \notin pending /\ value'[k] = air[1].value[k] BY <2>3 DEF Adopt
    <2>6. air[1].value[k] = value[k] BY <2>1, <2>2, <2>3, <2>4, <2>5 DEF TakenInv, Reported
    <2> QED BY <2>5, <2>6
  <1> QED BY <1>1, InitHolds, StepHolds, InitSyncs, StepSyncs, PTL DEF Spec, NeverReverted
=============================================================================
