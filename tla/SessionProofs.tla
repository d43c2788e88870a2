--------------------------- MODULE SessionProofs ---------------------------
(***************************************************************************)
(* Proofs about Session for any set of clients, switch calls and actions   *)
(* and any number of orphaned links: types, single-flight connects, at     *)
(* most one link and never a lost one, and standby without a link.         *)
(*                                                                         *)
(* The inductive invariant IInv has two halves.  Typed is about types and  *)
(* _connect_lock; Rest says which client and which links a coroutine in    *)
(* flight may rely on.  Each half has its lemmas on the building blocks of *)
(* the actions (ConnectBody, EnterConnect, ConnectFailed, Advance,         *)
(* StartClosing, LinkClosed), then one step per action of Next.            *)
(***************************************************************************)
EXTENDS Session, SequenceTheorems, TLAPS

\* A coroutine that connects or closes has a client of its own, and the drop
\* tasks of the poll do nothing but close.  A callback is queued for links that
\* are gone, never for one that is up or coming up.
OwnInv ==
    /\ \A t \in Tasks :
         /\ task[t].pc \in ConnectPc \cup {"closing"} => task[t].own \in Clients
         /\ task[t].pc = "linking" => task[t].own \notin live \cup callbacks
    /\ callbacks \cap live = {}
    /\ \A t \in {StaleDrop, StandbyDrop} : task[t].pc \in {"done", "closing"}

\* While a connect is in flight, self.client is its client or None.
FlightInv ==
    \A t \in Tasks : Connecting(t) => client \in {NoClient, task[t].own}

NoFlight == \A t \in Tasks : ~Connecting(t)

\* A link is never lost, and nothing on the loop will take away the client of
\* a link that is up once its connect is over.
LinkInv ==
    orphans = {} =>
        /\ \A c \in live : c = client \/ \E t \in Tasks : Connecting(t) /\ task[t].own = c
        /\ NoFlight /\ client \in live =>
             /\ callbacks = {}
             /\ \A t \in Tasks : task[t].pc = "closing" => task[t].own = client

\* In standby, the only link that may still be up is the one being closed.
StandbyInv ==
    /\ \A t \in Tasks : task[t].pc = "linking" => ~idle
    /\ standbyPending <=> task[StandbyDrop].pc = "closing"
    /\ orphans = {} /\ idle =>
         \A c \in live : standbyPending /\ c = task[StandbyDrop].own

\* Types, and the holder of _connect_lock: inductive given OwnInv.
Typed == TypeOK /\ SingleFlight

\* Clients, links and teardowns: inductive given Typed.
Rest == OwnInv /\ FlightInv /\ LinkInv /\ StandbyInv

\* The variables Rest is about, besides task.
restVars == <<client, live, callbacks, orphans, idle, standbyPending>>

IInv == Typed /\ Rest

-----------------------------------------------------------------------------
(* Values of task *)

\* A lock queue with only its holder.
LEMMA OneSeq ==
    ASSUME NEW S, NEW e \in S
    PROVE  <<e>> \in Seq(S) /\ <<e>> # << >> /\ Head(<<e>>) = e
  OBVIOUS

\* The fields of a suspended coroutine.
LEMMA TaskType ==
    ASSUME NEW r \in TaskState
    PROVE  r.pc \in Pc /\ r.own \in Clients \cup {NoClient} /\ r.woke \in BOOLEAN
  BY DEF TaskState

\* A coroutine that has returned.
LEMMA DoneType == Done \in TaskState /\ Done.pc = "done" /\ Done.own = NoClient
                   /\ Done.pc \notin ConnectPc
  BY DEF Done, At, TaskState, Pc, ConnectPc

\* A coroutine that awaits client.disconnect().
LEMMA ClosingType ==
    ASSUME NEW c \in Clients \cup {NoClient}, NEW w \in BOOLEAN
    PROVE  /\ At("closing", c, w) \in TaskState /\ At("closing", c, w).pc = "closing"
           /\ At("closing", c, w).pc \notin ConnectPc /\ At("closing", c, w).own = c
  BY DEF At, TaskState, Pc, ConnectPc

\* What async_connect returns to: never a connect or a teardown.
LEMMA ConnectedType ==
    ASSUME NEW t, NEW c, NEW w
    PROVE  /\ Connected(t, c, w) \in TaskState
           /\ Connected(t, c, w).pc \in {"done", "waking", "act"}
           /\ Connected(t, c, w).own = NoClient
  BY DEF Connected, Done, Pc, At, TaskState

\* A connect that reaches its next await keeps its client.
LEMMA AdvanceType ==
    ASSUME NEW r \in TaskState, NEW pc \in Pc
    PROVE  /\ [r EXCEPT !.pc = pc] \in TaskState
           /\ [r EXCEPT !.pc = pc].pc = pc /\ [r EXCEPT !.pc = pc].own = r.own
  BY DEF TaskState

-----------------------------------------------------------------------------
(* Types and the lock *)

\* Before the first connect, types hold and nobody needs the lock.
LEMMA InitTyped == Init => Typed
  <1> SUFFICES ASSUME Init PROVE Typed OBVIOUS
  <1>1. Done \in TaskState /\ Done.pc = "done" BY DEF Done, At, TaskState, Pc
  <1>2. task \in [Tasks -> TaskState] BY <1>1 DEF Init
  <1>3. lock \in Seq(Tasks) BY DEF Init
  <1>4. \A t \in Tasks : ~Connecting(t) BY <1>1 DEF Init, Connecting, ConnectPc
  <1>5. TypeOK BY <1>2, <1>3 DEF Init, TypeOK
  <1> QED BY <1>4, <1>5 DEF Typed, SingleFlight

\* What a call of ConnectBody leaves to be shown about types and the lock.
LEMMA ConnectBodyTyped ==
    ASSUME TypeOK, NEW t \in Tasks, NEW cur \in Clients \cup {NoClient},
           NEW man \in BOOLEAN, NEW o \in BOOLEAN, NEW w \in BOOLEAN,
           NEW q \in Seq(Tasks), q # << >>, Head(q) = t,
           \A u \in Tasks : u # t => ~Connecting(u),
           ConnectBody(t, cur, man, o, w, q)
    PROVE  /\ client' \in Clients \cup {NoClient}
           /\ sleepers' \subseteq Clients
           /\ manual' \in BOOLEAN /\ idle' \in BOOLEAN /\ expired' \in BOOLEAN
           /\ lock' \in Seq(Tasks)
           /\ task' \in [Tasks -> TaskState]
           /\ SingleFlight'
  <1>1. CASE /\ cur \in live
             /\ client' = cur
             /\ manual' = man
             /\ lock' = Tail(q)
             /\ task' = [task EXCEPT ![t] = Connected(t, cur, w)]
             /\ expired' = o
             /\ UNCHANGED <<idle, sleepers>>
    <2>1. lock' \in Seq(Tasks) BY <1>1, HeadTailProperties
    <2>2. task' \in [Tasks -> TaskState] /\ \A u \in Tasks : ~Connecting(u)'
      BY <1>1, ConnectedType DEF TypeOK, Connecting, ConnectPc
    <2> QED BY <1>1, <2>1, <2>2 DEF TypeOK, SingleFlight
  <1>2. CASE /\ \E c \in Fresh :
                  /\ client' = c
                  /\ task' = [task EXCEPT ![t] = At("linking", c, w)]
                  /\ sleepers' = sleepers \ {c}
             /\ manual' = FALSE
             /\ idle' = FALSE
             /\ expired' = FALSE
             /\ lock' = q
    <2>1. PICK c \in Fresh :
                  /\ client' = c
                  /\ task' = [task EXCEPT ![t] = At("linking", c, w)]
                  /\ sleepers' = sleepers \ {c}
      BY <1>2
    <2>2. c \in Clients BY DEF Fresh
    <2>3. At("linking", c, w) \in TaskState BY <2>2 DEF At, TaskState, Pc
    <2>4. task' \in [Tasks -> TaskState] /\ \A u \in Tasks : u # t => ~Connecting(u)'
      BY <2>1, <2>3 DEF TypeOK, Connecting
    <2> QED BY <1>2, <2>1, <2>2, <2>4 DEF TypeOK, SingleFlight
  <1> QED BY <1>1, <1>2 DEF ConnectBody

\* A call of async_connect by a task that is not already connecting.
LEMMA EnterConnectTyped ==
    ASSUME Typed, NEW t \in Tasks, ~Connecting(t),
           NEW cur \in Clients \cup {NoClient},
           NEW man \in BOOLEAN, NEW o \in BOOLEAN, NEW w \in BOOLEAN,
           EnterConnect(t, cur, man, o, w)
    PROVE  /\ client' \in Clients \cup {NoClient}
           /\ sleepers' \subseteq Clients
           /\ manual' \in BOOLEAN /\ idle' \in BOOLEAN /\ expired' \in BOOLEAN
           /\ lock' \in Seq(Tasks)
           /\ task' \in [Tasks -> TaskState]
           /\ SingleFlight'
  <1> USE DEF Typed
  <1>1. CASE lock = << >> /\ ConnectBody(t, cur, man, o, w, <<t>>)
    <2>1. \A u \in Tasks : ~Connecting(u) BY <1>1 DEF SingleFlight
    <2> HIDE DEF Typed
    <2> QED BY <1>1, <2>1, OneSeq, ConnectBodyTyped DEF Typed
  <1>2. CASE /\ lock # << >>
             /\ lock' = Append(lock, t)
             /\ task' = [task EXCEPT ![t] = At("lock", NoClient, w)]
             /\ client' = cur
             /\ manual' = man
             /\ expired' = o
             /\ UNCHANGED <<idle, sleepers>>
    <2>1. lock' \in Seq(Tasks) /\ lock' # << >> /\ Head(lock') = Head(lock)
      BY <1>2, AppendProperties, HeadTailAppend DEF TypeOK
    <2>2. At("lock", NoClient, w) \in TaskState /\ At("lock", NoClient, w).pc = "lock"
      BY DEF At, TaskState, Pc
    <2>3. task' \in [Tasks -> TaskState] BY <1>2, <2>2 DEF TypeOK
    <2>4. \A u \in Tasks : Connecting(u)' => Connecting(u)
      BY <1>2, <2>2 DEF TypeOK, Connecting, ConnectPc
    <2> QED BY <1>2, <2>1, <2>3, <2>4 DEF TypeOK, SingleFlight
  <1> QED BY <1>1, <1>2 DEF EnterConnect

\* A step that moves one task without giving it the lock's protection.
LEMMA MoveTyped ==
    ASSUME TypeOK, NEW t \in Tasks, NEW r \in TaskState,
           task' = [task EXCEPT ![t] = r]
    PROVE  /\ task' \in [Tasks -> TaskState]
           /\ r.pc \notin ConnectPc =>
                \A u \in Tasks : Connecting(u)' <=> u # t /\ Connecting(u)
  BY DEF TypeOK, Connecting

\* A failed connect hands the lock on and connects no more.
LEMMA ConnectFailedTyped ==
    ASSUME Typed, NEW t \in Tasks, Connecting(t), ConnectFailed(t),
           live' \subseteq Clients, orphans' \subseteq Clients
    PROVE  Typed'
  <1>1. lock # << >> /\ \A u \in Tasks : Connecting(u) => u = t
    BY DEF Typed, SingleFlight
  <1>2. lock' \in Seq(Tasks)
    BY <1>1, HeadTailProperties DEF Typed, TypeOK, ConnectFailed
  <1>3. Done \in TaskState /\ Done.pc \notin ConnectPc BY DoneType
  <1>4. task' \in [Tasks -> TaskState] /\ \A u \in Tasks : ~Connecting(u)'
    BY <1>1, <1>3, MoveTyped DEF Typed, ConnectFailed
  <1> QED BY <1>2, <1>4
          DEF Typed, TypeOK, SingleFlight, ConnectFailed, pendings, machineVars

\* The next await of a connect keeps the lock.
LEMMA AdvanceTyped ==
    ASSUME Typed, NEW t \in Tasks, Connecting(t), NEW pc \in ConnectPc, Advance(t, pc),
           live' \subseteq Clients, op' \in {"home", "running"}
    PROVE  Typed'
  <1>1. task' = [task EXCEPT ![t] = [task[t] EXCEPT !.pc = pc]]
    BY DEF Advance, Typed, TypeOK
  <1>2. [task[t] EXCEPT !.pc = pc] \in TaskState
    BY AdvanceType DEF Typed, TypeOK, ConnectPc, Pc
  <1>3. task' \in [Tasks -> TaskState]
    BY <1>1, <1>2 DEF Typed, TypeOK
  <1>4. \A u \in Tasks : Connecting(u)' => Connecting(u)
    BY <1>1, <1>2 DEF Typed, TypeOK, Connecting
  <1> QED BY <1>3, <1>4
          DEF Typed, TypeOK, SingleFlight, Advance, pendings

\* The end of client.disconnect() only removes links and queues callbacks.
LEMMA LinkClosedTyped ==
    ASSUME TypeOK, NEW c, LinkClosed(c)
    PROVE  /\ live' \subseteq Clients /\ mute' \subseteq Clients
           /\ callbacks' \subseteq Clients /\ orphans' \subseteq Clients
  BY DEF TypeOK, LinkClosed

\* Steps that move one task outside of async_connect and leave the lock alone.
LEMMA AsideTyped ==
    ASSUME Typed, NEW t \in Tasks, NEW r \in TaskState, r.pc \notin ConnectPc,
           task' = [task EXCEPT ![t] = r], lock' = lock
    PROVE  task' \in [Tasks -> TaskState] /\ SingleFlight'
  BY MoveTyped DEF Typed, SingleFlight

\* Steps that move no task and leave the lock alone.
LEMMA FrameTyped ==
    ASSUME Typed, UNCHANGED <<task, lock>>
    PROVE  task' \in [Tasks -> TaskState] /\ SingleFlight' /\ lock' \in Seq(Tasks)
  BY DEF Typed, TypeOK, SingleFlight, Connecting

\* Every step preserves types and the lock discipline.
LEMMA NextTyped == Typed /\ OwnInv /\ [Next]_vars => Typed'
  <1> SUFFICES ASSUME Typed, OwnInv, [Next]_vars PROVE Typed' OBVIOUS
  <1> USE DEF pendings, machineVars, linkVars
  <1>1. ASSUME NEW t \in Tasks, AcquireLock(t) PROVE Typed'
    <2>1. task[t].woke \in BOOLEAN BY TaskType DEF Typed, TypeOK
    <2>2. \A u \in Tasks : u # t => ~Connecting(u)
      BY <1>1 DEF AcquireLock, Typed, SingleFlight
    <2>3. lock \in Seq(Tasks) /\ client \in Clients \cup {NoClient} /\ manual \in BOOLEAN /\ TypeOK
      BY DEF Typed, TypeOK
    <2>4. ConnectBody(t, client, manual, expired, task[t].woke, lock) /\ lock # << >> /\ Head(lock) = t
      BY <1>1 DEF AcquireLock
    <2>5. UNCHANGED <<live, mute, callbacks, orphans, blocked, pendings, machineVars>>
      BY <1>1 DEF AcquireLock
    <2> QED BY <2>1, <2>2, <2>3, <2>4, <2>5, ConnectBodyTyped DEF Typed, TypeOK
  <1>2. ASSUME NEW t \in Tasks, LinkUp(t) PROVE Typed'
    BY <1>2, AdvanceTyped DEF LinkUp, Connecting, ConnectPc, OwnInv, Typed, TypeOK
  <1>3. ASSUME NEW t \in Tasks, LinkRefused(t) PROVE Typed'
    BY <1>3, ConnectFailedTyped DEF LinkRefused, Connecting, ConnectPc, Typed, TypeOK
  <1>4. ASSUME NEW t \in Tasks, NotifyStarted(t) PROVE Typed'
    BY <1>4, AdvanceTyped DEF NotifyStarted, Connecting, ConnectPc, Typed, TypeOK
  <1>5. ASSUME NEW t \in Tasks, NotifyFailed(t) PROVE Typed'
    BY <1>5, ConnectFailedTyped DEF NotifyFailed, Connecting, ConnectPc, Typed, TypeOK
  <1>6. ASSUME NEW t \in Tasks, ResetState(t) PROVE Typed'
    BY <1>6, AdvanceTyped DEF ResetState, Connecting, ConnectPc, Typed, TypeOK
  <1>7. ASSUME NEW t \in Tasks, ConnectReturns(t) PROVE Typed'
    <2>1. lock # << >> /\ \A u \in Tasks : Connecting(u) => u = t
      BY <1>7 DEF ConnectReturns, Typed, SingleFlight, Connecting, ConnectPc
    <2>2. lock' \in Seq(Tasks)
      BY <1>7, <2>1, HeadTailProperties DEF ConnectReturns, Typed, TypeOK
    <2>3. task' \in [Tasks -> TaskState] /\ \A u \in Tasks : ~Connecting(u)'
      BY <1>7, <2>1, ConnectedType, MoveTyped DEF ConnectReturns, Typed, ConnectPc
    <2>4. task[t].own \in Clients \cup {NoClient} BY TaskType DEF Typed, TypeOK
    <2> QED BY <1>7, <2>2, <2>3, <2>4 DEF ConnectReturns, Typed, TypeOK, SingleFlight
  <1>8. ASSUME NEW t \in Switches, SwitchedOff(t) PROVE Typed'
    BY <1>8, LinkClosedTyped, AsideTyped, DoneType DEF SwitchedOff, Tasks, Typed, TypeOK
  <1>9. ASSUME StaleDropped PROVE Typed'
    BY <1>9, LinkClosedTyped, AsideTyped, DoneType
    DEF StaleDropped, Tasks, Background, Typed, TypeOK
  <1>10. ASSUME StandbyEntered PROVE Typed'
    BY <1>10, LinkClosedTyped, AsideTyped, DoneType
    DEF StandbyEntered, Tasks, Background, Typed, TypeOK
  <1>11. ASSUME NEW t \in Actions, WakeReconnects(t) PROVE Typed'
    <2>1. t \in Tasks /\ ~Connecting(t) BY <1>11 DEF WakeReconnects, Tasks, Connecting, ConnectPc
    <2> QED BY <1>11, <2>1, LinkClosedTyped, EnterConnectTyped DEF WakeReconnects, Typed, TypeOK
  <1>12. ASSUME PollStale PROVE Typed'
    <2>1. At("closing", client, FALSE) \in TaskState
          /\ At("closing", client, FALSE).pc \notin ConnectPc
      BY ClosingType DEF Typed, TypeOK
    <2> QED BY <1>12, <2>1, AsideTyped
            DEF PollStale, StartClosing, Tasks, Background, Typed, TypeOK
  <1>13. ASSUME PollStandby PROVE Typed'
    <2>1. At("closing", client, FALSE) \in TaskState
          /\ At("closing", client, FALSE).pc \notin ConnectPc
      BY ClosingType DEF Typed, TypeOK
    <2> QED BY <1>13, <2>1, AsideTyped
            DEF PollStandby, StartClosing, Tasks, Background, Typed, TypeOK
  <1>14. ASSUME PollActivity PROVE Typed'
    BY <1>14, FrameTyped DEF PollActivity, Typed, TypeOK
  <1>15. ASSUME PollReconnect PROVE Typed'
    <2>1. Supervisor \in Tasks /\ ~Connecting(Supervisor)
      BY <1>15 DEF PollReconnect, Tasks, Background, Typed, SingleFlight
    <2> QED BY <1>15, <2>1, EnterConnectTyped DEF PollReconnect, Typed, TypeOK
  <1>16. ASSUME NEW t \in Switches, SwitchOn(t) PROVE Typed'
    <2>1. t \in Tasks /\ ~Connecting(t) BY <1>16 DEF SwitchOn, Tasks, Idle, Connecting, ConnectPc
    <2> QED BY <1>16, <2>1, EnterConnectTyped DEF SwitchOn, Typed, TypeOK
  <1>17. ASSUME NEW t \in Switches, SwitchOff(t) PROVE Typed'
    <2>1. CASE client \in live /\ StartClosing(t, FALSE)
      <3>1. At("closing", client, FALSE) \in TaskState
            /\ At("closing", client, FALSE).pc \notin ConnectPc
        BY ClosingType DEF Typed, TypeOK
      <3> QED BY <1>17, <2>1, <3>1, AsideTyped
              DEF SwitchOff, StartClosing, Tasks, Typed, TypeOK
    <2>2. CASE manual' = TRUE /\ client' = NoClient /\ UNCHANGED task
      BY <1>17, <2>2, FrameTyped DEF SwitchOff, Typed, TypeOK
    <2> QED BY <1>17, <2>1, <2>2 DEF SwitchOff
  <1>18. ASSUME NEW t \in Actions, ActionOnLink(t) PROVE Typed'
    BY <1>18, ConnectedType, AsideTyped DEF ActionOnLink, Tasks, ConnectPc, Typed, TypeOK
  <1>19. ASSUME NEW t \in Actions, ActionInStandby(t) PROVE Typed'
    <2>1. t \in Tasks /\ ~Connecting(t)
      BY <1>19 DEF ActionInStandby, Tasks, Idle, Connecting, ConnectPc
    <2> QED BY <1>19, <2>1, EnterConnectTyped DEF ActionInStandby, Typed, TypeOK
  <1>20. ASSUME NEW t \in Actions, ActionRefused(t) PROVE Typed'
    BY <1>20, FrameTyped DEF ActionRefused, Typed, TypeOK
  <1>21. ASSUME NEW t \in Actions, WokeUp(t) PROVE Typed'
    <2>1. At("act", NoClient, FALSE) \in TaskState /\ At("act", NoClient, FALSE).pc \notin ConnectPc
      BY DEF At, TaskState, Pc, ConnectPc
    <2>2. t \in Tasks BY DEF Tasks
    <2>3. /\ task' = [task EXCEPT ![t] = At("act", NoClient, FALSE)]
          /\ lock' = lock
      BY <1>21 DEF WokeUp
    <2>4. task' \in [Tasks -> TaskState] /\ SingleFlight'
      BY <2>1, <2>2, <2>3, AsideTyped
    <2> QED BY <1>21, <2>4 DEF WokeUp, Typed, TypeOK
  <1>22. ASSUME NEW t \in Actions, StillAsleep(t) PROVE Typed'
    <2>1. t \in Tasks /\ ~Connecting(t)
      BY <1>22 DEF StillAsleep, Tasks, Connecting, ConnectPc
    <2>2. CASE StartClosing(t, TRUE) /\ UNCHANGED <<sleepers, idle, expired, lock>>
      <3>1. At("closing", client, TRUE) \in TaskState
            /\ At("closing", client, TRUE).pc \notin ConnectPc
        BY ClosingType DEF Typed, TypeOK
      <3> QED BY <1>22, <2>1, <2>2, <3>1, AsideTyped
              DEF StillAsleep, StartClosing, Typed, TypeOK
    <2>3. CASE EnterConnect(t, NoClient, FALSE, expired, TRUE)
      BY <1>22, <2>1, <2>3, EnterConnectTyped DEF StillAsleep, Typed, TypeOK
    <2> QED BY <1>22, <2>2, <2>3 DEF StillAsleep
  <1>23. ASSUME NEW t \in Actions, Act(t) PROVE Typed'
    <2>1. engaged' \in {"none", "armed", "active"} /\ op' \in {"home", "running"}
      BY <1>23 DEF Act, Outcomes, Typed, TypeOK
    <2> QED BY <1>23, <2>1, DoneType, AsideTyped DEF Act, Tasks, Typed, TypeOK
  <1>24. ASSUME NEW c \in Clients, HandleDisconnect(c) PROVE Typed'
    BY <1>24, FrameTyped DEF HandleDisconnect, Typed, TypeOK
  <1>25. ASSUME Environment PROVE Typed'
    <2>1. CASE SessionTimeout BY <2>1, FrameTyped DEF SessionTimeout, Typed, TypeOK
    <2>2. CASE BackoffElapses BY <2>2, FrameTyped DEF BackoffElapses, Typed, TypeOK
    <2>3. CASE \E c \in Clients : LinkDrops(c)
      BY <2>3, FrameTyped DEF LinkDrops, Typed, TypeOK
    <2>4. CASE LinkSilence BY <2>4, FrameTyped DEF LinkSilence, Typed, TypeOK
    <2>5. CASE SleepReport BY <2>5, FrameTyped DEF SleepReport, Typed, TypeOK
    <2>6. CASE StartAtMachine BY <2>6, FrameTyped DEF StartAtMachine, Typed, TypeOK
    <2>7. CASE EndAtMachine BY <2>7, FrameTyped DEF EndAtMachine, Typed, TypeOK
    <2> QED BY <1>25, <2>1, <2>2, <2>3, <2>4, <2>5, <2>6, <2>7 DEF Environment
  <1>26. ASSUME UNCHANGED vars PROVE Typed'
    BY <1>26, FrameTyped DEF vars, Typed, TypeOK
  <1> HIDE DEF pendings, machineVars, linkVars
  <1> QED BY <1>1, <1>2, <1>3, <1>4, <1>5, <1>6, <1>7, <1>8, <1>9, <1>10, <1>11, <1>12,
             <1>13, <1>14, <1>15, <1>16, <1>17, <1>18, <1>19, <1>20, <1>21, <1>22, <1>23,
             <1>24, <1>25, <1>26
          DEF Next, Inner, TurnOn, TurnOff, UserAction, ActionStep, ConnectStep, Teardown, Poll

-----------------------------------------------------------------------------
(* Clients and links *)

\* Steps that touch nothing Rest is about.
LEMMA FrameRest ==
    ASSUME Rest, UNCHANGED <<restVars, task>>
    PROVE  Rest'
  BY DEF Rest, restVars, OwnInv, FlightInv, LinkInv, StandbyInv, NoFlight, Connecting

\* A task that neither connects nor closes, before or after the step.
LEMMA AsideRest ==
    ASSUME TypeOK, Rest, NEW t \in Tasks, NEW r, t \notin {StaleDrop, StandbyDrop},
           task[t].pc \in {"done", "waking", "act"}, r.pc \in {"done", "waking", "act"},
           task' = [task EXCEPT ![t] = r], UNCHANGED restVars
    PROVE  Rest'
  <1>1. task'[t].pc = r.pc /\ \A u \in Tasks : u # t => task'[u] = task[u]
    BY DEF TypeOK
  <1>2. StandbyDrop \in Tasks /\ StaleDrop \in Tasks BY DEF Tasks, Background
  <1> QED BY <1>1, <1>2
          DEF Rest, restVars, OwnInv, FlightInv, LinkInv, StandbyInv, NoFlight,
              Connecting, ConnectPc

\* The next await of a connect keeps its client and its link.
LEMMA AdvanceRest ==
    ASSUME TypeOK, Rest, NEW t \in Tasks, NEW pc,
           task[t].pc \in {"notify", "reset"}, pc \in {"reset", "finish"},
           Advance(t, pc), UNCHANGED live
    PROVE  Rest'
  <1>1. /\ task'[t].pc = pc /\ task'[t].own = task[t].own
        /\ \A u \in Tasks : u # t => task'[u] = task[u]
    BY DEF TypeOK, Advance, TaskState
  <1>2. StandbyDrop \in Tasks /\ StaleDrop \in Tasks BY DEF Tasks, Background
  <1> QED BY <1>1, <1>2
          DEF Rest, Advance, pendings, OwnInv, FlightInv, LinkInv, StandbyInv, NoFlight,
              Connecting, ConnectPc

\* A failed connect leaves no link, or an orphan.
LEMMA ConnectFailedRest ==
    ASSUME Typed, Rest, NEW t \in Tasks, Connecting(t), ConnectFailed(t),
           (task[t].own \notin live /\ orphans' = orphans) \/ orphans' # {},
           UNCHANGED live
    PROVE  Rest'
  <1>1. /\ task'[t] = Done /\ \A u \in Tasks : u # t => task'[u] = task[u]
        /\ client' = NoClient
        /\ UNCHANGED <<callbacks, idle, standbyPending>>
    BY DEF Typed, TypeOK, ConnectFailed, pendings
  <1>2. Done.pc = "done" BY DoneType
  <1>3. \A u \in Tasks : Connecting(u) => u = t BY DEF Typed, SingleFlight
  <1>4. StandbyDrop \in Tasks /\ StaleDrop \in Tasks BY DEF Tasks, Background
  <1>5. NoClient \notin live BY SessionAssumption DEF Typed, TypeOK
  <1>6. orphans' = {} => live = {}
    BY <1>3, <1>5 DEF Rest, FlightInv, LinkInv
  <1>7. OwnInv' BY <1>1, <1>2, <1>4 DEF Rest, OwnInv, ConnectPc
  <1>8. FlightInv' BY <1>1, <1>2, <1>3 DEF FlightInv, Connecting
  <1>9. LinkInv' BY <1>1, <1>6 DEF LinkInv
  <1>10. StandbyInv' BY <1>1, <1>2, <1>4, <1>6 DEF Rest, OwnInv, StandbyInv, Connecting, ConnectPc
  <1> QED BY <1>7, <1>8, <1>9, <1>10 DEF Rest

\* A call of async_connect, with the client it sees.
LEMMA EnterConnectRest ==
    ASSUME Typed, Rest, NEW t \in Tasks, t \notin {StaleDrop, StandbyDrop},
           ~Connecting(t),
           NEW cur \in {client, NoClient}, client \in live => cur = client,
           NEW man \in BOOLEAN, NEW o \in BOOLEAN, NEW w \in BOOLEAN,
           EnterConnect(t, cur, man, o, w),
           UNCHANGED <<live, callbacks, orphans, standbyPending>>
    PROVE  Rest'
  <1> USE SessionAssumption
      DEF Typed, Rest, TypeOK, OwnInv, SingleFlight, Connecting, ConnectPc, NoFlight,
          Tasks, Background, At, Done, Connected, Fresh, ConnectBody, EnterConnect
  <1>1. OwnInv' OBVIOUS
  <1>2. FlightInv' BY DEF FlightInv
  <1>3. LinkInv' BY DEF FlightInv, LinkInv
  <1>4. StandbyInv' BY DEF FlightInv, LinkInv, StandbyInv
  <1> QED BY <1>1, <1>2, <1>3, <1>4

\* A teardown starts on the link of self.client.
LEMMA StartClosingRest ==
    ASSUME Typed, Rest, NEW t \in Tasks, t # StandbyDrop, ~Connecting(t), NEW w,
           client \in live, StartClosing(t, w),
           UNCHANGED <<live, callbacks, orphans, idle, standbyPending>>
    PROVE  Rest'
  <1>1. /\ task'[t].pc = "closing" /\ task'[t].own = client
        /\ \A u \in Tasks : u # t => task'[u] = task[u]
        /\ client' = client
    BY DEF Typed, TypeOK, StartClosing, At
  <1>2. \A u \in Tasks : Connecting(u)' <=> Connecting(u)
    BY <1>1 DEF Connecting, ConnectPc
  <1>3. StandbyDrop \in Tasks /\ StaleDrop \in Tasks BY DEF Tasks, Background
  <1>4. OwnInv' BY <1>1, <1>3 DEF Rest, OwnInv, Typed, TypeOK, ConnectPc
  <1>5. FlightInv' BY <1>1, <1>2 DEF Rest, FlightInv, Connecting
  <1>6. LinkInv' BY <1>1, <1>2 DEF Rest, LinkInv, NoFlight, Connecting
  <1>7. StandbyInv' BY <1>1, <1>3 DEF Rest, StandbyInv
  <1> QED BY <1>4, <1>5, <1>6, <1>7 DEF Rest

\* A teardown ends: if no error left its link up, no link is up that is not the
\* link of a connect in flight.
LEMMA ClosedRest ==
    ASSUME Typed, Rest, NEW t \in Tasks, task[t].pc = "closing", LinkClosed(task[t].own),
           client' = NoClient, task' = [task EXCEPT ![t] = Done],
           standbyPending' = (standbyPending /\ t # StandbyDrop), UNCHANGED idle
    PROVE  Rest'
  <1>1. /\ task'[t].pc = "done"
        /\ \A u \in Tasks : u # t => task'[u] = task[u]
    BY DoneType DEF Typed, TypeOK
  <1>2. \A u \in Tasks : Connecting(u)' <=> Connecting(u)
    BY <1>1 DEF Connecting, ConnectPc
  <1>3. StandbyDrop \in Tasks /\ StaleDrop \in Tasks BY DEF Tasks, Background
  <1>4. live' \subseteq live /\ NoClient \notin live'
    BY SessionAssumption DEF LinkClosed, Typed, TypeOK
  <1>5. orphans' = {} => orphans = {} /\ live' = live \ {task[t].own}
    BY DEF LinkClosed
  <1>6. OwnInv' BY <1>1, <1>3, <1>4 DEF Rest, OwnInv, ConnectPc, LinkClosed
  <1>7. FlightInv' BY <1>1, <1>2 DEF Rest, FlightInv, Connecting
  <1>8. LinkInv'
    BY <1>1, <1>2, <1>4, <1>5 DEF Rest, FlightInv, LinkInv, NoFlight, Connecting, ConnectPc
  <1>9. StandbyInv' BY <1>1, <1>3, <1>4, <1>5 DEF Rest, StandbyInv, Typed, TypeOK
  <1> QED BY <1>6, <1>7, <1>8, <1>9 DEF Rest

\* Every step preserves what coroutines in flight rely on.
LEMMA NextRest == Typed /\ Rest /\ [Next]_vars => Rest'
  <1> SUFFICES ASSUME Typed, Rest, [Next]_vars PROVE Rest' OBVIOUS
  <1>t. TypeOK BY DEF Typed
  <1>d. StandbyDrop \in Tasks /\ StaleDrop \in Tasks BY DEF Tasks, Background
  <1> USE DEF pendings, machineVars, linkVars, restVars
  <1>1. ASSUME NEW t \in Tasks, AcquireLock(t) PROVE Rest'
    <2> USE <1>1, SessionAssumption
        DEF Typed, Rest, TypeOK, OwnInv, SingleFlight, Connecting, ConnectPc, NoFlight,
            Tasks, Background, At, Done, Connected, Fresh, ConnectBody, AcquireLock
    <2>1. OwnInv' OBVIOUS
    <2>2. FlightInv' BY DEF FlightInv
    <2>3. LinkInv' BY DEF FlightInv, LinkInv
    <2>4. StandbyInv' BY DEF FlightInv, LinkInv, StandbyInv
    <2> QED BY <2>1, <2>2, <2>3, <2>4
  <1>2. ASSUME NEW t \in Tasks, LinkUp(t) PROVE Rest'
    <2>1. /\ task'[t].pc = "notify" /\ task'[t].own = task[t].own /\ Connecting(t)
          /\ \A u \in Tasks : u # t => task'[u] = task[u]
      BY <1>2, <1>t DEF LinkUp, Advance, TypeOK, TaskState, Connecting, ConnectPc
    <2>2. \A u \in Tasks : Connecting(u)' <=> Connecting(u)
      BY <2>1, <1>2 DEF LinkUp, Connecting, ConnectPc
    <2>3. \A u \in Tasks : Connecting(u) => u = t BY <2>1 DEF Typed, SingleFlight
    <2>4. OwnInv'
      BY <1>2, <1>d, <2>1, <2>3 DEF LinkUp, Advance, Rest, OwnInv, Connecting, ConnectPc
    <2>5. FlightInv' BY <1>2, <2>1, <2>2 DEF LinkUp, Advance, Rest, FlightInv, Connecting
    <2>6. LinkInv'
      BY <1>2, <2>1, <2>2 DEF LinkUp, Advance, Rest, LinkInv, NoFlight, Connecting
    <2>7. StandbyInv'
      BY <1>2, <1>d, <2>1 DEF LinkUp, Advance, Rest, OwnInv, StandbyInv
    <2> QED BY <2>4, <2>5, <2>6, <2>7 DEF Rest
  <1>3. ASSUME NEW t \in Tasks, LinkRefused(t) PROVE Rest'
    BY <1>3, ConnectFailedRest DEF LinkRefused, Connecting, ConnectPc, Rest, OwnInv
  <1>4. ASSUME NEW t \in Tasks, NotifyStarted(t) PROVE Rest'
    BY <1>4, <1>t, AdvanceRest DEF NotifyStarted
  <1>5. ASSUME NEW t \in Tasks, NotifyFailed(t) PROVE Rest'
    BY <1>5, ConnectFailedRest DEF NotifyFailed, Connecting, ConnectPc
  <1>6. ASSUME NEW t \in Tasks, ResetState(t) PROVE Rest'
    BY <1>6, <1>t, AdvanceRest DEF ResetState
  <1>7. ASSUME NEW t \in Tasks, ConnectReturns(t) PROVE Rest'
    <2>1. /\ task'[t].pc \in {"done", "waking", "act"}
          /\ \A u \in Tasks : u # t => task'[u] = task[u]
      BY <1>7, <1>t, ConnectedType DEF ConnectReturns, TypeOK
    <2>2. \A u \in Tasks : Connecting(u) <=> u = t
      BY <1>7 DEF ConnectReturns, Typed, SingleFlight, Connecting, ConnectPc
    <2>3. \A u \in Tasks : ~Connecting(u)'
      BY <2>1, <2>2 DEF Connecting, ConnectPc
    <2>4. OwnInv' BY <1>7, <1>d, <2>1 DEF ConnectReturns, Rest, OwnInv, ConnectPc
    <2>5. FlightInv' BY <2>3 DEF FlightInv
    <2>6. orphans = {} => live \subseteq {task[t].own}
      BY <1>7, <2>2, SessionAssumption DEF ConnectReturns, Rest, FlightInv, LinkInv, Typed, TypeOK
    <2>8. LinkInv'
      BY <1>7, <2>1, <2>6 DEF ConnectReturns, LoopDrained, Rest, OwnInv, LinkInv
    <2>7. StandbyInv' BY <1>7, <1>d, <2>1 DEF ConnectReturns, Rest, OwnInv, StandbyInv
    <2> QED BY <2>4, <2>5, <2>7, <2>8 DEF Rest
  <1>8. ASSUME NEW t \in Switches, SwitchedOff(t) PROVE Rest'
    BY <1>8, <1>t, ClosedRest, SessionAssumption DEF SwitchedOff, Tasks, Background, TypeOK
  <1>9. ASSUME StaleDropped PROVE Rest'
    BY <1>9, <1>d, <1>t, ClosedRest, SessionAssumption DEF StaleDropped, TypeOK
  <1>10. ASSUME StandbyEntered PROVE Rest'
    BY <1>10, <1>d, ClosedRest DEF StandbyEntered
  <1>11. ASSUME NEW t \in Actions, WakeReconnects(t) PROVE Rest'
    <2> USE <1>11, SessionAssumption
        DEF Typed, Rest, TypeOK, OwnInv, SingleFlight, Connecting, ConnectPc, NoFlight,
            Tasks, Background, At, Done, Connected, Fresh, ConnectBody, EnterConnect,
            WakeReconnects, LinkClosed
    <2>1. OwnInv' OBVIOUS
    <2>2. FlightInv' BY DEF FlightInv
    <2>3. client' \notin live' OBVIOUS
    <2>4. orphans' = {} => \A c \in live' : \E u \in Tasks : Connecting(u) /\ task[u].own = c
      BY DEF FlightInv, LinkInv
    <2>5. \A u \in Tasks : Connecting(u) => Connecting(u)' /\ task'[u].own = task[u].own
      OBVIOUS
    <2>6. LinkInv' BY <2>3, <2>4, <2>5 DEF LinkInv
    <2>7. StandbyInv' BY DEF FlightInv, LinkInv, StandbyInv
    <2> QED BY <2>1, <2>2, <2>6, <2>7
  <1>12. ASSUME PollStale PROVE Rest'
    <2>1. ~Connecting(StaleDrop) BY DEF Rest, OwnInv, Connecting, ConnectPc
    <2> QED BY <1>12, <1>d, <2>1, StartClosingRest, SessionAssumption DEF PollStale
  <1>13. ASSUME PollStandby PROVE Rest'
    <2>1. /\ task'[StandbyDrop].pc = "closing" /\ task'[StandbyDrop].own = client
          /\ \A u \in Tasks : u # StandbyDrop => task'[u] = task[u]
          /\ client' = client /\ client \in live
      BY <1>13, <1>t, <1>d DEF PollStandby, TypeOK, StartClosing, At
    <2>2. \A u \in Tasks : Connecting(u)' <=> Connecting(u)
      BY <1>d, <2>1 DEF Rest, OwnInv, Connecting, ConnectPc
    <2>3. OwnInv' BY <1>13, <1>t, <1>d, <2>1 DEF PollStandby, Rest, OwnInv, TypeOK
    <2>4. FlightInv' BY <2>1, <2>2 DEF Rest, FlightInv, Connecting
    <2>5. LinkInv'
      BY <1>13, <1>d, <2>1, <2>2
      DEF PollStandby, Rest, OwnInv, LinkInv, NoFlight, Connecting, ConnectPc
    <2>6. client # NoClient BY <1>t, <2>1, SessionAssumption DEF TypeOK
    <2>7. \A u \in Tasks : Connecting(u) => task[u].own = client
      BY <2>6 DEF Rest, FlightInv
    <2>8. \A u \in Tasks : task[u].pc # "linking"
      BY <2>1, <2>7 DEF Rest, OwnInv, Connecting, ConnectPc
    <2>9. orphans = {} => \A c \in live : c = client
      BY <2>7 DEF Rest, LinkInv
    <2>10. \A u \in Tasks : task'[u].pc # "linking" BY <2>1, <2>8
    <2>11. standbyPending' = TRUE /\ live' = live /\ orphans' = orphans
      BY <1>13 DEF PollStandby
    <2>12. StandbyInv' BY <2>1, <2>9, <2>10, <2>11 DEF StandbyInv
    <2> QED BY <2>3, <2>4, <2>5, <2>12 DEF Rest
  <1>14. ASSUME PollActivity PROVE Rest'
    BY <1>14, FrameRest DEF PollActivity
  <1>15. ASSUME PollReconnect PROVE Rest'
    <2>1. Supervisor \in Tasks /\ Supervisor \notin {StaleDrop, StandbyDrop}
      BY SessionAssumption DEF Tasks, Background
    <2>2. ~Connecting(Supervisor) BY <1>15, <2>1 DEF PollReconnect, Typed, SingleFlight
    <2>3. /\ EnterConnect(Supervisor, client, manual, expired, FALSE)
          /\ UNCHANGED <<live, callbacks, orphans, standbyPending>>
          /\ manual \in BOOLEAN /\ expired \in BOOLEAN /\ FALSE \in BOOLEAN
      BY <1>15, <1>t DEF PollReconnect, TypeOK
    <2> QED BY <2>1, <2>2, <2>3, EnterConnectRest
  <1>16. ASSUME NEW t \in Switches, SwitchOn(t) PROVE Rest'
    <2>1. t \in Tasks /\ t \notin {StaleDrop, StandbyDrop} /\ ~Connecting(t)
      BY <1>16, SessionAssumption DEF SwitchOn, Idle, Connecting, ConnectPc, Tasks, Background
    <2>2. /\ EnterConnect(t, client, manual, expired, FALSE)
          /\ UNCHANGED <<live, callbacks, orphans, standbyPending>>
          /\ manual \in BOOLEAN /\ expired \in BOOLEAN /\ FALSE \in BOOLEAN
      BY <1>16, <1>t DEF SwitchOn, TypeOK
    <2> QED BY <2>1, <2>2, EnterConnectRest
  <1>17. ASSUME NEW t \in Switches, SwitchOff(t) PROVE Rest'
    <2>1. t \in Tasks /\ t # StandbyDrop /\ ~Connecting(t)
      BY <1>17, SessionAssumption DEF SwitchOff, Idle, Connecting, ConnectPc, Tasks, Background
    <2>2. CASE client \in live /\ StartClosing(t, FALSE)
      BY <1>17, <2>1, <2>2, StartClosingRest DEF SwitchOff
    <2>3. CASE client \notin live /\ client' = NoClient /\ UNCHANGED task
      BY <1>17, <1>t, <2>3, SessionAssumption
      DEF SwitchOff, Rest, OwnInv, FlightInv, LinkInv, StandbyInv, NoFlight, Connecting, TypeOK
    <2> QED BY <1>17, <2>2, <2>3 DEF SwitchOff
  <1>18. ASSUME NEW t \in Actions, ActionOnLink(t) PROVE Rest'
    <2>1. t \in Tasks /\ t \notin {StaleDrop, StandbyDrop} /\ task[t].pc = "done"
      BY <1>18, SessionAssumption DEF ActionOnLink, Idle, Tasks, Background
    <2> QED BY <1>18, <1>t, <2>1, ConnectedType, AsideRest DEF ActionOnLink
  <1>19. ASSUME NEW t \in Actions, ActionInStandby(t) PROVE Rest'
    <2>1. t \in Tasks /\ t \notin {StaleDrop, StandbyDrop} /\ ~Connecting(t)
      BY <1>19, SessionAssumption
      DEF ActionInStandby, Idle, Connecting, ConnectPc, Tasks, Background
    <2>2. /\ EnterConnect(t, client, manual, FALSE, FALSE)
          /\ UNCHANGED <<live, callbacks, orphans, standbyPending>>
          /\ manual \in BOOLEAN /\ expired \in BOOLEAN /\ FALSE \in BOOLEAN
      BY <1>19, <1>t DEF ActionInStandby, TypeOK
    <2> QED BY <2>1, <2>2, EnterConnectRest
  <1>20. ASSUME NEW t \in Actions, ActionRefused(t) PROVE Rest'
    BY <1>20, FrameRest DEF ActionRefused
  <1>21. ASSUME NEW t \in Actions, WokeUp(t) PROVE Rest'
    <2>1. t \in Tasks /\ t \notin {StaleDrop, StandbyDrop}
      BY SessionAssumption DEF Tasks, Background
    <2>2. At("act", NoClient, FALSE).pc = "act" BY DEF At
    <2> QED BY <1>21, <1>t, <2>1, <2>2, AsideRest DEF WokeUp
  <1>22. ASSUME NEW t \in Actions, StillAsleep(t) PROVE Rest'
    <2>1. t \in Tasks /\ t \notin {StaleDrop, StandbyDrop} /\ ~Connecting(t)
      BY <1>22, SessionAssumption DEF StillAsleep, Connecting, ConnectPc, Tasks, Background
    <2>2. CASE client \in live /\ StartClosing(t, TRUE)
               /\ UNCHANGED <<sleepers, idle, expired, lock>>
      BY <1>22, <2>1, <2>2, StartClosingRest DEF StillAsleep
    <2>3. CASE client \notin live /\ EnterConnect(t, NoClient, FALSE, expired, TRUE)
      BY <1>22, <1>t, <2>1, <2>3, EnterConnectRest DEF StillAsleep, TypeOK
    <2> QED BY <1>22, <2>2, <2>3 DEF StillAsleep
  <1>23. ASSUME NEW t \in Actions, Act(t) PROVE Rest'
    <2>1. t \in Tasks /\ t \notin {StaleDrop, StandbyDrop}
      BY SessionAssumption DEF Tasks, Background
    <2> QED BY <1>23, <1>t, <2>1, DoneType, AsideRest DEF Act
  <1>24. ASSUME NEW c \in Clients, HandleDisconnect(c) PROVE Rest'
    <2>1. orphans = {} /\ NoFlight => client \notin live
      BY <1>24 DEF HandleDisconnect, Rest, LinkInv
    <2>2. NoClient \notin live BY <1>t, SessionAssumption DEF TypeOK
    <2>3. LinkInv'
      BY <1>24, <2>1, <2>2 DEF HandleDisconnect, Rest, FlightInv, LinkInv, NoFlight, Connecting
    <2> QED BY <1>24, <2>3 DEF HandleDisconnect, Rest, OwnInv, FlightInv, StandbyInv, Connecting
  <1>25. ASSUME NEW c \in Clients, LinkDrops(c) PROVE Rest'
    <2>1. LinkInv'
      BY <1>25 DEF LinkDrops, Rest, FlightInv, LinkInv, NoFlight, Connecting
    <2> QED BY <1>25, <2>1 DEF LinkDrops, Rest, OwnInv, FlightInv, StandbyInv, Connecting
  <1>26. ASSUME \/ SessionTimeout \/ BackoffElapses \/ LinkSilence \/ SleepReport
                \/ StartAtMachine \/ EndAtMachine \/ UNCHANGED vars
         PROVE  Rest'
    BY <1>26, FrameRest
    DEF SessionTimeout, BackoffElapses, LinkSilence, SleepReport, StartAtMachine,
        EndAtMachine, vars
  <1> HIDE DEF pendings, machineVars, linkVars, restVars
  <1> QED BY <1>1, <1>2, <1>3, <1>4, <1>5, <1>6, <1>7, <1>8, <1>9, <1>10, <1>11, <1>12,
             <1>13, <1>14, <1>15, <1>16, <1>17, <1>18, <1>19, <1>20, <1>21, <1>22, <1>23,
             <1>24, <1>25, <1>26
          DEF Next, Inner, TurnOn, TurnOff, UserAction, ActionStep, ConnectStep, Teardown,
              Poll, Environment

-----------------------------------------------------------------------------
(* The theorems *)

\* Initially there is no client, no link and no coroutine.
LEMMA InitRest == Init => Rest
  <1> SUFFICES ASSUME Init PROVE Rest OBVIOUS
  <1>1. \A t \in Tasks : task[t].pc = "done" BY DoneType DEF Init
  <1>2. StandbyDrop \in Tasks /\ StaleDrop \in Tasks BY DEF Tasks, Background
  <1> QED BY <1>1, <1>2
          DEF Init, Rest, OwnInv, FlightInv, LinkInv, StandbyInv, Connecting, ConnectPc

\* IInv is an invariant of the session.
LEMMA Inductive == Spec => []IInv
  <1>1. Init => IInv BY InitTyped, InitRest DEF IInv
  <1>2. IInv /\ [Next]_vars => IInv' BY NextTyped, NextRest DEF IInv, Rest
  <1> QED BY <1>1, <1>2, PTL DEF Spec

\* Every variable of the session keeps its type, in particular a drop callback
\* is always one of a client that existed.
THEOREM TypeCorrect == Spec => []TypeOK
  <1>1. IInv => TypeOK BY DEF IInv, Typed
  <1> QED BY <1>1, Inductive, PTL

\* At most one async_connect is between its first await and its return, and it
\* holds _connect_lock, whatever attempts failed or were queued before.
THEOREM ConnectsSingleFlight == Spec => []SingleFlight
  <1>1. IInv => SingleFlight BY DEF IInv, Typed
  <1> QED BY <1>1, Inductive, PTL

\* At most one link is up and it is never lost: a teardown, a late drop callback
\* or a failed attempt of another coroutine cannot take self.client away from
\* the link of a connect that has returned.
THEOREM AtMostOneLink == Spec => []SingleLink
  <1>1. ASSUME IInv PROVE SingleLink
    <2> SUFFICES ASSUME orphans = {}
                 PROVE  /\ live \subseteq {client} \cup Owned
                        /\ \A c, d \in live : c = d
      BY DEF SingleLink
    <2> USE <1>1, SessionAssumption DEF IInv, Typed, TypeOK, Rest
    <2>1. live \subseteq {client} \cup Owned BY DEF LinkInv, Owned
    <2>2. \A c \in live : c = client \/ \E t \in Tasks : Connecting(t) /\ task[t].own = c
      BY DEF LinkInv
    <2>3. \A t, u \in Tasks : Connecting(t) /\ Connecting(u) => t = u
      BY DEF SingleFlight
    <2>4. NoClient \notin live OBVIOUS
    <2>5. \A c, d \in live : c = d BY <2>2, <2>3, <2>4 DEF FlightInv
    <2> QED BY <2>1, <2>5
  <1> QED BY <1>1, Inductive, PTL

\* Idle standby, once its teardown is over, holds no link: a connect that raced
\* it has cleared _idle_disconnected.
THEOREM StandbyWithoutLink == Spec => []StandbyHoldsNoLink
  <1>1. IInv => StandbyHoldsNoLink BY DEF IInv, Rest, StandbyInv, StandbyHoldsNoLink
  <1> QED BY <1>1, Inductive, PTL
=============================================================================
