------------------------- MODULE MachineInfoProofs --------------------------
(***************************************************************************)
(* Proofs about MachineInfo for any number of attempts, links and service  *)
(* calls: types, the retry loop of every link, the requests it leads to,   *)
(* and what the answers leave in the sensors.                              *)
(*                                                                         *)
(* The inductive invariant IInv says what goes with a link (LinkInv), that *)
(* every handshake precedes every request of its link (WakeInv), that the  *)
(* two refresh tasks of the model are enough (TasksInv), and how far each  *)
(* request has come (RetryInv, ReadInv, HeldInv).                          *)
(***************************************************************************)
EXTENDS MachineInfo, TLAPS

\* Without a link nothing is on its way; a link has a client, and a dial none.
LinkInv ==
    /\ link => client
    /\ dial = "dialing" => ~link /\ client
    /\ loop.at = "read" => link
    /\ loop.at = "sleep" => loop.n < MaxAttempts
    /\ ~link => /\ ~awake /\ ~info /\ busy = NoCommand
                /\ \A t \in Tasks : refresh[t] = "none"

\* The loop repeats the handshake only while nothing is known, and a request
\* is made only once something is: the machine of a link that has been asked
\* was awake for the first request or sleeps through all of them.
WakeInv ==
    /\ dial = "dialing" => known = {} /\ asked = "none"
    /\ \A t \in Tasks : refresh[t] # "none" => known # {}
    /\ \A t \in Tasks : refresh[t] = "vibration" => asked # "none"
    /\ asked # "none" => known # {}
    /\ link => (asked = "awake" => awake) /\ (asked = "asleep" => ~awake)
    /\ busy # NoCommand => awake
    /\ busy.by \in Tasks => asked = "awake"

\* Connect and the loop start one refresh each, so a free task is left for the
\* one that is still to come.
TasksInv ==
    /\ dial = "settling" /\ loop.at # "done" => \A t \in Tasks : refresh[t] = "none"
    /\ dial = "settling" \/ loop.at # "done" => \E t \in Tasks : refresh[t] = "none"

\* A link whose loop is over has used its attempts or a request was made.
RetryInv ==
    /\ InfoRetried
    /\ Up /\ loop.at = "done" => asked # "none" \/ spent \/ \E t \in Tasks : refresh[t] = "radius"

\* The service and the refreshes stay out of each other's way.
ApartInv ==
    ~crossed =>
        /\ ~Idle => busy.by \notin Tasks
        /\ ~Idle \/ busy.by = "service" => \A t \in Tasks : refresh[t] = "none"

\* What the machine was asked for is shown, being answered or still to be sent:
\* a request is lost only to another one of the same kind, or to the radius
\* request of a task that has its vibration request before it.
ReadInv ==
    /\ \A t \in Tasks : busy = [by |-> t, key |-> "radius"] => refresh[t] = "vibration"
    /\ link /\ asked = "awake" /\ ~crossed =>
         /\ shown["radius"] # Unknown \/ busy.key = "radius"
         /\ \/ shown["vibration"] # Unknown \/ busy.key = "vibration"
            \/ \E t \in Tasks : refresh[t] = "vibration"

\* The sensors never differ from the machine, settled or not.
HeldInv == ~crossed => \A s \in Settings : shown[s] \in {Unknown, held[s]}

\* Types, and the parts of a link.
Typed == TypeOK /\ LinkInv

\* The inductive invariant.
IInv == Typed /\ WakeInv /\ TasksInv /\ RetryInv /\ ApartInv /\ ReadInv /\ HeldInv

-----------------------------------------------------------------------------

\* A handshake never puts the machine to sleep.
LEMMA HandshakeWakes ==
  ASSUME awake \in BOOLEAN, info \in BOOLEAN, Handshake
  PROVE  awake' \in BOOLEAN /\ info' \in BOOLEAN /\ (awake => awake')
  <1>1. awake' \in BOOLEAN BY DEF Handshake
  <1>2. info' \in BOOLEAN BY <1>1 DEF Handshake
  <1>3. awake => awake' BY DEF Handshake
  <1> QED BY <1>1, <1>2, <1>3

\* A GATT read fills fields and empties none.
LEMMA GattReadGains ==
  ASSUME gatt \subseteq Fields, known \subseteq Fields, GattRead
  PROVE  /\ known' \subseteq Fields /\ known \subseteq known'
         /\ known' # {} => "serial" \in known' \/ "version" \in known'
  BY DEF GattRead, Fields

\* Types, and what goes with a link.
LEMMA NextTyped == IInv /\ [Next]_vars => Typed'
  <1> SUFFICES ASSUME IInv, [Next]_vars PROVE Typed' OBVIOUS
  <1> USE MachineInfoAssumption DEF IInv, Typed, TypeOK, LinkInv, NoCommand, NoLoop, NoCall,
          Tasks, Settings, Fields, Unknown, vars, machine, status, history
  <1>1. CASE Answer
    <2>1. busy.key \in Settings BY <1>1 DEF Answer
    <2>2. shown' \in [Settings -> {Unknown, "factory", "chosen"}] BY <1>1, <2>1 DEF Answer
    <2> QED BY <1>1, <2>2 DEF Answer
  <1>2. CASE InfoArrives
    <2>1. known' \subseteq Fields /\ info' \in BOOLEAN BY <1>2 DEF InfoArrives
    <2> QED BY <1>2, <2>1 DEF InfoArrives
  <1>3. ASSUME NEW t \in Tasks, GetRadius(t) PROVE Typed'
    BY <1>3 DEF GetRadius, Arrives, Takes, Asked
  <1>4. ASSUME NEW t \in Tasks, GetVibration(t) PROVE Typed'
    BY <1>4 DEF GetVibration, Arrives, Takes, PauseOver
  <1>5. CASE Connect
    <2>1. shown' \in [Settings -> {Unknown, "factory", "chosen"}] BY <1>5 DEF Connect
    <2>2. links' \in 0..MaxLinks BY <1>5 DEF Connect
    <2> QED BY <1>5, <2>1, <2>2 DEF Connect
  <1>6. CASE ConnectFails BY <1>6 DEF ConnectFails
  <1>7. CASE LinkUp BY ZenonT(60), <1>7 DEF LinkUp, Handshake
  <1>8. CASE ConnectDone
    <2>0. /\ loop' \in [at : {"done", "sleep", "read"}, n : 0..MaxAttempts]
          /\ loop'.at = "read" => loop'.n \in 1..MaxAttempts /\ link
          /\ loop'.at = "sleep" => loop'.n < MaxAttempts
      BY <1>8 DEF ConnectDone, Retry
    <2>1. CASE Refresh
      <3>1. refresh' \in [Tasks -> {"none", "radius", "vibration"}] BY <2>1 DEF Refresh
      <3>2. crossed' \in BOOLEAN BY <2>1 DEF Refresh
      <3> QED BY ZenonT(60), <1>8, <2>0, <2>1, <3>1, <3>2 DEF ConnectDone
    <2>2. CASE UNCHANGED <<refresh, crossed>> BY ZenonT(60), <1>8, <2>0, <2>2 DEF ConnectDone
    <2> QED BY <1>8, <2>1, <2>2 DEF ConnectDone
  <1>9. CASE Drop
    <2>1. refresh' \in [Tasks -> {"none", "radius", "vibration"}] BY <1>9 DEF Drop
    <2>2. loop' \in [at : {"done", "sleep", "read"}, n : 0..MaxAttempts] /\ loop'.at = "done"
      BY <1>9 DEF Drop
    <2>3. \A t \in Tasks : refresh'[t] = "none" BY <1>9 DEF Drop
    <2> QED BY <1>9, <2>1, <2>2, <2>3 DEF Drop
  <1>10. CASE LoopAborts BY <1>10 DEF LoopAborts
  <1>11. CASE LoopSeesInfo BY <1>11 DEF LoopSeesInfo, Refresh
  <1>12. CASE LoopReads BY <1>12 DEF LoopReads
  <1>13. CASE GattHelps BY <1>13 DEF GattHelps, GattRead, Refresh
  <1>14. CASE GattEmpty
    <2>1. awake' \in BOOLEAN /\ info' \in BOOLEAN BY <1>14, HandshakeWakes DEF GattEmpty
    <2>2. known' \subseteq Fields BY <1>14, GattReadGains DEF GattEmpty
    <2>3. spent' \in BOOLEAN BY <1>14 DEF GattEmpty
    <2> QED BY <1>14, <2>1, <2>2, <2>3 DEF GattEmpty
  <1>15. ASSUME NEW want \in SUBSET (Settings \cup {"brightness"}), SetBegin(want) PROVE Typed'
    <2>0. \E a \in {"probe", "center", "set"} : service' = [at |-> a, want |-> want]
      BY <1>15 DEF SetBegin
    <2>1. service' \in [at : {"idle", "probe", "center", "set"}, want : SUBSET (Settings \cup {"brightness"})]
      BY <2>0
    <2>2. busy' \in {NoCommand} \cup [by : Tasks \cup {"service"}, key : Settings]
      BY <1>15 DEF SetBegin, Arrives
    <2>3. ~link => busy' = busy BY <1>15 DEF SetBegin
    <2>4. crossed' \in BOOLEAN BY <1>15 DEF SetBegin
    <2> QED BY <1>15, <2>1, <2>2, <2>3, <2>4 DEF SetBegin
  <1>16. CASE ProbeOver BY <1>16 DEF ProbeOver
  <1>17. CASE Center BY <1>17 DEF Center
  <1>18. CASE SetDone BY <1>18 DEF SetDone
  <1>19. CASE SetFails BY <1>19 DEF SetFails
  <1>20. ASSUME NEW key \in Settings, SetOne(key) PROVE Typed'
    BY <1>20 DEF SetOne, Arrives, Takes, ServicePause
  <1>21. CASE UNCHANGED vars BY <1>21
  <1> QED BY <1>1, <1>2, <1>3, <1>4, <1>5, <1>6, <1>7, <1>8, <1>9, <1>10, <1>11, <1>12, <1>13, <1>14, <1>15, <1>16, <1>17, <1>18, <1>19, <1>20, <1>21 DEF Next

\* A handshake is repeated only as long as nothing was asked.
LEMMA NextWake == IInv /\ [Next]_vars => WakeInv'
  <1> SUFFICES ASSUME IInv, [Next]_vars PROVE WakeInv' OBVIOUS
  <1> USE DEF IInv, Typed, TypeOK, LinkInv, WakeInv, NoCommand, NoLoop, Tasks, Fields,
          Unknown, vars, machine, status, history
  <1>1. CASE Answer BY <1>1 DEF Answer
  <1>2. CASE InfoArrives BY <1>2 DEF InfoArrives
  <1>3. ASSUME NEW t \in Tasks, GetRadius(t) PROVE WakeInv'
    BY <1>3 DEF GetRadius, Arrives, Takes, Asked
  <1>4. ASSUME NEW t \in Tasks, GetVibration(t) PROVE WakeInv'
    BY <1>4 DEF GetVibration, Arrives, Takes, PauseOver
  <1>5. CASE Connect BY <1>5 DEF Connect
  <1>6. CASE ConnectFails BY <1>6 DEF ConnectFails
  <1>7. CASE LinkUp BY <1>7 DEF LinkUp, Handshake
  <1>8. CASE ConnectDone BY <1>8 DEF ConnectDone, Retry, Refresh
  <1>9. CASE Drop BY <1>9 DEF Drop
  <1>10. CASE LoopAborts BY <1>10 DEF LoopAborts
  <1>11. CASE LoopSeesInfo BY <1>11 DEF LoopSeesInfo, Refresh
  <1>12. CASE LoopReads BY <1>12 DEF LoopReads
  <1>13. CASE GattHelps BY <1>13 DEF GattHelps, GattRead, Refresh
  <1>14. CASE GattEmpty
    <2>1. known = {} /\ known' = {} BY <1>14, GattReadGains DEF GattEmpty
    <2>2. awake => awake' BY <1>14, HandshakeWakes DEF GattEmpty
    <2> QED BY <1>14, <2>1, <2>2 DEF GattEmpty
  <1>15. ASSUME NEW want \in SUBSET (Settings \cup {"brightness"}), SetBegin(want) PROVE WakeInv'
    BY <1>15 DEF SetBegin, Arrives, Takes, Quiet
  <1>16. CASE ProbeOver BY <1>16 DEF ProbeOver
  <1>17. CASE Center BY <1>17 DEF Center
  <1>18. CASE SetDone BY <1>18 DEF SetDone
  <1>19. CASE SetFails BY <1>19 DEF SetFails
  <1>20. ASSUME NEW key \in Settings, SetOne(key) PROVE WakeInv'
    BY <1>20 DEF SetOne, Arrives, Takes, ServicePause
  <1>21. CASE UNCHANGED vars BY <1>21
  <1> QED BY <1>1, <1>2, <1>3, <1>4, <1>5, <1>6, <1>7, <1>8, <1>9, <1>10, <1>11, <1>12, <1>13, <1>14, <1>15, <1>16, <1>17, <1>18, <1>19, <1>20, <1>21 DEF Next

\* Every refresh finds a free task.
LEMMA NextTasks == IInv /\ [Next]_vars => TasksInv'
  <1> SUFFICES ASSUME IInv, [Next]_vars PROVE TasksInv' OBVIOUS
  <1> USE DEF IInv, Typed, TypeOK, LinkInv, TasksInv, NoLoop, Tasks, vars, machine, status,
          history
  <1>1. CASE Answer BY <1>1 DEF Answer
  <1>2. CASE InfoArrives BY <1>2 DEF InfoArrives
  <1>3. ASSUME NEW t \in Tasks, GetRadius(t) PROVE TasksInv'
    BY <1>3 DEF GetRadius, Arrives, Takes, Asked
  <1>4. ASSUME NEW t \in Tasks, GetVibration(t) PROVE TasksInv'
    BY <1>4 DEF GetVibration, Arrives, Takes, PauseOver
  <1>5. CASE Connect BY <1>5 DEF Connect
  <1>6. CASE ConnectFails BY <1>6 DEF ConnectFails
  <1>7. CASE LinkUp BY <1>7 DEF LinkUp, Handshake
  <1>8. CASE ConnectDone BY <1>8 DEF ConnectDone, Retry, Refresh
  <1>9. CASE Drop BY <1>9 DEF Drop
  <1>10. CASE LoopAborts BY <1>10 DEF LoopAborts
  <1>11. CASE LoopSeesInfo BY <1>11 DEF LoopSeesInfo, Refresh
  <1>12. CASE LoopReads BY <1>12 DEF LoopReads
  <1>13. CASE GattHelps BY <1>13 DEF GattHelps, GattRead, Refresh
  <1>14. CASE GattEmpty BY <1>14 DEF GattEmpty, GattRead, Handshake
  <1>15. ASSUME NEW want \in SUBSET (Settings \cup {"brightness"}), SetBegin(want) PROVE TasksInv'
    BY <1>15 DEF SetBegin, Arrives, Takes, Quiet
  <1>16. CASE ProbeOver BY <1>16 DEF ProbeOver
  <1>17. CASE Center BY <1>17 DEF Center
  <1>18. CASE SetDone BY <1>18 DEF SetDone
  <1>19. CASE SetFails BY <1>19 DEF SetFails
  <1>20. ASSUME NEW key \in Settings, SetOne(key) PROVE TasksInv'
    BY <1>20 DEF SetOne, Arrives, Takes, ServicePause
  <1>21. CASE UNCHANGED vars BY <1>21
  <1> QED BY <1>1, <1>2, <1>3, <1>4, <1>5, <1>6, <1>7, <1>8, <1>9, <1>10, <1>11, <1>12, <1>13, <1>14, <1>15, <1>16, <1>17, <1>18, <1>19, <1>20, <1>21 DEF Next

\* The loop of a link ends with a request, or with its attempts.
LEMMA NextRetry == IInv /\ [Next]_vars => RetryInv'
  <1> SUFFICES ASSUME IInv, [Next]_vars PROVE RetryInv' OBVIOUS
  <1> USE DEF IInv, Typed, TypeOK, LinkInv, RetryInv, InfoRetried, Up, NoLoop, Tasks, Fields,
          vars, machine, status, history
  <1>1. CASE Answer BY <1>1 DEF Answer
  <1>2. CASE InfoArrives BY <1>2 DEF InfoArrives
  <1>3. ASSUME NEW t \in Tasks, GetRadius(t) PROVE RetryInv'
    BY <1>3 DEF GetRadius, Arrives, Takes, Asked
  <1>4. ASSUME NEW t \in Tasks, GetVibration(t) PROVE RetryInv'
    BY <1>4 DEF GetVibration, Arrives, Takes, PauseOver
  <1>5. CASE Connect BY <1>5 DEF Connect
  <1>6. CASE ConnectFails BY <1>6 DEF ConnectFails
  <1>7. CASE LinkUp BY <1>7 DEF LinkUp, Handshake
  <1>8. CASE ConnectDone BY <1>8 DEF ConnectDone, Retry, Refresh
  <1>9. CASE Drop BY <1>9 DEF Drop
  <1>10. CASE LoopAborts BY <1>10 DEF LoopAborts
  <1>11. CASE LoopSeesInfo BY <1>11 DEF LoopSeesInfo, Refresh
  <1>12. CASE LoopReads BY <1>12 DEF LoopReads
  <1>13. CASE GattHelps
    <2>1. "serial" \in known' \/ "version" \in known' BY <1>13, GattReadGains DEF GattHelps
    <2>2. \E t \in Tasks : refresh'[t] = "radius" BY <1>13 DEF GattHelps, Refresh
    <2> QED BY <1>13, <2>1, <2>2 DEF GattHelps
  <1>14. CASE GattEmpty BY <1>14 DEF GattEmpty, GattRead, Handshake
  <1>15. ASSUME NEW want \in SUBSET (Settings \cup {"brightness"}), SetBegin(want) PROVE RetryInv'
    BY <1>15 DEF SetBegin, Arrives, Takes, Quiet
  <1>16. CASE ProbeOver BY <1>16 DEF ProbeOver
  <1>17. CASE Center BY <1>17 DEF Center
  <1>18. CASE SetDone BY <1>18 DEF SetDone
  <1>19. CASE SetFails BY <1>19 DEF SetFails
  <1>20. ASSUME NEW key \in Settings, SetOne(key) PROVE RetryInv'
    BY <1>20 DEF SetOne, Arrives, Takes, ServicePause
  <1>21. CASE UNCHANGED vars BY <1>21
  <1> QED BY <1>1, <1>2, <1>3, <1>4, <1>5, <1>6, <1>7, <1>8, <1>9, <1>10, <1>11, <1>12, <1>13, <1>14, <1>15, <1>16, <1>17, <1>18, <1>19, <1>20, <1>21 DEF Next

\* A refresh and the service that meet are marked as crossed.
LEMMA NextApart == IInv /\ [Next]_vars => ApartInv'
  <1> SUFFICES ASSUME IInv, [Next]_vars PROVE ApartInv' OBVIOUS
  <1> USE DEF IInv, Typed, TypeOK, LinkInv, WakeInv, ApartInv, Idle, NoCommand, NoCall, Tasks,
          vars, machine, status, history
  <1>1. CASE Answer BY <1>1 DEF Answer
  <1>2. CASE InfoArrives BY <1>2 DEF InfoArrives
  <1>3. ASSUME NEW t \in Tasks, GetRadius(t) PROVE ApartInv'
    BY <1>3 DEF GetRadius, Arrives, Takes, Asked
  <1>4. ASSUME NEW t \in Tasks, GetVibration(t) PROVE ApartInv'
    BY <1>4 DEF GetVibration, Arrives, Takes, PauseOver
  <1>5. CASE Connect BY <1>5 DEF Connect
  <1>6. CASE ConnectFails BY <1>6 DEF ConnectFails
  <1>7. CASE LinkUp BY <1>7 DEF LinkUp, Handshake
  <1>8. CASE ConnectDone BY <1>8 DEF ConnectDone, Retry, Refresh
  <1>9. CASE Drop BY <1>9 DEF Drop
  <1>10. CASE LoopAborts BY <1>10 DEF LoopAborts
  <1>11. CASE LoopSeesInfo BY <1>11 DEF LoopSeesInfo, Refresh
  <1>12. CASE LoopReads BY <1>12 DEF LoopReads
  <1>13. CASE GattHelps BY <1>13 DEF GattHelps, GattRead, Refresh
  <1>14. CASE GattEmpty BY <1>14 DEF GattEmpty, GattRead, Handshake
  <1>15. ASSUME NEW want \in SUBSET (Settings \cup {"brightness"}), SetBegin(want) PROVE ApartInv'
    <2>1. CASE ~Quiet BY <1>15, <2>1 DEF SetBegin
    <2>2. CASE Quiet
      <3>1. busy'.by \in {"none", "service"} BY <1>15, <2>2 DEF SetBegin, Arrives, Quiet
      <3> QED BY <1>15, <2>2, <3>1 DEF SetBegin, Quiet
    <2> QED BY <2>1, <2>2
  <1>16. CASE ProbeOver BY <1>16 DEF ProbeOver
  <1>17. CASE Center BY <1>17 DEF Center
  <1>18. CASE SetDone BY <1>18 DEF SetDone
  <1>19. CASE SetFails BY <1>19 DEF SetFails
  <1>20. ASSUME NEW key \in Settings, SetOne(key) PROVE ApartInv'
    BY <1>20 DEF SetOne, Arrives, Takes, ServicePause
  <1>21. CASE UNCHANGED vars BY <1>21
  <1> QED BY <1>1, <1>2, <1>3, <1>4, <1>5, <1>6, <1>7, <1>8, <1>9, <1>10, <1>11, <1>12, <1>13, <1>14, <1>15, <1>16, <1>17, <1>18, <1>19, <1>20, <1>21 DEF Next

\* No request is lost for which none of the same kind is on its way.
LEMMA NextRead == IInv /\ [Next]_vars => ReadInv'
  <1> SUFFICES ASSUME IInv, [Next]_vars PROVE ReadInv' OBVIOUS
  <1> USE DEF IInv, Typed, TypeOK, LinkInv, WakeInv, ApartInv, ReadInv, Idle, NoCommand,
          Unknown, Tasks, Settings, vars, machine, status, history
  <1>1. CASE Answer BY <1>1 DEF Answer
  <1>2. CASE InfoArrives BY <1>2 DEF InfoArrives
  <1>3. ASSUME NEW t \in Tasks, GetRadius(t) PROVE ReadInv'
    BY <1>3 DEF GetRadius, Arrives, Takes, Asked
  <1>4. ASSUME NEW t \in Tasks, GetVibration(t) PROVE ReadInv'
    BY <1>4 DEF GetVibration, Arrives, Takes, PauseOver
  <1>5. CASE Connect BY <1>5 DEF Connect
  <1>6. CASE ConnectFails BY <1>6 DEF ConnectFails
  <1>7. CASE LinkUp BY <1>7 DEF LinkUp, Handshake
  <1>8. CASE ConnectDone BY <1>8 DEF ConnectDone, Retry, Refresh
  <1>9. CASE Drop BY <1>9 DEF Drop
  <1>10. CASE LoopAborts BY <1>10 DEF LoopAborts
  <1>11. CASE LoopSeesInfo BY <1>11 DEF LoopSeesInfo, Refresh
  <1>12. CASE LoopReads BY <1>12 DEF LoopReads
  <1>13. CASE GattHelps BY <1>13 DEF GattHelps, GattRead, Refresh
  <1>14. CASE GattEmpty BY <1>14 DEF GattEmpty, GattRead, Handshake
  <1>15. ASSUME NEW want \in SUBSET (Settings \cup {"brightness"}), SetBegin(want) PROVE ReadInv'
    BY <1>15 DEF SetBegin, Arrives, Takes, Quiet
  <1>16. CASE ProbeOver BY <1>16 DEF ProbeOver
  <1>17. CASE Center BY <1>17 DEF Center
  <1>18. CASE SetDone BY <1>18 DEF SetDone
  <1>19. CASE SetFails BY <1>19 DEF SetFails
  <1>20. ASSUME NEW key \in Settings, SetOne(key) PROVE ReadInv'
    BY <1>20 DEF SetOne, Arrives, Takes, ServicePause
  <1>21. CASE UNCHANGED vars BY <1>21
  <1> QED BY <1>1, <1>2, <1>3, <1>4, <1>5, <1>6, <1>7, <1>8, <1>9, <1>10, <1>11, <1>12, <1>13, <1>14, <1>15, <1>16, <1>17, <1>18, <1>19, <1>20, <1>21 DEF Next

\* A SET that is taken as set has been taken by the machine.
LEMMA NextHeld == IInv /\ [Next]_vars => HeldInv'
  <1> SUFFICES ASSUME IInv, [Next]_vars PROVE HeldInv' OBVIOUS
  <1> USE DEF IInv, Typed, TypeOK, LinkInv, ApartInv, HeldInv, Idle, NoCommand, Unknown,
          Tasks, Settings, vars, machine, status, history
  <1>1. CASE Answer BY <1>1 DEF Answer
  <1>2. CASE InfoArrives BY <1>2 DEF InfoArrives
  <1>3. ASSUME NEW t \in Tasks, GetRadius(t) PROVE HeldInv'
    BY <1>3 DEF GetRadius, Arrives, Takes, Asked
  <1>4. ASSUME NEW t \in Tasks, GetVibration(t) PROVE HeldInv'
    BY <1>4 DEF GetVibration, Arrives, Takes, PauseOver
  <1>5. CASE Connect BY <1>5 DEF Connect
  <1>6. CASE ConnectFails BY <1>6 DEF ConnectFails
  <1>7. CASE LinkUp BY <1>7 DEF LinkUp, Handshake
  <1>8. CASE ConnectDone BY <1>8 DEF ConnectDone, Retry, Refresh
  <1>9. CASE Drop BY <1>9 DEF Drop
  <1>10. CASE LoopAborts BY <1>10 DEF LoopAborts
  <1>11. CASE LoopSeesInfo BY <1>11 DEF LoopSeesInfo, Refresh
  <1>12. CASE LoopReads BY <1>12 DEF LoopReads
  <1>13. CASE GattHelps BY <1>13 DEF GattHelps, GattRead, Refresh
  <1>14. CASE GattEmpty BY <1>14 DEF GattEmpty, GattRead, Handshake
  <1>15. ASSUME NEW want \in SUBSET (Settings \cup {"brightness"}), SetBegin(want) PROVE HeldInv'
    BY <1>15 DEF SetBegin, Arrives, Takes, Quiet
  <1>16. CASE ProbeOver BY <1>16 DEF ProbeOver
  <1>17. CASE Center BY <1>17 DEF Center
  <1>18. CASE SetDone BY <1>18 DEF SetDone
  <1>19. CASE SetFails BY <1>19 DEF SetFails
  <1>20. ASSUME NEW key \in Settings, SetOne(key) PROVE HeldInv'
    BY <1>20 DEF SetOne, Arrives, Takes, ServicePause
  <1>21. CASE UNCHANGED vars BY <1>21
  <1> QED BY <1>1, <1>2, <1>3, <1>4, <1>5, <1>6, <1>7, <1>8, <1>9, <1>10, <1>11, <1>12, <1>13, <1>14, <1>15, <1>16, <1>17, <1>18, <1>19, <1>20, <1>21 DEF Next

\* IInv is an invariant.
LEMMA Inductive == Spec => []IInv
  <1>1. ASSUME Init PROVE IInv
    <2> USE <1>1, MachineInfoAssumption DEF Init, NoCommand, NoLoop, NoCall, Tasks, Settings, Fields, Unknown
    <2>1. TypeOK
      <3>1. service \in [at : {"idle", "probe", "center", "set"}, want : SUBSET (Settings \cup {"brightness"})]
        OBVIOUS
      <3>2. /\ shown \in [Settings -> {Unknown, "factory", "chosen"}]
            /\ held \in [Settings -> {"factory", "chosen"}]
        OBVIOUS
      <3>3. refresh \in [Tasks -> {"none", "radius", "vibration"}] OBVIOUS
      <3>4. loop \in [at : {"done", "sleep", "read"}, n : 0..MaxAttempts] /\ loop.at # "read" OBVIOUS
      <3>5. gatt \subseteq Fields /\ known \subseteq Fields OBVIOUS
      <3>6. links \in 0..MaxLinks /\ sets \in 0..MaxSets OBVIOUS
      <3> HIDE DEF Fields, Settings, Tasks
      <3> QED BY <3>1, <3>2, <3>3, <3>4, <3>5, <3>6 DEF TypeOK
    <2>2. LinkInv BY DEF LinkInv
    <2>3. WakeInv /\ TasksInv BY DEF WakeInv, TasksInv
    <2>4. RetryInv BY DEF RetryInv, InfoRetried, Up
    <2>5. ApartInv /\ ReadInv /\ HeldInv BY DEF ApartInv, ReadInv, HeldInv, Idle
    <2> QED BY <2>1, <2>2, <2>3, <2>4, <2>5 DEF IInv, Typed
  <1>2. IInv /\ [Next]_vars => IInv'
    BY NextTyped, NextWake, NextTasks, NextRetry, NextApart, NextRead, NextHeld DEF IInv
  <1> QED BY <1>1, <1>2, PTL DEF Spec

\* Every variable keeps its type; in particular the loop of
\* coordinator/connection.py never makes more than its attempts.
THEOREM TypeCorrect == Spec => []TypeOK
  <1>1. IInv => TypeOK BY DEF IInv, Typed
  <1> QED BY <1>1, Inductive, PTL

\* Whatever drops and reconnects came before, a link whose machine has not said
\* who it is has a retry loop, or one that used its attempts or saw a version.
THEOREM EveryLinkRetries == Spec => []InfoRetried
  <1>1. IInv => InfoRetried BY DEF IInv, RetryInv
  <1> QED BY <1>1, Inductive, PTL

\* A link that knows its serial number has asked for the settings, however the
\* tail of async_connect, the loop and the notification interleave.
THEOREM EveryLinkAsks == Spec => []SettingsRequested
  <1>1. IInv => SettingsRequested
    BY DEF IInv, RetryInv, SettingsRequested, Settled, Quiet
  <1> QED BY <1>1, Inductive, PTL

\* The pauses between the type-2 commands are enough: both settings of a machine
\* that was awake when asked are read, even by two refreshes at once.
THEOREM PausesSuffice == Spec => []BothRead
  <1>1. IInv => BothRead
    BY DEF IInv, ReadInv, BothRead, Settled, Up, Quiet, Settings, NoCommand, Unknown
  <1> QED BY <1>1, Inductive, PTL

\* A setting that async_set_advanced_settings took as set is set.
THEOREM SensorsAgree == Spec => []ShownIsHeld
  <1>1. IInv => ShownIsHeld BY DEF IInv, HeldInv, ShownIsHeld
  <1> QED BY <1>1, Inductive, PTL

\* Neither connect nor the loop is ever held up by its refresh: at most two run
\* on one link, the number the model has.
THEOREM TwoTasksSuffice ==
  Spec => [](dial = "settling" \/ loop.at # "done" => \E t \in Tasks : refresh[t] = "none")
  <1>1. IInv => (dial = "settling" \/ loop.at # "done" => \E t \in Tasks : refresh[t] = "none")
    BY DEF IInv, TasksInv
  <1> QED BY <1>1, Inductive, PTL
=============================================================================
