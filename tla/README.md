# A verification project for the xBloom integration

TLA+ specifications of `custom_components/xbloom`, the Home Assistant integration
that drives an xBloom coffee machine over Bluetooth LE. TLC checks them on small
instances; TLAPS proves most of the safety properties for instances of any size. Paths
below are relative to `src/custom_components/xbloom/`.

## 1. The system

One coordinator object (a `DataUpdateCoordinator`, split into mixins under
`coordinator/`) owns the machine. Everything runs on one asyncio loop: there is no
preemption, but every `await` lets another handler run, so a handler's checks may be
stale after each of its awaits. Bluetooth callbacks are posted to the same loop.

| Component | State | Operations | Talks to |
|---|---|---|---|
| BLE session: `coordinator/connection.py`, `ble/connection.py`, `switch.py`, `_async_ensure_connected` in `coordinator/__init__.py` | `client`, `_connect_lock`, `_manual_disconnect`, `_idle_disconnected`, the two pending flags, backoff, activity time | connect, disconnect, drop callback, supervisor, silence watchdog, idle standby, wake | client, poll |
| Poll and state derivation: `coordinator/state.py` | `data`, `_last_reconcile_screen`, the run flags | `_async_update_data`, reconciliation of arm and run, `_dispatch_event` | session, operations |
| Manual operations: `coordinator/operations.py`, `button.py`, `ble/components.py` | `_armed_operation`, `_active_operation`, pause flags, `_pod_prompt_active` | arm, confirm, pause/resume, cancel, stop verification | client, poll |
| Brew preparation: `coordinator/recipes.py`, `schema.py` | none | overrides, rescaling, firmware gate | recipe store, chain |
| Recipe chain: `brewing.py`, `coordinator/recipes.py` | armed payload, running recipe | arm, confirm, execute | ACK correlation |
| Easy slots and mode: `brewing.py`, `coordinator/recipes.py`, `coordinator/connection.py` | record in the options, mode preference | three-slot write, mode switch and restore | client, options |
| ACK correlation: `ble/client.py` | `_pending_acks` | `send_and_wait`, resolve, fail | notifications |
| Notification decoding: `ble/client.py`, `ble/framing.py`, `ble/models.py` | `DeviceStatus`, the brew context and calibration latches | status codes, responses, frame iteration, weight filter | poll, dispatch |
| Unit preferences: `coordinator/connection.py` | pending keys, `_unit_push_lock`, options | push, sync from machine | session, options |
| Recipe store: `coordinator/recipes.py`, `schema.py`, `__init__.py`, `config_flow.py` | `entry.options["recipes"]` with tombstones, seed flags, the merged view, the selection | create, edit, delete, import, export, seed, migrate, options flow | select entity, cloud |
| Cloud conversion: `_cloud_client.py` | none | local recipe to account and back | recipe store |
| Machine info retry: `coordinator/connection.py` | `_machine_info_task` | handshake retries, GATT reads | session, settings |
| Advanced settings and calibration: `coordinator/advanced_settings.py` | radius, vibration, calibration flag | get, set, calibrate, fallback timer | client |
| Entities, setup, cloud HTTP, pod library, LLM tools, panel, photos | none that others depend on | views and wrappers | coordinator |

What is hard:

* **Interleaving at awaits.** A connect takes seconds (link, notify, handshake,
  settle). The switch, an action's on-demand connect, a wake's reconnect, the
  supervisor and two teardowns of the poll all meet there, and `async_disconnect`
  takes no lock.
* **Late callbacks.** The drop callback of a link clears `self.client`, whichever
  link that is by then.
* **Report lag.** The machine reports a page or an activity about a second after the
  command. The coordinator infers pause, resume, the end of a run and a knob start
  from reports that may be older than its last command.
* **Dropped commands.** A stop in the machine's start transition is ignored.
* **Two masters.** The knobs do everything the buttons do.
* **Timers and retries.** Backoff, silence watchdog, idle standby, ACK timeouts, the
  retry of a whole recipe chain for a sleeping machine, calibration fallbacks.
* **Answers without identity.** An echo carries the command id and nothing else; two
  status codes mean different things in different contexts; a "type 2" command that
  arrives while the machine is busy vanishes without a word.
* **Reloads.** An options change may replace the coordinator while its tasks wait for
  the cloud; they go on and write the same store.

What makes each component correct:

* session: connects are single-flight; at most one link, and the coordinator knows
  it; standby holds none; a wanted link comes back; a wedged one is given up;
* operations and poll: the bookkeeping agrees with the machine once its reports are
  in; a lagging report costs neither an arm, a run nor a pause;
* chain and ACKs: a call goes on only past steps the machine took, a recipe reported
  as loaded is loaded, every call returns;
* slots: the record shows what the machine holds;
* units: no change is lost or taken back, no lock cycle;
* recipe store: what was deleted stays deleted once its seeding is over, nothing else
  is lost, the live coordinator shows the store, the selection follows every write;
* decoding: ambiguous codes are read for what the machine does;
* machine info and settings: no link is left without its retry loop, no setting unread;
* brew preparation and conversion: the water adds up, an old machine gets no tea, a
  recipe survives the trip to the account and back.

`PROJECT.json` lists the hazards that matter most one by one, at the line where they bite;
section 4 tells those the code is exposed to.

## 2. Modules

| Module | What it is |
|---|---|
| `Session` | the BLE session: 16 variables, one action per code segment between two awaits |
| `Operations` | buttons, knobs, notifications and polls |
| `OperationsIntent` | `Operations` with the history of left pages, for `ArmDroppedOnceLeft` |
| `RecipeOrder` | what a recipe chain promises (abstract) |
| `RecipeChain` | the chains command by command over the ACK waiters; implements `RecipeOrder` |
| `EasySlots` | the three-slot write with the mode switch |
| `UnitSync` | unit and water-source preferences against the machine's own panel |
| `RecipeStore` | the local recipe store and everything that writes it |
| `Telemetry` | status decoding, knob mirror, grinder calibration |
| `MachineInfo` | the retry for serial number and version, and the advanced settings |
| `BrewPlan` | brew preparation and the cloud conversion, as functions |
| `SessionProofs`, `OperationsProofs`, `RecipeChainProofs`, `EasySlotsProofs`, `UnitSyncProofs`, `RecipeStoreProofs`, `TelemetryProofs`, `MachineInfoProofs` | TLAPS proofs about the module of that name, `OperationsProofs` about `OperationsIntent` too (section 5) |
| `MCSession`, `MCOperations`, `MCRecipeChain`, `MCEasySlots`, `MCUnitSync`, `MCRecipeStore`, `MCTelemetry`, `MCMachineInfo`, `MCBrewPlan` | the TLC instances |

The modules are separate views of one coordinator: each keeps the state its hazards
need and abstracts the others to an action (a link that drops, a machine that sleeps, a
recipe that is edited or deleted). `Operations` has the recipe chain by its outcome, `RecipeChain`
step by step; `Session` has a connect without what it sends on the new link, `UnitSync`
and `MachineInfo` have that part with the link's life reduced to up and down.

Operators with the comment *Variant* are not used by the specifications: each is a
definition as a plausible slip would have left it, kept to show that a property
notices it.

### Session

A task is a coroutine: calls of the switch, calls of user actions, the supervisor's
reconnect, the stale-link drop and the standby drop. `task[t].pc` is the await it is
suspended at, `own` the client object it holds in a local variable. `lock` is
`_connect_lock`, holder first, waiters in asyncio's FIFO order. `client` is
`self.client`; `live` is the set of client objects whose link is really up, so that
what the coordinator believes and what is true are separate. `callbacks` are drop
callbacks posted to the loop and not yet run.

* `async_connect` is `EnterConnect` (the lock), `AcquireLock`, `ConnectBody` (the check
  for a link that is up by now, a new client object), `LinkUp` or `LinkRefused`,
  `NotifyStarted` or `NotifyFailed`, `ResetState` (the handshake; its cleanup commands
  stop whatever runs), `ConnectReturns` (restores `self.client`, clears the flags).
* `async_disconnect` and the teardowns of the poll are `StartClosing` followed by
  `SwitchedOff`, `StaleDropped`, `StandbyEntered` or `WakeReconnects`, each with the
  assignments the code makes after its await.
* `_async_update_data` is `Poll`: stale link, standby, activity or reconnect, in the
  order of the code's early returns.
* `_handle_unexpected_disconnect` is `HandleDisconnect`.
* Time is abstracted to flags: `expired`, `blocked` and `mute` say that a timeout has
  passed; an environment action sets them when it may.

Assumptions taken from the code: tasks created with `hass.async_create_task` start
eagerly; a drop callback queued before a connect began has run when the connect
returns (`LoopDrained`: after the link is up the connect sleeps for
0.2+0.5+0.5+0.5 s); `_session_timeout` is positive; every requested refresh is a
`Poll`; unloading the entry is a switch-off.

### Operations

The link is up and the machine awake (the rest is Session's). `book` holds the
coordinator's flags (`_armed_operation`, `_active_operation`, `_manual_paused`,
`_manual_run_seen`, `_manual_pause_seen`, `_pod_prompt_active`), `status` what the
client decoded, `shown` the state the sensor shows, which the pause button reads.
`page`, `run` and `phase` are the machine; `reports` is the queue of its
notifications, each of one or two frames. The machine is external: what it does on a
command is what the code and its comments record of the hardware.

* Buttons: `ArmManual`, `ConfirmManual`, `ArmRecipe`, `ConfirmRecipe`, `PauseRun`,
  `ResumeRun`, `PauseResumeRecipe`, `CancelArmed`, `CancelManual`, `CancelOther`. The
  recipe and cancel calls go on after awaits: `ChainSends`, `ChainArmed`,
  `ChainExecutes`, `ChainAborted`, `StartVerified`, `StartUnconfirmed`,
  `StopChecked`, `StopResent`, `QuitSent`.
* `Notify` is `_on_notification` with `_dispatch_event`; `Poll` is
  `_async_update_data`: `ReconcileArmed`, `ReconcileManual`, `DeriveState`.
* The rest happens at the machine: `OpenPage`, `BackOut`, `KnobStart`, `EasySlot`,
  `InsertPod`, `RunBegins`, `KnobPause`, `KnobResume`, `RunEnds`, `RunFails`.

A write without response returns long before its effect is reported, so a command and
the code up to the next real await are one step. A refresh is posted to the loop
before any later press, so a press never falls between a notification and its
refresh. `Hasty` says whether a button may be pressed while reports are on their way.
Left out: water shortage, sleep and calibration labels (they outrank the others in the
sensor and touch none of the flags), the scale page, duplicates of begin reports, the
tea and coffee payloads, setpoint pushes, and `async_grind`/`async_pour`, which
nothing calls.

### RecipeChain and RecipeOrder

A call arms, confirms or executes a recipe. `call[t].pc` is the await it is at, `step`
the next command of `Chain(kind)` (8022, 8102, 8104 and the recipe's own command), `go`
the command that starts the brew. `waiter` is the future of `send_and_wait`; `out` and
`in` are commands and frames in the air, each of which may be lost. An echo answers
whoever waits for its id. `MaxLate` echoes may come after their wait has timed out, and
may answer the retry. A machine that dozes takes nothing; `_async_retry_while_sleeping`
wakes it, by a handshake or by a reconnect that may fail, and repeats the whole chain. A
lost link leaves the waiters to their timeouts
(`_fail_pending_acks` is called by a requested disconnect only).

`RecipeOrder` knows of a call only whether it is loading, loaded or failed, and of the
machine how many steps it took in order. The refinement mapping reads `order` off `pc`,
`step` and `tries`; `taken` is the history variable of the same name. One late echo
is harmless since the retry begins with a step that has been taken; two late echoes and
three attempts let a call pass a step (two repetitions of 8022 are on their way when the
late 8102 is echoed to the third attempt's wait), so `NoStepSkipped` holds with `MaxLate`
at most 1 and is not claimed beyond it.

### EasySlots

`write[w]` is a call of `async_write_easy_slot`: the switch to Pro with its retries, the
slots A, B, C with the order that closes the batch, the restore of Easy Mode (the
`finally`), the record. The other two slots are filled in from the record, with those
recipes as they are by then, and mirror the target when there is none. `Edit` is
`async_edit_local_recipe` as far as the slots see it: it turns a coffee into a tea or
back and keeps the uid. A slot holds a `Blob`, the recipe's uid and whether it was a tea
when it was sent; `turned` is the history of the recipes an edit has made a tea. The
machine keeps a batch only when it is complete and only in Pro mode. `unsure` marks slots
whose outcome no one can know: the switch was not confirmed and the batch went out anyway,
or the link was lost between the third slot and the order.

### UnitSync

One push task per settings change, and the supervisor's connect, which pushes what is
pending under `_connect_lock`. Both take `_unit_push_lock` (`lock`, holder first). A push
captures its client before it waits for the lock. `Notified` is the 8015 report: for a
key that is not pending the machine wins, a pending one is left alone. `last` and
`givenUp` are history: who changed a key last, and which sends were never acknowledged.

### RecipeStore

A recipe is a record of `uid`, `link` (where its share URL and cloud id lead: to a pod,
to the account or nowhere) and `pod` (the scanned pod it was saved from); names are a
base name with an optional suffix, so that `dedupe_name` does what it does. There are two
pods of one name, one with a share link and one without, which `save_pod_recipes` finds
again by different rules (`Known`). `store` and `tombs` are the two halves of
`entry.options["recipes"]`; `view[g]` is `self.recipes` of the g-th coordinator since
start, because tasks of a replaced one go on. Setup is three steps with the listener registered by the last one, so a write in the setup
window goes unheard; `missed` is the history of such a write. `gone` is the history of
names that went from the list, each with the seedings that were over by then: flag set
and no task of it still waiting for the cloud (`Over`). Cloud calls are split at their
await (`ImportBegin`/`ImportDone`, `ExportBegin`/`ExportDone`, `SetupDone`/`SeedDone`). `Init` covers stores of version 1, 2
and 3, empty, with recipes, with YAML recipes already hidden by a tombstone, or seeded
long ago with a recipe saved from a pod.

### Telemetry

The machine walks through pages, grinds, pours, brews, scale calibrations and grinder
sweeps; every change sends the frames the code's comments record, each of which may get
lost (`MaxLost`), and the link may drop and come up in the middle with a client that has
seen nothing. `client` holds the latches of `XBloomClient`. `waiting` are the 180 s
fallbacks on their way, and `flagged` is the press that raised the calibration flag of
this link. `heard` is the last state of
which a frame arrived, so that properties speak only when the client could know.

### MachineInfo

`dial` is `async_connect` on one link, `loop` the retry task, `refresh` the settings
tasks (two may run on one link), `service` a call of `set_advanced_settings`, `busy` the
type-2 command the machine answers at the moment: another one that arrives is dropped.
A pause (0.8 s) outlasts an answer, which is the assumption the code makes and
`PauseOver` states.

### BrewPlan

Pure functions, with a state machine only to feed them: choose a recipe, export and
import it up to twice, prepare a brew with any combination of overrides. A ratio is in
halves and half a ml is the unit, so the arithmetic is exact; the one place where
floats decide, a pour at exactly half a ml, is a choice. The cup type is a string, since
`RECIPE_SCHEMA` and the overrides of the services let nothing else through
(`schema.py:102`): a known name, one in capitals, one with a space after it, another.
The firmware gate reads it as it stands but for capitals (`Gate`), the build strips it
too (`IsTea`), and the version is too old, new enough or not known, which passes
(`FirmwareAtLeast`). `WaterAddsUp` checks the
scaling against its definition (the water is dose times ratio and every pour keeps its
share), not against the algorithm.

## 3. Runs

| Run | Instance | Shows |
|---|---|---|
| `session` | 3 clients, 1 switch call, 1 action | types; `SingleLink`: at most one link, and it is the coordinator's or that of the connect in flight; `StandbyHoldsNoLink` |
| `session_faults` | 3 clients, 1 switch call, one orphaned link | `SingleFlight` even when `start_notify` or `disconnect` raises and leaves a link up |
| `session_live` | 2 clients, 1 switch call | `Reconnects`, `TeardownsEnd`, `WedgedLinkDropped`, `ConnectCallsReturn` |
| `operations` | 1 call, 2 reports in flight, not hasty | types; `PollAgrees`, `PauseKept`, `ArmDroppedOnceLeft` |
| `chain` | 2 calls, one after the other, 2 faults (losses, drops, failed reconnects), 1 late echo, 2 attempts | `NoStepSkipped`; `KeepsOrder`, the refinement of `RecipeOrder`; `CallsEnd` |
| `slots` | 2 recipes of either kind, edited and deleted, 3 writes one after the other, 1 loss | `SlotsAgree`, `NoTeaInSlots` |
| `units` | 2 keys, 2 changes, 1 change at the panel, 2 links | `NoOrphanChange`, `ChangeDelivered`, `NeverReverted` |
| `units_live` | 1 key, 3 wake attempts | `ChangePushed`, `TasksEnd` |
| `store` | names A (in YAML) and B, two pods, 3 writes, 2 coordinators | `NoResurrection`, `NothingLost`, `UpdatesShown`, `SelectionFollows`, `PodSavedOnce` |
| `telemetry` | 1 lost notification, 1 lost link, 2 presses, 2 sizes | `BrewNotSwallowed`, `CalibrationNeverBrew`, `NoStaleRun`, `SweepSilent`, `CalibrationBacked`, `OnlyByHand` |
| `machine_info` | 3 links, 2 attempts, 2 service calls | `InfoRetried`, `SettingsRequested`, `BothRead`, `ShownIsHeld` |
| `brew_plan` | all recipes of up to 3 pours over small volumes and of every style; all overrides | `WaterAddsUp`, `TeaGated`, `RoundTrip` |

Bounds.

* Session: a client object is reused when nothing refers to it any more, so three of
  them give a link that is up, one being closed and one coming up at the same time,
  which is all that the lock leaves possible; `MaxOrphans` bounds only the transport
  errors. One switch call and one action, with the three background tasks, give every
  pair that can meet at `_connect_lock`, and the theorems of section 5 hold for any
  number.
* Operations: two reports in flight are those of a command and of what overtook it.
* RecipeChain: two faults lose a command and its echo, or an echo and the link. Two
  calls let an arm be followed by its confirm, or by a second arm over it.
* UnitSync: two keys show the order of a push and a failure between them; two pushes and
  the supervisor give holder, waiter and a change in flight. `ChangeDelivered` and
  `NeverReverted` depend on this bound: section 4 has what a third change can do.
* EasySlots: three writes are needed for a slot to be written, mirrored and written
  again; of two recipes one is recorded, edited or deleted while the other is written. One
  loss is a switch command, its ACK or the link; what several do is proved (section 5).
* RecipeStore: two names so that one shadows the other and a suffix is needed; two
  coordinators for a task that outlives its own; three writes for delete, write, seed.
  A seed that would bring back a name deleted after it is reached through a restart or
  reload; two seed tasks on their way at once need more writes, and are in the proof.
* Telemetry: one loss hits every frame in turn. With two, the frames that tell a pour
  from a calibration can both be missing and `BrewNotSwallowed` fails, as it must.
* MachineInfo: three links for a loop that survives two reconnects.
* BrewPlan: volumes from below one ml to ample ones, targets odd and even.

Fairness. `session_live`: weak fairness of every coroutine step, the poll and the
callbacks: the loop runs what is ready, the awaits in question have timeouts, and the
poll is periodic. Weak fairness of the backoff's end: it is a clock. Strong fairness
of `LinkUp`: a connect that can be attempted again and again succeeds at some time;
without it a machine that is out of range refutes `Reconnects`, rightly. There is no
fairness for the user, drops, silence or the session timeout. `units_live` and `chain`:
weak fairness of the coroutines (an await ends with its answer or its timeout) and of
the delivery of frames; in `chain` also of the machine taking what has arrived. None for
the user, drops and losses, which are bounded by their counters.

`TypeOK` is a property of `session` and `operations`; the other modules state theirs as the
base of their proofs.

Deadlock is checked in the session, operations and telemetry runs. The other models come
to an end when their bounded calls, writes, links or trips are used up.

## 4. Where code and comments disagree

The models reach the following, each a race of a small window or a corner of the
arithmetic. No run states them, since a property that the code does not have cannot
hold; where a property comes near one, it names the exception.

Session:

* the stale-link drop sets `_manual_disconnect` back to false after its await; a
  switch-off during the await is forgotten and the supervisor reconnects
  (`connection.py:170`, against the docstring at `connection.py:100`);
* a switch-off during a connect finds no link to close; the connect completes and stores
  its client (`connection.py:384`; `switch.py:31` says off is disconnected);
* only the cleanup of *disconnect* is disabled; the one in `connect` stops the brew that
  a drop interrupted (`client.py:436`, against the comment at `client.py:331`);
* a switch-off in standby leaves `_idle_disconnected` set, so the next action reconnects
  (`coordinator/__init__.py:349`);
* the poll decides on standby before it reads the status that would count as activity, so
  a brew just started at the machine does not keep the link (`state.py:330`);
* a wake checks for an arm before its disconnect and reconnect; an action of another task
  may arm in between, and the cleanup clears it (`connection.py:1139`).

Operations:

* a cancel while the recipe's chain awaits its ACKs clears nothing; the chain then sets
  `_armed_operation` and the next press brews (`recipes.py:400`);
* nothing refuses an arm during a run, and a cancel with something armed only quits the
  armed screen: the run goes on, and `_active_operation` is cleared (`operations.py:361`);
* a stop in the start transition is dropped; the check that should re-send it returns at
  once, since `is_running` is set by the report that ends the transition
  (`operations.py:401`);
* hasty presses: cancel and arm again within a second, and the home report of the cancel
  drops the new arm; arm and confirm within the lag, and the stale home page ends the run
  just started (`state.py:215`); pause while the begin report is in flight, and it is read
  as a resume (`state.py:206`). This is why `operations` runs without haste.

Chain and slots:

* two recipe calls, or two slot writes, at once are not excluded by the code; they share
  echoes, or restore the mode under each other (`Overlap`);
* a tea is refused for the slot that is asked for, and only there, although the comment
  says that no slot can brew one (`recipes.py:507-519`): a recipe recorded for another slot
  and then edited into a tea is sent again with every later write (`recipes.py:570-581`).
  `NoTeaInSlots` names this one way.

Units: a send of x waits for its ACK; the user changes the key to z, somebody sets the
machine's panel, the user changes back to x, and the ACK comes. The code compares the
value it sent with the current one, finds them equal and takes the key off the list,
although the machine holds the panel's value (`connection.py:726`). It takes three
changes in the window of one send. The next report then takes the user's value back.

Recipe store:

* the bundled seed of a fresh install does not skip the names of YAML recipes as the cloud
  seed does ("YAML recipes all win over the seed", `recipes.py:1157`): its recipe covers
  the YAML one (`recipes.py:1053`), an exception `NothingLost` names;
* an export that ends after its recipe was deleted or renamed stores the copy it began
  with (`recipes.py:1317`);
* every save of the options flow drops the tombstones (`config_flow.py:284`), and a rename
  there of a YAML recipe leaves two recipes with one uid (`config_flow.py:600`);
* a write between the start of a setup and the registration of the listener is not seen
  by the new coordinator's view (`__init__.py:905`), the case `UpdatesShown` leaves out
  by `missed`;
* an import begun before a reload dedupes against the old view and may write over a
  recipe of that name (`recipes.py:720`), one of the `WritesBehind`;
* names of deleted recipes are tombstones to the seed's docstring ("tombstones (= user
  deletions)", `recipes.py:1092`), but a deletion leaves one only for a YAML recipe
  (`recipes.py:1044`). A bundled or cloud recipe deleted while the seed still waits for
  the cloud, or after its fetch failed and before the retry, is added again
  (`recipes.py:1159`). `NoResurrection` speaks of names that went when the seeding was over;
* a pod's recipe is not always saved "once each" (`recipes.py:891`): an export replaces
  the pod's share link (`recipes.py:1317`), and a recipe without a link is known by the name
  it came with, so that a copy that was renamed, or saved as "name (2)" because the name
  was taken, is not found again (`recipes.py:907`). `PodSavedOnce` names both.

Telemetry: the 180 s fallback looks at the calibration flag and not at which press raised
it, so the fallback of a first calibration that was over in time ends a second one that
runs when it fires (`advanced_settings.py:82`, against its docstring).
`CalibrationBacked` is about the fallback of the press that raised the flag.

Machine info: the docstring of the loop asks for the serial number, but a GATT read that
gives the version alone ends it (`connection.py:521`), and an answer to the last
handshake is not acted on.

Brew preparation: the firmware gate compares the cup type without stripping it, the build
strips it, so "tea " passes the gate on old firmware and is a tea (`recipes.py:237` and
`:93`), and a version that is not known passes for every tea, as the docstring says
(`constants.py:75`); with pours of a ml or two the floor of one ml makes the sum larger than
the target, although the docstring says it is exact (`schema.py:209`); a tea with dose,
ratio and bypass has its pours scaled to the water less the bypass, though a tea sends
none (`recipes.py:253`); a zero volume or flow comes back from the account as 30 ml or
3.0, and an unknown cup as the dripper, so the conversions are inverse only for the
recipes `Plain` describes (`_cloud_client.py:368`).

## 5. Proofs

Each theorem holds for every value of the constants (any finite or infinite set of calls,
clients, tasks, keys, names; any bound), from the assumption named in its module and the
bounds stated below. Each proof module has an inductive invariant, found with TLC on the
run's instance or a larger one, a lemma per action or building block, and `StepHolds` or
its like that puts them together; the last step of a theorem is `PTL`.

| Module | Theorem | States | Under |
|---|---|---|---|
| `SessionProofs` | `TypeCorrect` | `TypeOK` | |
| | `ConnectsSingleFlight` | `SingleFlight` | |
| | `AtMostOneLink` | `SingleLink` | |
| | `StandbyWithoutLink` | `StandbyHoldsNoLink` | |
| `OperationsProofs` | `TypeCorrect` | `TypeOK` | |
| | `PollsAgree` | `PollAgrees` | |
| | `PauseSurvives` | `PauseKept` | `~Hasty` |
| | `ArmKeptUntilLeft` | `ArmDroppedOnceLeft` | `~Hasty` |
| `RecipeChainProofs` | `ChainInvariant` | the inductive invariant | one call at a time, `MaxLate <= 1` |
| | `StepsInOrder` | `NoStepSkipped` | the same |
| | `ChainKeepsOrder` | `KeepsOrder`, the refinement | the same |
| `EasySlotsProofs` | `TypeCorrect` | `TypeOK` | |
| | `TeaStaysOut` | `NoTeaInSlots` | |
| | `RecordAgrees` | `SlotsAgree` | one write at a time |
| `UnitSyncProofs` | `TypeCorrect` | `TypeOK` | |
| | `OnePushAtATime` | `OnePush`, what `_unit_push_lock` is for | |
| | `NoChangeOrphaned` | `NoOrphanChange` | |
| | `ChangesArrive` | `ChangeDelivered` | in every state with `panel = 0` |
| | `ChangesStand` | `NeverReverted` | `MaxPanel = 0` |
| `RecipeStoreProofs` | `TypeCorrect` | `TypeOK` | |
| | `GoneStaysGone` | `NoResurrection` | |
| | `NoneDisappears` | `NothingLost` | |
| | `SelectionIsKept` | `SelectionFollows` | |
| | `PodIsSavedOnce` | `PodSavedOnce` | |
| | `ViewIsLive` | `UpdatesShown` | |
| `TelemetryProofs` | `TypeCorrect` | `TypeOK` | |
| | `PagesEndRuns` | `NoStaleRun` | |
| | `SweepsAreSilent` | `SweepSilent` | |
| | `FallbackPending` | `CalibrationBacked` | |
| | `CalibrationIsNoBrew` | `CalibrationNeverBrew` | `MaxLost <= 2` |
| | `BrewIsSeen` | `BrewNotSwallowed` | `MaxLost <= 1` |
| | `SizeByHand` | `OnlyByHand` | `MaxLost <= 1` |
| `MachineInfoProofs` | `TypeCorrect` | `TypeOK` | |
| | `EveryLinkRetries` | `InfoRetried` | |
| | `EveryLinkAsks` | `SettingsRequested` | |
| | `PausesSuffice` | `BothRead` | |
| | `SensorsAgree` | `ShownIsHeld` | |
| | `TwoTasksSuffice` | two refresh tasks are enough | |

The conditions are the code's limits, not the prover's, and each is as weak as it can be.
TLC finds the property violated with calls or slot writes that overlap, with a second late
echo (and three attempts), with a second lost notification (a third for
`CalibrationNeverBrew`), with hasty presses and three reports in flight (`PauseKept`,
`ArmDroppedOnceLeft`), and with three settings changes and one tap on the panel.

**Session.** `SessionAssumption` says that the task names are distinct and `NoClient` is no
client. None of the last three is inductive. The invariant is `IInv == Typed /\ Rest`:

* `Typed` is `TypeOK /\ SingleFlight`; it needs to know that a connecting coroutine
  has a client, which is in
* `Rest`: `OwnInv` (every coroutine that connects or closes has a client of its own; a
  callback is never queued for a link that is up), `FlightInv` (during a connect,
  `self.client` is the connect's client or none), `LinkInv` (a link that is up is
  `self.client`'s or that of the connect in flight, and when no connect is in flight
  nothing on the loop will take its client away), `StandbyInv` (in standby the only
  link is the one being closed).

`SingleLink` follows from `LinkInv`, `FlightInv` and single flight; the part on
callbacks is why a late drop callback does no harm, and rests on `LoopDrained`.
Without `FlightInv` a connect could return over a link it does not know.
The two halves are proved one after the other, each from lemmas on the building
blocks of the actions (`ConnectBody`, `EnterConnect`, `ConnectFailed`, `StartClosing`,
`LinkClosed`) and then one step per action.

**Operations.** What a poll concludes from the client's status depends on the reports that
are still to come, so the invariant has to say where they will lead, and reports are a
sequence of any length. `IInv` says that there is a path: a sequence of statuses that starts
with the client's present one, goes on by one report each, and ends in one that `Agrees`
with the machine (`\E s : Path(s)`). Every step keeps it: a report that arrives drops the
first status of the path, a command of the machine that adds reports adds one for each
(`Steps`, `Told`, `PathGoesOn`), without a recursion over the reports. When no report is in
flight the path has one element and the status agrees, which is `PollAgrees`. Besides,
`MachineInv` says that a run has a phase and is on its page, `CallInv` that only manual
operations are stopped or quit by a cancel, `ScreenInv` that after a refresh the last
screen is the status's. `PausedInv` adds, for a user who is not hasty, that of a paused
manual run on its page at most the report of that page is in flight, and that until it is
in the status still shows the run running and the coordinator has not counted the pause as
seen; the poll's lemmas (`PollRunning`, `PollResting`, `PauseHolds`) then give `PauseKept`.
`ArmInv` says of the same path that until the armed page was left nothing on it is that
page followed by home, which is the only pair of screens that makes the poll drop an arm.

**RecipeChain.** `NoStepSkipped` needs to know what may still be on its way, since an echo
answers whoever waits for its id. `WireInv` says that what earlier attempts left behind has
no later step after an 8022 (which is what one late echo guarantees and two do not), that
nothing is left as long as no echo was late, and that an 8022 echo in the air tells of at
least one step taken. `ShapeInv` and `OnTimeInv` bound it further while a call waits: from
its second step on, only its own command, with no chain command behind it; `TakenInv` then
reads off the echo that the machine took the step and all before it. `LinkInv` lets a call
whose link is gone off the hook: its attempt is `stale` and nothing of it is in the air.
The wire is a pair of sequences, so the lemmas on `Has` and `NoneAfter` (one of these is in
it; none of these comes after one of those) under `Append` and `Tail` carry the proof.
For the refinement each step is shown to be one of `RecipeOrder` or a stutter
(`CallMaps`, `TakesMaps`, `OrderStep`); only `StepDone` at the last step needs the
invariant, for `taken = Steps`.

**EasySlots.** `NoTeaInSlots` needs `TeaInv`: a write checks the recipe it is asked for, and
whatever else it sends was a coffee when it was recorded, so that the teas in the record,
the batch and every write in progress have been edited. `SlotsAgree` needs `AloneInv`,
`ModeInv` (the client knows the mode of a link that is up), `BatchInv` (the third slot
closes the batch) and for the write in progress `WriteInv`: the batch holds what was sent so far, the slots hold all of it once it went through, and
the slots it was not asked for are sent as recorded.

**UnitSync.** `LockInv` is the discipline of `_unit_push_lock`: a task past the queue is its
holder, and nobody is in line twice. `ConnInv` ties the link to `self.client` and to the
connect that holds `_connect_lock`. `PushInv` is `NoOrphanChange` from the moment a connect
has looked at the pending keys, which covers the rest of the connect as well. The last two
theorems need `SyncInv`: `AckInv` (one ACK at most is on its way, to a task that waits on
the live link for a key that is still pending, so a resend and its first send never get two)
and, as long as the panel was not used, `TakenInv`: the handshake's report is ahead of every
ACK, the machine has what an ACK is for, so an acknowledged key is neither overwritten nor
reported otherwise until it is off the list, and from then on machine, report and setting
agree on it. A tap on the panel between send and ACK breaks `TakenInv` (section 4).

**RecipeStore.** The types carry much of it: the store and the tombstones are apart, the
views of all coordinators are views. `OldInv` says that nothing runs before the migration,
`JobInv` what a cloud call in flight holds. Three more invariants are inductive with these:
`LiveInv` (a coordinator that was set up and missed nothing shows the store; `WriteViews`
says where a write leaves every view), `GoneInv` (a name in `gone` is not shown and its
seeding stays over: a seeding that is over adds no task, and `SeedsNow` needs one), and
`OriginInv` (a recipe's uid was minted by an earlier write, and a pod's recipe with a link
keeps one, in the store, in every view and in an export in flight). The action properties
are then proved through effects every write has or has not (`Kept`, `NoneBack`,
`Followed`, `NoPodMinted`), one lemma per action. The properties name the writes that do
not keep them: those of a coordinator behind the store (`WritesBehind`), a late export
(`ExportsCopy`), the options flow (section 4).

**Telemetry.** Each part of the invariant counts the notifications that must have been lost
for a latch to be wrong: `LatchInv`, `RunInv`, `ScreenInv`, `KnownInv`; the theorems follow
with the bound on `lost` put in. `OursInv` and `SweepSilent` are inductive together.
`FlagInv` says that while a flag raised by a press is up, that press's fallback is waiting or
about to be scheduled: every way a fallback ends lowers the flag.

**MachineInfo.** `WakeInv` (a machine asked when awake stays awake), `TasksInv` (a free task
for each refresh still to be started), `ReadInv` (a setting that was asked for is shown,
being answered or still to be sent) and `ApartInv` (service and refresh keep apart unless
they crossed) carry the four properties.

Only model-checked:

* the liveness properties (`Reconnects`, `TeardownsEnd`, `WedgedLinkDropped`,
  `ConnectCallsReturn`, `ChangePushed`, `TasksEnd`, `CallsEnd`): they need fairness and
  `ENABLED`, which are out of the prover's reach;
* `WaterAddsUp`: sums over sequences need induction over data;
* `ChangeDelivered` and `NeverReverted` with taps on the panel: true of two changes, not of
  three (section 4);
* `TeaGated` and `RoundTrip` of `BrewPlan`: functions without interleaving, for which the
  run enumerates every style a recipe can have and every form of its cup type.

## 6. Plan

The modules of the plan are written and their safety properties proved, up to the ones
section 5 leaves to TLC. Where the code changes, the places to look first are the races of
section 4: closing one of them (a lock around arm and cancel, a comparison of the
acknowledged value with the machine's in the unit push) would let the condition of a theorem
(`~Hasty`, `MaxPanel = 0`) be dropped.

Not modelled, and why: the entities (stateless views of `data`); service registration,
discovery and the forms other than the recipe steps (Home Assistant's own machinery);
encryption, HTTP and list parsing of the cloud client (I/O without state of its own); the
pod library (a keyed store with one writer, no interplay beyond `save_pod_recipes`); LLM
tools and panel (argument handling around operations that are modelled); the byte layout
of frames, CRC and the weight filter (functions of single inputs, which the repository's
unit tests pin down byte by byte); photos and colours (static data and images).
