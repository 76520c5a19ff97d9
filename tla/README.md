# Verification of the hq_led_lamp firmware

TLA+ models of the lamp firmware in `src/`, TLC configurations that check them on
small instances, and TLAPS proofs of the safety results that matter most. Every
definition is translated from the C source; the rows under `map` in `PROJECT.json`
name the lines. Code of the platform submodule (`platform/hq_platform`, not part of
this repository) is modelled from how the firmware uses it and marked external.

## 1. The system

The firmware drives a PWM lamp from ThingsBoard. Its one overriding rule is
*fail-off*: whenever a configuration, the network, the verified TLS session or the
hardware fails, the lamp is dark, and a latched *barrier* keeps it dark until an
explicit re-enable transition.

| Component | Source | State | Operations |
|---|---|---|---|
| lamp control | `components/lamp_control/lamp_control.c` | claimed PWM channels, their pins, last applied state, `output_active`, fail-off barrier | init, apply, force inactive, release barrier, deinit; each may fail half-way in the HAL |
| application state machine | `components/app_state/app_state.c` | current gate, pending retry, attempts, exhausted | deliver event, poll (retry, watchdog); its entry hook forces the lamp off |
| supervisor | `main/app_main.c` | session, bootstrap flag, rejection count, backoff, network bring-up | one loop: file system, configuration, Wi-Fi, TLS, enrollment, sync, online, OTA, safe-off, factory reset |
| broker configuration and verified connect | `components/mqtt_cfg/mqtt_cfg.c` | verified latch, generations, wait/failed/rejected atomics, module lock | load, validate, apply, connect, three callbacks on the Mongoose thread |
| ThingsBoard application | `components/tb_application/tb_application.c` | connected, suspended, last applied state, firmware hint | apply desired state, RPC handlers, connect/disconnect glue, suspension |
| configuration store | `components/app_config/app_config.c` | live document, `.good`, `.good.old`, the temporary files of a commit, migration handler | load with recovery, validate, migrate, commit |
| device identity | `components/device_identity/device_identity_facade.c` | loaded flag and the token in the platform's store | manufacturing gate, load, clear, getters |
| bootstrap provisioning | `components/tb_provisioning/tb_provisioning.c` | `identity.json` and its temporary file | load bootstrap credentials, enroll, persist |
| adapters | `network_manager.c`, `wifi_provisioning_manager.c`, `ota_manager.c`, `factory_reset.c`, `lamp_fs.c` | event queue, started flags | thin translations to the platform |
| tests, server, scripts, build | `tests/`, `server/`, `device/`, `cmake/` | – | not part of the program |

How they interact. The supervisor task calls everything else synchronously. Three
other threads act next to it: the Wi-Fi event thread (link up, link down, which
forces the lamp off before the application hears of it), the Mongoose poll thread
(MQTT connect, loss and failure callbacks, attribute updates, RPC) and the
provisioning controller (portal events into a FIFO the supervisor pumps). The lamp
module is shared by all of them behind its own mutex; `mqtt_cfg` shares atomics
with the Mongoose thread and takes its module lock in one callback.

What is hard about it:

* partial hardware failures: some channels switch off, some do not, and the module
  must neither forget a lit channel nor report the lamp dark (lamp control);
* blocking gates: the supervisor waits in a Wi-Fi or TLS gate while events for
  another state are queued (supervisor);
* a bounded retry budget shared by every stage, a second, slower backoff for failed
  enrollments, and a restart from the parked state (supervisor);
* one client handle for two identities, rebuilt and re-keyed by several paths
  (supervisor);
* callbacks on another thread between a check and the action it guards (mqtt_cfg);
* the re-enable transition, which the code performs in more than one place
  (mqtt_cfg, tb_application, the OTA and factory-reset indicators);
* power cuts, failing writes and rotten copies between the steps of a commit, and of
  the recovery that repairs an earlier one (app_config, tb_provisioning);
* two validators of one document, on typed fields and on text, that have to agree, and
  a reader of a file that may grow meanwhile (app_config);
* a server that forgets the device or changes its token while the device holds an
  older one (device identity, bootstrap provisioning).

What makes each part correct, in one sentence: lamp control never loses a lit
channel and a latched barrier means dark; the supervisor never synchronizes without
an enrolled identity, never wedges at a gate, keeps every portal outcome and pays
the full price before it gives up an identity; the verified connect releases the
barrier only for values that were verified and never leaves the lamp enabled behind
a closed gate; the ThingsBoard application lights the lamp only in a live session;
the configuration store never puts its last valid copy at risk and accepts exactly the
documented schema; a session only uses a token that was loaded under an admitting
manufacturing record, and the identity is replaced as a whole or not at all.

The hazards behind these sentences are listed one by one, each at its line, under
`hazards` in `PROJECT.json`.

## 2. Modules

| Module | Models |
|---|---|
| `FailOff` | abstract contract of the lamp: lit channels and the barrier |
| `LampControl` | `lamp_control.c` completely, with every HAL failure |
| `LampControlProofs` | theorems about `LampControl` |
| `AppState` | the state machine of the platform as `app_state.c` and the tests pin it down |
| `Supervisor` | `app_main.c` on top of `AppState`, with Wi-Fi, portal, timers and power |
| `SupervisorProofs` | theorems about `Supervisor` |
| `MqttCfg` | `mqtt_cfg.c` against the Mongoose thread and mutations of `mqtt_config` |
| `MqttCfgProofs` | theorems about `MqttCfg` |
| `TbApplication` | `tb_application.c` with the connection glue and the OTA indicator of `app_main.c`, against the lamp's barrier |
| `TbApplicationProofs` | theorems about `TbApplication` |
| `DocStore` | abstract contract of a document on the flash: replaced as a whole, lost to a fault only, recovered to what was current |
| `AppConfig` | the files of one product document in `app_config.c`: load, recovery, migration, the steps of a commit, power loss, errors, rotten copies |
| `AppConfigProofs`, `AppConfigAges` | theorems about `AppConfig`: its safety and the refinement; how old a recovered document can be |
| `AppConfigText` | which bytes `app_config.c` takes for a document: the reader, the validators, the typed gate, the escape scan |
| `AppConfigTextProofs` | theorems about `AppConfigText` |
| `Identity` | `device_identity_facade.c` and `tb_provisioning.c` with their callers in `app_main.c`, against the server and a flash that fails |
| `IdentityProofs` | theorems about `Identity` |
| `MC*` | values of the constants for TLC |

### LampControl

The state is `s_lamp` plus what the HAL really holds (`lit`, claimed channels), so
that the model can say what the module *believes* and what *is*. One action per
public operation, one disjunct per way the HAL calls can end. `lamp_duty_from_brightness`
and the colour scaling are functions; a brightness whose duty rounds to zero is part
of the inputs. Every operation holds the module mutex from entry to exit, so an
operation is one step. `LampControl` refines `FailOff` with `lit` and `barrier`
mapped to themselves: no light while the barrier is latched, and only a release or
an initialization lifts it.

### AppState and Supervisor

`app_state.c` forwards to a state machine in the platform; `AppState` has the
transitions that `app_main.c` drives and the tests check. A delivered event either
advances, retries the failed stage from `SAFE_OFF`, or is dropped; the retry budget
is five and is not refunded before the device is online.

`Supervisor` has one action per branch of the supervisor loop. A gate that blocks is
a value of `pc`, so that the link, the portal and the timers move while the task
waits in it; an iteration that finds nothing to do is not a step. Deadlock is
therefore checked as it is: there is always a power cycle. `Init` lets the flash hold
any combination of Wi-Fi credential and identity, and a restart keeps only the flash.

### MqttCfg

The calling task and the Mongoose poll thread interleave at the granularity at which
one can see the other's stores: the poll loop reads its atomics, then the client and
the configuration, then decides; the failure callback stores the flags, then the
reason, then closes the gate (under the module lock), then forces the lamp off. The
client reconnects by itself after a loss or a failure, and any consumer may change a
value of `mqtt_config` at any time, and put it back. The code compares values with the
snapshot it took (`mqtt_config_verified_is_current()`), so `config` is `verified` again
after that. A history variable records what the running session read: verified values,
changed ones, or ones that were changed when it read them and have been put back since.
The text of a document is abstracted to accepted or rejected.

### TbApplication

Three threads meet in the lamp: the transport thread `T` (attribute responses and
updates, RPCs, the disconnect callbacks), the supervisor task `S` (connect glue, poll,
OTA events) and the Wi-Fi worker, whose fail-off takes no lock of this module. A
callback is cut into steps where another thread can get in between: the release of
the barrier, the apply, the record under the module lock; validating an RPC, applying
it, recording it with the engine. The look of `mqtt_cfg_connect()` at the connection and
the release of the barrier are separate steps, and so are the look at the client in
`service_thingsboard_connection()`, the flag `on_connected` sets and the engine's session:
a disconnect between them leaves `connected` TRUE without a connection, as in the code.
The halves of `on_disconnected` and `set_output_suspended` (flag, then engine) are separate
as well.

The engine `tb_state_sync` belongs to the platform. The model assumes of it what the
lock discipline in the header of `tb_application.c` and its callbacks say: its
operations exclude each other and wait for a running `apply_state`; a failed attempt
forces the output off and leads to a backoff or, with the budget spent, to a parked
session; a resume re-applies the recorded state of a synchronized session and
otherwise forces the output off. Whether `on_connected` forces the output off is left
open (both happen). The lamp is its last request, whether it is lit, and the barrier;
a refused apply ends dark (the failures that do not are in `LampControl`). A state is
a power and a level.

### DocStore, AppConfig and AppConfigText

`DocStore` is what callers of the store may rely on: a commit replaces the document as
a whole, only a storage fault loses it, and what a recovery brings back was current
before. `AppConfig` implements it with `current` mapped to the live file, if that file
is valid, and `committed` to itself.

`AppConfig` holds the five files of a document (live, its temporary file, `.good`,
`.good.tmp`, `.good.old`), each with a whole document or something the validators
reject. A call of the application begins in one action; a commit then runs through the
steps `app_config.h` documents and the tests pin down (write and read back, inspect the
live file, stage it, preserve the old backup, archive, promote, finish), each of which
may fail, and `PowerLoss` may stop it between any two or within a write. These steps
are the platform's `hq_json_doc_commit()` and marked external. A recovering load and a
migration run through the same commit. `Rot` takes a copy away between two calls.
`Init` covers flash images of this firmware, of an older and of a newer one.

`AppConfigText` is the other half of the file: what a text is. It reads a file in chunks
while something may append to it, validates what the strict parser makes of it, runs
the migration handler, checks a typed document and serializes it, and scans a raw text
for zero escapes. `Conforms` states the documented schema without the order of any
check, and the validators are compared with it. Integer widths are scaled down but keep
their order, numbers count halves, so that fractions and the undefined conversion of an
unbounded double occur: it is the verdict `UNDEFINED`, which is not in the type of a
verdict (`TypeOK`). The escape scan looks at positions in a text, so its inputs are token
sequences, and one turn of its loop is one step; everywhere else a string is a length and
a character class. The inputs are constants: `InputsAssumption` says what an input of any
instance looks like, without a bound on the members of a document or the length of a text.

### Identity

A token is the number of its issue. The facade loads it from `identity.json` behind
the manufacturing gate; the supervisor's part makes a session with it, counts
rejections and falls back to the bootstrap mode; an enrollment asks the server, and
`write_identity()` is cut at every call that touches the flash. The server may delete
the device, or regenerate its token, at any time, and may take a request whose reply is
lost. The result of `osal_close()` is not looked at by the code, so the model has a
branch in which the file renamed over `identity.json` is torn. `Supervisor` has the
gates, budgets and timers around these steps; here each failed attempt may be followed
by another. The record refines `DocStore` with the tokens as documents: every token the
server issues is new, and a torn record counts as a fault.

## 3. Runs

| Run | Result |
|---|---|
| `LampControl.cfg` | passes: types, tracking of lit channels, consistency of the pin array, barrier means dark, a failed call left no light on, the electrical flag drops only when dark, refinement of `FailOff` |
| `Supervisor.cfg` | passes: identity, session mode, an open portal is followed, portal outcomes, earned re-provisioning, the network gate resolves, enrollment is retried |
| `Supervisor_LinkLossIsPickedUp.cfg` | violated: a link lost in `SYNC` is not noticed |
| `Supervisor_CredentialedBootUnaffected.cfg` | violated: after a failed bring-up a credentialed device stays at the `NETWORK` gate |
| `MqttCfg.cfg` | passes: types (generation 0 stays reserved), closed gate means dark, no release for values the re-check can tell from the verified ones, calls return |
| `MqttCfg_LossLatchesBarrier.cfg` | violated: a loss just before the release is un-latched by it |
| `TbApplication.cfg` | passes: types, no session means dark, a handled disconnect means dark, the light ends with the link, callbacks return |
| `TbApplication_OneFieldKeepsOther.cfg` | violated: during an OTA a single-field RPC overwrites the field stored before |
| `AppConfig.cfg` | passes: types (a failing call writes no document to its caller), loads hand out committed documents only, valid copies are kept, one generation back per fault at most, a failed commit leaves both copies, refinement of `DocStore` |
| `AppConfigText.cfg` | passes: types (the buffer holds no more), a load takes exactly the schema, another version is told from a broken text, the typed gate and the text validator agree, the escape scan is exact |
| `Identity.cfg` | passes: types, sessions are authorized, an enrollment replaces the identity as a whole, an issued token is stored, refinement of `DocStore` |
| `Identity_OldIdentityStays.cfg` | violated: a temporary file that could not be closed replaces a valid `identity.json` |

The violated runs each refute a sentence of a comment, header or manual; the
findings in `PROJECT.json` quote it and name the line.

Bounds. `LampControl`: three pins (the RGB board; two would never leave a proper
subset in the middle of the array), the brightness and colour values that reach both
ends of the duty scale and the rounding to zero. `Supervisor`: the product values
(five retries, three rejections, two failed connects before the portal), no other
bound: the FIFO never holds more than two events, so its capacity of eight is not
reached. `MqttCfg`: two generations, so that the counter wraps, and up to three poll
steps, so that a failure, the client's own retry and a late answer fit into one call.
`TbApplication`: a dark and a lit level (the level of the OTA indicator), since the lamp
tells no others apart, and two attempts, the least with both a backoff and a parked
session. Nothing else is bounded: sessions, RPCs and OTAs repeat without end. `AppConfig`: two documents in
place and two commits to come (`MaxDoc`), the least with which all three kept files
hold different generations; two lost copies (`MaxLost`) are the least that lose the
live document and its backup, and two failed steps (`MaxErr`) the least that fail a
commit and the restoring of its rotation. Power losses are not bounded. `AppConfigText`:
valid documents of both kinds with up to two members replaced, removed, repeated or
added, which is what an omission and a repetition that cancel out need; files of two
bytes, so that a read loop of several chunks and the extra byte at the bound occur;
raw texts of seven tokens, enough for a string, an escaped backslash and a zero escape
of two digits. `Identity`: four tokens (`MaxToken`), namely one from before, an
enrollment, a change at the server and another enrollment; two storage errors
(`MaxErr`) and two power cuts or lost replies (`MaxCut`), so that one can follow the other;
a threshold of two, the least that counts.

Deadlock is not checked where the system may stop: `AppConfigText` models one call, which
ends, and `Identity` parks after a failed boot once the power cuts are spent.

Fairness. `Supervisor`: weak fairness of the steps the task takes by itself in
bounded time, and of the backoff clock. The environment, the synchronization, updates
and the user are not fair: they may never happen. `MqttCfg`: weak fairness of the
task and of a callback that has begun; strong fairness of the steps that stop the
client, because `mqtt_app_deinit()` requests a stop that the poll thread honours
after the event in progress, however many events follow. `TbApplication`: strong
fairness of the steps that end what a thread has begun (a waiter on an OSAL mutex is
woken, although others take the mutex again and again), and of the transport noticing
a station that is gone (its keep-alive runs on the same loop as the messages). New
messages, connections, OTAs and users are not fair. `LampControl`,
`AppConfig`, `AppConfigText` and `Identity` state no liveness: their operations are
sequential calls, and what makes them be called again is in `Supervisor`.

## 4. Proofs

`LampControlProofs`, for every set of channels, brightness and colour range:
`TypeCorrect`, `NoLostLitChannel`, `ArrayIsConsistent`, `BarrierIsSafe`,
`FailureIsSafe`, `FlagIsHonest` and `Implements` (the refinement of `FailOff`). The argument is an inductive
invariant that relates the pin array, the channel count and the claimed channels to
the lit ones: without it a partial release could drop a lit channel from the array
and the next fail-off would miss it. The assumptions are those of the constants
(`InputAssumption` and its neighbours). `FailureIsSafe` is about the calls in
`FailSafeCall`: apply, also with NULL, force-inactive, deinit, and the initialization of an
uninitialized lamp. A second initialization is refused before it touches the hardware
(`lamp_control.c:304`), so a lit lamp stays lit; that is no failure of a safety action.

`MqttCfgProofs`, for every generation range and timeout: `TypeCorrect`, `GateIsSafe`
and `ReleaseIsSafe`. `GateClosedIsDark` is not inductive, since between two steps of
a call the gate may be closed and the lamp still on; the strengthening `Gate` names
the steps that then still owe a fail-off, `Locked` says that the answer of the
re-check cannot go stale (the failure callback waits for the lock), `Consumed`
ties what the client read to the configuration as it is now, and `Counted` keeps the
reserved generation 0 away from a connect and from the callback that publishes one.
`ReleaseIsVerified` excludes values that are still changed at the re-check; it does not
exclude values that were put back before it (section 5).

`TbApplicationProofs`, for every set of levels and every retry budget: `TypeCorrect`,
`UnsyncedIsSafe` and `OfflineIsSafe`. Neither safety property is inductive: an RPC in
progress may be about to light the lamp of a session that has just failed. `Guarded`
says that such a session has a latched barrier as long as something is subscribed,
`Subscribed` that whatever runs on the transport thread came over a live
subscription, `Ended` that a handled disconnect leaves no session for a resume to
re-apply, and `Owned` that between two calls the engine's suspension covers the
module's. TLC checked each of them before the proof.

`SupervisorProofs`, for every retry budget, rejection threshold, portal threshold and
FIFO capacity: `TypeCorrect`, `SessionIsIdentified`, `SessionIsOfItsMode` and
`RejectionsAreEarned`. The two session invariants are not inductive: a connect that is
under way must already have the client and the identity of its mode. `Modes` says what
each step of the TLS gate runs with, `Budget` that a pending retry has an attempt left
and never re-enters `SYNC`, and `Counts` that the counter in the code never runs ahead of
the rejections that happened, which is what an earned re-provisioning means. `AppState`
enters the proof only through what its transitions can return (`DeliverType`,
`DeliverTarget`). `Queue` gives the FIFO its possible contents at each `pc` and ties them to
the portal, the link and the fallback attempts; from it follow `QueueInvariant` and, as
`NoOutcomeIsLost`, that an outcome of the portal is taken by the gate that waits for it.
`Awaited` adds what the machine then still waits for, and gives `PortalIsAttended`: an open
portal is followed or still announced, and PROVISIONING never waits for a portal that is
over. Excluded is a portal that an update or a fatal failure stopped, which reports nothing
(section 6).
All three are stated for `FallbackAttempts > 1` and `MaxFifo > 1`. These are needed: TLC
refutes `OutcomesReachTheirGate` with one attempt, and with room for one event. The product
has two attempts (`sdkconfig.defaults:53`) and room for eight.

`AppConfigProofs`, for every number of documents, lost copies and failed steps:
`TypeCorrect`, `OnlyCommittedIsLoaded`, `NoCopyIsRisked`, `FailureLeavesBoth` and
`StoreIsADocStore`. `CopiesKept` is not inductive, since in the middle of a commit a
copy may be on its way between two names. `Files` follows the commit: what the two
temporary files hold at each step, and where the live document and the backup of its
beginning (`before`) are. `Job` says that a recovery or a migration writes a document
that was committed while the live file is unusable, and that every kept file holds a
committed document, and that only a call that succeeded has written to its caller.
`Copies` is the property itself with the names under which the
copies are to be found at each step: while the backups move, the old one is in
`.good.old`, and after the promotion the live file is valid.

`AppConfigAges` proves `OneGenerationLost`: a document that a load hands out is older than
the current one by at most the copies lost so far. The age of a document is the number of
documents that became current after it. `Order` bounds the age of each of the three kept
copies by the faults so far and the number of fresher copies that are still there, which is
what a fault takes away; `Rotation` follows the oldest copy through the steps in which three
generations are on the flash, where `Order` alone would allow one too many; `Purpose` ties
what a commit writes to what its call was for, so that a recovery does not count as a new
document. A legacy live document that a recovery replaces is charged as one fault more.

`AppConfigTextProofs`, for every bound, schema width and set of inputs: `TextTypeInvariant`,
`LoadsTheSchema`, `TellsTheVersion`, `CommitsAndLoadsAgree` and `ScansExactly`. Two
invariants carry them. `Accepts` says at each step of a load what has been read (the buffer
ends where the file does, or one byte behind the bound, however the file grows meanwhile) and
at its end which comparisons the verdict came from. The rest is about the validators, for
documents of any number of members: the loop of `check_member_keys()` counts members and
looks names up, and a counting argument over the set of names shows that it admits a document
exactly when every name of the schema occurs once (`Validation`). `Scanning` carries the
fourth property. The scan looks forward and skips what it has read; an escape is defined by
the number of backslashes behind it, and `Place` says that at each turn of the loop the two
agree up to `p`. The assumptions are `WidthAssumption` (the order of the integer widths) and
`InputsAssumption`. That a first failing check exists and is unique rests on the least
element of a set of numbers, from the library's well-founded relations.

`IdentityProofs`, for every threshold and every number of tokens, errors and power cuts:
`TypeCorrect`, `SessionIsAuthorized`, `ReplacedAsAWhole`, `TokenIsStored` and
`IdentityIsADocument`. `Trusted` says that what the facade holds came from a record that
was on the flash under an admitting manufacturing record, that a session with a token is
that of the facade, and that the bootstrap mode never holds one; `Writing` follows
`write_identity()` and says what both files hold at each step, up to the rename, whose
temporary file is the whole reply unless it could not be closed.

Only model-checked is all liveness (`NetworkGateResolves`, `EnrollmentIsRetried`,
`CallsReturn`, `LightEndsWithLink`, `CallbacksReturn`): it holds under fairness, which is
stated with ENABLED and out of the prover's reach. Every other property of a passing run is
stated by a theorem.

## 5. Known deviations

The violated runs above show five. These were met while modelling; the models contain
the behaviour, and no run is spent on them:

* After a double HAL failure in `lamp_control_apply_state()` (`lamp_control.c:443`) the
  light can be on with `output_active` FALSE, although the header (`:163`) lets a caller
  read it as dark. The barrier is not involved: the next fail-off still finds the pin.
* The rollback of `lamp_control_init()` ignores the results of `hal_pwm_deinit()`, and a
  pin `NONE` in the middle of the list returns without one (`lamp_control.c:341`), so a
  channel may stay claimed with nobody tracking it. It is dark.
* A failed connection is published before the lamp is off, and before
  `s_auth_rejected` (`mqtt_cfg.c:1085`, `:1239`): for a moment the caller can see the failure
  with the lamp still lit, or take a rejection for a plain failure.
* The re-check of a connect compares values (`mqtt_cfg.c:1186`, `:777`). A value that was
  changed while the client read it, and put back before the re-check, is accepted, although
  the comment at `mqtt_cfg.c:1223` promises "never a spurious success on mutated values".
  These are the sessions whose `read` is `restored` in `MqttCfg`.
* The server consumes an enrollment before the device has stored the reply: a power loss
  between the two leaves the old identity in place, as `EnrollmentReplacesWhole` says, but
  the issued token is gone, and the server refuses to enroll the device again
  (`ServerRefuses` in `Identity`). `IssuedTokenIsStored` is about the call that succeeds.
* The rejection that schedules the re-provisioning may also spend the last retry
  (`app_main.c:993`): the machine parks with the schedule pending, and waits for the
  slower restart or for the user.
* A legacy live document is replaced by an older valid `.good`, with `OK_RECOVERED`, when
  no migration handler is registered; `app_config.h:87` says that a missing handler is
  reported as `APP_CONFIG_ERR_MIGRATION`. This is `displaced` in `AppConfig`.
* A device its manufacturing record holds back still enters the bootstrap mode and
  enrolls (`app_main.c:923`); what it gets is never used (`AuthorizedSession`).
* The bootstrap mode never looks at `identity.json` again (`app_main.c:924`): a transient
  read error at boot makes a registered device ask to enroll until its next restart, and
  the server refuses it.

Smaller ones, not worth a property: brightness 1 with a low colour value rounds to a
duty of zero while the output counts as active; after a partial deinit that leaves one
of three channels an apply uses the formula of a single-channel lamp; the backoff
deadline, compared as a signed difference, flips after 24.8 days without a look at it
(`app_main.c:970`); the factory reset removes at most as many files as its loop bound
(`app_main.c:337`); an OTA resume can fall between the store of an RPC and its record
with the engine, which then applies it (`tb_application.c:1242`).

## 6. Not modelled

* Of `app_config`: the JSON syntax, which the parser decides; `app_config_redact()`, which
  forwards to the platform; the text of serialized documents beyond their members.
  `hq_json_doc_commit()` is the platform's and modelled from `app_config.h`.
* Of device identity and bootstrap provisioning: the mapping of status names and the
  syntax of `provisioning.json`, which is usable or not.
* Of `tb_application`: telemetry, `getState`, the firmware hint, init and deinit.
* Of `mqtt_cfg`: what its document contains; the bounds of its fields are checked by
  sequential code of the same shape as that of `app_config`.
* Of the supervisor: log output and the lamp indicators other than that of the OTA.
* The adapters (`network_manager.c`, `wifi_provisioning_manager.c`, `ota_manager.c`,
  `factory_reset.c`, `lamp_fs.c`) beyond what the supervisor sees of them: they hold no
  state of their own worth a module and forward to the platform. Whether a stopped
  fallback controller keeps its events, which decides what a failed OTA leaves behind
  (`app_main.c:1328`), is a question about the platform.
* The platform submodule beyond the behaviour its callers rely on.
* Tests, server deployment, scripts and the build.

## 7. Plan

1. `LampSafety`: `TbApplication` over `LampControl` instead of its summary of the lamp,
   so that hardware failures and the barrier race meet; `TbApplication` refines
   `FailOff` under the mapping of `lit` and `barrier`.
2. The factory-reset loop with its removals, and the factory-reset indicator in
   `TbApplication`.
3. The parts of `tb_application` left out above, as far as they change state.
4. Theorems about what these add, in the proof modules that are there.
