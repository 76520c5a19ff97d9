------------------------------ MODULE Supervisor ------------------------------
(***************************************************************************)
(* main/app_main.c: the supervisor task that drives the application state  *)
(* machine through its gates, next to what runs concurrently with it: the  *)
(* Wi-Fi manager and the provisioning fallback controller of the platform, *)
(* power cycles, the factory-reset button, and the re-provisioning backoff *)
(* timer.                                                                  *)
(*                                                                         *)
(* A gate that blocks (the Wi-Fi wait, the TLS connects, the enrollment)   *)
(* is a pc of its own, so the environment moves while the task waits in    *)
(* it.  An iteration that finds nothing to do is not a step.               *)
(***************************************************************************)
EXTENDS AppState, Sequences

CONSTANTS
  AuthThreshold,     \* CONFIG_KLC_AUTH_REJECT_REPROVISION_THRESHOLD
  FallbackAttempts,  \* CONFIG_WIFI_HTTP_PROVISIONING_FALLBACK_ATTEMPTS
  MaxFifo            \* the events the adapter stores before it drops the oldest

ASSUME ThresholdAssumption == AuthThreshold \in Nat \ {0}
ASSUME FallbackAssumption  == FallbackAttempts \in Nat \ {0}
ASSUME FifoAssumption      == MaxFifo \in Nat \ {0}

VARIABLES
  pc,             \* where the supervisor task is
  bringup,        \* what the first NETWORK gate managed to start
  link,           \* network_manager_is_connected()
  connecting,     \* the Wi-Fi manager works on a connect request
  fails,          \* the CONNECT_FAILED the fallback controller has counted
  portal,         \* the provisioning portal, "disabled" without a controller
  fifo,           \* the provisioning events the adapter has stored
  credential,     \* flash: wifi_ap.json holds a station credential
  identity_file,  \* flash: identity.json holds an enrolled identity
  identity,       \* device_identity_is_loaded()
  needs_prov,     \* s_tb_needs_provisioning
  client,         \* s_tb_client: "none", or the mode it was created for
  auth_rejects,   \* s_auth_reject_count
  backoff,        \* s_reprovision_backoff_active and its deadline
  rejections      \* history: rejected connects since the last accepted one

wifi    == <<link, connecting, fails, portal, fifo, credential>>
session == <<identity_file, identity, needs_prov, client, auth_rejects, backoff,
             rejections>>
vars    == <<machine, pc, bringup, wifi, session>>

Outcomes == {"PROVISIONING_SUCCEEDED", "PROVISIONING_FAILED"}
Events   == Outcomes \cup {"PROVISIONING_STARTED"}

TypeOK ==
  /\ Machine
  /\ pc \in {"loop", "gate", "connect", "enroll", "confirm"}
  /\ bringup \in {"none", "failed", "station", "full"}
  /\ link \in BOOLEAN /\ connecting \in BOOLEAN
  /\ fails \in 0..(FallbackAttempts - 1)
  /\ portal \in {"disabled", "closed", "open"}
  /\ fifo \in Seq(Events) /\ Len(fifo) <= MaxFifo
  /\ credential \in BOOLEAN
  /\ identity_file \in BOOLEAN /\ identity \in BOOLEAN
  /\ needs_prov \in BOOLEAN
  /\ client \in {"none", "bootstrap", "device"}
  /\ auth_rejects \in 0..(AuthThreshold - 1)
  /\ backoff \in {"off", "running", "elapsed"}
  /\ rejections \in 0..AuthThreshold

Init ==
  /\ MachineStart
  /\ pc = "loop"
  /\ bringup = "none"
  /\ link = FALSE /\ connecting = FALSE
  /\ fails = 0
  /\ portal = "disabled"
  /\ fifo = <<>>
  /\ credential \in BOOLEAN
  /\ identity_file \in BOOLEAN
  /\ identity = FALSE
  /\ needs_prov = FALSE
  /\ client = "none"
  /\ auth_rejects = 0
  /\ backoff = "off"
  /\ rejections = 0

\* esp_restart(), or a power cycle: everything but the flash is lost.
Restart ==
  /\ state' = "FILESYSTEM" /\ retry' = "NONE" /\ attempts' = 0 /\ exhausted' = FALSE
  /\ pc' = "loop"
  /\ bringup' = "none"
  /\ link' = FALSE /\ connecting' = FALSE
  /\ fails' = 0
  /\ portal' = "disabled"
  /\ fifo' = <<>>
  /\ UNCHANGED identity_file
  /\ identity' = FALSE
  /\ needs_prov' = FALSE
  /\ client' = "none"
  /\ auth_rejects' = 0
  /\ backoff' = "off"
  /\ rejections' = 0
-----------------------------------------------------------------------------
(* Helpers *)

At(s) == pc = "loop" /\ state = s

\* wifi_provisioning_manager_has_saved_credentials(): FALSE without the adapter.
has_saved_credentials == bringup = "full" /\ credential

\* The adapter stores an event, dropping the oldest when it is full.
Store(event) ==
  fifo' = Append(IF Len(fifo) = MaxFifo THEN Tail(fifo) ELSE fifo, event)

\* One of these events is stored.
Stored(events) == \E i \in 1..Len(fifo) : fifo[i] \in events

\* The mode create_thingsboard_session() makes a client for.
Mode == IF needs_prov THEN "bootstrap" ELSE "device"

\* The verified-TLS gate returns to the loop with this event.
TlsReturns(event) ==
  /\ app_state_deliver(event)
  /\ pc' = "loop"
  /\ UNCHANGED <<bringup, wifi>>
-----------------------------------------------------------------------------
(* The filesystem and configuration gates *)

bootstrap_filesystem ==
  /\ At("FILESYSTEM")
  /\ \E event \in {"FS_OK", "FS_FAIL"} : app_state_deliver(event)
  /\ UNCHANGED <<pc, bringup, wifi, session>>

\* The documents, the bootstrap credentials or the session are unusable.  When the
\* identity did not load, the device was already put into bootstrap mode or not.
ConfigurationFails ==
  /\ At("CONFIGURATION")
  /\ identity' \in {FALSE, identity_file}
  /\ needs_prov' \in {FALSE, ~identity'}
  /\ app_state_deliver("CONFIG_FAIL")
  /\ UNCHANGED <<pc, bringup, wifi, identity_file, client, auth_rejects, backoff,
                 rejections>>

\* The identity loads, or the device is put into bootstrap mode; the client for
\* that mode is created.
ConfigurationLoads ==
  /\ At("CONFIGURATION")
  /\ identity' \in {FALSE, identity_file}
  /\ needs_prov' = ~identity'
  /\ client' = IF needs_prov' THEN "bootstrap" ELSE "device"
  /\ app_state_deliver("CONFIG_OK")
  /\ UNCHANGED <<pc, bringup, wifi, identity_file, auth_rejects, backoff, rejections>>

load_configuration == ConfigurationFails \/ ConfigurationLoads
-----------------------------------------------------------------------------
(* The network gate *)

\* start_network() fails on the first entry; it is not tried again.
StartNetworkFails ==
  /\ At("NETWORK")
  /\ bringup = "none"
  /\ bringup' = "failed"
  /\ app_state_deliver("NETWORK_FAILED")
  /\ UNCHANGED <<pc, wifi, session>>

\* The provisioning adapter cannot be initialized; the boot goes on without it.
AdapterInitFails ==
  /\ At("NETWORK")
  /\ bringup = "none"
  /\ bringup' = "station"
  /\ connecting' = credential
  /\ UNCHANGED <<machine, pc, link, fails, portal, fifo, credential, session>>

\* Everything starts: a credentialed device enters the gate, for a fresh one the
\* controller opens the portal.
BringUp ==
  /\ At("NETWORK")
  /\ bringup = "none"
  /\ bringup' = "full"
  /\ connecting' = credential
  /\ pc' = IF credential THEN "gate" ELSE "loop"
  /\ portal' = IF credential THEN "closed" ELSE "open"
  /\ IF credential THEN UNCHANGED fifo ELSE Store("PROVISIONING_STARTED")
  /\ UNCHANGED <<machine, link, fails, credential, session>>

\* Later entries re-drive the connect of the saved credential.  The iteration has
\* pumped the events it found before it gets here.
EnterGate ==
  /\ At("NETWORK")
  /\ fifo = <<>>
  /\ has_saved_credentials
  /\ pc' = "gate"
  /\ connecting' = (connecting \/ ~link)
  /\ UNCHANGED <<machine, bringup, link, fails, portal, fifo, credential, session>>

\* Mutant of LeaveGate: the wait is not bounded.
LeaveGateConnected ==
  /\ pc = "gate"
  /\ link \/ state # "NETWORK"
  /\ pc' = "loop"
  /\ IF state = "NETWORK" THEN app_state_deliver("NETWORK_CONNECTED")
     ELSE UNCHANGED machine
  /\ UNCHANGED <<bringup, wifi, session>>

\* supervise_network_gate() returns, connected or timed out; after a supersession
\* by provisioning (or FATAL) neither event is delivered.
LeaveGate ==
  /\ pc = "gate"
  /\ pc' = "loop"
  /\ IF state = "NETWORK"
     THEN app_state_deliver(IF link THEN "NETWORK_CONNECTED" ELSE "NETWORK_FAILED")
     ELSE UNCHANGED machine
  /\ UNCHANGED <<bringup, wifi, session>>

\* Mutant of deliver_provisioning_events: polled in every state.
DeliverEverywhere ==
  /\ pc \in {"loop", "gate"}
  /\ fifo # <<>>
  /\ fifo' = Tail(fifo)
  /\ app_state_deliver(Head(fifo))
  /\ UNCHANGED <<pc, bringup, link, connecting, fails, portal, credential, session>>

\* Mutant of deliver_provisioning_events: polled while parked, too.
DeliverWhileParked ==
  /\ pc \in {"loop", "gate"}
  /\ state \in {"NETWORK", "PROVISIONING", "SAFE_OFF"}
  /\ fifo # <<>>
  /\ fifo' = Tail(fifo)
  /\ app_state_deliver(Head(fifo))
  /\ UNCHANGED <<pc, bringup, link, connecting, fails, portal, credential, session>>

\* The pump of the loop and of the gate: the head of the FIFO is consumed only at
\* the two gates, and the machine drops what is illegal there.
deliver_provisioning_events ==
  /\ pc \in {"loop", "gate"}
  /\ state \in {"NETWORK", "PROVISIONING"}
  /\ fifo # <<>>
  /\ fifo' = Tail(fifo)
  /\ app_state_deliver(Head(fifo))
  /\ UNCHANGED <<pc, bringup, link, connecting, fails, portal, credential, session>>

NetworkGate ==
  \/ StartNetworkFails \/ AdapterInitFails \/ BringUp
  \/ EnterGate \/ LeaveGate \/ deliver_provisioning_events
-----------------------------------------------------------------------------
(* The verified-TLS gate: connect_verified_tls() *)

\* The session cannot be created, or the identity is missing.
TlsBlocked ==
  /\ At("TLS")
  /\ backoff # "running"
  /\ client = "none" \/ ~(needs_prov \/ identity)
  /\ backoff' = "off"
  /\ TlsReturns("TLS_FAILED")
  /\ UNCHANGED <<identity_file, identity, needs_prov, client, auth_rejects, rejections>>

\* Past the backoff and the identity gate, mqtt_cfg_connect() is called.
BeginTls ==
  /\ At("TLS")
  /\ backoff # "running"
  /\ needs_prov \/ identity
  /\ client' = IF client = "none" THEN Mode ELSE client
  /\ backoff' = "off"
  /\ pc' = "connect"
  /\ UNCHANGED <<machine, bringup, wifi, identity_file, identity, needs_prov,
                 auth_rejects, rejections>>

\* MQTT_CFG_OK: a bootstrap session goes on to enroll.
ConnectAccepted ==
  /\ pc = "connect"
  /\ link
  /\ IF needs_prov
     THEN /\ pc' = "enroll"
          /\ UNCHANGED <<machine, bringup, wifi, session>>
     ELSE /\ auth_rejects' = 0
          /\ rejections' = 0
          /\ TlsReturns("TLS_CONNECTED")
          /\ UNCHANGED <<identity_file, identity, needs_prov, client, backoff>>

\* Mutant of AuthRejected: the count is not reset at the threshold.
AuthRejectedNoReset(available) ==
  LET due == auth_rejects + 1 >= AuthThreshold IN
  /\ pc = "connect"
  /\ link
  /\ ~needs_prov
  /\ auth_rejects' = auth_rejects + 1
  /\ rejections' = IF rejections < AuthThreshold THEN rejections + 1 ELSE rejections
  /\ needs_prov' = (due /\ available)
  /\ client' = IF due /\ available THEN "none" ELSE client
  /\ TlsReturns("TLS_FAILED")
  /\ UNCHANGED <<identity_file, identity, backoff>>

\* Mutant of AuthRejected: the rejected session is kept for the bootstrap mode.
AuthRejectedKeepsClient(available) ==
  LET due == auth_rejects + 1 >= AuthThreshold IN
  /\ pc = "connect"
  /\ link
  /\ ~needs_prov
  /\ auth_rejects' = IF due THEN 0 ELSE auth_rejects + 1
  /\ rejections' = IF rejections < AuthThreshold THEN rejections + 1 ELSE rejections
  /\ needs_prov' = (due /\ available)
  /\ TlsReturns("TLS_FAILED")
  /\ UNCHANGED <<identity_file, identity, client, backoff>>

\* MQTT_CFG_ERR_AUTH_REJECTED of the device identity: at the threshold the count
\* restarts and, with bootstrap credentials available, the session is destroyed
\* and the bootstrap mode entered.
AuthRejected(available) ==
  LET due == auth_rejects + 1 >= AuthThreshold IN
  /\ pc = "connect"
  /\ link
  /\ ~needs_prov
  /\ auth_rejects' = IF due THEN 0 ELSE auth_rejects + 1
  /\ rejections' = IF rejections < AuthThreshold THEN rejections + 1 ELSE rejections
  /\ needs_prov' = (due /\ available)
  /\ client' = IF due /\ available THEN "none" ELSE client
  /\ TlsReturns("TLS_FAILED")
  /\ UNCHANGED <<identity_file, identity, backoff>>

\* Mutant of ConnectFailed: any failure counts as a rejection.
ConnectFailedCounts ==
  LET due == ~needs_prov /\ auth_rejects + 1 >= AuthThreshold IN
  /\ pc = "connect"
  /\ auth_rejects' = IF due THEN 0 ELSE (auth_rejects + 1) % AuthThreshold
  /\ needs_prov' = (needs_prov \/ due)
  /\ client' = IF needs_prov' THEN "none" ELSE client
  /\ TlsReturns("TLS_FAILED")
  /\ UNCHANGED <<identity_file, identity, backoff, rejections>>

\* Any other failure; a bootstrap session is rebuilt by the next attempt.
ConnectFailed ==
  /\ pc = "connect"
  /\ client' = IF needs_prov THEN "none" ELSE client
  /\ TlsReturns("TLS_FAILED")
  /\ UNCHANGED <<identity_file, identity, needs_prov, auth_rejects, backoff, rejections>>

\* The enrollment fails, or the identity it persisted does not load again.
EnrollFails(persisted) ==
  /\ pc = "enroll"
  /\ identity_file' = (identity_file \/ persisted)
  /\ identity' = (identity /\ ~persisted)
  /\ client' = "none"
  /\ backoff' = "running"
  /\ TlsReturns("TLS_FAILED")
  /\ UNCHANGED <<needs_prov, auth_rejects, rejections>>

\* Enrolled, but the client refuses the credentials (the session stays), or the
\* broker document is rejected (it is destroyed); the bootstrap mode stays.
EnrollmentUnused ==
  /\ pc = "enroll"
  /\ identity_file' = TRUE
  /\ identity' = TRUE
  /\ client' \in {client, "none"}
  /\ TlsReturns("TLS_FAILED")
  /\ UNCHANGED <<needs_prov, auth_rejects, backoff, rejections>>

\* Mutant of Enrolled: the result of load_device_identity() is ignored.
EnrolledUnloaded ==
  /\ pc = "enroll"
  /\ identity_file' = TRUE
  /\ identity' \in BOOLEAN
  /\ needs_prov' = FALSE
  /\ client' = "device"
  /\ pc' = "confirm"
  /\ UNCHANGED <<machine, bringup, wifi, auth_rejects, backoff, rejections>>

\* Enrolled, and the session now has the credentials of the device.
Enrolled ==
  /\ pc = "enroll"
  /\ identity_file' = TRUE
  /\ identity' = TRUE
  /\ needs_prov' = FALSE
  /\ client' = "device"
  /\ pc' = "confirm"
  /\ UNCHANGED <<machine, bringup, wifi, auth_rejects, backoff, rejections>>

\* The second mqtt_cfg_connect(), with the new identity.
ConfirmAccepted ==
  /\ pc = "confirm"
  /\ link
  /\ auth_rejects' = 0
  /\ rejections' = 0
  /\ TlsReturns("TLS_CONNECTED")
  /\ UNCHANGED <<identity_file, identity, needs_prov, client, backoff>>

ConfirmFails ==
  /\ pc = "confirm"
  /\ TlsReturns("TLS_FAILED")
  /\ UNCHANGED session

connect_verified_tls ==
  \/ TlsBlocked \/ BeginTls
  \/ ConnectAccepted \/ ConnectFailed
  \/ \E available \in BOOLEAN : AuthRejected(available)
  \/ \E persisted \in BOOLEAN : EnrollFails(persisted)
  \/ EnrollmentUnused \/ Enrolled
  \/ ConfirmAccepted \/ ConfirmFails
-----------------------------------------------------------------------------
(* Synchronization, online, OTA, safe-off, fatal *)

SyncCompletes ==
  /\ At("SYNC")
  /\ link
  /\ app_state_deliver("SYNC_COMPLETE")
  /\ UNCHANGED <<pc, bringup, wifi, session>>

OnlineDisconnected ==
  /\ At("ONLINE")
  /\ ~link
  /\ app_state_deliver("DISCONNECTED")
  /\ UNCHANGED <<pc, bringup, wifi, session>>

OtaBegins ==
  /\ At("ONLINE")
  /\ app_state_deliver("OTA_BEGIN")
  /\ UNCHANGED <<pc, bringup, wifi, session>>

\* stop_provisioning(), on OTA entry and in FATAL: the controller is stopped for
\* good.  Whether the platform forgets the stored events is left open.
stop_provisioning ==
  /\ pc = "loop"
  /\ state \in {"OTA", "FATAL"}
  /\ portal # "disabled"
  /\ portal' = "disabled"
  /\ fifo' \in {fifo, <<>>}
  /\ UNCHANGED <<machine, pc, bringup, link, connecting, fails, credential, session>>

OtaFails ==
  /\ At("OTA")
  /\ portal = "disabled"
  /\ app_state_deliver("OTA_FAILED")
  /\ UNCHANGED <<pc, bringup, wifi, session>>

\* The image is complete: OTA_END, then the restart after the reboot delay.
OtaEnds ==
  /\ At("OTA")
  /\ portal = "disabled"
  /\ Restart
  /\ UNCHANGED credential

PollRetry ==
  /\ pc = "loop"
  /\ RetryDue
  /\ UNCHANGED <<pc, bringup, wifi, session>>

\* Mutant of BackoffRestart: only a device that still has a retry restarts.
BackoffRestartPending ==
  /\ At("SAFE_OFF")
  /\ retry # "NONE"
  /\ backoff = "elapsed"
  /\ Restart
  /\ UNCHANGED credential

\* A parked device restarts once the re-provisioning backoff expires.
BackoffRestart ==
  /\ At("SAFE_OFF")
  /\ exhausted
  /\ backoff = "elapsed"
  /\ Restart
  /\ UNCHANGED credential

\* app_state_poll() after a stall longer than the watchdog window.
PollWatchdog ==
  /\ pc \in {"loop", "gate"}
  /\ WatchdogExpires
  /\ UNCHANGED <<pc, bringup, wifi, session>>

\* poll_factory_reset() after a long press: the credentials are erased, then the
\* state directory is cleared; only when both succeed the device restarts.
factory_reset_erase ==
  /\ pc \in {"loop", "gate"}
  /\ state # "OTA"
  /\ credential' = FALSE
  /\ \/ Restart
     \/ UNCHANGED <<machine, pc, bringup, link, connecting, fails, portal, fifo, session>>
-----------------------------------------------------------------------------
(* The platform: Wi-Fi manager, fallback controller, timers, power *)

LinkUp ==
  /\ connecting /\ ~link /\ credential
  /\ link' = TRUE
  /\ connecting' = FALSE
  /\ fails' = 0
  /\ UNCHANGED <<machine, pc, bringup, portal, fifo, credential, session>>

\* A loss; whether the manager connects again by itself is left open.
LinkDown ==
  /\ link
  /\ link' = FALSE
  /\ connecting' \in BOOLEAN
  /\ UNCHANGED <<machine, pc, bringup, fails, portal, fifo, credential, session>>

\* At most one CONNECT_FAILED per request; the controller counts them and opens
\* the portal when its budget is spent.
ConnectFails ==
  LET opens == portal = "closed" /\ fails + 1 = FallbackAttempts IN
  /\ connecting /\ ~link
  /\ connecting' = FALSE
  /\ fails' = IF portal # "closed" THEN fails ELSE (fails + 1) % FallbackAttempts
  /\ portal' = IF opens THEN "open" ELSE portal
  /\ IF opens THEN Store("PROVISIONING_STARTED") ELSE UNCHANGED fifo
  /\ UNCHANGED <<machine, pc, bringup, link, credential, session>>

\* The submitted credential connects and the success grace passes.
PortalSucceeds ==
  /\ portal = "open"
  /\ portal' = "closed"
  /\ Store("PROVISIONING_SUCCEEDED")
  /\ credential' = TRUE
  /\ link' = TRUE
  /\ connecting' = FALSE
  /\ fails' = 0
  /\ UNCHANGED <<machine, pc, bringup, session>>

PortalFails ==
  /\ portal = "open"
  /\ portal' = "closed"
  /\ Store("PROVISIONING_FAILED")
  /\ UNCHANGED <<machine, pc, bringup, link, connecting, fails, credential, session>>

BackoffElapses ==
  /\ backoff = "running"
  /\ backoff' = "elapsed"
  /\ UNCHANGED <<machine, pc, bringup, wifi, identity_file, identity, needs_prov,
                 client, auth_rejects, rejections>>

PowerCycle == Restart /\ UNCHANGED credential

Platform ==
  \/ LinkUp \/ LinkDown \/ ConnectFails
  \/ PortalSucceeds \/ PortalFails
  \/ PowerCycle
-----------------------------------------------------------------------------
\* What the supervisor task does by itself, in bounded time.
supervise ==
  \/ bootstrap_filesystem \/ load_configuration
  \/ NetworkGate \/ connect_verified_tls
  \/ OnlineDisconnected \/ stop_provisioning
  \/ PollRetry \/ BackoffRestart

\* What it does when a server, an update, the user or a stall lets it.
Occasional ==
  \/ SyncCompletes \/ OtaBegins \/ OtaFails \/ OtaEnds
  \/ PollWatchdog \/ factory_reset_erase

Next == supervise \/ Occasional \/ Platform \/ BackoffElapses

\* The supervisor loop keeps running, and its timers advance.
Spec == Init /\ [][Next]_vars /\ WF_vars(supervise) /\ WF_vars(BackoffElapses)
-----------------------------------------------------------------------------
(* Properties *)

(***************************************************************************)
(* A ThingsBoard session is synchronized or online only with a validated   *)
(* identity and a client created, or re-keyed, for it: no order of failed  *)
(* enrollments, rejections and rebuilt sessions lets the bootstrap         *)
(* identity through.                                                       *)
(***************************************************************************)
NoSessionWithoutIdentity ==
  state \in {"SYNC", "ONLINE", "OTA"} => identity /\ ~needs_prov /\ client = "device"

(***************************************************************************)
(* Between two gates an existing client was created for the mode the next  *)
(* attempt runs in: connect_verified_tls() re-uses whatever client it      *)
(* finds, so every path that changes the mode must have destroyed it.      *)
(***************************************************************************)
SessionMatchesMode == pc = "loop" /\ client # "none" => client = Mode

(***************************************************************************)
(* The machine follows the portal.  An open portal has taken it to         *)
(* PROVISIONING, or its announcement is still stored: none is consumed     *)
(* where it counts for nothing, which would leave the device parked with a *)
(* portal nobody waits for.  And a device in PROVISIONING does not wait    *)
(* for a portal that is over: it is open, or its outcome is still stored.  *)
(* (A portal stopped for an update or a fatal failure reports nothing.)    *)
(***************************************************************************)
PortalIsFollowed ==
  /\ portal = "open" => state \in {"PROVISIONING", "FATAL"}
                         \/ Stored({"PROVISIONING_STARTED"})
  /\ state = "PROVISIONING" /\ portal # "disabled"
       => portal = "open" \/ Stored(Outcomes)

(***************************************************************************)
(* An outcome of the portal is consumed only while the machine is in       *)
(* PROVISIONING, where it counts: neither the controller nor the pump      *)
(* loses one, although the pump also drains the FIFO at the NETWORK gate   *)
(* and the portal opens and closes at any time.                            *)
(***************************************************************************)
OutcomesReachTheirGate ==
  [][fifo # <<>> /\ fifo' = Tail(fifo) /\ Head(fifo) \in Outcomes
       /\ bringup' # "none" /\ portal' = portal
     => state = "PROVISIONING"]_vars

(***************************************************************************)
(* A device gives its enrolled identity up for the bootstrap mode only     *)
(* after the configured number of rejections since the last accepted       *)
(* connection; timeouts, lost links and restarts never add up to one.      *)
(***************************************************************************)
ReprovisioningIsEarned ==
  [][state = "TLS" /\ ~needs_prov /\ needs_prov' => rejections' = AuthThreshold]_vars

(***************************************************************************)
(* A credentialed device with the provisioning adapter up does not stay at *)
(* the NETWORK gate: it connects, is superseded by the portal or parks     *)
(* with its bounded retry, unless a factory reset erases the credential.   *)
(***************************************************************************)
NetworkGateResolves ==
  (state = "NETWORK" /\ has_saved_credentials) ~> (state # "NETWORK" \/ ~credential)

(***************************************************************************)
(* A failed enrollment is tried again after the backoff, also by a device  *)
(* that meanwhile spent its retry budget and parked.                       *)
(***************************************************************************)
EnrollmentIsRetried == (backoff = "running") ~> (backoff = "off" \/ state = "FATAL")

(***************************************************************************)
(* "the supervisor converts the disconnect into the machine's DISCONNECTED *)
(* event within one supervisor cadence": a link lost during the            *)
(* synchronization is noticed.                                             *)
(***************************************************************************)
LinkLossIsPickedUp == (state = "SYNC" /\ ~link) ~> (state # "SYNC" \/ link)

(***************************************************************************)
(* "a failure here only disables the fresh-device portal, never the        *)
(* credentialed boot path": with a credential the first network gate ends, *)
(* whatever part of the bring-up failed.                                   *)
(***************************************************************************)
CredentialedBootUnaffected ==
  (state = "NETWORK" /\ credential) ~> (state # "NETWORK" \/ ~credential)
=============================================================================
