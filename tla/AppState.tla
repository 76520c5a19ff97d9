------------------------------- MODULE AppState -------------------------------
(***************************************************************************)
(* The application state machine behind components/app_state.  The         *)
(* component forwards to the platform's hq_app_state, which is not part of *)
(* this repository: the transitions below are what tests/app_state         *)
(* requires of it, restricted to the events main/app_main.c delivers, each *)
(* with the owner the machine expects.                                     *)
(***************************************************************************)
EXTENDS Naturals

CONSTANT MaxRetries  \* retry_max_attempts

ASSUME MaxRetriesAssumption == MaxRetries \in Nat

VARIABLES
  state,      \* app_state_current()
  retry,      \* the stage a pending retry re-enters, "NONE" without one
  attempts,   \* app_state_retry_attempts_used()
  exhausted   \* app_state_retry_exhausted()

machine == <<state, retry, attempts, exhausted>>

States == {"BOOT", "FILESYSTEM", "CONFIGURATION", "NETWORK", "PROVISIONING", "TLS",
           "SYNC", "ONLINE", "SAFE_OFF", "FATAL", "OTA"}

Stages == {"NETWORK", "TLS", "SYNC"}

\* <<from, event, to>> for the events that report progress.
Advances ==
  {<<"FILESYSTEM",    "FS_OK",                  "CONFIGURATION">>,
   <<"CONFIGURATION", "CONFIG_OK",              "NETWORK">>,
   <<"NETWORK",       "NETWORK_CONNECTED",      "TLS">>,
   <<"NETWORK",       "PROVISIONING_STARTED",   "PROVISIONING">>,
   <<"PROVISIONING",  "PROVISIONING_SUCCEEDED", "NETWORK">>,
   <<"TLS",           "TLS_CONNECTED",          "SYNC">>,
   <<"SYNC",          "SYNC_COMPLETE",          "ONLINE">>,
   <<"ONLINE",        "OTA_BEGIN",              "OTA">>,
   <<"SAFE_OFF",      "OTA_BEGIN",              "OTA">>,
   <<"OTA",           "OTA_FAILED",             "ONLINE">>,
   <<"OTA",           "OTA_END",                "BOOT">>}

\* <<from, event, stage>> for the failures: all park in SAFE_OFF, and a retry of
\* the stage is scheduled while the budget lasts.
Failures ==
  {<<"FILESYSTEM",    "FS_FAIL",             "NONE">>,
   <<"CONFIGURATION", "CONFIG_FAIL",         "NONE">>,
   <<"NETWORK",       "NETWORK_FAILED",      "NETWORK">>,
   <<"PROVISIONING",  "PROVISIONING_FAILED", "NETWORK">>,
   <<"TLS",           "TLS_FAILED",          "TLS">>,
   <<"ONLINE",        "DISCONNECTED",        "NETWORK">>}

Machine ==
  /\ state \in States
  /\ retry \in Stages \cup {"NONE"}
  /\ attempts \in 0..MaxRetries
  /\ exhausted \in BOOLEAN

\* app_state_init() and app_state_start()
MachineStart ==
  /\ state = "FILESYSTEM"
  /\ retry = "NONE"
  /\ attempts = 0
  /\ exhausted = FALSE

\* The state the event leads to; an event that is illegal in the current state is
\* dropped.
Target(event) ==
  IF \E f \in Failures : f[1] = state /\ f[2] = event THEN "SAFE_OFF"
  ELSE IF \E t \in Advances : t[1] = state /\ t[2] = event
       THEN (CHOOSE t \in Advances : t[1] = state /\ t[2] = event)[3]
       ELSE state

\* The stage to retry after the event, when it is a retryable failure.
FailedStages(event) == {f[3] : f \in {g \in Failures : g[1] = state /\ g[2] = event}}
                         \ {"NONE"}

\* app_state_deliver() with the current session.  A failure parks and spends the
\* retry budget; only reaching ONLINE through synchronization restores it.
app_state_deliver(event) ==
  LET failed == FailedStages(event) # {}
      synced == state = "SYNC" /\ event = "SYNC_COMPLETE"
  IN
  /\ state' = Target(event)
  /\ retry' = IF failed /\ attempts < MaxRetries
              THEN CHOOSE s \in FailedStages(event) : TRUE
              ELSE IF Target(event) = state THEN retry ELSE "NONE"
  /\ exhausted' = (~synced /\ (exhausted \/ (failed /\ attempts = MaxRetries)))
  /\ attempts' = IF synced THEN 0 ELSE attempts

\* app_state_poll() finds the backoff of a pending retry elapsed.
RetryDue ==
  /\ state = "SAFE_OFF"
  /\ retry # "NONE"
  /\ state' = retry
  /\ retry' = "NONE"
  /\ attempts' = attempts + 1
  /\ UNCHANGED exhausted

\* app_state_poll() finds the watchdog deadline missed.
WatchdogExpires ==
  /\ state # "FATAL"
  /\ state' = "FATAL"
  /\ retry' = "NONE"
  /\ UNCHANGED <<attempts, exhausted>>
=============================================================================
