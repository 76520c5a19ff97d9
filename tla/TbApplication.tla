---------------------------- MODULE TbApplication ----------------------------
(***************************************************************************)
(* components/tb_application/tb_application.c: desired states and RPCs     *)
(* from ThingsBoard become lamp states.  Three threads meet here: the      *)
(* transport thread T (attribute responses, updates, RPCs, the disconnect  *)
(* callbacks), the supervisor task S (the connect glue, the poll, the OTA  *)
(* indicator), and the Wi-Fi worker, which forces the lamp inactive past   *)
(* every lock of this module.                                              *)
(*                                                                         *)
(* The synchronization engine tb_state_sync is a platform component that   *)
(* is not in this repository.  It is modelled from the callbacks it gets,  *)
(* tests/tb_application and the lock discipline stated in the source: its  *)
(* operations exclude each other, and none of them runs while it waits for *)
(* an apply_state callback.  The lamp is its barrier, the request it       *)
(* retains and whether it emits light; an apply the hardware refuses ends  *)
(* dark (LampControl has the failures that do not).  A state is a power    *)
(* and a level, the level standing for the brightness and the colours.     *)
(***************************************************************************)
EXTENDS Naturals

CONSTANTS
  Levels,          \* the brightness_percent values of valid states
  IndicatorLevel,  \* CONFIG_KLC_OTA_BLINK_BRIGHTNESS_PERCENT
  MaxRetries,      \* max_retries, the attempts of one session
  NoState          \* no complete valid state yet: has_applied is FALSE

ASSUME LevelAssumption == Levels \subseteq 0..100 /\ {0, IndicatorLevel} \subseteq Levels
ASSUME RetryAssumption == MaxRetries \in Nat \ {0}
ASSUME NoStateAssumption == NoState \notin [power : BOOLEAN, level : Levels]

VARIABLES
  wifi,           \* the station is connected
  client,         \* tb_client_is_connected()
  pending,        \* s_tb_connected_pending of app_main.c
  connected,      \* s_tb.connected
  suspended,      \* s_tb.output_suspended
  applied,        \* s_tb.applied, or NoState
  lock,           \* the thread that holds s_tb.lock, or "none"
  session,        \* engine: its session state, "PARKED" with the budget spent
  attempts,       \* engine: the failed attempts of the session
  armed,          \* engine: subscribed on the current connection
  sync_suspended, \* engine: its copy of the suspension
  recorded,       \* engine: the state a resume re-applies
  busy,           \* engine: the thread inside an operation, or "none"
  request,        \* lamp: the power and level last applied
  lit,            \* lamp: it emits light
  barrier,        \* lamp: its fail-off barrier
  pc,             \* where T and S are
  desired,        \* the state a callback of T or S carries
  method          \* the method of the RPC on T, or "none"

net    == <<wifi, client, pending>>
app    == <<connected, suspended, applied>>
engine == <<session, attempts, armed, sync_suspended, recorded>>
lamp   == <<request, lit, barrier>>
vars   == <<net, app, lock, engine, busy, lamp, pc, desired, method>>

Threads == {"T", "S"}
States  == [power : BOOLEAN, level : Levels]
Steps   == {"idle", "release", "apply", "record",
            "rpc", "rpcRecord", "offline",
            "seen", "accepted", "attach", "online", "suspend", "otaBegin", "resume"}

Methods == {"setPower", "setBrightness", "setState"}

Off == [power |-> FALSE, level |-> 0]

Lights(state) == state.power /\ state.level > 0

TypeOK ==
  /\ wifi \in BOOLEAN /\ client \in BOOLEAN /\ pending \in BOOLEAN
  /\ connected \in BOOLEAN /\ suspended \in BOOLEAN
  /\ applied \in States \cup {NoState}
  /\ lock \in Threads \cup {"none"} /\ busy \in Threads \cup {"none"}
  /\ session \in {"INACTIVE", "SYNCING", "BACKOFF", "PARKED", "SYNCED"}
  /\ attempts \in 0..MaxRetries
  /\ armed \in BOOLEAN
  /\ sync_suspended \in BOOLEAN
  /\ recorded \in States
  /\ request \in States /\ lit \in BOOLEAN /\ barrier \in BOOLEAN
  /\ pc \in [Threads -> Steps]
  /\ desired \in [Threads -> States]
  /\ method \in Methods \cup {"none"}

Init ==
  /\ wifi = TRUE /\ client = FALSE /\ pending = FALSE
  /\ connected = FALSE /\ suspended = FALSE
  /\ applied = NoState
  /\ lock = "none" /\ busy = "none"
  /\ session = "INACTIVE" /\ attempts = 0 /\ armed = FALSE
  /\ sync_suspended = FALSE
  /\ recorded = Off
  /\ request = Off /\ lit = FALSE /\ barrier = FALSE
  /\ pc = [t \in Threads |-> "idle"]
  /\ desired = [t \in Threads |-> Off]
  /\ method = "none"
-----------------------------------------------------------------------------
(* Helpers *)

Goto(t, step) == pc' = [pc EXCEPT ![t] = step]

\* t goes from one step to another.
Moves(t, from, to) == pc[t] = from /\ Goto(t, to)

\* The callback of t is over.
Ends(t, from) ==
  /\ Moves(t, from, "idle")
  /\ desired' = [desired EXCEPT ![t] = Off]

\* lamp_control_force_inactive()
lamp_control_force_inactive ==
  /\ lit' = FALSE
  /\ barrier' = TRUE
  /\ UNCHANGED request

\* lamp_control_apply_state(): the state is applied; or the barrier or the hardware
\* refuses it, and the lamp is dark.
LampApplies(state) ==
  /\ ~barrier
  /\ request' = state
  /\ lit' = Lights(state)
  /\ UNCHANGED barrier

LampRefuses ==
  /\ lit' = FALSE
  /\ UNCHANGED <<request, barrier>>

\* Mutant of AttemptFailed: the budget is not bounded.
AttemptFailedAgain ==
  /\ session' = "BACKOFF"
  /\ attempts' = attempts + 1

\* The session state after a failed attempt.
AttemptFailed ==
  /\ session' = IF attempts + 1 < MaxRetries THEN "BACKOFF" ELSE "PARKED"
  /\ attempts' = IF attempts < MaxRetries THEN attempts + 1 ELSE attempts
-----------------------------------------------------------------------------
(* The apply_state callback: thread t is inside the engine *)

\* The engine enters the callback with the state and its suspension: a suspended
\* output only stores.
BeginApply(t, state) ==
  /\ busy = "none"
  /\ busy' = t
  /\ desired' = [desired EXCEPT ![t] = state]
  /\ Goto(t, IF sync_suspended THEN "record" ELSE "release")

\* lamp_control_release_fail_off()
ApplyReleases(t) ==
  /\ Moves(t, "release", "apply")
  /\ barrier' = FALSE
  /\ UNCHANGED <<net, app, lock, engine, busy, request, lit, desired, method>>

ApplySucceeds(t) ==
  /\ Moves(t, "apply", "record")
  /\ LampApplies(desired[t])
  /\ UNCHANGED <<net, app, lock, engine, busy, desired, method>>

\* The apply fails: tb_app_fail_off(), and the engine schedules the retry.
ApplyFails(t) ==
  /\ Ends(t, "apply")
  /\ lamp_control_force_inactive
  /\ AttemptFailed
  /\ busy' = "none"
  /\ UNCHANGED <<net, app, lock, armed, sync_suspended, recorded, method>>

\* Under the lock the applied state is recorded; the session is synchronized.
ApplyRecords(t) ==
  /\ Ends(t, "record")
  /\ lock = "none"
  /\ applied' = desired[t]
  /\ recorded' = desired[t]
  /\ session' = "SYNCED" /\ attempts' = 0
  /\ busy' = "none"
  /\ UNCHANGED <<net, connected, suspended, lock, armed, sync_suspended,
                 lamp, method>>

tb_app_apply_state(t) ==
  ApplyReleases(t) \/ ApplySucceeds(t) \/ ApplyFails(t) \/ ApplyRecords(t)
-----------------------------------------------------------------------------
(* Attribute responses and updates on T *)

\* A message for the current session: a response while the attempt waits for it, or
\* an update at any time of the session.
Delivered(response) ==
  /\ pc["T"] = "idle"
  /\ busy = "none"
  /\ client
  /\ armed
  /\ response => session = "SYNCING"

\* Complete and valid, or the empty response of a device without attributes, which
\* means off.  An update that equals the applied state is a duplicate.
ValidState(response, state) ==
  /\ Delivered(response)
  /\ response \/ session # "SYNCED" \/ state # recorded
  /\ BeginApply("T", state)
  /\ UNCHANGED <<net, app, lock, engine, lamp, method>>

\* Malformed, partial, mistyped, out of range or oversized.  (Updates with only fw_*
\* and sw_* keys do not concern the lamp.)
InvalidState(response) ==
  /\ Delivered(response)
  /\ lamp_control_force_inactive
  /\ AttemptFailed
  /\ UNCHANGED <<net, app, lock, armed, sync_suspended, recorded, busy, pc,
                 desired, method>>
-----------------------------------------------------------------------------
(* Server RPCs on T: tb_app_on_server_rpc() *)

\* The states a valid request of method m can ask for: the fields it does not name
\* come from base.  (setState names both, setColor is a setBrightness here.)
Requested(m, base) ==
  CASE m = "setPower"      -> {[base EXCEPT !.power = p] : p \in BOOLEAN}
    [] m = "setBrightness" -> {[base EXCEPT !.level = l] : l \in Levels}
    [] m = "setState"      -> States

\* The request is valid: its missing fields are taken from the state the lamp
\* reports.  (Invalid requests and getState change nothing.)
RpcBegins ==
  /\ pc["T"] = "idle"
  /\ lock = "none"
  /\ connected /\ client
  /\ armed
  /\ \E m \in Methods, state \in States :
       /\ state \in Requested(m, request)
       /\ method' = m
       /\ desired' = [desired EXCEPT !["T"] = state]
  /\ lock' = "T"
  /\ Goto("T", "rpc")
  /\ UNCHANGED <<net, app, engine, busy, lamp>>

\* Suspended: stored and acknowledged.
RpcStores ==
  /\ Moves("T", "rpc", "rpcRecord")
  /\ suspended
  /\ applied' = desired["T"]
  /\ lock' = "none"
  /\ method' = "none"
  /\ UNCHANGED <<net, connected, suspended, engine, busy, lamp, desired>>

\* Mutant of RpcApplies: the RPC lifts the barrier as a synchronization does.
RpcReleasesToo ==
  /\ Moves("T", "rpc", "rpcRecord")
  /\ ~suspended
  /\ request' = desired["T"] /\ lit' = Lights(desired["T"]) /\ barrier' = FALSE
  /\ applied' = desired["T"]
  /\ lock' = "none"
  /\ method' = "none"
  /\ UNCHANGED <<net, connected, suspended, engine, busy, desired>>

\* The hardware takes the state, it is recorded, then the success is published.
RpcApplies ==
  /\ Moves("T", "rpc", "rpcRecord")
  /\ ~suspended
  /\ LampApplies(desired["T"])
  /\ applied' = desired["T"]
  /\ lock' = "none"
  /\ method' = "none"
  /\ UNCHANGED <<net, connected, suspended, engine, busy, desired>>

\* Mutant of RpcFails: the early return forgets the unlock.
RpcFailsLocked ==
  /\ Ends("T", "rpc")
  /\ ~suspended
  /\ LampRefuses
  /\ method' = "none"
  /\ UNCHANGED <<net, app, lock, engine, busy>>

\* "hardware failure": the recorded states stay.
RpcFails ==
  /\ Ends("T", "rpc")
  /\ ~suspended
  /\ LampRefuses
  /\ lock' = "none"
  /\ method' = "none"
  /\ UNCHANGED <<net, app, engine, busy>>

\* tb_state_sync_record_state(), with the lock released.
RpcRecords ==
  /\ Ends("T", "rpcRecord")
  /\ busy = "none"
  /\ recorded' = desired["T"]
  /\ UNCHANGED <<net, app, lock, session, attempts, armed, sync_suspended,
                 busy, lamp, method>>

tb_app_on_server_rpc ==
  RpcBegins \/ RpcStores \/ RpcApplies \/ RpcFails \/ RpcRecords
-----------------------------------------------------------------------------
(* The connection *)

\* thingsboard_on_connected(): synchronization is left to the supervisor.
ClientConnects ==
  /\ wifi /\ ~client
  /\ pc["T"] = "idle"
  /\ client' = TRUE
  /\ pending' = TRUE
  /\ UNCHANGED <<wifi, app, lock, engine, busy, lamp, pc, desired, method>>

\* mqtt_cfg_connect() finds the connection it waited for,
ConnectionSeen ==
  /\ Moves("S", "idle", "seen")
  /\ client /\ ~armed
  /\ pending
  /\ UNCHANGED <<net, app, lock, engine, busy, lamp, desired, method>>

\* and re-enables the output, whatever has become of the connection since.
OutputReleased ==
  /\ Moves("S", "seen", "accepted")
  /\ barrier' = FALSE
  /\ UNCHANGED <<net, app, lock, engine, busy, request, lit, desired, method>>

mqtt_cfg_connect == ConnectionSeen \/ OutputReleased

\* service_thingsboard_connection(): the flag is consumed and the client asked.  One
\* step, since a disconnect between the two clears the flag, and leads to the same
\* state as one before them or, with a new connection, after them;
ConnectServiced ==
  /\ pc["S"] \in {"idle", "accepted"}
  /\ pending
  /\ pending' = FALSE
  /\ Goto("S", IF client THEN "attach" ELSE "idle")
  /\ UNCHANGED <<wifi, client, app, lock, engine, busy, lamp, desired, method>>

\* the first half of on_connected() follows, though the client may be gone again.
on_connected ==
  /\ Moves("S", "attach", "online")
  /\ lock = "none"
  /\ connected' = TRUE
  /\ UNCHANGED <<net, suspended, applied, lock, engine, busy, lamp, desired, method>>

service_thingsboard_connection == ConnectServiced \/ on_connected

\* The connection was lost again before the supervisor came to it.
ConnectionGone ==
  /\ Moves("S", "accepted", "idle")
  /\ ~pending
  /\ UNCHANGED <<net, app, lock, engine, busy, lamp, desired, method>>

\* tb_state_sync_on_connected(): a fresh session with a fresh budget.  Whether the
\* engine forces the output off here is not visible in this repository.
SyncStarts ==
  /\ Moves("S", "online", "idle")
  /\ busy = "none"
  /\ session' = "SYNCING"
  /\ attempts' = 0
  /\ armed' = client
  /\ lamp_control_force_inactive \/ UNCHANGED lamp
  /\ UNCHANGED <<net, app, lock, sync_suspended, recorded, busy, desired, method>>

\* thingsboard_on_disconnected() or, without a connection to lose,
\* thingsboard_on_connect_failure(), and the first half of on_disconnected().
on_disconnected ==
  /\ Moves("T", "idle", "offline")
  /\ lock = "none"
  /\ client' = FALSE
  /\ pending' = FALSE
  /\ connected' = FALSE
  /\ armed' = FALSE
  /\ UNCHANGED <<wifi, suspended, applied, lock, session, attempts,
                 sync_suspended, recorded, busy, lamp, desired, method>>

\* Mutant of SyncEnds: the session goes, the light stays.
SyncEndsLit ==
  /\ Moves("T", "offline", "idle")
  /\ busy = "none"
  /\ session' = "INACTIVE"
  /\ UNCHANGED <<net, app, lock, attempts, armed, sync_suspended, recorded, busy,
                 lamp, desired, method>>

\* tb_state_sync_on_disconnected(): the session is invalid, the output forced off.
SyncEnds ==
  /\ Moves("T", "offline", "idle")
  /\ busy = "none"
  /\ session' = "INACTIVE"
  /\ lamp_control_force_inactive
  /\ UNCHANGED <<net, app, lock, attempts, armed, sync_suspended, recorded, busy,
                 desired, method>>

\* network_adapter_before_disconnected(), on the Wi-Fi worker: no lock of this module.
before_disconnected ==
  /\ wifi
  /\ wifi' = FALSE
  /\ lamp_control_force_inactive
  /\ UNCHANGED <<client, pending, app, lock, engine, busy, pc, desired, method>>

WifiConnects ==
  /\ ~wifi
  /\ wifi' = TRUE
  /\ UNCHANGED <<client, pending, app, lock, engine, busy, lamp, pc, desired,
                 method>>
-----------------------------------------------------------------------------
(* The poll and the OTA glue on S *)

\* tb_state_sync_poll(): the window of the attempt is over.
SyncTimesOut ==
  /\ pc["S"] = "idle"
  /\ busy = "none"
  /\ session = "SYNCING"
  /\ lamp_control_force_inactive
  /\ AttemptFailed
  /\ UNCHANGED <<net, app, lock, armed, sync_suspended, recorded, busy, pc,
                 desired, method>>

\* tb_state_sync_poll(): the backoff is over, the attributes are requested again.
SyncRetries ==
  /\ pc["S"] = "idle"
  /\ busy = "none"
  /\ session = "BACKOFF"
  /\ session' = "SYNCING"
  /\ armed' = client
  /\ UNCHANGED <<net, app, lock, attempts, sync_suspended, recorded, busy, lamp, pc,
                 desired, method>>

\* app_state parks in SAFE_OFF: app_state_safe().
app_state_safe ==
  /\ pc["S"] = "idle"
  /\ lamp_control_force_inactive
  /\ UNCHANGED <<net, app, lock, engine, busy, pc, desired, method>>

\* OTA_MANAGER_EVENT_STARTED: tb_application_set_output_suspended(TRUE), its flag,
OtaStarts ==
  /\ Moves("S", "idle", "suspend")
  /\ lock = "none"
  /\ ~suspended
  /\ suspended' = TRUE
  /\ UNCHANGED <<net, connected, applied, lock, engine, busy, lamp,
                 desired, method>>

\* then the engine's,
SyncSuspends ==
  /\ Moves("S", "suspend", "otaBegin")
  /\ busy = "none"
  /\ sync_suspended' = TRUE
  /\ UNCHANGED <<net, app, lock, session, attempts, armed, recorded, busy,
                 lamp, desired, method>>

\* then APP_EVENT_OTA_BEGIN, whose entry action forces the lamp inactive.
OtaEntered ==
  /\ Moves("S", "otaBegin", "idle")
  /\ lamp_control_force_inactive
  /\ UNCHANGED <<net, app, lock, engine, busy, desired, method>>

\* ota_on_indicator(): the barrier is released and the blink applied.
ota_on_indicator(on) ==
  /\ pc["S"] = "idle"
  /\ suspended
  /\ barrier' = FALSE
  /\ \/ /\ request' = [power |-> on, level |-> IndicatorLevel]
        /\ lit' = on /\ IndicatorLevel > 0
     \/ lit' = FALSE /\ UNCHANGED request
  /\ UNCHANGED <<net, app, lock, engine, busy, pc, desired, method>>

\* OTA_MANAGER_EVENT_FAILED: the output is resumed, the flag first,
OtaFails ==
  /\ Moves("S", "idle", "resume")
  /\ lock = "none"
  /\ suspended
  /\ suspended' = FALSE
  /\ UNCHANGED <<net, connected, applied, lock, engine, busy, lamp,
                 desired, method>>

\* Mutant of ResumeUnsynchronized: the indicator is left as it is.
ResumeLeavesLit ==
  /\ Moves("S", "resume", "idle")
  /\ busy = "none"
  /\ session # "SYNCED"
  /\ sync_suspended' = FALSE
  /\ UNCHANGED <<net, app, lock, session, attempts, armed, recorded, busy,
                 lamp, desired, method>>

\* then the engine: without a synchronized session the output is forced inactive,
ResumeUnsynchronized ==
  /\ Moves("S", "resume", "idle")
  /\ busy = "none"
  /\ session # "SYNCED"
  /\ sync_suspended' = FALSE
  /\ lamp_control_force_inactive
  /\ UNCHANGED <<net, app, lock, session, attempts, armed, recorded, busy,
                 desired, method>>

\* with one the recorded state is applied again.
ResumeSynchronized ==
  /\ Moves("S", "resume", "release")
  /\ busy = "none"
  /\ session = "SYNCED"
  /\ sync_suspended' = FALSE
  /\ busy' = "S"
  /\ desired' = [desired EXCEPT !["S"] = recorded]
  /\ UNCHANGED <<net, app, lock, session, attempts, armed, recorded, lamp, method>>
-----------------------------------------------------------------------------
(* The specification *)

Callbacks ==
  \/ \E t \in Threads : tb_app_apply_state(t)
  \/ \E response \in BOOLEAN :
       \/ \E state \in States : ValidState(response, state)
       \/ InvalidState(response)
  \/ tb_app_on_server_rpc

Connection ==
  \/ ClientConnects \/ mqtt_cfg_connect \/ service_thingsboard_connection
  \/ ConnectionGone
  \/ SyncStarts \/ on_disconnected \/ SyncEnds \/ before_disconnected \/ WifiConnects

Supervision ==
  \/ SyncTimesOut \/ SyncRetries \/ app_state_safe
  \/ OtaStarts \/ SyncSuspends \/ OtaEntered \/ OtaFails
  \/ \E on \in BOOLEAN : ota_on_indicator(on)
  \/ ResumeUnsynchronized \/ ResumeSynchronized

Next == Callbacks \/ Connection \/ Supervision

\* The steps that end what a thread has begun.
TransportSteps ==
  \/ tb_app_apply_state("T")
  \/ RpcStores \/ RpcApplies \/ RpcFails \/ RpcRecords \/ SyncEnds

SupervisorSteps ==
  \/ tb_app_apply_state("S")
  \/ OutputReleased
  \/ ConnectServiced /\ pc["S"] = "accepted"
  \/ on_connected \/ ConnectionGone \/ SyncStarts \/ SyncSuspends \/ OtaEntered
  \/ ResumeUnsynchronized \/ ResumeSynchronized

\* The transport notices a station that is gone.
NoticesLoss == ~wifi /\ on_disconnected

\* Strong fairness where a thread waits for a mutex or for its turn on its own loop:
\* an OSAL mutex wakes a waiter, and the Mongoose loop looks at the connection and at
\* its messages in turn.
Spec ==
  /\ Init /\ [][Next]_vars
  /\ SF_vars(TransportSteps) /\ SF_vars(SupervisorSteps) /\ SF_vars(NoticesLoss)
-----------------------------------------------------------------------------
(* Properties *)

\* No OTA owns the output, and no apply of a synchronized state is under way.
Undisturbed == ~suspended /\ ~sync_suspended /\ busy = "none"

(***************************************************************************)
(* "Every rejection path leaves the lamp output off": with no session, or  *)
(* one whose last attempt failed or timed out, the lamp is dark, whatever  *)
(* RPC was in progress when the attempt failed, the OTA indicator showed,  *)
(* or connection the supervisor accepted in the meantime.                  *)
(***************************************************************************)
UnsyncedIsDark ==
  Undisturbed /\ session \in {"INACTIVE", "BACKOFF", "PARKED"} => ~lit

(***************************************************************************)
(* "Disconnect always forces the lamp output inactive": once the transport *)
(* thread has handled a disconnect the lamp stays dark until the client is *)
(* connected again, also when the supervisor acts on a stale connect event *)
(* or resumes the output after an OTA at that moment.                      *)
(***************************************************************************)
OfflineIsDark == Undisturbed /\ ~client /\ pc["T"] = "idle" => ~lit

(***************************************************************************)
(* The Wi-Fi worker forces the lamp off past the locks, and an update that *)
(* is just being applied may light it again: it does not stay lit.  (The   *)
(* same as: a lit lamp without a link leads to one that is dark, suspended *)
(* or connected again.)                                                    *)
(***************************************************************************)
LightEndsWithLink == []<>(wifi \/ ~lit \/ suspended \/ sync_suspended)

(***************************************************************************)
(* The lock discipline: the module lock and the engine are never held      *)
(* against each other, so every callback and every call returns, and both  *)
(* threads are idle again and again.                                       *)
(***************************************************************************)
CallbacksReturn == \A t \in Threads : []<>(pc[t] = "idle")

(***************************************************************************)
(* "A single-field change keeps the current power": an RPC that names one  *)
(* field leaves the other field of the desired state alone.                *)
(***************************************************************************)
OneFieldKeepsOther ==
  [][(pc["T"] = "rpc" /\ pc'["T"] = "rpcRecord" /\ applied # NoState)
       => /\ method = "setPower" => applied'.level = applied.level
          /\ method = "setBrightness" => applied'.power = applied.power]_vars
=============================================================================
