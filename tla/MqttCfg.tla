------------------------------- MODULE MqttCfg -------------------------------
(***************************************************************************)
(* components/mqtt_cfg/mqtt_cfg.c: the life of the verified MQTT/TLS       *)
(* transport.  One task loads, applies and connects; the Mongoose poll     *)
(* thread reports connects, losses and failures through the three safety   *)
(* callbacks; any consumer may mutate the shared mqtt_config meanwhile.    *)
(*                                                                         *)
(* A callback, and the poll loop of mqtt_cfg_connect(), is split where the *)
(* other thread can tell the order of its reads and stores.  What a        *)
(* document contains is abstracted to its acceptance.                      *)
(***************************************************************************)
EXTENDS Naturals

CONSTANTS
  MaxGen,    \* the last generation before the counter wraps, 2^32 - 1
  MaxPolls   \* the longest connect, in poll steps: timeout_ms / 25 ms

ASSUME GenAssumption   == MaxGen \in Nat \ {0}
ASSUME PollsAssumption == MaxPolls \in Nat

VARIABLES
  verified,       \* s_verified_applied
  config,         \* mqtt_config: its values against the verified snapshot
  apply_gen,      \* s_apply_generation
  connected_gen,  \* s_connected_generation
  waiting,        \* s_waiting_for_connection
  failed,         \* s_connect_failed
  auth,           \* s_auth_rejected
  transport,      \* the Mongoose client
  read,           \* history: the values its session read
  barrier,        \* the lamp fail-off barrier
  pc,             \* where the calling task is, "idle" between calls
  seen,           \* what this round of the poll loop has read
  remaining,      \* poll steps left before the timeout
  result,         \* the status of the last call
  cb,             \* where the poll thread is in a safety callback
  reason,         \* the reason the failure callback was given
  loaded          \* the generation the connect callback has loaded

latch  == <<verified, config>>
flags  == <<apply_gen, connected_gen, waiting, failed, auth>>
client == <<transport, read>>
task   == <<pc, seen, remaining, result>>
thread == <<cb, reason, loaded>>
vars   == <<latch, flags, client, barrier, task, thread>>

Reasons == {"transport", "auth", "config"}
Results == {"OK", "NOT_APPLIED", "CONNECT", "AUTH_REJECTED", "REJECTED"}
View    == [generation : BOOLEAN, failed : BOOLEAN, connected : BOOLEAN,
            usable : BOOLEAN, read : {"verified", "mutated", "restored"}]
Nothing == [generation |-> FALSE, failed |-> FALSE, connected |-> FALSE,
            usable |-> FALSE, read |-> "verified"]

\* Generation 0 says that nothing is connected, so no connect waits for it and no
\* connect event publishes it.
TypeOK ==
  /\ verified \in BOOLEAN
  /\ config \in {"unverified", "verified", "mutated"}
  /\ apply_gen \in 0..MaxGen
  /\ pc \in {"start", "poll", "check", "decide"} => apply_gen # 0
  /\ connected_gen \in 0..MaxGen
  /\ waiting \in BOOLEAN /\ failed \in BOOLEAN /\ auth \in BOOLEAN
  /\ transport \in {"stopped", "connecting", "connected", "down"}
  /\ read \in {"verified", "mutated", "restored"}
  /\ barrier \in BOOLEAN
  /\ pc \in {"idle", "darken", "stop", "set", "refuse", "start", "poll", "check", "decide"}
  /\ seen \in View
  /\ remaining \in 0..MaxPolls
  /\ result \in Results
  /\ cb \in {"idle", "connect", "load", "publish", "drop", "fail", "reason", "reject",
            "darken"}
  /\ reason \in Reasons
  /\ loaded \in 0..MaxGen
  /\ cb = "publish" => loaded # 0

\* The application starts with the barrier latched, nothing applied or started.
Init ==
  /\ verified = FALSE /\ config = "unverified"
  /\ apply_gen = 0 /\ connected_gen = 0
  /\ waiting = FALSE /\ failed = FALSE /\ auth = FALSE
  /\ transport = "stopped" /\ read = "verified"
  /\ barrier = TRUE
  /\ pc = "idle" /\ seen = Nothing /\ remaining = 0 /\ result = "NOT_APPLIED"
  /\ cb = "idle" /\ reason = "transport" /\ loaded = 0
-----------------------------------------------------------------------------
(* Helpers *)

\* mqtt_config_verified_is_current(): a comparison of values, not of writes.
matches == config = "verified"

\* What the client gets when it reads mqtt_config now.
Values == IF matches THEN "verified" ELSE "mutated"

\* Mutant of lock_held: a refused connect tears the client down under the lock.
RefuseUnderLock == pc \in {"check", "decide", "refuse"}

\* The module lock is held across steps only by a round of the poll loop.
lock_held == pc \in {"check", "decide"}

\* mqtt_app_deinit() waits for the poll thread, then stops it.
mqtt_app_deinit == cb = "idle" /\ transport' = "stopped"

\* A call of the module returns to its caller.
Return(status) == pc' = "idle" /\ result' = status
-----------------------------------------------------------------------------
(* Loading, validating and applying a document *)

\* mqtt_cfg_load(), or mqtt_cfg_validate(), rejects: the transport is left running.
mqtt_cfg_load_fails ==
  /\ pc = "idle"
  /\ verified' = FALSE
  /\ config' = "unverified"
  /\ barrier' = TRUE
  /\ Return("REJECTED")
  /\ UNCHANGED <<flags, client, seen, remaining, thread>>

\* Mutant of mqtt_cfg_apply: the counter wraps to 0.
ApplyWrapsToZero ==
  /\ pc = "idle"
  /\ apply_gen' = (apply_gen + 1) % (MaxGen + 1)
  /\ connected_gen' = 0
  /\ waiting' = FALSE
  /\ verified' = FALSE
  /\ config' = "unverified"
  /\ pc' = "darken"
  /\ UNCHANGED <<failed, auth, client, barrier, seen, remaining, result, thread>>

\* mqtt_cfg_apply(): a new generation closes the gate of the old one.  The counter
\* wraps to 1, never to 0.
mqtt_cfg_apply ==
  /\ pc = "idle"
  /\ apply_gen' = (apply_gen % MaxGen) + 1
  /\ connected_gen' = 0
  /\ waiting' = FALSE
  /\ verified' = FALSE
  /\ config' = "unverified"
  /\ pc' = "darken"
  /\ UNCHANGED <<failed, auth, client, barrier, seen, remaining, result, thread>>

ApplyDarkens ==
  /\ pc = "darken"
  /\ barrier' = (barrier \/ transport = "connected")
  /\ pc' = "stop"
  /\ UNCHANGED <<latch, flags, client, seen, remaining, result, thread>>

ApplyStops ==
  /\ pc = "stop"
  /\ mqtt_app_deinit
  /\ pc' = "set"
  /\ UNCHANGED <<latch, flags, read, barrier, seen, remaining, result, thread>>

ApplyRejected ==
  /\ pc = "set"
  /\ verified' = FALSE
  /\ barrier' = TRUE
  /\ Return("REJECTED")
  /\ UNCHANGED <<config, flags, client, seen, remaining, thread>>

ApplyAccepted ==
  /\ pc = "set"
  /\ verified' = TRUE
  /\ config' = "verified"
  /\ Return("OK")
  /\ UNCHANGED <<flags, client, barrier, seen, remaining, thread>>
-----------------------------------------------------------------------------
(* mqtt_cfg_connect() *)

\* The entry check; a refused connect closes the gate.
mqtt_cfg_connect(polls) ==
  LET usable == verified /\ matches IN
  /\ pc = "idle"
  /\ verified' = usable
  /\ waiting' = (waiting /\ usable)
  /\ pc' = IF usable THEN "start" ELSE "refuse"
  /\ remaining' = polls
  /\ UNCHANGED <<config, apply_gen, connected_gen, failed, auth, client, barrier,
                 seen, result, thread>>

\* Any old session is discarded, the wait state armed, then the client started.
ConnectStarts ==
  /\ pc = "start"
  /\ cb = "idle"
  /\ failed' = FALSE /\ auth' = FALSE
  /\ connected_gen' = 0
  /\ waiting' = TRUE
  /\ transport' = "connecting"
  /\ read' = Values
  /\ pc' = "poll"
  /\ UNCHANGED <<latch, apply_gen, barrier, seen, remaining, result, thread>>

\* One round of the poll loop: the atomics are read first ...
PollReads ==
  /\ pc = "poll"
  /\ seen' = [Nothing EXCEPT !.generation = (connected_gen = apply_gen),
                             !.failed = failed]
  /\ pc' = "check"
  /\ UNCHANGED <<latch, flags, client, barrier, remaining, result, thread>>

\* Mutant of PollChecks: no re-check of the configuration.
PollTrustsEntry ==
  /\ pc = "check"
  /\ seen' = [seen EXCEPT !.connected = seen.generation /\ transport = "connected",
                          !.usable = TRUE, !.read = read]
  /\ pc' = "decide"
  /\ UNCHANGED <<latch, flags, client, barrier, remaining, result, thread>>

\* ... then the client and the configuration are asked ...
PollChecks ==
  /\ pc = "check"
  /\ seen' = [seen EXCEPT !.connected = seen.generation /\ transport = "connected",
                          !.usable = verified /\ matches, !.read = read]
  /\ pc' = "decide"
  /\ UNCHANGED <<latch, flags, client, barrier, remaining, result, thread>>

\* ... and the first of five outcomes that applies is taken.
ConnectSucceeds ==
  /\ pc = "decide"
  /\ seen.connected /\ seen.usable
  /\ waiting' = FALSE
  /\ barrier' = FALSE
  /\ Return("OK")
  /\ seen' = Nothing
  /\ UNCHANGED <<latch, apply_gen, connected_gen, failed, auth, client, remaining, thread>>

ConnectMutated ==
  /\ pc = "decide"
  /\ seen.connected /\ ~seen.usable
  /\ verified' = FALSE
  /\ waiting' = FALSE
  /\ connected_gen' = 0
  /\ pc' = "refuse"
  /\ seen' = Nothing
  /\ UNCHANGED <<config, apply_gen, failed, auth, client, barrier, remaining, result,
                 thread>>

ConnectFailed ==
  /\ pc = "decide"
  /\ ~seen.connected /\ seen.failed
  /\ Return(IF auth THEN "AUTH_REJECTED" ELSE "CONNECT")
  /\ seen' = Nothing
  /\ UNCHANGED <<latch, flags, client, barrier, remaining, thread>>

ConnectTimesOut ==
  /\ pc = "decide"
  /\ ~seen.connected /\ ~seen.failed
  /\ remaining = 0
  /\ waiting' = FALSE
  /\ connected_gen' = 0
  /\ barrier' = TRUE
  /\ Return("CONNECT")
  /\ seen' = Nothing
  /\ UNCHANGED <<latch, apply_gen, failed, auth, client, remaining, thread>>

ConnectWaits ==
  /\ pc = "decide"
  /\ ~seen.connected /\ ~seen.failed
  /\ remaining > 0
  /\ remaining' = remaining - 1
  /\ pc' = "poll"
  /\ seen' = Nothing
  /\ UNCHANGED <<latch, flags, client, barrier, result, thread>>

\* Both refusals end here, outside the lock.
ConnectRefused ==
  /\ pc = "refuse"
  /\ mqtt_app_deinit
  /\ barrier' = TRUE
  /\ Return("NOT_APPLIED")
  /\ UNCHANGED <<latch, flags, read, seen, remaining, thread>>
-----------------------------------------------------------------------------
(* The safety callbacks on the Mongoose poll thread *)

mqtt_cfg_on_connect ==
  /\ cb = "connect"
  /\ cb' = IF waiting THEN "load" ELSE "idle"
  /\ UNCHANGED <<latch, flags, client, barrier, task, reason, loaded>>

OnConnectLoads ==
  /\ cb = "load"
  /\ loaded' = apply_gen
  /\ cb' = "publish"
  /\ UNCHANGED <<latch, flags, client, barrier, task, reason>>

OnConnectPublishes ==
  /\ cb = "publish"
  /\ connected_gen' = loaded
  /\ loaded' = 0
  /\ cb' = "idle"
  /\ UNCHANGED <<latch, apply_gen, waiting, failed, auth, client, barrier, task, reason>>

mqtt_cfg_on_disconnect ==
  /\ cb = "drop"
  /\ waiting' = FALSE
  /\ connected_gen' = 0
  /\ cb' = "darken"
  /\ UNCHANGED <<latch, apply_gen, failed, auth, client, barrier, task, reason, loaded>>

mqtt_cfg_on_connect_failure ==
  /\ cb = "fail"
  /\ waiting' = FALSE
  /\ connected_gen' = 0
  /\ failed' = TRUE
  /\ cb' = "reason"
  /\ UNCHANGED <<latch, apply_gen, auth, client, barrier, task, reason, loaded>>

OnFailureReason ==
  /\ cb = "reason"
  /\ auth' = (reason = "auth")
  /\ cb' = IF reason = "config" THEN "reject" ELSE "darken"
  /\ UNCHANGED <<latch, apply_gen, connected_gen, waiting, failed, client, barrier, task,
                 reason, loaded>>

\* Mutant of OnFailureClosesGate: the latch is cleared without the module lock.
ClosesGateUnlocked ==
  /\ cb = "reject"
  /\ verified' = FALSE
  /\ cb' = "darken"
  /\ UNCHANGED <<config, flags, client, barrier, task, reason, loaded>>

\* CONFIG_REJECTED also closes the connect gate, under the module lock.
OnFailureClosesGate ==
  /\ cb = "reject"
  /\ ~lock_held
  /\ verified' = FALSE
  /\ cb' = "darken"
  /\ UNCHANGED <<config, flags, client, barrier, task, reason, loaded>>

\* Both callbacks end in mqtt_cfg_fail_off().
CallbackDarkens ==
  /\ cb = "darken"
  /\ barrier' = TRUE
  /\ cb' = "idle"
  /\ UNCHANGED <<latch, flags, client, task, reason, loaded>>
-----------------------------------------------------------------------------
(* The Mongoose client and the other users of mqtt_config *)

\* The client reads mqtt_config at its start, or at any later instant before it is
\* connected.
ClientReads ==
  /\ transport = "connecting"
  /\ read' = Values
  /\ UNCHANGED <<latch, flags, transport, barrier, task, thread>>

Connects ==
  /\ cb = "idle" /\ transport = "connecting"
  /\ transport' = "connected"
  /\ cb' = "connect"
  /\ UNCHANGED <<latch, flags, read, barrier, task, reason, loaded>>

\* The client reconnects by itself after a loss ...
Drops ==
  /\ cb = "idle" /\ transport = "connected"
  /\ transport' = "connecting"
  /\ read' = Values
  /\ cb' = "drop"
  /\ UNCHANGED <<latch, flags, barrier, task, reason, loaded>>

\* ... and after a failure, unless the configuration itself was refused.
Fails(why) ==
  /\ cb = "idle" /\ transport = "connecting"
  /\ transport' = IF why = "config" THEN "down" ELSE "connecting"
  /\ reason' = why
  /\ cb' = "fail"
  /\ UNCHANGED <<latch, flags, read, barrier, task, loaded>>

\* A consumer changes an mqtt_config value behind the module's back ...
Mutates ==
  /\ config = "verified"
  /\ config' = "mutated"
  /\ UNCHANGED <<verified, flags, client, barrier, task, thread>>

\* ... and may set the old value again, which no comparison can tell afterwards.
Restores ==
  /\ config = "mutated"
  /\ config' = "verified"
  /\ read' = IF read = "mutated" THEN "restored" ELSE read
  /\ UNCHANGED <<verified, flags, transport, barrier, task, thread>>
-----------------------------------------------------------------------------
Calls ==
  \/ mqtt_cfg_load_fails \/ mqtt_cfg_apply
  \/ \E polls \in 0..MaxPolls : mqtt_cfg_connect(polls)

Task ==
  \/ ApplyDarkens \/ ApplyStops \/ ApplyRejected \/ ApplyAccepted
  \/ ConnectStarts \/ PollReads \/ PollChecks
  \/ ConnectSucceeds \/ ConnectMutated \/ ConnectFailed \/ ConnectTimesOut
  \/ ConnectWaits \/ ConnectRefused

Callbacks ==
  \/ mqtt_cfg_on_connect \/ OnConnectLoads \/ OnConnectPublishes
  \/ mqtt_cfg_on_disconnect
  \/ mqtt_cfg_on_connect_failure \/ OnFailureReason \/ OnFailureClosesGate
  \/ CallbackDarkens

Environment ==
  \/ ClientReads \/ Connects \/ Drops \/ Mutates \/ Restores
  \/ \E why \in Reasons : Fails(why)

Next == Calls \/ Task \/ Callbacks \/ Environment

\* The steps that stop the client.
Stops == ApplyStops \/ ConnectStarts \/ ConnectRefused

\* Both threads are scheduled; nobody has to call, connect or fail.  The poll thread
\* ends at the stop request after some event, however many are still to come.
Spec ==
  /\ Init /\ [][Next]_vars
  /\ WF_vars(Task) /\ WF_vars(Callbacks) /\ SF_vars(Stops)
-----------------------------------------------------------------------------
(* Properties *)

(***************************************************************************)
(* The barrier is released only under the verified latch, and never for a  *)
(* session that read values which the re-check still found changed,        *)
(* however the writes of mqtt_config interleave with the entry check, the  *)
(* client's reads and the poll loop.  The re-check compares values: what   *)
(* was changed, read and put back before it is accepted.                   *)
(***************************************************************************)
ReleaseIsVerified ==
  [][barrier /\ ~barrier' => verified /\ seen.read # "mutated"]_vars

(***************************************************************************)
(* Once the call and the callback in progress are over, a closed connect   *)
(* gate means a latched barrier: no order of a configuration refused on    *)
(* the poll thread and a success accepted on the task leaves the lamp      *)
(* enabled with no verified configuration in force.                        *)
(***************************************************************************)
GateClosedIsDark == pc = "idle" /\ cb = "idle" /\ ~verified => barrier

(***************************************************************************)
(* Every call returns: the task, which waits for the poll thread in        *)
(* mqtt_app_deinit(), and the failure callback, which takes the module     *)
(* lock, never wait for each other, and the poll loop is bounded.          *)
(***************************************************************************)
CallsReturn == (pc # "idle") ~> (pc = "idle")

(***************************************************************************)
(* "Once a verified session has been established, every later transport    *)
(* loss is a safety event": with no call and no callback in progress, an   *)
(* enabled lamp has a connected transport.                                 *)
(***************************************************************************)
LossLatchesBarrier ==
  pc = "idle" /\ cb = "idle" /\ ~barrier => transport = "connected"
=============================================================================
