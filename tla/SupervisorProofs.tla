--------------------------- MODULE SupervisorProofs ---------------------------
(***************************************************************************)
(* What the supervisor guarantees for every retry budget, rejection        *)
(* threshold, fallback budget and FIFO capacity.                           *)
(*                                                                         *)
(* NoSessionWithoutIdentity and SessionMatchesMode are not inductive: a    *)
(* connect that is under way must already have the client and the identity *)
(* of its mode.  Modes says what each pc of the TLS gate has, Budget that  *)
(* a pending retry still has an attempt left and never re-enters SYNC, and *)
(* Counts that the rejection counter never runs ahead of the rejections.   *)
(* Queue bounds the provisioning FIFO and says who waits for its outcome,   *)
(* and Awaited that nobody waits for one that was consumed.                *)
(***************************************************************************)
EXTENDS Supervisor, SequenceTheorems, TLAPS

Live  == {"SYNC", "ONLINE", "OTA"}
Early == {"FILESYSTEM", "CONFIGURATION"}
Gated == {"connect", "enroll", "confirm"}

Budget ==
  /\ retry \in {"NONE", "NETWORK", "TLS"}
  /\ retry # "NONE" => attempts < MaxRetries

Modes ==
  /\ pc \in Gated => state = "TLS"
  /\ state \in Early => client = "none"
  /\ pc \in {"loop", "gate"} /\ client # "none" => client = Mode
  /\ pc = "connect" => (needs_prov \/ identity) /\ client = Mode
  /\ pc = "enroll" => needs_prov /\ client = "bootstrap"
  /\ pc = "confirm" => identity /\ ~needs_prov /\ client = "device"

Counts == auth_rejects <= rejections

IInv == TypeOK /\ Budget /\ Modes /\ NoSessionWithoutIdentity /\ Counts

\* The parts of the type invariant.
Flags ==
  /\ link \in BOOLEAN /\ connecting \in BOOLEAN /\ credential \in BOOLEAN
  /\ identity_file \in BOOLEAN /\ identity \in BOOLEAN /\ needs_prov \in BOOLEAN

Wifi ==
  /\ fails \in 0..(FallbackAttempts - 1)
  /\ portal \in {"disabled", "closed", "open"}
  /\ fifo \in Seq(Events) /\ Len(fifo) <= MaxFifo

Session ==
  /\ client \in {"none", "bootstrap", "device"}
  /\ auth_rejects \in 0..(AuthThreshold - 1)
  /\ backoff \in {"off", "running", "elapsed"}
  /\ rejections \in 0..AuthThreshold

Control ==
  /\ pc \in {"loop", "gate", "connect", "enroll", "confirm"}
  /\ bringup \in {"none", "failed", "station", "full"}
-----------------------------------------------------------------------------
(* The state machine *)

(***************************************************************************)
(* An event leads to one of the states, whatever state it meets.           *)
(***************************************************************************)
LEMMA TargetIsState ==
  ASSUME Machine, NEW event
  PROVE  Target(event) \in States
<1>1. CASE \E f \in Failures : f[1] = state /\ f[2] = event
  BY <1>1 DEF Target, States
<1>2. CASE ~\E f \in Failures : f[1] = state /\ f[2] = event
  <2>1. CASE \E t \in Advances : t[1] = state /\ t[2] = event
    <3>1. PICK t \in Advances : t = CHOOSE u \in Advances : u[1] = state /\ u[2] = event
      BY <2>1
    <3>2. t[3] \in States
      BY DEF Advances, States
    <3> QED BY <1>2, <2>1, <3>1, <3>2 DEF Target
  <2>2. CASE ~\E t \in Advances : t[1] = state /\ t[2] = event
    BY <1>2, <2>2 DEF Target, Machine
  <2> QED BY <2>1, <2>2
<1> QED BY <1>1, <1>2

(***************************************************************************)
(* Only the network and the TLS stage are ever scheduled for a retry.      *)
(***************************************************************************)
LEMMA FailedStagesType ==
  ASSUME NEW event
  PROVE  FailedStages(event) \subseteq {"NETWORK", "TLS"}
BY DEF FailedStages, Failures

(***************************************************************************)
(* Delivering an event keeps the machine typed and its budget respected.   *)
(***************************************************************************)
LEMMA DeliverType ==
  ASSUME Machine, Budget, NEW event, app_state_deliver(event)
  PROVE  Machine' /\ Budget'
<1>1. state' \in States
  BY TargetIsState DEF app_state_deliver
<1>2. exhausted' \in BOOLEAN
  BY DEF app_state_deliver
<1>3. attempts' \in 0..MaxRetries
  BY MaxRetriesAssumption DEF app_state_deliver, Machine
<1>4. CASE FailedStages(event) # {} /\ attempts < MaxRetries
  <2>1. retry' \in FailedStages(event)
    BY <1>4 DEF app_state_deliver
  <2>2. FailedStages(event) \subseteq {"NETWORK", "TLS"}
    BY FailedStagesType
  <2>3. attempts' < MaxRetries
    BY <1>4, MaxRetriesAssumption DEF app_state_deliver, Machine
  <2> QED BY <1>1, <1>2, <1>3, <2>1, <2>2, <2>3 DEF Machine, Budget, Stages
<1>5. CASE ~(FailedStages(event) # {} /\ attempts < MaxRetries)
  <2>1. retry' \in {retry, "NONE"}
    BY <1>5 DEF app_state_deliver
  <2>2. retry' # "NONE" => attempts' < MaxRetries
    <3>1. attempts' \in {0, attempts}
      BY DEF app_state_deliver
    <3> QED BY <2>1, <3>1, MaxRetriesAssumption DEF Budget, Machine
  <2> QED BY <1>1, <1>2, <1>3, <2>1, <2>2 DEF Machine, Budget, Stages
<1> QED BY <1>4, <1>5

(***************************************************************************)
(* Which events lead into a live session, and back to the configuration.   *)
(***************************************************************************)
LEMMA DeliverTarget ==
  ASSUME NEW event, app_state_deliver(event)
  PROVE  /\ state' \in Live => state \in Live \/ event \in {"TLS_CONNECTED", "OTA_BEGIN"}
         /\ state' \in Early => state \in Early
         /\ state = "CONFIGURATION" /\ event = "CONFIG_OK" => state' = "NETWORK"
<1>1. state' = Target(event)
  BY DEF app_state_deliver
<1>2. CASE \E f \in Failures : f[1] = state /\ f[2] = event
  <2>1. state' = "SAFE_OFF"
    BY <1>1, <1>2 DEF Target
  <2>2. ~(state = "CONFIGURATION" /\ event = "CONFIG_OK")
    BY <1>2 DEF Failures
  <2> QED BY <2>1, <2>2 DEF Live, Early
<1>3. CASE ~\E f \in Failures : f[1] = state /\ f[2] = event
  <2>1. CASE \E t \in Advances : t[1] = state /\ t[2] = event
    <3>1. PICK t \in Advances : /\ t = CHOOSE u \in Advances : u[1] = state /\ u[2] = event
                                /\ t[1] = state /\ t[2] = event
      BY <2>1
    <3>2. state' = t[3]
      BY <1>1, <1>3, <2>1, <3>1 DEF Target
    <3>3. /\ t[3] \in Live => t[1] \in Live \/ t[2] \in {"TLS_CONNECTED", "OTA_BEGIN"}
          /\ t[3] \in Early => t[1] \in Early
          /\ t[1] = "CONFIGURATION" /\ t[2] = "CONFIG_OK" => t[3] = "NETWORK"
      BY DEF Advances, Live, Early
    <3> QED BY <3>1, <3>2, <3>3
  <2>2. CASE ~\E t \in Advances : t[1] = state /\ t[2] = event
    <3>1. state' = state
      BY <1>1, <1>3, <2>2 DEF Target
    <3>2. ~(state = "CONFIGURATION" /\ event = "CONFIG_OK")
      <4>1. <<"CONFIGURATION", "CONFIG_OK", "NETWORK">> \in Advances
        BY DEF Advances
      <4> QED BY <2>2, <4>1
    <3> QED BY <3>1, <3>2
  <2> QED BY <2>1, <2>2
<1> QED BY <1>2, <1>3
-----------------------------------------------------------------------------
(* The steps, by what they do to the session *)

\* The steps outside of the configuration and TLS gates.
Elsewhere ==
  \/ bootstrap_filesystem \/ NetworkGate
  \/ OnlineDisconnected \/ stop_provisioning \/ PollRetry
  \/ SyncCompletes \/ OtaBegins \/ OtaFails \/ PollWatchdog
  \/ LinkUp \/ LinkDown \/ ConnectFails \/ PortalSucceeds \/ PortalFails
  \/ factory_reset_erase /\ UNCHANGED <<machine, pc, session>>

(***************************************************************************)
(* Every step falls into one of five kinds; a restart may lose the         *)
(* credential only in a factory reset.                                     *)
(***************************************************************************)
LEMMA NextCases ==
  ASSUME Next
  PROVE  \/ Elsewhere \/ load_configuration \/ connect_verified_tls \/ BackoffElapses
         \/ Restart /\ credential' \in {credential, FALSE}
<1>1. CASE supervise
  BY <1>1 DEF supervise, Elsewhere, BackoffRestart
<1>2. CASE Occasional
  BY <1>2 DEF Occasional, Elsewhere, OtaEnds, factory_reset_erase, machine
<1>3. CASE Platform
  BY <1>3 DEF Platform, Elsewhere, PowerCycle
<1> QED BY <1>1, <1>2, <1>3 DEF Next

(***************************************************************************)
(* Outside of the two gates the session is left alone, no connect begins   *)
(* or ends, and no state is entered that needs one, or that has none.      *)
(***************************************************************************)
LEMMA ElsewhereEffect ==
  ASSUME TypeOK, Budget, Elsewhere
  PROVE  /\ UNCHANGED session
         /\ pc \in Gated \/ pc' \in Gated => UNCHANGED <<pc, state>>
         /\ state' \in Early => state \in Early
         /\ state' \in Live => state \in Live
<1> USE DEF Gated, At
<1>0. ASSUME NEW event, app_state_deliver(event), event \notin {"TLS_CONNECTED", "OTA_BEGIN"}
      PROVE  /\ state' \in Early => state \in Early
             /\ state' \in Live => state \in Live
  BY <1>0, DeliverTarget
<1>1. CASE bootstrap_filesystem
  BY <1>0, <1>1 DEF bootstrap_filesystem
<1>2. CASE StartNetworkFails
  BY <1>0, <1>2 DEF StartNetworkFails
<1>3. CASE AdapterInitFails
  BY <1>3 DEF AdapterInitFails, machine
<1>4. CASE BringUp
  BY <1>4 DEF BringUp, machine
<1>5. CASE EnterGate
  BY <1>5 DEF EnterGate, machine
<1>6. CASE LeaveGate
  <2>1. CASE state = "NETWORK"
    <3>1. app_state_deliver("NETWORK_CONNECTED") \/ app_state_deliver("NETWORK_FAILED")
      BY <1>6, <2>1 DEF LeaveGate
    <3> QED BY <1>0, <1>6, <3>1 DEF LeaveGate
  <2>2. CASE state # "NETWORK"
    BY <1>6, <2>2 DEF LeaveGate, machine
  <2> QED BY <2>1, <2>2
<1>7. CASE deliver_provisioning_events
  <2>1. Head(fifo) \in Events
    BY <1>7 DEF deliver_provisioning_events, TypeOK
  <2>2. Head(fifo) \notin {"TLS_CONNECTED", "OTA_BEGIN"}
    BY <2>1 DEF Events, Outcomes
  <2> QED BY <1>0, <1>7, <2>2 DEF deliver_provisioning_events
<1>8. CASE OnlineDisconnected
  BY <1>0, <1>8 DEF OnlineDisconnected
<1>9. CASE stop_provisioning
  BY <1>9 DEF stop_provisioning, machine
<1>10. CASE PollRetry
  BY <1>10 DEF PollRetry, RetryDue, Budget, Early, Live
<1>11. CASE SyncCompletes
  BY <1>0, <1>11 DEF SyncCompletes
<1>12. CASE OtaBegins
  <2>1. state \in Live
    BY <1>12 DEF OtaBegins, Live
  <2> QED BY DeliverTarget, <1>12, <2>1 DEF OtaBegins
<1>13. CASE OtaFails
  BY <1>0, <1>13 DEF OtaFails
<1>14. CASE PollWatchdog
  BY <1>14 DEF PollWatchdog, WatchdogExpires, Early, Live
<1>15. CASE LinkUp \/ LinkDown \/ ConnectFails \/ PortalSucceeds \/ PortalFails
  BY <1>15 DEF LinkUp, LinkDown, ConnectFails, PortalSucceeds, PortalFails, machine
<1>16. CASE factory_reset_erase /\ UNCHANGED <<machine, pc, session>>
  BY <1>16 DEF machine
<1> QED
  BY <1>1, <1>2, <1>3, <1>4, <1>5, <1>6, <1>7, <1>8, <1>9, <1>10, <1>11, <1>12, <1>13,
     <1>14, <1>15, <1>16 DEF Elsewhere, NetworkGate
-----------------------------------------------------------------------------
(* Types *)

(***************************************************************************)
(* The type invariant, split into its parts.                               *)
(***************************************************************************)
LEMMA Split == TypeOK <=> Machine /\ Control /\ Flags /\ Wifi /\ Session
BY Zenon DEF TypeOK, Control, Flags, Wifi, Session

(***************************************************************************)
(* The fallback counter wraps within its range.                            *)
(***************************************************************************)
LEMMA FallbackWraps ==
  ASSUME NEW n \in 0..(FallbackAttempts - 1)
  PROVE  (n + 1) % FallbackAttempts \in 0..(FallbackAttempts - 1)
BY FallbackAssumption

(***************************************************************************)
(* The FIFO takes an event and never holds more than its capacity.         *)
(***************************************************************************)
LEMMA StoreType ==
  ASSUME Wifi, NEW event \in Events, Store(event)
  PROVE  fifo' \in Seq(Events) /\ Len(fifo') <= MaxFifo
<1>1. CASE Len(fifo) = MaxFifo
  <2>1. Tail(fifo) \in Seq(Events) /\ Len(Tail(fifo)) = MaxFifo - 1
    BY <1>1, FifoAssumption DEF Wifi
  <2> QED BY <1>1, <2>1, FifoAssumption DEF Store
<1>2. CASE Len(fifo) # MaxFifo
  BY <1>2, FifoAssumption DEF Store, Wifi
<1> QED BY <1>1, <1>2

(***************************************************************************)
(* Every step keeps the state machine typed and its budget respected.      *)
(***************************************************************************)
LEMMA MachineStep ==
  ASSUME TypeOK, Budget, Next
  PROVE  Machine' /\ Budget'
<1>0. Machine
  BY DEF TypeOK
<1>1. ASSUME NEW event, app_state_deliver(event) PROVE Machine' /\ Budget'
  BY <1>0, <1>1, DeliverType
<1>2. ASSUME UNCHANGED machine PROVE Machine' /\ Budget'
  BY <1>0, <1>2 DEF machine, Machine, Budget
<1>3. CASE Restart
  <2>1. exhausted' \in BOOLEAN
    BY Zenon, <1>3 DEF Restart
  <2> QED BY <1>3, <2>1, MaxRetriesAssumption DEF Restart, Machine, Budget, States, Stages
<1>4. CASE load_configuration
  BY <1>1, <1>4 DEF load_configuration, ConfigurationFails, ConfigurationLoads
<1>5. CASE connect_verified_tls
  <2>1. (\E event : app_state_deliver(event)) \/ UNCHANGED machine
    BY Zenon, <1>5 DEF connect_verified_tls, TlsBlocked, BeginTls, ConnectAccepted,
       ConnectFailed, AuthRejected, EnrollFails, EnrollmentUnused, Enrolled,
       ConfirmAccepted, ConfirmFails, TlsReturns
  <2> QED BY <1>1, <1>2, <2>1
<1>6. CASE BackoffElapses
  BY <1>2, <1>6 DEF BackoffElapses
<1>7. CASE Elsewhere
  <2>1. CASE bootstrap_filesystem \/ NetworkGate
    BY <1>1, <1>2, <2>1 DEF bootstrap_filesystem, NetworkGate, StartNetworkFails,
       AdapterInitFails, BringUp, EnterGate, LeaveGate, deliver_provisioning_events
  <2>2. CASE OnlineDisconnected \/ SyncCompletes \/ OtaBegins \/ OtaFails
    BY <1>1, <2>2 DEF OnlineDisconnected, SyncCompletes, OtaBegins, OtaFails
  <2>3. CASE PollRetry
    BY <1>0, <2>3, MaxRetriesAssumption DEF PollRetry, RetryDue, Machine, Budget, States,
       Stages
  <2>4. CASE PollWatchdog
    BY <1>0, <2>4 DEF PollWatchdog, WatchdogExpires, Machine, Budget, States, Stages
  <2>5. CASE \/ stop_provisioning \/ LinkUp \/ LinkDown \/ ConnectFails
             \/ PortalSucceeds \/ PortalFails
             \/ factory_reset_erase /\ UNCHANGED <<machine, pc, session>>
    BY <1>2, <2>5 DEF stop_provisioning, LinkUp, LinkDown, ConnectFails,
       PortalSucceeds, PortalFails
  <2> QED BY <1>7, <2>1, <2>2, <2>3, <2>4, <2>5 DEF Elsewhere
<1> QED BY <1>3, <1>4, <1>5, <1>6, <1>7, NextCases

(***************************************************************************)
(* Every step leaves the task at one of its gates or in its loop.          *)
(***************************************************************************)
LEMMA ControlStep == Control /\ Next => Control'
BY DEF Control, Next, supervise, Occasional, Platform, bootstrap_filesystem,
       load_configuration, ConfigurationFails, ConfigurationLoads, NetworkGate,
       StartNetworkFails, AdapterInitFails, BringUp, EnterGate, LeaveGate,
       deliver_provisioning_events, connect_verified_tls, TlsBlocked, BeginTls,
       ConnectAccepted, ConnectFailed, AuthRejected, EnrollFails, EnrollmentUnused,
       Enrolled, ConfirmAccepted, ConfirmFails, TlsReturns, SyncCompletes,
       OnlineDisconnected, OtaBegins, OtaFails, OtaEnds, stop_provisioning, PollRetry,
       BackoffRestart, PollWatchdog, factory_reset_erase, LinkUp, LinkDown,
       ConnectFails, PortalSucceeds, PortalFails, PowerCycle, BackoffElapses, Restart

(***************************************************************************)
(* The Boolean variables stay Booleans.                                    *)
(***************************************************************************)
LEMMA FlagsStep ==
  ASSUME Flags, Next
  PROVE  Flags'
<1> USE DEF wifi, session, Flags
<1>1. CASE Restart /\ credential' \in {credential, FALSE}
  BY Zenon, <1>1 DEF Restart
<1>2. CASE load_configuration
  BY Zenon, <1>2 DEF load_configuration, ConfigurationFails, ConfigurationLoads
<1>3. CASE connect_verified_tls
  <2>1. CASE TlsBlocked \/ BeginTls \/ ConnectAccepted \/ ConnectFailed
    BY Zenon, <2>1 DEF TlsBlocked, BeginTls, ConnectAccepted, ConnectFailed, TlsReturns
  <2>2. CASE \E available \in BOOLEAN : AuthRejected(available)
    BY Zenon, <2>2 DEF AuthRejected, TlsReturns
  <2>3. CASE \E persisted \in BOOLEAN : EnrollFails(persisted)
    BY Zenon, <2>3 DEF EnrollFails, TlsReturns
  <2>4. CASE EnrollmentUnused \/ Enrolled \/ ConfirmAccepted \/ ConfirmFails
    BY Zenon, <2>4 DEF EnrollmentUnused, Enrolled, ConfirmAccepted, ConfirmFails,
       TlsReturns
  <2> QED BY <1>3, <2>1, <2>2, <2>3, <2>4 DEF connect_verified_tls
<1>4. CASE BackoffElapses
  BY Zenon, <1>4 DEF BackoffElapses
<1>5. CASE Elsewhere
  <2>1. CASE bootstrap_filesystem \/ NetworkGate
    BY Zenon, <2>1 DEF bootstrap_filesystem, NetworkGate, StartNetworkFails,
       AdapterInitFails, BringUp, EnterGate, LeaveGate, deliver_provisioning_events
  <2>2. CASE OnlineDisconnected \/ stop_provisioning \/ PollRetry
    BY Zenon, <2>2 DEF OnlineDisconnected, stop_provisioning, PollRetry
  <2>3. CASE SyncCompletes \/ OtaBegins \/ OtaFails \/ PollWatchdog
    BY Zenon, <2>3 DEF SyncCompletes, OtaBegins, OtaFails, PollWatchdog
  <2>4. CASE LinkUp \/ LinkDown \/ ConnectFails \/ PortalSucceeds \/ PortalFails
    BY Zenon, <2>4 DEF LinkUp, LinkDown, ConnectFails, PortalSucceeds, PortalFails
  <2>5. CASE factory_reset_erase /\ UNCHANGED <<machine, pc, session>>
    BY Zenon, <2>5 DEF factory_reset_erase, Restart
  <2> QED BY <1>5, <2>1, <2>2, <2>3, <2>4, <2>5 DEF Elsewhere
<1> QED BY <1>1, <1>2, <1>3, <1>4, <1>5, NextCases

(***************************************************************************)
(* The fallback counter, the portal and the FIFO stay in their ranges.     *)
(***************************************************************************)
LEMMA WifiStep ==
  ASSUME Wifi, Next
  PROVE  Wifi'
<1>0. "PROVISIONING_STARTED" \in Events
  BY DEF Events
<1>1. ASSUME UNCHANGED <<fails, portal, fifo>> PROVE Wifi'
  BY <1>1 DEF Wifi
<1>2. CASE Restart
  <2>1. fifo' \in Seq(Events) /\ Len(fifo') <= MaxFifo
    BY <1>2, FifoAssumption DEF Restart
  <2>2. fails' \in 0..(FallbackAttempts - 1) /\ portal' = "disabled"
    BY <1>2, FallbackAssumption DEF Restart
  <2> QED BY <2>1, <2>2 DEF Wifi
<1>3. CASE load_configuration \/ connect_verified_tls \/ BackoffElapses
  <2>1. UNCHANGED <<fails, portal, fifo>>
    BY Zenon, <1>3 DEF load_configuration, ConfigurationFails, ConfigurationLoads,
       connect_verified_tls, TlsBlocked, BeginTls, ConnectAccepted, ConnectFailed,
       AuthRejected, EnrollFails, EnrollmentUnused, Enrolled, ConfirmAccepted,
       ConfirmFails, TlsReturns, BackoffElapses, wifi
  <2> QED BY <1>1, <2>1
<1>4. CASE Elsewhere
  <2>1. CASE \/ bootstrap_filesystem \/ StartNetworkFails \/ LeaveGate \/ OnlineDisconnected
             \/ PollRetry \/ SyncCompletes \/ OtaBegins \/ OtaFails \/ PollWatchdog
             \/ AdapterInitFails \/ EnterGate \/ LinkDown
    <3>1. UNCHANGED <<fails, portal, fifo>>
      BY Zenon, <2>1 DEF bootstrap_filesystem, StartNetworkFails, LeaveGate,
         OnlineDisconnected, PollRetry, SyncCompletes, OtaBegins, OtaFails, PollWatchdog,
         AdapterInitFails, EnterGate, LinkDown, wifi
    <3> QED BY <1>1, <3>1
  <2>2. CASE stop_provisioning
    <3>1. fails' = fails /\ portal' = "disabled" /\ (fifo' = fifo \/ fifo' = <<>>)
      BY Zenon, <2>2 DEF stop_provisioning
    <3>0. fifo \in Seq(Events) /\ Len(fifo) <= MaxFifo
      BY DEF Wifi
    <3>2. <<>> \in Seq(Events) /\ Len(<<>>) <= MaxFifo
      BY FifoAssumption
    <3>3. fifo' \in Seq(Events) /\ Len(fifo') <= MaxFifo
      BY Zenon, <3>0, <3>1, <3>2
    <3> QED BY <3>1, <3>3 DEF Wifi
  <2>3. CASE BringUp
    <3>1. fifo' = fifo \/ Store("PROVISIONING_STARTED")
      BY Zenon, <2>3 DEF BringUp
    <3>3. fifo' \in Seq(Events) /\ Len(fifo') <= MaxFifo
      BY <1>0, <3>1, StoreType DEF Wifi
    <3>2. fails' = fails /\ portal' \in {"closed", "open"}
      BY <2>3 DEF BringUp
    <3> QED BY <3>2, <3>3 DEF Wifi
  <2>4. CASE deliver_provisioning_events
    <3>1. fifo # <<>> /\ fifo' = Tail(fifo) /\ fails' = fails /\ portal' = portal
      BY Zenon, <2>4 DEF deliver_provisioning_events
    <3>0. fifo \in Seq(Events) /\ Len(fifo) <= MaxFifo /\ Len(fifo) \in Nat
      BY DEF Wifi
    <3>2. Tail(fifo) \in Seq(Events) /\ Len(Tail(fifo)) = Len(fifo) - 1
      BY <3>0, <3>1, HeadTailProperties
    <3>3. fifo' \in Seq(Events) /\ Len(fifo') <= MaxFifo
      BY <3>0, <3>1, <3>2, FifoAssumption
    <3> QED BY <3>1, <3>3 DEF Wifi
  <2>5. CASE LinkUp
    BY <2>5, FallbackAssumption DEF LinkUp, Wifi
  <2>6. CASE ConnectFails
    <3>1. fails' \in 0..(FallbackAttempts - 1)
      BY <2>6, FallbackWraps DEF ConnectFails, Wifi
    <3>4. fifo' = fifo \/ Store("PROVISIONING_STARTED")
      BY Zenon, <2>6 DEF ConnectFails
    <3>2. fifo' \in Seq(Events) /\ Len(fifo') <= MaxFifo
      BY <1>0, <3>4, StoreType DEF Wifi
    <3>3. portal' \in {portal, "open"}
      BY <2>6 DEF ConnectFails
    <3> QED BY <3>1, <3>2, <3>3 DEF Wifi
  <2>7. CASE PortalSucceeds \/ PortalFails
    <3>1. fifo' \in Seq(Events) /\ Len(fifo') <= MaxFifo
      BY <2>7, StoreType DEF PortalSucceeds, PortalFails, Events, Outcomes
    <3>2. fails' \in {fails, 0} /\ portal' = "closed"
      BY <2>7 DEF PortalSucceeds, PortalFails
    <3> QED BY <3>1, <3>2, FallbackAssumption DEF Wifi
  <2>8. CASE factory_reset_erase /\ UNCHANGED <<machine, pc, session>>
    <3>1. Restart \/ UNCHANGED <<fails, portal, fifo>>
      BY <2>8 DEF factory_reset_erase
    <3> QED BY <1>1, <1>2, <3>1
  <2> QED BY <1>4, <2>1, <2>2, <2>3, <2>4, <2>5, <2>6, <2>7, <2>8
          DEF Elsewhere, NetworkGate
<1> QED BY <1>2, <1>3, <1>4, NextCases

(***************************************************************************)
(* The counters stay below their thresholds, and the rejection counter     *)
(* never runs ahead of the rejections.                                     *)
(***************************************************************************)
LEMMA SessionStep ==
  ASSUME TypeOK, Counts, Next
  PROVE  Session' /\ Counts'
<1>0. Session
  BY Split
<1>1. ASSUME UNCHANGED <<client, backoff>>, auth_rejects' = auth_rejects,
             rejections' = rejections
      PROVE  Session' /\ Counts'
  BY <1>0, <1>1 DEF Session, Counts
<1>2. CASE Restart
  BY <1>2, ThresholdAssumption DEF Restart, Session, Counts
<1>3. CASE load_configuration
  <2>1. /\ client' \in {"none", "bootstrap", "device"}
        /\ UNCHANGED <<auth_rejects, backoff, rejections>>
    BY Zenon, <1>0, <1>3 DEF load_configuration, ConfigurationFails, ConfigurationLoads, Session
  <2> QED BY <1>0, <2>1 DEF Session, Counts
<1>4. CASE connect_verified_tls
  <2>1. ASSUME NEW available \in BOOLEAN, AuthRejected(available)
        PROVE  Session' /\ Counts'
    <3>1. client' \in {client, "none"} /\ backoff' = backoff
      BY Zenon, <2>1 DEF AuthRejected
    <3>2. auth_rejects' = IF auth_rejects + 1 >= AuthThreshold THEN 0 ELSE auth_rejects + 1
      BY <2>1 DEF AuthRejected
    <3>3. rejections' = IF rejections < AuthThreshold THEN rejections + 1 ELSE rejections
      BY <2>1 DEF AuthRejected
    <3> QED BY <1>0, <3>1, <3>2, <3>3, ThresholdAssumption DEF Session, Counts
  <2>2. CASE ConnectAccepted \/ ConfirmAccepted
    <3>1. /\ UNCHANGED <<client, backoff>>
          /\ \/ auth_rejects' = 0 /\ rejections' = 0
             \/ UNCHANGED <<auth_rejects, rejections>>
      BY Zenon, <2>2 DEF ConnectAccepted, ConfirmAccepted, session
    <3> QED BY <1>0, <3>1, ThresholdAssumption DEF Session, Counts
  <2>3. CASE \/ TlsBlocked \/ BeginTls \/ ConnectFailed \/ EnrollmentUnused \/ Enrolled
             \/ ConfirmFails \/ \E persisted \in BOOLEAN : EnrollFails(persisted)
    <3>1. /\ client' \in {client, "none", Mode, "device"}
          /\ backoff' \in {backoff, "off", "running"}
          /\ UNCHANGED <<auth_rejects, rejections>>
      BY Zenon, <2>3 DEF TlsBlocked, BeginTls, ConnectFailed, EnrollmentUnused, Enrolled,
         ConfirmFails, EnrollFails, session
    <3> QED BY <1>0, <3>1 DEF Session, Counts, Mode
  <2> QED BY <1>4, <2>1, <2>2, <2>3 DEF connect_verified_tls
<1>5. CASE BackoffElapses
  BY <1>0, <1>5 DEF BackoffElapses, Session, Counts
<1>6. CASE Elsewhere
  <2>1. UNCHANGED session
    BY Zenon, <1>6 DEF Elsewhere, bootstrap_filesystem, NetworkGate, StartNetworkFails,
       AdapterInitFails, BringUp, EnterGate, LeaveGate, deliver_provisioning_events,
       OnlineDisconnected, stop_provisioning, PollRetry, SyncCompletes, OtaBegins,
       OtaFails, PollWatchdog, LinkUp, LinkDown, ConnectFails, PortalSucceeds, PortalFails
  <2> QED BY <1>1, <2>1 DEF session
<1> QED BY <1>2, <1>3, <1>4, <1>5, <1>6, NextCases

(***************************************************************************)
(* Every step keeps the types.                                             *)
(***************************************************************************)
LEMMA TypeStep ==
  ASSUME TypeOK, Budget, Counts, Next
  PROVE  TypeOK' /\ Budget' /\ Counts'
<1>1. Machine /\ Control /\ Flags /\ Wifi /\ Session
  BY Zenon, Split
<1>2. Machine' /\ Budget'
  BY Zenon, MachineStep
<1>3. Control'
  BY Zenon, <1>1, ControlStep
<1>4. Flags'
  BY Zenon, <1>1, FlagsStep
<1>5. Wifi'
  BY Zenon, <1>1, WifiStep
<1>6. Session' /\ Counts'
  BY Zenon, SessionStep
<1>7. TypeOK'
  BY Zenon, <1>2, <1>3, <1>4, <1>5, <1>6
     DEF TypeOK, Control, Flags, Wifi, Session
<1> QED BY <1>2, <1>6, <1>7
-----------------------------------------------------------------------------
(* The session of each mode *)

(***************************************************************************)
(* The configuration gate creates the client of the mode it chose.         *)
(***************************************************************************)
LEMMA ConfigurationStep ==
  ASSUME IInv, load_configuration
  PROVE  Modes' /\ NoSessionWithoutIdentity'
<1> USE DEF At, Modes, NoSessionWithoutIdentity, Live, Early, Gated, IInv, Mode
<1>1. CASE ConfigurationFails
  <2>1. app_state_deliver("CONFIG_FAIL") /\ pc' = pc /\ client' = client
    BY Zenon, <1>1 DEF ConfigurationFails
  <2>2. state = "CONFIGURATION" /\ pc = "loop" /\ client = "none"
    BY <1>1 DEF ConfigurationFails
  <2>3. state' \notin Live
    BY <2>1, <2>2, DeliverTarget
  <2> QED BY <2>1, <2>2, <2>3
<1>2. CASE ConfigurationLoads
  <2>1. app_state_deliver("CONFIG_OK") /\ pc' = pc /\ client' = Mode'
    BY Zenon, <1>2 DEF ConfigurationLoads
  <2>2. state = "CONFIGURATION" /\ pc = "loop"
    BY <1>2 DEF ConfigurationLoads
  <2>3. state' = "NETWORK"
    BY <2>1, <2>2, DeliverTarget
  <2> QED BY <2>1, <2>2, <2>3
<1> QED BY <1>1, <1>2 DEF load_configuration

(***************************************************************************)
(* The verified-TLS gate: only an accepted connect of the device identity  *)
(* leads on, and whatever changes the mode leaves no client of the other.  *)
(***************************************************************************)
LEMMA TlsStep ==
  ASSUME IInv, connect_verified_tls
  PROVE  Modes' /\ NoSessionWithoutIdentity'
<1> USE DEF At, Modes, NoSessionWithoutIdentity, Live, Early, Gated, IInv, Mode
<1>0. ASSUME NEW event, TlsReturns(event), state = "TLS", event # "OTA_BEGIN",
             client' = "none" \/ client' = Mode',
             event = "TLS_CONNECTED" => identity' /\ ~needs_prov' /\ client' = "device"
      PROVE  Modes' /\ NoSessionWithoutIdentity'
  <2>1. pc' = "loop" /\ app_state_deliver(event)
    BY <1>0 DEF TlsReturns
  <2>2. state' \notin Early
    BY <1>0, <2>1, DeliverTarget
  <2>3. state' \in Live => event = "TLS_CONNECTED"
    BY <1>0, <2>1, DeliverTarget
  <2> QED BY <1>0, <2>1, <2>2, <2>3
<1>1. CASE TlsBlocked
  <2>1. TlsReturns("TLS_FAILED") /\ state = "TLS" /\ pc = "loop"
        /\ UNCHANGED <<client, needs_prov>>
    BY Zenon, <1>1 DEF TlsBlocked
  <2> QED BY <1>0, <2>1
<1>2. CASE BeginTls
  <2>1. /\ state = "TLS" /\ pc = "loop" /\ pc' = "connect"
        /\ state' = state /\ UNCHANGED <<identity, needs_prov>>
        /\ needs_prov \/ identity
        /\ client' = IF client = "none" THEN Mode ELSE client
    BY Zenon, <1>2 DEF BeginTls, machine
  <2> QED BY Zenon, <2>1
<1>3. CASE ConnectAccepted
  <2>1. CASE needs_prov
    <3>1. pc = "connect" /\ pc' = "enroll" /\ UNCHANGED <<state, client, identity, needs_prov>>
      BY Zenon, <1>3, <2>1 DEF ConnectAccepted, machine, session
    <3> QED BY Zenon, <2>1, <3>1
  <2>2. CASE ~needs_prov
    <3>1. /\ pc = "connect" /\ TlsReturns("TLS_CONNECTED")
          /\ UNCHANGED <<identity, needs_prov, client>>
      BY Zenon, <1>3, <2>2 DEF ConnectAccepted
    <3> QED BY <1>0, <2>2, <3>1
  <2> QED BY <2>1, <2>2
<1>4. CASE ConnectFailed
  <2>1. /\ pc = "connect" /\ TlsReturns("TLS_FAILED") /\ UNCHANGED needs_prov
        /\ client' = IF needs_prov THEN "none" ELSE client
    BY Zenon, <1>4 DEF ConnectFailed
  <2> QED BY <1>0, <2>1
<1>5. ASSUME NEW available \in BOOLEAN, AuthRejected(available)
      PROVE  Modes' /\ NoSessionWithoutIdentity'
  <2>1. /\ pc = "connect" /\ TlsReturns("TLS_FAILED") /\ ~needs_prov
        /\ \/ client' = "none"
           \/ client' = client /\ ~needs_prov'
    BY Zenon, <1>5 DEF AuthRejected
  <2> QED BY <1>0, <2>1
<1>6. ASSUME NEW persisted \in BOOLEAN, EnrollFails(persisted)
      PROVE  Modes' /\ NoSessionWithoutIdentity'
  <2>1. pc = "enroll" /\ TlsReturns("TLS_FAILED") /\ client' = "none"
    BY Zenon, <1>6 DEF EnrollFails
  <2> QED BY <1>0, <2>1
<1>7. CASE EnrollmentUnused
  <2>1. /\ pc = "enroll" /\ TlsReturns("TLS_FAILED") /\ UNCHANGED needs_prov
        /\ client' = client \/ client' = "none"
    BY Zenon, <1>7 DEF EnrollmentUnused
  <2> QED BY <1>0, <2>1
<1>8. CASE Enrolled
  <2>1. /\ pc = "enroll" /\ pc' = "confirm" /\ state' = state
        /\ identity' = TRUE /\ needs_prov' = FALSE /\ client' = "device"
    BY Zenon, <1>8 DEF Enrolled, machine
  <2> QED BY Zenon, <2>1
<1>9. CASE ConfirmAccepted
  <2>1. /\ pc = "confirm" /\ TlsReturns("TLS_CONNECTED")
        /\ UNCHANGED <<identity, needs_prov, client>>
    BY Zenon, <1>9 DEF ConfirmAccepted
  <2> QED BY <1>0, <2>1
<1>10. CASE ConfirmFails
  <2>1. /\ pc = "confirm" /\ TlsReturns("TLS_FAILED")
        /\ UNCHANGED <<identity, needs_prov, client>>
    BY Zenon, <1>10 DEF ConfirmFails, session
  <2> QED BY <1>0, <2>1
<1> QED BY <1>1, <1>2, <1>3, <1>4, <1>5, <1>6, <1>7, <1>8, <1>9, <1>10
        DEF connect_verified_tls

(***************************************************************************)
(* Every step keeps what the pc of the TLS gate promises.                  *)
(***************************************************************************)
LEMMA ModesStep ==
  ASSUME IInv, Next
  PROVE  Modes' /\ NoSessionWithoutIdentity'
<1>1. CASE load_configuration
  BY <1>1, ConfigurationStep
<1>2. CASE connect_verified_tls
  BY <1>2, TlsStep
<1>3. CASE Restart
  BY <1>3 DEF Restart, Modes, NoSessionWithoutIdentity, Gated
<1>4. CASE BackoffElapses
  <2>1. UNCHANGED <<state, pc, client, identity, needs_prov>>
    BY Zenon, <1>4 DEF BackoffElapses, machine
  <2> QED BY Zenon, <2>1 DEF IInv, Modes, NoSessionWithoutIdentity, Mode
<1>5. CASE Elsewhere
  <2>1. UNCHANGED <<client, identity, needs_prov>>
    BY <1>5, ElsewhereEffect DEF session, IInv
  <2>2. /\ pc \in Gated \/ pc' \in Gated => UNCHANGED <<pc, state>>
        /\ state' \in Early => state \in Early
        /\ state' \in Live => state \in Live
    BY <1>5, ElsewhereEffect DEF IInv
  <2>3. pc \in Gated \cup {"loop", "gate"}
    BY DEF IInv, TypeOK, Gated
  <2>4. Mode' = Mode
    BY <2>1 DEF Mode
  <2> QED BY <2>1, <2>2, <2>3, <2>4 DEF IInv, Modes, NoSessionWithoutIdentity, Gated, Live
<1> QED BY <1>1, <1>2, <1>3, <1>4, <1>5, NextCases
-----------------------------------------------------------------------------
(* The invariant *)

(***************************************************************************)
(* The device starts in the invariant: no client, no retry, no rejection.  *)
(***************************************************************************)
LEMMA InitIInv == Init => IInv
<1> SUFFICES ASSUME Init PROVE IInv
  OBVIOUS
<1>1. Machine /\ Budget
  <2>1. exhausted \in BOOLEAN
    BY Zenon DEF Init, MachineStart
  <2> QED BY <2>1, MaxRetriesAssumption DEF Init, MachineStart, Machine, Budget, States
<1>2. Flags
  BY Zenon DEF Init, Flags
<1>3. Wifi
  <2>1. fails = 0 /\ portal = "disabled" /\ fifo = <<>>
    BY DEF Init
  <2>2. fifo \in Seq(Events) /\ Len(fifo) <= MaxFifo
    BY <2>1, FifoAssumption
  <2> QED BY <2>1, <2>2, FallbackAssumption DEF Wifi
<1>4. Session /\ Counts
  BY ThresholdAssumption DEF Init, Session, Counts
<1>5. Control
  BY DEF Init, Control
<1>6. Modes /\ NoSessionWithoutIdentity
  BY DEF Init, MachineStart, Modes, Gated, NoSessionWithoutIdentity
<1> QED BY <1>1, <1>2, <1>3, <1>4, <1>5, <1>6, Split DEF IInv

(***************************************************************************)
(* Every step of the supervisor and of its platform keeps the invariant.   *)
(***************************************************************************)
LEMMA NextIInv == IInv /\ [Next]_vars => IInv'
<1> SUFFICES ASSUME IInv, [Next]_vars PROVE IInv'
  OBVIOUS
<1>1. CASE Next
  <2>1. TypeOK' /\ Budget' /\ Counts'
    BY <1>1, TypeStep DEF IInv
  <2>2. Modes' /\ NoSessionWithoutIdentity'
    BY <1>1, ModesStep
  <2> QED BY <2>1, <2>2 DEF IInv
<1>2. CASE UNCHANGED vars
  <2>1. /\ UNCHANGED <<state, retry, attempts, exhausted, pc, bringup>>
        /\ UNCHANGED <<link, connecting, fails, portal, fifo, credential>>
        /\ UNCHANGED <<identity_file, identity, needs_prov, client>>
        /\ UNCHANGED <<auth_rejects, backoff, rejections>>
    BY <1>2 DEF vars, machine, wifi, session
  <2>2. Machine' /\ Budget'
    BY Zenon, <2>1 DEF IInv, TypeOK, Machine, Budget
  <2>3. TypeOK'
    <3>1. Control /\ Flags /\ Wifi /\ Session
      BY Zenon, Split DEF IInv
    <3>2. Control' /\ Flags'
      BY Zenon, <2>1, <3>1 DEF Control, Flags
    <3>3. Wifi' /\ Session'
      BY Zenon, <2>1, <3>1 DEF Wifi, Session
    <3> QED BY Zenon, <2>2, <3>2, <3>3 DEF TypeOK, Control, Flags, Wifi, Session
  <2>4. Modes' /\ NoSessionWithoutIdentity' /\ Counts'
    BY Zenon, <2>1 DEF IInv, Modes, Mode, NoSessionWithoutIdentity, Counts
  <2> QED BY <2>2, <2>3, <2>4 DEF IInv
<1> QED BY <1>1, <1>2

(***************************************************************************)
(* The inductive invariant of the supervisor.                              *)
(***************************************************************************)
THEOREM Invariant == Spec => []IInv
BY InitIInv, NextIInv, PTL DEF Spec

(***************************************************************************)
(* The supervisor, its FIFO and its counters stay in their types, whatever *)
(* the budgets are: the FIFO never exceeds its capacity, the counters wrap *)
(* or reset below their thresholds.                                        *)
(***************************************************************************)
THEOREM TypeCorrect == Spec => []TypeOK
<1>1. IInv => TypeOK
  BY DEF IInv
<1> QED BY <1>1, Invariant, PTL

(***************************************************************************)
(* SYNC, ONLINE and OTA are reached only with a validated identity and a   *)
(* client created, or re-keyed, for it.                                    *)
(***************************************************************************)
THEOREM SessionIsIdentified == Spec => []NoSessionWithoutIdentity
<1>1. IInv => NoSessionWithoutIdentity
  BY DEF IInv
<1> QED BY <1>1, Invariant, PTL

(***************************************************************************)
(* Between two gates an existing client is of the mode the next connect    *)
(* runs in.                                                                *)
(***************************************************************************)
THEOREM SessionIsOfItsMode == Spec => []SessionMatchesMode
<1>1. IInv => SessionMatchesMode
  BY DEF IInv, Modes, SessionMatchesMode
<1> QED BY <1>1, Invariant, PTL

(***************************************************************************)
(* Only a full threshold of rejections since the last accepted connection  *)
(* gives the enrolled identity up for the bootstrap mode.                  *)
(***************************************************************************)
THEOREM RejectionsAreEarned == Spec => ReprovisioningIsEarned
<1>1. ASSUME IInv, [Next]_vars, state = "TLS", ~needs_prov, needs_prov'
      PROVE  rejections' = AuthThreshold
  <2>1. needs_prov' # needs_prov
    BY Zenon, <1>1
  <2>2. Next
    BY <1>1, <2>1 DEF vars, session
  <2>3. ~load_configuration
    BY <1>1 DEF load_configuration, ConfigurationFails, ConfigurationLoads, At
  <2>4. ~Restart /\ ~BackoffElapses
    BY Zenon, <1>1, <2>1 DEF Restart, BackoffElapses
  <2>5. ~Elsewhere
    BY <1>1, <2>1, ElsewhereEffect DEF IInv, session
  <2>6. connect_verified_tls
    BY <2>2, <2>3, <2>4, <2>5, NextCases
  <2>7. PICK available \in BOOLEAN : AuthRejected(available)
    BY Zenon, <1>1, <2>1, <2>6 DEF connect_verified_tls, TlsBlocked, BeginTls,
       ConnectAccepted, ConnectFailed, EnrollFails, EnrollmentUnused, Enrolled,
       ConfirmAccepted, ConfirmFails, TlsReturns, session
  <2>8. /\ auth_rejects + 1 >= AuthThreshold
        /\ rejections' = IF rejections < AuthThreshold THEN rejections + 1 ELSE rejections
    BY <1>1, <2>7 DEF AuthRejected
  <2>9. TypeOK /\ Counts
    BY <1>1 DEF IInv
  <2> QED BY <2>8, <2>9, ThresholdAssumption DEF TypeOK, Counts
<1>2. IInv /\ [Next]_vars
      => [state = "TLS" /\ ~needs_prov /\ needs_prov' => rejections' = AuthThreshold]_vars
  BY <1>1
<1> QED BY <1>2, Invariant, PTL DEF Spec, ReprovisioningIsEarned
-----------------------------------------------------------------------------
(* The FIFO *)

Started == "PROVISIONING_STARTED"

\* With a fallback budget of two connects or more, at most an announcement of the
\* portal and its outcome queue up.
Queues == {<<>>, <<Started>>} \cup {<<o>> : o \in Outcomes}
            \cup {<<Started, o>> : o \in Outcomes}

\* The outcome of the last portal is still stored.
Owed == fifo \notin {<<>>, <<Started>>}

\* The machine waits for the outcome, or for nothing any more.
Attending == state \in {"PROVISIONING", "FATAL"}

\* As long as an outcome is stored the portal does not open again: the connects that
\* would spend its budget are requested by the gate only, after the pump.  A portal
\* whose announcement was consumed, or the outcome it left, has the machine's attention.
Queue ==
  /\ fifo \in Queues
  /\ fifo = <<Started>> => portal # "closed"
  /\ Owed => portal # "open" /\ (connecting \/ link => fails = 0)
  /\ portal = "open" => ~connecting /\ ~link
  /\ portal = "open" /\ fifo = <<>> => Attending
  /\ fifo # <<>> /\ Head(fifo) # Started => Attending
  /\ bringup = "none" => portal = "disabled" /\ fifo = <<>> /\ ~connecting /\ ~link

(***************************************************************************)
(* What storing and consuming an event does to a FIFO of one or two.       *)
(***************************************************************************)
LEMMA Shapes ==
  ASSUME NEW x, NEW y
  PROVE  /\ Append(<<>>, x) = <<x>> /\ Append(<<x>>, y) = <<x, y>>
         /\ Head(<<x>>) = x /\ Head(<<x, y>>) = x
         /\ Tail(<<x>>) = <<>> /\ Tail(<<x, y>>) = <<y>>
         /\ Len(<<>>) = 0 /\ Len(<<x>>) = 1 /\ Len(<<x, y>>) = 2
<1>1. Append(<<>>, x) = <<x>>
  OBVIOUS
<1>6. Append(<<x>>, y) = <<x, y>>
  <2> DEFINE a == Append(<<x>>, y)
  <2>1. /\ <<x>> \in Seq({x, y}) /\ <<x, y>> \in Seq({x, y})
        /\ Len(<<x>>) = 1 /\ Len(<<x, y>>) = 2 /\ <<x>>[1] = x
        /\ <<x, y>>[1] = x /\ <<x, y>>[2] = y
    OBVIOUS
  <2>2. a \in Seq({x, y}) /\ Len(a) = 2 /\ a[1] = x /\ a[2] = y
    BY <2>1, AppendProperties
  <2> HIDE DEF a
  <2>3. a = <<x, y>>
    BY <2>1, <2>2, SeqEqual
  <2> QED BY <2>3 DEF a
<1>2. Head(<<x>>) = x /\ Head(<<x, y>>) = x
  OBVIOUS
<1>3. Tail(<<x>>) = <<>>
  <2>1. <<x>> \in Seq({x}) /\ Len(<<x>>) = 1
    OBVIOUS
  <2>2. Tail(<<x>>) \in Seq({x}) /\ Len(Tail(<<x>>)) = 0
    BY <2>1
  <2> QED BY <2>2, EmptySeq
<1>4. Tail(<<x, y>>) = <<y>>
  OBVIOUS
<1>5. Len(<<>>) = 0 /\ Len(<<x>>) = 1 /\ Len(<<x, y>>) = 2
  OBVIOUS
<1> QED BY <1>1, <1>2, <1>3, <1>4, <1>5, <1>6

(***************************************************************************)
(* An outcome is no announcement, and the FIFOs below are different.       *)
(***************************************************************************)
LEMMA Distinct ==
  ASSUME NEW o \in Outcomes
  PROVE  /\ o # Started
         /\ <<>> # <<Started>> /\ <<o>> # <<>> /\ <<o>> # <<Started>>
         /\ <<Started, o>> # <<>> /\ <<Started, o>> # <<Started>>
<1>1. o # Started
  BY DEF Outcomes, Started
<1>2. Len(<<>>) = 0 /\ Len(<<o>>) = 1 /\ Len(<<Started>>) = 1 /\ Len(<<Started, o>>) = 2
  OBVIOUS
<1>3. <<o>>[1] = o /\ <<Started>>[1] = Started
  OBVIOUS
<1> QED BY <1>1, <1>2, <1>3

(***************************************************************************)
(* The FIFO is empty, announces the portal, or holds an outcome.           *)
(***************************************************************************)
LEMMA QueueCases ==
  ASSUME Queue
  PROVE  \/ fifo = <<>>
         \/ fifo = <<Started>>
         \/ \E o \in Outcomes : Owed /\ fifo \in {<<o>>, <<Started, o>>}
<1>1. \/ fifo = <<>> \/ fifo = <<Started>>
      \/ \E o \in Outcomes : fifo \in {<<o>>, <<Started, o>>}
  BY DEF Queue, Queues
<1> QED BY <1>1, Distinct DEF Owed

(***************************************************************************)
(* A step that leaves the Wi-Fi side alone keeps the queue, as long as the *)
(* machine keeps waiting.                                                  *)
(***************************************************************************)
LEMMA QueueFrame ==
  ASSUME Queue, UNCHANGED <<fifo, portal, connecting, link, fails>>,
         bringup' = "none" => bringup = "none", Attending => Attending'
  PROVE  Queue'
BY DEF Queue, Owed

(***************************************************************************)
(* The announcement of the portal takes the machine to PROVISIONING, or    *)
(* keeps it there.                                                         *)
(***************************************************************************)
LEMMA DeliverAttends ==
  ASSUME NEW event, app_state_deliver(event), event \in Events
  PROVE  /\ state = "PROVISIONING" /\ event = Started => state' = "PROVISIONING"
         /\ state = "NETWORK" /\ event = Started => state' = "PROVISIONING"
<1>1. state' = Target(event)
  BY DEF app_state_deliver
<1>2. ASSUME event = Started PROVE ~\E f \in Failures : f[1] = state /\ f[2] = event
  BY <1>2 DEF Failures, Started
<1>3. ASSUME event = Started, state = "PROVISIONING" PROVE state' = state
  <2>1. ~\E t \in Advances : t[1] = state /\ t[2] = event
    BY <1>3 DEF Advances, Started
  <2> QED BY <1>1, <1>2, <1>3, <2>1 DEF Target
<1>4. ASSUME event = Started, state = "NETWORK" PROVE state' = "PROVISIONING"
  <2>1. \E t \in Advances : t[1] = state /\ t[2] = event
    <3>1. <<"NETWORK", "PROVISIONING_STARTED", "PROVISIONING">> \in Advances
      BY DEF Advances
    <3> QED BY <1>4, <3>1 DEF Started
  <2>2. PICK t \in Advances : /\ t = CHOOSE u \in Advances : u[1] = state /\ u[2] = event
                              /\ t[1] = state /\ t[2] = event
    BY <2>1
  <2>3. t[3] = "PROVISIONING"
    BY <1>4, <2>2 DEF Advances, Started
  <2> QED BY <1>1, <1>2, <1>4, <2>1, <2>2, <2>3 DEF Target
<1> QED BY <1>3, <1>4

(***************************************************************************)
(* The pump keeps the queue, and hands an outcome to PROVISIONING only.    *)
(***************************************************************************)
LEMMA PumpStep ==
  ASSUME TypeOK, Queue, deliver_provisioning_events
  PROVE  Queue' /\ (Head(fifo) # Started => state = "PROVISIONING")
<1>1. /\ UNCHANGED <<bringup, link, connecting, fails, portal>>
      /\ fifo' = Tail(fifo) /\ fifo # <<>> /\ state \in {"NETWORK", "PROVISIONING"}
      /\ app_state_deliver(Head(fifo)) /\ Head(fifo) \in Events
  BY DEF deliver_provisioning_events, TypeOK
<1>2. CASE fifo = <<Started>>
  <2>1. Head(fifo) = Started /\ fifo' = <<>>
    BY <1>1, <1>2, Shapes
  <2>2. Attending'
    BY <1>1, <2>1, DeliverAttends DEF Attending
  <2> QED BY <1>1, <1>2, <2>1, <2>2 DEF Queue, Queues, Owed
<1>3. ASSUME NEW o \in Outcomes, Owed, fifo = <<Started, o>>
      PROVE  Queue' /\ (Head(fifo) # Started => state = "PROVISIONING")
  <2>1. Head(fifo) = Started /\ fifo' = <<o>> /\ <<o>> # <<>> /\ <<o>> # <<Started>>
    BY <1>1, <1>3, Shapes, Distinct
  <2>2. Attending'
    BY <1>1, <2>1, DeliverAttends DEF Attending
  <2> QED BY <1>1, <1>3, <2>1, <2>2 DEF Queue, Queues, Owed
<1>4. ASSUME NEW o \in Outcomes, Owed, fifo = <<o>>
      PROVE  Queue' /\ (Head(fifo) # Started => state = "PROVISIONING")
  <2>1. Head(fifo) = o /\ o # Started /\ fifo' = <<>>
    BY <1>1, <1>4, Shapes, Distinct
  <2>2. state = "PROVISIONING"
    BY <1>1, <2>1 DEF Queue, Attending
  <2> QED BY <1>1, <1>4, <2>1, <2>2 DEF Queue, Queues, Owed
<1> QED BY <1>1, <1>2, <1>3, <1>4, QueueCases

(***************************************************************************)
(* A portal that ends stores its outcome behind its announcement at most.  *)
(***************************************************************************)
LEMMA OutcomeStored ==
  ASSUME TypeOK, Queue, MaxFifo > 1, portal = "open", portal' = "closed",
         NEW o \in Outcomes, Store(o), UNCHANGED <<state, bringup>>,
         fails' = fails \/ fails' = 0,
         connecting' \/ link' => fails' = 0
  PROVE  Queue' /\ fifo' # <<>> /\ (fifo' = <<o>> \/ fifo' = <<Started, o>>)
<1>1. fifo = <<>> \/ fifo = <<Started>>
  BY QueueCases DEF Queue
<1>2. /\ fifo = <<>> => fifo' = <<o>>
      /\ fifo = <<Started>> => fifo' = <<Started, o>>
  <2>1. Len(<<>>) = 0 /\ Len(<<Started>>) = 1
    BY Zenon, Shapes
  <2>2. MaxFifo # 0 /\ MaxFifo # 1
    BY FifoAssumption
  <2>3. fifo' = Append(fifo, o)
    BY Zenon, <1>1, <2>1, <2>2 DEF Store
  <2> QED BY Zenon, <2>3, Shapes
<1>3. o # Started /\ fifo' # <<>> /\ fifo' # <<Started>> /\ fifo' \in Queues
  BY <1>1, <1>2, Distinct DEF Queues
<1>4. fifo' # <<>> /\ Head(fifo') # Started => Attending'
  BY <1>1, <1>2, Shapes DEF Queue, Attending
<1>5. bringup' # "none"
  BY DEF Queue
<1>6. portal' # "open" /\ (connecting' \/ link' => fails' = 0)
  BY Zenon
<1> QED BY Zenon, <1>1, <1>2, <1>3, <1>4, <1>5, <1>6 DEF Queue, Owed

(***************************************************************************)
(* The first bring-up finds the FIFO empty.                                *)
(***************************************************************************)
LEMMA BringUpStep ==
  ASSUME TypeOK, Queue, BringUp
  PROVE  Queue' /\ fifo = <<>>
<1>1. /\ fifo = <<>> /\ ~connecting /\ ~link /\ bringup' = "full"
      /\ connecting' = credential /\ link' = link /\ fails' = fails
  BY Zenon DEF BringUp, Queue
<1>2. CASE credential
  <2>1. portal' = "closed" /\ fifo' = fifo
    BY Zenon, <1>2 DEF BringUp
  <2>2. fifo' = <<>> /\ <<>> # <<Started>> /\ fifo' \in Queues
    BY <1>1, <2>1, Distinct DEF Queues, Outcomes
  <2> QED BY Zenon, <1>1, <2>1, <2>2 DEF Queue, Owed
<1>3. CASE ~credential
  <2>1. portal' = "open" /\ Store(Started)
    BY Zenon, <1>3 DEF BringUp, Started
  <2>2. fifo' = <<Started>>
    BY <1>1, <2>1, Shapes, FifoAssumption DEF Store
  <2>3. fifo' \in Queues /\ Head(fifo') = Started /\ fifo' # <<>>
    BY <2>2, Shapes, Distinct DEF Queues, Outcomes
  <2> QED BY Zenon, <1>1, <1>3, <2>1, <2>2, <2>3 DEF Queue, Owed
<1> QED BY Zenon, <1>1, <1>2, <1>3

(***************************************************************************)
(* A failed connect opens the portal only when no event is stored: the     *)
(* first failure after a stored outcome does not spend the budget.         *)
(***************************************************************************)
LEMMA ConnectFailsStep ==
  ASSUME TypeOK, Queue, FallbackAttempts > 1, ConnectFails
  PROVE  Queue' /\ (fifo' = fifo \/ fifo = <<>>)
<1>1. /\ connecting /\ ~link /\ ~connecting' /\ UNCHANGED <<state, bringup, link>>
  BY Zenon DEF ConnectFails, machine
<1>2. CASE portal = "closed" /\ fails + 1 = FallbackAttempts
  <2>1. portal' = "open" /\ Store(Started)
    BY <1>2 DEF ConnectFails, Started
  <2>2. fails # 0
    BY <1>2
  <2>3. ~Owed
    BY Zenon, <1>1, <2>2 DEF Queue
  <2>4. fifo = <<>>
    BY <1>2, <2>3 DEF Queue, Owed
  <2>5. fifo' = <<Started>>
    BY <2>1, <2>4, Shapes, FifoAssumption DEF Store
  <2>6. fifo' \in Queues /\ Head(fifo') = Started /\ fifo' # <<>>
    BY <2>5, Shapes, Distinct DEF Queues, Outcomes
  <2>7. bringup # "none"
    BY Zenon, <1>1 DEF Queue
  <2> QED BY Zenon, <1>1, <2>1, <2>4, <2>5, <2>6, <2>7 DEF Queue, Owed
<1>3. CASE ~(portal = "closed" /\ fails + 1 = FallbackAttempts)
  <2>1. portal' = portal /\ fifo' = fifo
    BY Zenon, <1>3 DEF ConnectFails
  <2> QED BY Zenon, <1>1, <2>1 DEF Queue, Owed, Attending
<1> QED BY Zenon, <1>2, <1>3

(***************************************************************************)
(* Every step keeps the queue.                                             *)
(***************************************************************************)
LEMMA QueueStep ==
  ASSUME IInv, Queue, FallbackAttempts > 1, MaxFifo > 1, Next
  PROVE  Queue'
<1>0. TypeOK /\ Modes
  BY DEF IInv
<1>1. CASE Restart
  <2>1. /\ fifo' = <<>> /\ portal' = "disabled" /\ ~connecting' /\ ~link'
    BY Zenon, <1>1 DEF Restart
  <2>2. <<>> # <<Started>> /\ <<>> \in Queues
    BY Distinct DEF Queues, Outcomes
  <2> QED BY Zenon, <2>1, <2>2 DEF Queue, Owed
<1>2. CASE load_configuration \/ connect_verified_tls \/ BackoffElapses
  <2>1. UNCHANGED <<fifo, portal, connecting, link, fails, bringup>>
    BY Zenon, <1>2 DEF load_configuration, ConfigurationFails, ConfigurationLoads,
       connect_verified_tls, TlsBlocked, BeginTls, ConnectAccepted, ConnectFailed,
       AuthRejected, EnrollFails, EnrollmentUnused, Enrolled, ConfirmAccepted,
       ConfirmFails, TlsReturns, BackoffElapses, wifi
  <2>2. Attending => Attending'
    <3>1. CASE BackoffElapses
      BY <3>1 DEF BackoffElapses, machine, Attending
    <3>2. CASE load_configuration \/ connect_verified_tls
      <4>1. state \in {"CONFIGURATION", "TLS"}
        <5>1. pc \in Gated \/ state \in {"CONFIGURATION", "TLS"}
          BY Zenon, <3>2 DEF load_configuration, ConfigurationFails, ConfigurationLoads,
             connect_verified_tls, TlsBlocked, BeginTls, ConnectAccepted, ConnectFailed,
             AuthRejected, EnrollFails, EnrollmentUnused, Enrolled, ConfirmAccepted,
             ConfirmFails, At, Gated
        <5> QED BY <1>0, <5>1 DEF Modes
      <4> QED BY <4>1 DEF Attending
    <3> QED BY <1>2, <3>1, <3>2
  <2> QED BY Zenon, <2>1, <2>2, QueueFrame
<1>3. CASE \/ bootstrap_filesystem \/ StartNetworkFails \/ LeaveGate \/ OnlineDisconnected
           \/ PollRetry \/ SyncCompletes \/ OtaBegins \/ OtaFails \/ PollWatchdog
  <2>1. /\ UNCHANGED <<fifo, portal, connecting, link, fails>>
        /\ bringup' = bringup \/ bringup' = "failed"
    BY Zenon, <1>3 DEF bootstrap_filesystem, StartNetworkFails, LeaveGate,
       OnlineDisconnected, PollRetry, SyncCompletes, OtaBegins, OtaFails, PollWatchdog, wifi
  <2>2. Attending => Attending'
    BY <1>3 DEF bootstrap_filesystem, StartNetworkFails, LeaveGate, OnlineDisconnected,
       PollRetry, RetryDue, SyncCompletes, OtaBegins, OtaFails, PollWatchdog,
       WatchdogExpires, At, Attending, machine
  <2>3. bringup' = "none" => bringup = "none"
    BY <2>1
  <2> QED BY Zenon, <2>1, <2>2, <2>3, QueueFrame
<1>4. CASE AdapterInitFails
  <2>1. /\ UNCHANGED <<state, fifo, portal, link, fails>> /\ bringup' = "station"
        /\ fifo = <<>> /\ portal = "disabled"
    BY Zenon, <1>4 DEF AdapterInitFails, machine, Queue
  <2>2. <<>> # <<Started>> /\ <<>> \in Queues
    BY Distinct DEF Queues, Outcomes
  <2> QED BY Zenon, <2>1, <2>2 DEF Queue, Owed
<1>5. CASE EnterGate
  <2>1. /\ UNCHANGED <<state, fifo, portal, link, fails, bringup>>
        /\ fifo = <<>> /\ bringup = "full" /\ state = "NETWORK"
    BY Zenon, <1>5 DEF EnterGate, machine, At, has_saved_credentials
  <2>2. <<>> # <<Started>> /\ <<>> \in Queues
    BY Distinct DEF Queues, Outcomes
  <2>3. portal # "open"
    BY <2>1 DEF Queue, Attending
  <2> QED BY Zenon, <2>1, <2>2, <2>3 DEF Queue, Owed
<1>6. CASE stop_provisioning
  <2>1. /\ UNCHANGED <<state, connecting, link, fails, bringup>> /\ portal' = "disabled"
        /\ fifo' = fifo \/ fifo' = <<>>
    BY <1>6 DEF stop_provisioning, machine
  <2>2. <<>> # <<Started>> /\ <<>> \in Queues
    BY Distinct DEF Queues, Outcomes
  <2> QED BY Zenon, <2>1, <2>2 DEF Queue, Owed, Attending
<1>7. CASE LinkUp \/ LinkDown
  <2>1. /\ UNCHANGED <<state, portal, fifo, bringup>>
        /\ connecting \/ link
        /\ fails' = 0 \/ fails' = fails
    BY Zenon, <1>7 DEF LinkUp, LinkDown, machine
  <2>2. bringup # "none" /\ portal # "open" /\ (Owed => fails = 0)
    BY Zenon, <2>1 DEF Queue
  <2> QED BY Zenon, <2>1, <2>2 DEF Queue, Owed, Attending
<1>8. CASE PortalSucceeds \/ PortalFails
  <2>1. PICK o \in Outcomes : Store(o)
    BY <1>8 DEF PortalSucceeds, PortalFails, Outcomes
  <2>2. /\ UNCHANGED <<state, bringup>> /\ portal = "open" /\ portal' = "closed"
        /\ fails' = fails \/ fails' = 0
    BY Zenon, <1>8 DEF PortalSucceeds, PortalFails, machine
  <2>3. connecting' \/ link' => fails' = 0
    BY Zenon, <1>8 DEF PortalSucceeds, PortalFails, Queue
  <2> QED BY Zenon, <1>0, <2>1, <2>2, <2>3, OutcomeStored
<1>9. CASE factory_reset_erase /\ UNCHANGED <<machine, pc, session>>
  <2>1. Restart \/ UNCHANGED <<state, bringup, link, connecting, fails, portal, fifo>>
    BY Zenon, <1>9 DEF factory_reset_erase, machine
  <2> QED BY Zenon, <1>1, <2>1, QueueFrame DEF Attending
<1> QED BY <1>0, <1>1, <1>2, <1>3, <1>4, <1>5, <1>6, <1>7, <1>8, <1>9, NextCases, PumpStep,
           BringUpStep, ConnectFailsStep DEF Elsewhere, NetworkGate

(***************************************************************************)
(* The queue is empty at power-on.                                         *)
(***************************************************************************)
LEMMA InitQueue == Init => Queue
<1> SUFFICES ASSUME Init PROVE Queue
  OBVIOUS
<1>1. /\ fifo = <<>> /\ portal = "disabled" /\ ~connecting /\ ~link
  BY Zenon DEF Init
<1>2. <<>> # <<Started>> /\ <<>> \in Queues
  BY Distinct DEF Queues, Outcomes
<1> QED BY Zenon, <1>1, <1>2 DEF Queue, Owed

(***************************************************************************)
(* The adapter never drops an event: at most two are stored, for every     *)
(* fallback budget of two connects or more and every capacity of two       *)
(* events or more.                                                         *)
(***************************************************************************)
THEOREM QueueInvariant ==
  FallbackAttempts > 1 /\ MaxFifo > 1 => (Spec => []Queue)
<1> SUFFICES ASSUME FallbackAttempts > 1, MaxFifo > 1 PROVE Spec => []Queue
  OBVIOUS
<1>1. IInv /\ Queue /\ [Next]_vars => Queue'
  <2> SUFFICES ASSUME IInv, Queue, [Next]_vars PROVE Queue'
    OBVIOUS
  <2>1. CASE Next
    BY <2>1, QueueStep
  <2>2. CASE UNCHANGED vars
    <3>1. UNCHANGED <<state, fifo, portal, connecting, link, fails, bringup>>
      BY Zenon, <2>2 DEF vars, wifi, machine
    <3> QED BY Zenon, <3>1, QueueFrame DEF Attending
  <2> QED BY <2>1, <2>2
<1> QED BY <1>1, InitQueue, Invariant, PTL DEF Spec

(***************************************************************************)
(* The outcome of a portal is consumed only while the machine is in        *)
(* PROVISIONING, where it counts.  Both hypotheses are needed: with a      *)
(* budget of one connect, or a capacity of one event, the announcement is  *)
(* dropped before its outcome.                                             *)
(***************************************************************************)
THEOREM NoOutcomeIsLost ==
  FallbackAttempts > 1 /\ MaxFifo > 1 => (Spec => OutcomesReachTheirGate)
<1> SUFFICES ASSUME FallbackAttempts > 1, MaxFifo > 1 PROVE Spec => OutcomesReachTheirGate
  OBVIOUS
<1>1. ASSUME IInv, Queue, [Next]_vars, fifo # <<>>, fifo' = Tail(fifo),
             Head(fifo) \in Outcomes, bringup' # "none", portal' = portal
      PROVE  state = "PROVISIONING"
  <2>0. TypeOK
    BY <1>1 DEF IInv
  <2>1. PICK o \in Outcomes : fifo = <<o>>
    <3>1. Head(fifo) # Started
      BY <1>1, Distinct
    <3> QED BY <1>1, <3>1, QueueCases, Shapes
  <2>2. Head(fifo) # Started /\ fifo' = <<>> /\ fifo' # fifo
    BY <1>1, <2>1, Shapes, Distinct
  <2>3. ~Restart /\ ~load_configuration /\ ~connect_verified_tls /\ ~BackoffElapses
    BY Zenon, <1>1, <2>2 DEF Restart, load_configuration, ConfigurationFails,
       ConfigurationLoads, connect_verified_tls, TlsBlocked, BeginTls, ConnectAccepted,
       ConnectFailed, AuthRejected, EnrollFails, EnrollmentUnused, Enrolled,
       ConfirmAccepted, ConfirmFails, TlsReturns, BackoffElapses, wifi
  <2>4. Elsewhere
    BY <1>1, <2>2, <2>3, NextCases DEF vars, wifi
  <2>5. ~ConnectFails
    BY <1>1, <2>0, <2>2, ConnectFailsStep
  <2>6. ~PortalSucceeds /\ ~PortalFails
    BY <1>1 DEF PortalSucceeds, PortalFails
  <2>7. ~stop_provisioning
    BY <1>1 DEF stop_provisioning
  <2>8. ~BringUp
    BY <1>1, <2>0, BringUpStep
  <2>9. deliver_provisioning_events
    BY Zenon, <2>2, <2>3, <2>4, <2>5, <2>6, <2>7, <2>8 DEF Elsewhere, bootstrap_filesystem,
       NetworkGate, StartNetworkFails, AdapterInitFails, EnterGate, LeaveGate,
       OnlineDisconnected, PollRetry, SyncCompletes, OtaBegins, OtaFails, PollWatchdog,
       LinkUp, LinkDown, factory_reset_erase, wifi
  <2> QED BY <1>1, <2>0, <2>2, <2>9, PumpStep
<1>2. IInv /\ Queue /\ [Next]_vars
      => [fifo # <<>> /\ fifo' = Tail(fifo) /\ Head(fifo) \in Outcomes
            /\ bringup' # "none" /\ portal' = portal
          => state = "PROVISIONING"]_vars
  BY <1>1
<1> QED BY <1>2, Invariant, QueueInvariant, PTL DEF Spec, OutcomesReachTheirGate
-----------------------------------------------------------------------------
(* The portal *)

\* A device in PROVISIONING whose portal is over still finds the outcome.
Awaited == state = "PROVISIONING" /\ portal = "closed" => Owed

(***************************************************************************)
(* Only the announcement of a portal leads into PROVISIONING.              *)
(***************************************************************************)
LEMMA OnlyStartedEnters ==
  ASSUME NEW event, app_state_deliver(event), state' = "PROVISIONING"
  PROVE  state = "PROVISIONING" \/ event = Started
<1>1. state' = Target(event)
  BY DEF app_state_deliver
<1>2. ~\E f \in Failures : f[1] = state /\ f[2] = event
  BY <1>1 DEF Target
<1>3. CASE \E t \in Advances : t[1] = state /\ t[2] = event
  <2>1. PICK t \in Advances : /\ t = CHOOSE u \in Advances : u[1] = state /\ u[2] = event
                              /\ t[1] = state /\ t[2] = event
    BY <1>3
  <2>2. t[3] = "PROVISIONING"
    BY <1>1, <1>2, <1>3, <2>1 DEF Target
  <2>3. t[2] = "PROVISIONING_STARTED"
    BY <2>2 DEF Advances
  <2> QED BY <2>1, <2>3 DEF Started
<1>4. CASE ~\E t \in Advances : t[1] = state /\ t[2] = event
  BY <1>1, <1>2, <1>4 DEF Target
<1> QED BY <1>3, <1>4

(***************************************************************************)
(* The pump leads into PROVISIONING, or leaves the machine there, with an  *)
(* announcement only; what it leaves behind a closed portal is an outcome. *)
(***************************************************************************)
LEMMA PumpLeavesOutcome ==
  ASSUME TypeOK, Queue, deliver_provisioning_events, state' = "PROVISIONING",
         portal' = "closed"
  PROVE  fifo' # <<>>
<1>1. /\ fifo' = Tail(fifo) /\ fifo # <<>> /\ state \in {"NETWORK", "PROVISIONING"}
      /\ app_state_deliver(Head(fifo)) /\ portal = "closed"
  BY DEF deliver_provisioning_events
<1>2. ASSUME NEW o \in Outcomes, fifo = <<o>> PROVE FALSE
  <2>1. Head(fifo) = o /\ o # Started
    BY <1>2, Shapes, Distinct
  <2>2. state = "PROVISIONING"
    BY <1>1, <2>1, OnlyStartedEnters
  <2>3. state' = Target(o)
    BY <1>1, <2>1 DEF app_state_deliver
  <2>4. CASE o = "PROVISIONING_FAILED"
    <3>1. \E f \in Failures : f[1] = state /\ f[2] = o
      <4>1. <<"PROVISIONING", "PROVISIONING_FAILED", "NETWORK">> \in Failures
        BY DEF Failures
      <4> QED BY <2>2, <2>4, <4>1
    <3> QED BY <2>3, <3>1 DEF Target
  <2>5. CASE o = "PROVISIONING_SUCCEEDED"
    <3>1. ~\E f \in Failures : f[1] = state /\ f[2] = o
      BY <2>5 DEF Failures
    <3>2. \E t \in Advances : t[1] = state /\ t[2] = o
      <4>1. <<"PROVISIONING", "PROVISIONING_SUCCEEDED", "NETWORK">> \in Advances
        BY DEF Advances
      <4> QED BY <2>2, <2>5, <4>1
    <3>3. PICK t \in Advances : /\ t = CHOOSE u \in Advances : u[1] = state /\ u[2] = o
                                /\ t[1] = state /\ t[2] = o
      BY <3>2
    <3>4. t[3] = "NETWORK"
      <4>1. ASSUME NEW u \in Advances, u[2] = "PROVISIONING_SUCCEEDED" PROVE u[3] = "NETWORK"
        BY <4>1 DEF Advances
      <4> QED BY <2>5, <3>3, <4>1
    <3>5. state' = t[3]
      BY <2>3, <3>1, <3>2, <3>3 DEF Target
    <3> QED BY <3>4, <3>5
  <2> QED BY <2>4, <2>5 DEF Outcomes
<1>3. fifo # <<Started>>
  BY <1>1 DEF Queue
<1>4. PICK o \in Outcomes : fifo = <<Started, o>>
  BY <1>1, <1>2, <1>3, QueueCases
<1> QED BY <1>1, <1>4, Shapes, Distinct

(***************************************************************************)
(* No other step enters PROVISIONING.                                      *)
(***************************************************************************)
LEMMA OthersStayOutside ==
  ASSUME IInv, Next, ~deliver_provisioning_events, state' = "PROVISIONING"
  PROVE  state = "PROVISIONING"
<1>0. ASSUME NEW event, app_state_deliver(event), event # "PROVISIONING_STARTED"
      PROVE  state = "PROVISIONING"
  BY <1>0, OnlyStartedEnters DEF Started
<1>1. CASE Restart
  BY <1>1 DEF Restart
<1>2. CASE load_configuration
  BY <1>0, <1>2 DEF load_configuration, ConfigurationFails, ConfigurationLoads
<1>3. CASE connect_verified_tls
  <2>1. \/ UNCHANGED state
        \/ app_state_deliver("TLS_FAILED") \/ app_state_deliver("TLS_CONNECTED")
    BY Zenon, <1>3 DEF connect_verified_tls, TlsBlocked, BeginTls, ConnectAccepted,
       ConnectFailed, AuthRejected, EnrollFails, EnrollmentUnused, Enrolled,
       ConfirmAccepted, ConfirmFails, TlsReturns, machine
  <2> QED BY <1>0, <2>1
<1>4. CASE BackoffElapses
  BY Zenon, <1>4 DEF BackoffElapses, machine
<1>5. CASE Elsewhere
  <2>1. CASE \/ bootstrap_filesystem \/ StartNetworkFails \/ LeaveGate \/ OnlineDisconnected
             \/ SyncCompletes \/ OtaBegins \/ OtaFails
    <3>1. \/ UNCHANGED state
          \/ \E event \in {"FS_OK", "FS_FAIL", "NETWORK_FAILED", "NETWORK_CONNECTED",
                           "DISCONNECTED", "SYNC_COMPLETE", "OTA_BEGIN", "OTA_FAILED"} :
               app_state_deliver(event)
      BY <2>1 DEF bootstrap_filesystem, StartNetworkFails, LeaveGate, OnlineDisconnected,
                  SyncCompletes, OtaBegins, OtaFails, machine
    <3> QED BY <1>0, <3>1
  <2>2. CASE PollRetry \/ PollWatchdog
    BY <2>2 DEF PollRetry, RetryDue, PollWatchdog, WatchdogExpires, IInv, Budget
  <2>3. CASE \/ AdapterInitFails \/ BringUp \/ EnterGate \/ stop_provisioning
             \/ LinkUp \/ LinkDown \/ ConnectFails \/ PortalSucceeds \/ PortalFails
    BY Zenon, <2>3 DEF AdapterInitFails, BringUp, EnterGate, stop_provisioning, LinkUp,
       LinkDown, ConnectFails, PortalSucceeds, PortalFails, machine
  <2>4. CASE factory_reset_erase /\ UNCHANGED <<machine, pc, session>>
    BY Zenon, <2>4 DEF machine
  <2> QED BY Zenon, <1>5, <2>1, <2>2, <2>3, <2>4 DEF Elsewhere, NetworkGate
<1> QED BY Zenon, <1>1, <1>2, <1>3, <1>4, <1>5, NextCases

(***************************************************************************)
(* A portal that is closed after a step in PROVISIONING was closed before  *)
(* it, with the same events stored, or has just left its outcome.          *)
(***************************************************************************)
LEMMA PortalCloses ==
  ASSUME IInv, Queue, MaxFifo > 1, FallbackAttempts > 1, Next,
         ~deliver_provisioning_events, state = "PROVISIONING", portal' = "closed"
  PROVE  fifo' # <<>> \/ (portal = "closed" /\ fifo' = fifo)
<1>0. TypeOK /\ pc \notin Gated
  BY DEF IInv, Modes
<1>1. ~Restart
  BY Zenon DEF Restart
<1>2. CASE load_configuration \/ connect_verified_tls \/ BackoffElapses
  BY Zenon, <1>2 DEF load_configuration, ConfigurationFails, ConfigurationLoads,
     connect_verified_tls, TlsBlocked, BeginTls, ConnectAccepted, ConnectFailed,
     AuthRejected, EnrollFails, EnrollmentUnused, Enrolled, ConfirmAccepted,
     ConfirmFails, TlsReturns, BackoffElapses, wifi
<1>3. CASE Elsewhere
  <2>1. ~BringUp /\ ~AdapterInitFails /\ ~EnterGate /\ ~StartNetworkFails
    BY DEF BringUp, AdapterInitFails, EnterGate, StartNetworkFails, At
  <2>2. CASE PortalSucceeds \/ PortalFails
    <3>1. PICK o \in Outcomes : Store(o)
      BY <2>2 DEF PortalSucceeds, PortalFails, Outcomes
    <3>2. /\ UNCHANGED <<state, bringup>> /\ portal = "open" /\ portal' = "closed"
          /\ fails' = fails \/ fails' = 0
      BY Zenon, <2>2 DEF PortalSucceeds, PortalFails, machine
    <3>3. connecting' \/ link' => fails' = 0
      BY Zenon, <2>2 DEF PortalSucceeds, PortalFails, Queue
    <3> QED BY Zenon, <1>0, <3>1, <3>2, <3>3, OutcomeStored
  <2>3. CASE ConnectFails
    <3>1. ~(portal = "closed" /\ fails + 1 = FallbackAttempts)
      BY <2>3 DEF ConnectFails
    <3> QED BY Zenon, <2>3, <3>1 DEF ConnectFails
  <2>4. CASE \/ bootstrap_filesystem \/ LeaveGate \/ OnlineDisconnected \/ PollRetry
             \/ SyncCompletes \/ OtaBegins \/ OtaFails \/ PollWatchdog \/ LinkUp \/ LinkDown
    BY Zenon, <2>4 DEF bootstrap_filesystem, LeaveGate, OnlineDisconnected, PollRetry,
       SyncCompletes, OtaBegins, OtaFails, PollWatchdog, LinkUp, LinkDown, wifi
  <2>5. ~stop_provisioning
    BY DEF stop_provisioning
  <2>6. CASE factory_reset_erase /\ UNCHANGED <<machine, pc, session>>
    BY Zenon, <1>1, <2>6 DEF factory_reset_erase
  <2> QED BY Zenon, <1>3, <2>1, <2>2, <2>3, <2>4, <2>5, <2>6 DEF Elsewhere, NetworkGate
<1> QED BY Zenon, <1>1, <1>2, <1>3, NextCases

(***************************************************************************)
(* Every step leaves the portal announced or followed, and PROVISIONING    *)
(* with a portal or an outcome.                                            *)
(***************************************************************************)
LEMMA AwaitedStep ==
  ASSUME IInv, Queue, Queue', Awaited, MaxFifo > 1, FallbackAttempts > 1, Next
  PROVE  Awaited'
<1> SUFFICES ASSUME state' = "PROVISIONING", portal' = "closed" PROVE Owed'
  BY DEF Awaited
<1>1. fifo' # <<Started>>
  BY DEF Queue
<1>2. CASE deliver_provisioning_events
  <2>1. fifo' # <<>>
    BY <1>2, PumpLeavesOutcome DEF IInv
  <2> QED BY <1>1, <2>1 DEF Owed
<1>3. CASE ~deliver_provisioning_events
  <2>1. state = "PROVISIONING"
    BY <1>3, OthersStayOutside
  <2>2. fifo' # <<>> \/ (portal = "closed" /\ fifo' = fifo)
    BY <1>3, <2>1, PortalCloses
  <2> QED BY <1>1, <2>1, <2>2 DEF Awaited, Owed
<1> QED BY <1>2, <1>3

(***************************************************************************)
(* The machine follows the portal: an open one is announced or provisions, *)
(* and a device in PROVISIONING never waits for one that is over; for      *)
(* every fallback budget of two connects or more and every capacity of two *)
(* events or more.                                                         *)
(***************************************************************************)
THEOREM PortalIsAttended ==
  FallbackAttempts > 1 /\ MaxFifo > 1 => (Spec => []PortalIsFollowed)
<1> SUFFICES ASSUME FallbackAttempts > 1, MaxFifo > 1 PROVE Spec => []PortalIsFollowed
  OBVIOUS
<1>1. Init => Awaited
  BY DEF Init, MachineStart, Awaited
<1>2. IInv /\ Queue /\ Queue' /\ Awaited /\ [Next]_vars => Awaited'
  <2> SUFFICES ASSUME IInv, Queue, Queue', Awaited, [Next]_vars PROVE Awaited'
    OBVIOUS
  <2>1. CASE Next
    BY <2>1, AwaitedStep
  <2>2. CASE UNCHANGED vars
    <3>1. UNCHANGED <<state, fifo, portal>>
      BY Zenon, <2>2 DEF vars, wifi, machine
    <3> QED BY Zenon, <3>1 DEF Awaited, Owed
  <2> QED BY <2>1, <2>2
<1>3. IInv /\ Queue /\ Awaited => PortalIsFollowed
  <2> SUFFICES ASSUME IInv, Queue, Awaited PROVE PortalIsFollowed
    OBVIOUS
  <2>1. ASSUME Owed PROVE Stored(Outcomes)
    <3>1. PICK o \in Outcomes : fifo \in {<<o>>, <<Started, o>>}
      BY <2>1, QueueCases DEF Owed
    <3>2. \/ Len(fifo) = 1 /\ fifo[1] = o
          \/ Len(fifo) = 2 /\ fifo[2] = o
      BY <3>1
    <3> QED BY <3>2 DEF Stored
  <2>2. ASSUME fifo = <<Started>> PROVE Stored({"PROVISIONING_STARTED"})
    <3>1. Len(fifo) = 1 /\ fifo[1] = "PROVISIONING_STARTED"
      BY <2>2 DEF Started
    <3> QED BY <3>1 DEF Stored
  <2>3. portal = "open" => \/ state \in {"PROVISIONING", "FATAL"}
                           \/ Stored({"PROVISIONING_STARTED"})
    BY <2>2 DEF Queue, Owed, Attending
  <2>4. portal \in {"disabled", "closed", "open"}
    BY DEF IInv, TypeOK
  <2> QED BY <2>1, <2>3, <2>4 DEF PortalIsFollowed, Awaited
<1> QED BY <1>1, <1>2, <1>3, Invariant, QueueInvariant, PTL DEF Spec
=============================================================================
