------------------------------- MODULE Identity -------------------------------
(***************************************************************************)
(* Where the access token of the device comes from and who may use it:     *)
(* device_identity_facade.c (the manufacturing gate and the getters),      *)
(* tb_provisioning.c (enrollment and the write of identity.json) and the   *)
(* parts of app_main.c that call them, against a ThingsBoard server that   *)
(* may be told to forget the device or to change its token, with power     *)
(* cuts, transient read errors and failing writes.                         *)
(*                                                                         *)
(* A token is the number of its issue.  Supervisor has the gates, budgets  *)
(* and timers around these steps; here every failed attempt is followed by *)
(* another one.                                                            *)
(***************************************************************************)
EXTENDS Integers

CONSTANTS
  AuthThreshold,  \* CONFIG_KLC_AUTH_REJECT_REPROVISION_THRESHOLD
  MaxToken,       \* bound: the tokens the server issues
  MaxErr,         \* bound: the storage errors
  MaxCut          \* bound: the power cuts and lost replies

ASSUME IdentityAssumption ==
  /\ AuthThreshold \in Nat \ {0} /\ MaxToken \in Nat \ {0}
  /\ MaxErr \in Nat /\ MaxCut \in Nat

VARIABLES
  mfg,           \* flash: manufacturing.json admits an identity, holds the device
                 \* back (unprovisioned, quarantined, no credential), or is unusable
  provisioning,  \* flash: provisioning.json is usable
  identity,      \* flash: the token in identity.json, NoFile or Torn
  tmp,           \* flash: the same for identity.json.tmp
  pc,            \* the step the supervisor task is at
  loaded,        \* s_loaded of the facade
  store,         \* the token tb_identity holds, or 0
  needs_prov,    \* s_tb_needs_provisioning
  session,       \* the token s_tb_client was given, Bootstrap or NoSession
  auth_rejects,  \* s_auth_reject_count
  reply,         \* the token of the last enrollment reply, or 0
  registered,    \* server: the device exists
  valid,         \* server: the token it accepts, or 0
  issued,        \* server: the tokens issued so far
  records,       \* history: every token that has been in identity.json
  before,        \* history: identity.json when the last enrollment began
  errs, cuts,    \* history: storage errors; power cuts and lost replies
  unclosed,      \* history: osal_close() failed after a write
  lost           \* history: a torn file replaced identity.json

flash   == <<mfg, provisioning, identity, tmp>>
ram     == <<loaded, store, needs_prov, session, auth_rejects, reply>>
server  == <<registered, valid, issued>>
history == <<records, before, errs, cuts, unclosed, lost>>
vars    == <<flash, pc, ram, server, history>>

NoFile == 0
Torn   == -1
NoSession == 0
Bootstrap == -1
Tokens == 1..MaxToken

EnrollSteps == {"enroll", "open", "write", "close", "rename", "reload", "adopt"}

TypeOK ==
  /\ mfg \in {"enrolled", "held", "broken"}
  /\ provisioning \in BOOLEAN
  /\ identity \in Tokens \cup {NoFile, Torn}
  /\ tmp \in Tokens \cup {NoFile, Torn}
  /\ pc \in EnrollSteps \cup {"boot", "failed", "tls", "confirm", "online", "backoff"}
  /\ loaded \in BOOLEAN
  /\ store \in Tokens \cup {0}
  /\ needs_prov \in BOOLEAN
  /\ session \in Tokens \cup {NoSession, Bootstrap}
  /\ auth_rejects \in 0..(AuthThreshold - 1)
  /\ reply \in Tokens \cup {0}
  /\ registered \in BOOLEAN
  /\ valid \in Tokens \cup {0}
  /\ issued \in 0..MaxToken
  /\ records \subseteq Tokens
  /\ before \in Tokens \cup {NoFile, Torn}
  /\ errs \in 0..MaxErr /\ cuts \in 0..MaxCut
  /\ unclosed \in BOOLEAN /\ lost \in 0..MaxErr

\* A fresh device, one enrolled before, or one whose registration is gone.
Init ==
  /\ mfg \in {"enrolled", "held", "broken"}
  /\ provisioning \in BOOLEAN
  /\ identity \in {NoFile, 1}
  /\ tmp = NoFile
  /\ pc = "boot"
  /\ loaded = FALSE /\ store = 0 /\ needs_prov = FALSE /\ session = NoSession
  /\ auth_rejects = 0 /\ reply = 0
  /\ registered \in (IF identity = 1 THEN BOOLEAN ELSE {FALSE})
  /\ valid = (IF registered THEN 1 ELSE 0)
  /\ issued = 1
  /\ records = {identity} \ {NoFile}
  /\ before = identity
  /\ errs = 0 /\ cuts = 0 /\ unclosed = FALSE /\ lost = 0
-----------------------------------------------------------------------------
(* The facade *)

StorageFails == errs < MaxErr /\ errs' = errs + 1

\* Mutant of device_identity_check_provisioning: a held device passes.
check_provisioning_held == mfg \in {"enrolled", "held"}

device_identity_check_provisioning == mfg = "enrolled"

\* device_identity_load(): the store is cleared first and filled only if the
\* manufacturing gate and the record pass; any failure forces the lamp off.
LoadSucceeds ==
  /\ device_identity_check_provisioning
  /\ identity \in Tokens
  /\ loaded' = TRUE /\ store' = identity
  /\ UNCHANGED errs

LoadFails ==
  /\ \/ ~(device_identity_check_provisioning /\ identity \in Tokens) /\ UNCHANGED errs
     \/ StorageFails
  /\ loaded' = FALSE /\ store' = 0

device_identity_is_loaded == loaded /\ store # 0

\* The getters hand out a token only after a successful load.
device_identity_token == IF device_identity_is_loaded THEN store ELSE 0

\* create_thingsboard_session(), for the current mode, unless there is one.
SessionOf(mode) == IF mode THEN Bootstrap ELSE device_identity_token
Session == IF session = NoSession THEN SessionOf(needs_prov) ELSE session
-----------------------------------------------------------------------------
(* load_configuration() *)

BootWithIdentity ==
  /\ pc = "boot"
  /\ mfg # "broken"
  /\ LoadSucceeds
  /\ needs_prov' = FALSE
  /\ session' = identity
  /\ pc' = "tls"
  /\ UNCHANGED <<flash, auth_rejects, reply, server, records, before, cuts, unclosed, lost>>

\* Any failure of the identity leads to the bootstrap mode.
BootIntoBootstrap ==
  /\ pc = "boot"
  /\ mfg # "broken"
  /\ LoadFails
  /\ provisioning
  /\ needs_prov' = TRUE
  /\ session' = Bootstrap
  /\ pc' = "tls"
  /\ UNCHANGED <<flash, auth_rejects, reply, server, records, before, cuts, unclosed, lost>>

\* The product documents, provisioning.json or the session are unusable.
BootFails ==
  /\ pc = "boot"
  /\ pc' = "failed"
  /\ \/ mfg = "broken" /\ UNCHANGED <<ram, errs>>
     \/ mfg # "broken" /\ StorageFails /\ UNCHANGED ram
     \/ /\ mfg # "broken" /\ LoadSucceeds
        /\ UNCHANGED <<needs_prov, session, auth_rejects, reply>>
     \/ /\ mfg # "broken" /\ LoadFails
        /\ needs_prov' \in {FALSE, provisioning}
        /\ UNCHANGED <<session, auth_rejects, reply>>
  /\ UNCHANGED <<flash, server, records, before, cuts, unclosed, lost>>
-----------------------------------------------------------------------------
(* connect_verified_tls() *)

\* Past the identity gate, with a session for the mode.
Attempt ==
  /\ pc = "tls"
  /\ needs_prov \/ device_identity_is_loaded

\* No session can be made, or it cannot connect; a bootstrap session is destroyed.
ConnectFails ==
  /\ Attempt
  /\ session' \in (IF needs_prov THEN {NoSession} ELSE {session, Session})
  /\ UNCHANGED <<flash, pc, loaded, store, needs_prov, auth_rejects, reply, server, history>>

\* A bootstrap session always may connect; the enrollment begins.
BeginEnrollment ==
  /\ Attempt
  /\ needs_prov
  /\ session' = Session
  /\ pc' = "enroll"
  /\ reply' = 0
  /\ before' = identity
  /\ UNCHANGED <<flash, loaded, store, needs_prov, auth_rejects, server, records, errs,
                 cuts, unclosed, lost>>

ConnectAccepted ==
  /\ Attempt
  /\ ~needs_prov
  /\ Session = valid
  /\ session' = Session
  /\ auth_rejects' = 0
  /\ pc' = "online"
  /\ UNCHANGED <<flash, loaded, store, needs_prov, reply, server, history>>

\* Mutant of AuthRejected: the count is not reset at the threshold.
AuthRejectedNoReset ==
  /\ Attempt
  /\ ~needs_prov
  /\ Session # valid
  /\ auth_rejects' = auth_rejects + 1
  /\ needs_prov' = (auth_rejects + 1 >= AuthThreshold /\ provisioning)
  /\ session' = IF needs_prov' THEN NoSession ELSE Session
  /\ UNCHANGED <<flash, pc, loaded, store, reply, server, history>>

\* At the threshold the bootstrap mode is entered, if its credentials can be read.
AuthRejected ==
  LET due == auth_rejects + 1 >= AuthThreshold IN
  /\ Attempt
  /\ ~needs_prov
  /\ Session # valid
  /\ auth_rejects' = IF due THEN 0 ELSE auth_rejects + 1
  /\ \/ needs_prov' = (due /\ provisioning) /\ UNCHANGED errs
     \/ due /\ provisioning /\ StorageFails /\ UNCHANGED needs_prov
  /\ session' = IF needs_prov' THEN NoSession ELSE Session
  /\ UNCHANGED <<flash, pc, loaded, store, reply, server, records, before, cuts, unclosed,
                 lost>>
-----------------------------------------------------------------------------
(* tb_provisioning_enroll() and write_identity() *)

\* The attempt is over: the session is destroyed and the backoff begins.
EnrollmentEnds == pc' = "backoff" /\ session' = NoSession

\* The request is not answered in time; the server may have taken it.
RequestFails ==
  /\ pc = "enroll"
  /\ EnrollmentEnds
  /\ \/ UNCHANGED <<server, cuts>>
     \/ /\ cuts < MaxCut /\ cuts' = cuts + 1
        /\ ~registered /\ issued < MaxToken
        /\ registered' = TRUE /\ issued' = issued + 1 /\ valid' = issued + 1
  /\ UNCHANGED <<flash, loaded, store, needs_prov, auth_rejects, reply, records, before,
                 errs, unclosed, lost>>

\* Mutant of ServerRefuses: the identity is given up with the enrollment.
ServerRefusesDropsIdentity ==
  /\ pc = "enroll"
  /\ registered
  /\ EnrollmentEnds
  /\ identity' = NoFile
  /\ UNCHANGED <<mfg, provisioning, tmp, loaded, store, needs_prov, auth_rejects, reply,
                 server, history>>

\* A device of that name exists: FAILURE.
ServerRefuses ==
  /\ pc = "enroll"
  /\ registered
  /\ EnrollmentEnds
  /\ UNCHANGED <<flash, loaded, store, needs_prov, auth_rejects, reply, server, history>>

ServerIssues ==
  /\ pc = "enroll"
  /\ ~registered /\ issued < MaxToken
  /\ registered' = TRUE /\ issued' = issued + 1 /\ valid' = issued + 1
  /\ reply' = issued + 1
  /\ pc' = "open"
  /\ UNCHANGED <<flash, loaded, store, needs_prov, session, auth_rejects, history>>

\* A step of write_identity() fails, which is ERR_PERSIST.
PersistFails ==
  /\ pc \in {"open", "write", "rename"}
  /\ StorageFails
  /\ EnrollmentEnds
  /\ UNCHANGED <<flash, loaded, store, needs_prov, auth_rejects, reply, server, records,
                 before, cuts, unclosed, lost>>

\* Mutant of OpenTemporary: the identity is written in place.
OpenInPlace ==
  /\ pc = "open"
  /\ identity' = Torn
  /\ tmp' = Torn
  /\ pc' = "write"
  /\ UNCHANGED <<mfg, provisioning, ram, server, history>>

OpenTemporary ==
  /\ pc = "open"
  /\ tmp' = Torn
  /\ pc' = "write"
  /\ UNCHANGED <<mfg, provisioning, identity, ram, server, history>>

\* All bytes are taken, but they are on the flash only once the file is closed.
WriteTemporary ==
  /\ pc = "write"
  /\ pc' = "close"
  /\ UNCHANGED <<flash, ram, server, history>>

\* The result of osal_close() is not looked at.
CloseTemporary ==
  /\ pc = "close"
  /\ \/ tmp' = reply /\ UNCHANGED <<errs, unclosed>>
     \/ StorageFails /\ unclosed' = TRUE /\ UNCHANGED tmp
  /\ pc' = "rename"
  /\ UNCHANGED <<mfg, provisioning, identity, ram, server, records, before, cuts, lost>>

\* Mutant of RenameTemporary: an identity that is there is not replaced.
RenameKeepsOld ==
  /\ pc = "rename"
  /\ identity' = IF identity = NoFile THEN tmp ELSE identity
  /\ tmp' = NoFile
  /\ records' = records \cup ({identity'} \cap Tokens)
  /\ pc' = "reload"
  /\ UNCHANGED <<mfg, provisioning, ram, server, before, errs, cuts, unclosed, lost>>

RenameTemporary ==
  /\ pc = "rename"
  /\ identity' = tmp
  /\ tmp' = NoFile
  /\ records' = records \cup ({tmp} \cap Tokens)
  /\ lost' = IF tmp = Torn THEN lost + 1 ELSE lost
  /\ pc' = "reload"
  /\ UNCHANGED <<mfg, provisioning, ram, server, before, errs, cuts, unclosed>>

\* load_device_identity() through the same gate as at boot.
ReloadSucceeds ==
  /\ pc = "reload"
  /\ LoadSucceeds
  /\ pc' = "adopt"
  /\ UNCHANGED <<flash, needs_prov, session, auth_rejects, reply, server, records, before,
                 cuts, unclosed, lost>>

ReloadFails ==
  /\ pc = "reload"
  /\ LoadFails
  /\ EnrollmentEnds
  /\ UNCHANGED <<flash, needs_prov, auth_rejects, reply, server, records, before, cuts,
                 unclosed, lost>>

\* The session is given the credentials of the device; the client may refuse them, or
\* the broker document be rejected.
Adopt ==
  /\ pc = "adopt"
  /\ \/ session' = device_identity_token /\ needs_prov' = FALSE /\ pc' = "confirm"
     \/ session' \in {session, NoSession} /\ pc' = "tls" /\ UNCHANGED needs_prov
  /\ UNCHANGED <<flash, loaded, store, auth_rejects, reply, server, history>>

Confirm ==
  /\ pc = "confirm"
  /\ \/ session = valid /\ pc' = "online" /\ auth_rejects' = 0
     \/ pc' = "tls" /\ UNCHANGED auth_rejects
  /\ UNCHANGED <<flash, loaded, store, needs_prov, session, reply, server, history>>

BackoffEnds ==
  /\ pc = "backoff"
  /\ pc' = "tls"
  /\ UNCHANGED <<flash, ram, server, history>>

tb_provisioning_enroll ==
  \/ RequestFails \/ ServerRefuses \/ ServerIssues \/ PersistFails
  \/ OpenTemporary \/ WriteTemporary \/ CloseTemporary \/ RenameTemporary
-----------------------------------------------------------------------------
(* The world *)

Disconnected ==
  /\ pc = "online"
  /\ pc' = "tls"
  /\ UNCHANGED <<flash, ram, server, history>>

\* The power goes; the device may be set up differently before it starts again.
PowerCut ==
  /\ cuts < MaxCut
  /\ cuts' = cuts + 1
  /\ mfg' \in {"enrolled", "held", "broken"}
  /\ pc' = "boot"
  /\ loaded' = FALSE /\ store' = 0 /\ needs_prov' = FALSE /\ session' = NoSession
  /\ auth_rejects' = 0
  /\ UNCHANGED <<provisioning, identity, tmp, reply, server, records, before, errs,
                 unclosed, lost>>

\* An operator deletes the device, or changes its token, at the server.
DeviceDeleted ==
  /\ registered
  /\ registered' = FALSE /\ valid' = 0
  /\ UNCHANGED <<flash, pc, ram, issued, history>>

TokenRegenerated ==
  /\ registered /\ issued < MaxToken
  /\ issued' = issued + 1 /\ valid' = issued + 1
  /\ UNCHANGED <<flash, pc, ram, registered, history>>

Next ==
  \/ BootWithIdentity \/ BootIntoBootstrap \/ BootFails
  \/ ConnectFails \/ BeginEnrollment \/ ConnectAccepted \/ AuthRejected
  \/ tb_provisioning_enroll
  \/ ReloadSucceeds \/ ReloadFails \/ Adopt \/ Confirm \/ BackoffEnds
  \/ Disconnected \/ PowerCut \/ DeviceDeleted \/ TokenRegenerated

Spec == Init /\ [][Next]_vars
-----------------------------------------------------------------------------
(* Properties *)

(* A session holds a token of the device only if the facade loaded that token     *)
(* from identity.json under a manufacturing record that admits it: a held device  *)
(* enrolls, but never uses what it got (device_identity.h:66, app_main.c:885).    *)
AuthorizedSession ==
  session \in Tokens => /\ mfg = "enrolled"
                        /\ device_identity_token = session
                        /\ session \in records

(* While identity.json is being replaced, and however the enrollment ends, it     *)
(* holds what it held when the enrollment began or the whole new token, wherever  *)
(* the power goes, as long as every file that was written could be closed.        *)
EnrollmentReplacesWhole == ~unclosed => identity \in {before, reply}

(* The same without the assumption: the old identity.json stays until the new one *)
(* has been written (FIRMWARE_PRODUCTION_READINESS_PLAN.md:210).                  *)
OldIdentityStays == identity \in {before, reply}

(* Outside of an enrollment the token of the last reply is the one on the flash,  *)
(* unless a storage error or a power cut kept it from getting there.              *)
IssuedTokenIsStored ==
  pc \notin EnrollSteps /\ reply # 0 /\ errs = 0 /\ cuts = 0 => identity = reply

(* identity.json is one more document replaced as a whole and lost to a storage   *)
(* fault only.                                                                    *)
Record == INSTANCE DocStore WITH
  Documents <- Tokens, NoDocument <- 0, committed <- records,
  current <- IF identity \in Tokens THEN identity ELSE 0
ImplementsDocStore == Record!Spec
================================================================================
