----------------------------- MODULE IdentityProofs -----------------------------
(***************************************************************************)
(* What the identity guarantees for every rejection threshold and any      *)
(* number of tokens, storage errors and power cuts.                        *)
(*                                                                         *)
(* None of the properties is inductive.  Trusted says where every copy of  *)
(* the token came from and which steps have none; Writing says what the    *)
(* temporary file holds at each step of write_identity(), that the token   *)
(* of the reply is a new one, and which error each torn file cost.         *)
(***************************************************************************)
EXTENDS Identity, TLAPS

Replacing == {"open", "write", "close", "rename"}

Trusted ==
  /\ identity \in Tokens => identity \in records
  /\ store # 0 => loaded /\ mfg = "enrolled" /\ store \in records
  /\ session \in Tokens => session = store
  /\ needs_prov => session \notin Tokens
  /\ pc = "boot" => session = NoSession
  /\ pc \in EnrollSteps => needs_prov

Writing ==
  /\ pc = "enroll" => reply = 0
  /\ pc \in Replacing \cup {"enroll"} => identity = before
  /\ pc \in Replacing => reply \in 1..issued /\ reply \notin records
  /\ pc \in {"write", "close"} => tmp = Torn
  /\ pc = "rename" => tmp = reply \/ (tmp = Torn /\ unclosed /\ lost < errs)
  /\ ~unclosed => identity \in {before, reply}
  /\ unclosed => errs > 0
  /\ lost <= errs
  /\ records \subseteq 1..issued
  /\ pc \notin Replacing /\ reply # 0 /\ errs = 0 /\ cuts = 0 => identity = reply

\* The parts of the type invariant.
Flags ==
  /\ provisioning \in BOOLEAN /\ loaded \in BOOLEAN /\ needs_prov \in BOOLEAN
  /\ registered \in BOOLEAN /\ unclosed \in BOOLEAN

Places ==
  /\ mfg \in {"enrolled", "held", "broken"}
  /\ pc \in EnrollSteps \cup {"boot", "failed", "tls", "confirm", "online", "backoff"}

Numbers ==
  /\ identity \in Tokens \cup {NoFile, Torn}
  /\ tmp \in Tokens \cup {NoFile, Torn}
  /\ store \in Tokens \cup {0}
  /\ session \in Tokens \cup {NoSession, Bootstrap}
  /\ auth_rejects \in 0..(AuthThreshold - 1)
  /\ reply \in Tokens \cup {0}
  /\ valid \in Tokens \cup {0}
  /\ issued \in 0..MaxToken
  /\ records \subseteq Tokens
  /\ before \in Tokens \cup {NoFile, Torn}
  /\ errs \in 0..MaxErr /\ cuts \in 0..MaxCut
  /\ lost \in Nat

IInv == Flags /\ Places /\ Numbers /\ Trusted /\ Writing
-----------------------------------------------------------------------------
(* Types *)

(***************************************************************************)
(* The parts make up the type invariant: there are no more torn files than *)
(* storage errors.                                                         *)
(***************************************************************************)
LEMMA Parts == IInv => TypeOK
<1>1. ASSUME IInv PROVE lost \in 0..MaxErr
  BY <1>1, IdentityAssumption DEF IInv, Numbers, Writing
<1> QED BY Zenon, <1>1 DEF IInv, Flags, Places, Numbers, TypeOK

(***************************************************************************)
(* The Boolean variables stay Booleans.                                    *)
(***************************************************************************)
LEMMA FlagsStep == Flags /\ Next => Flags'
<1> SUFFICES ASSUME Flags, Next PROVE Flags'
  OBVIOUS
<1> USE DEF Flags, flash, ram, server, history
<1>1. CASE BootWithIdentity \/ BootIntoBootstrap \/ BootFails
  BY Zenon, <1>1 DEF BootWithIdentity, BootIntoBootstrap, BootFails, LoadSucceeds, LoadFails
<1>2. CASE ConnectFails \/ BeginEnrollment \/ ConnectAccepted \/ AuthRejected
  BY Zenon, <1>2 DEF ConnectFails, BeginEnrollment, ConnectAccepted, AuthRejected
<1>3. CASE tb_provisioning_enroll
  BY Zenon, <1>3 DEF tb_provisioning_enroll, RequestFails, ServerRefuses, ServerIssues,
     PersistFails, OpenTemporary, WriteTemporary, CloseTemporary, RenameTemporary
<1>4. CASE ReloadSucceeds \/ ReloadFails \/ Adopt \/ Confirm \/ BackoffEnds
  BY Zenon, <1>4 DEF ReloadSucceeds, ReloadFails, Adopt, Confirm, BackoffEnds,
     LoadSucceeds, LoadFails
<1>5. CASE Disconnected \/ PowerCut \/ DeviceDeleted \/ TokenRegenerated
  BY Zenon, <1>5 DEF Disconnected, PowerCut, DeviceDeleted, TokenRegenerated
<1> QED BY <1>1, <1>2, <1>3, <1>4, <1>5 DEF Next

(***************************************************************************)
(* The task stays at one of its steps.                                     *)
(***************************************************************************)
LEMMA PlacesStep == Places /\ Next => Places'
BY DEF Places, Next, EnrollSteps, BootWithIdentity, BootIntoBootstrap, BootFails,
       ConnectFails, BeginEnrollment, ConnectAccepted, AuthRejected,
       tb_provisioning_enroll, RequestFails, ServerRefuses, ServerIssues, PersistFails,
       OpenTemporary, WriteTemporary, CloseTemporary, RenameTemporary, ReloadSucceeds,
       ReloadFails, Adopt, Confirm, BackoffEnds, Disconnected, PowerCut, DeviceDeleted,
       TokenRegenerated, EnrollmentEnds, flash, Attempt

(***************************************************************************)
(* A load fills the store from the identity file or clears it.             *)
(***************************************************************************)
LEMMA LoadStep ==
  ASSUME Numbers, Flags, LoadSucceeds \/ LoadFails
  PROVE  /\ store' \in Tokens \cup {0} /\ errs' \in 0..MaxErr
         /\ LoadFails => ~loaded' /\ store' = 0
<1>1. CASE LoadSucceeds
  <2>1. identity \in Tokens /\ store' = identity /\ errs' = errs
    BY Zenon, <1>1 DEF LoadSucceeds
  <2>2. LoadFails => store' = 0
    BY Zenon DEF LoadFails
  <2>3. LoadFails => ~loaded'
    BY Zenon DEF LoadFails
  <2> QED BY <2>1, <2>2, <2>3 DEF Numbers
<1>2. CASE LoadFails
  <2>1. store' = 0 /\ ~loaded'
    BY Zenon, <1>2 DEF LoadFails
  <2>2. errs' = errs \/ StorageFails
    BY Zenon, <1>2 DEF LoadFails
  <2> QED BY <2>1, <2>2, IdentityAssumption DEF Numbers, StorageFails
<1> QED BY <1>1, <1>2

(***************************************************************************)
(* The tokens stay tokens the server has issued, and the counters in their *)
(* bounds.                                                                 *)
(***************************************************************************)
LEMMA NumbersStep ==
  ASSUME Numbers, Places, Flags, Writing, Next
  PROVE  Numbers'
<1>1. CASE BootWithIdentity \/ BootIntoBootstrap \/ BootFails
  <2>1. /\ UNCHANGED <<identity, tmp, auth_rejects, reply, valid, issued, records>>
        /\ UNCHANGED <<before, cuts, lost>>
        /\ session' = session \/ session' = -1
           \/ (session' = identity /\ identity \in Tokens)
        /\ \/ LoadSucceeds \/ LoadFails
           \/ store' = store /\ (errs' = errs \/ StorageFails)
    BY Zenon, <1>1 DEF BootWithIdentity, BootIntoBootstrap, BootFails, LoadSucceeds,
       flash, server, ram, NoSession, Bootstrap
  <2>2. store' \in Tokens \cup {0} /\ errs' \in 0..MaxErr
    BY <2>1, LoadStep, IdentityAssumption DEF Numbers, StorageFails
  <2> QED BY <2>1, <2>2 DEF Numbers, NoSession, Bootstrap
<1>2. CASE ConnectFails \/ BeginEnrollment \/ ConnectAccepted
  BY <1>2, IdentityAssumption DEF Numbers, ConnectFails, BeginEnrollment,
     ConnectAccepted, Session, SessionOf, device_identity_token, device_identity_is_loaded,
     flash, server, history, NoSession, Bootstrap
<1>3. CASE AuthRejected
  BY <1>3, IdentityAssumption DEF Numbers, AuthRejected, Session, SessionOf,
     device_identity_token, device_identity_is_loaded, StorageFails, flash, server,
     NoSession, Bootstrap
<1>4. CASE RequestFails \/ ServerRefuses \/ ServerIssues \/ PersistFails
  <2>1. /\ UNCHANGED <<identity, tmp, store, auth_rejects, records, before, lost>>
        /\ session' \in {session, 0}
        /\ \/ UNCHANGED <<valid, issued>>
           \/ issued < MaxToken /\ issued' = issued + 1 /\ valid' = issued + 1
        /\ reply' = reply \/ (issued < MaxToken /\ reply' = issued + 1)
        /\ errs' = errs \/ (errs < MaxErr /\ errs' = errs + 1)
        /\ cuts' = cuts \/ (cuts < MaxCut /\ cuts' = cuts + 1)
    BY Zenon, <1>4 DEF RequestFails, ServerRefuses, ServerIssues, PersistFails,
       EnrollmentEnds, StorageFails, flash, server, history, NoSession
  <2> QED BY <2>1, IdentityAssumption DEF Numbers, Tokens, NoSession
<1>5. CASE OpenTemporary \/ WriteTemporary \/ CloseTemporary \/ RenameTemporary
  <2>1. /\ UNCHANGED <<store, session, auth_rejects, reply, valid, issued, before, cuts>>
        /\ identity' \in {identity, tmp}
        /\ tmp' \in {tmp, reply, 0, -1}
        /\ records' = records \/ records' = records \cup ({tmp} \cap Tokens)
        /\ errs' = errs \/ (errs < MaxErr /\ errs' = errs + 1)
        /\ lost' = lost \/ lost' = lost + 1
    BY Zenon, <1>5 DEF OpenTemporary, WriteTemporary, CloseTemporary, RenameTemporary,
       StorageFails, flash, ram, server, history, Torn, NoFile
  <2> QED BY <2>1, IdentityAssumption DEF Numbers, NoFile, Torn
<1>6. CASE ReloadSucceeds \/ ReloadFails
  BY <1>6, LoadStep DEF Numbers, ReloadSucceeds, ReloadFails, EnrollmentEnds,
     flash, server, NoSession
<1>7. CASE Adopt \/ Confirm \/ BackoffEnds
  BY <1>7, IdentityAssumption DEF Numbers, Adopt, Confirm, BackoffEnds,
     device_identity_token, device_identity_is_loaded, flash, ram, server, history,
     NoSession
<1>8. CASE Disconnected \/ PowerCut \/ DeviceDeleted \/ TokenRegenerated
  <2>1. /\ UNCHANGED <<identity, tmp, reply, records, before, errs, lost>>
        /\ store' \in {store, 0} /\ session' \in {session, 0} /\ auth_rejects' \in {auth_rejects, 0}
        /\ \/ UNCHANGED issued /\ valid' \in {valid, 0}
           \/ issued < MaxToken /\ issued' = issued + 1 /\ valid' = issued + 1
        /\ cuts' = cuts \/ (cuts < MaxCut /\ cuts' = cuts + 1)
    BY Zenon, <1>8 DEF Disconnected, PowerCut, DeviceDeleted, TokenRegenerated,
       flash, ram, server, history, NoSession
  <2> QED BY <2>1, IdentityAssumption DEF Numbers, Tokens, NoSession
<1> QED BY <1>1, <1>2, <1>3, <1>4, <1>5, <1>6, <1>7, <1>8 DEF Next, tb_provisioning_enroll
-----------------------------------------------------------------------------
(* Where the tokens come from *)

(***************************************************************************)
(* A load keeps the store a copy of a recorded token, under a record that  *)
(* admits the device.                                                      *)
(***************************************************************************)
LEMMA LoadIsTrusted ==
  ASSUME Trusted, LoadSucceeds \/ LoadFails, UNCHANGED <<mfg, identity, records>>
  PROVE  store' # 0 => loaded' /\ mfg' = "enrolled" /\ store' \in records'
<1>1. CASE LoadSucceeds
  <2>1. loaded' /\ mfg = "enrolled" /\ identity \in Tokens /\ store' = identity
    BY Zenon, <1>1 DEF LoadSucceeds, device_identity_check_provisioning
  <2> QED BY <2>1 DEF Trusted
<1>2. CASE LoadFails
  <2>1. store' = 0
    BY Zenon, <1>2 DEF LoadFails
  <2> QED BY <2>1
<1> QED BY <1>1, <1>2

(***************************************************************************)
(* No step gives the session or the store a token from elsewhere, and none *)
(* starts an enrollment with a session of the device.                      *)
(***************************************************************************)
LEMMA TrustedStep ==
  ASSUME Flags, Numbers, Trusted, Writing, Next
  PROVE  Trusted'
<1> USE DEF NoSession, Bootstrap, Torn, NoFile
<1>1. ASSUME UNCHANGED <<mfg, identity, records, loaded, store>>,
             session' \in {session, 0, -1},
             needs_prov' => needs_prov \/ session' \notin Tokens,
             pc' = "boot" => session' = 0,
             pc' \in EnrollSteps => needs_prov'
      PROVE  Trusted'
  BY <1>1 DEF Trusted, Tokens
<1>2. ASSUME UNCHANGED <<mfg, identity, records>>, LoadSucceeds \/ LoadFails,
             session' \in Tokens => session' = store',
             needs_prov' => session' \notin Tokens,
             pc' # "boot", pc' \in EnrollSteps => needs_prov'
      PROVE  Trusted'
  BY <1>2, LoadIsTrusted DEF Trusted
<1>3. CASE BootWithIdentity
  <2>1. /\ LoadSucceeds /\ store' = identity /\ session' = identity
        /\ ~needs_prov' /\ pc' = "tls"
    BY Zenon, <1>3 DEF BootWithIdentity, LoadSucceeds
  <2>2. UNCHANGED <<mfg, identity, records>>
    BY Zenon, <1>3 DEF BootWithIdentity, flash
  <2> QED BY <1>2, <2>1, <2>2 DEF EnrollSteps
<1>4. CASE BootIntoBootstrap
  <2>1. LoadFails /\ session' = -1 /\ pc' = "tls" /\ UNCHANGED <<mfg, identity, records>>
    BY Zenon, <1>4 DEF BootIntoBootstrap, flash
  <2> QED BY <1>2, <2>1 DEF EnrollSteps, Tokens
<1>5. CASE BootFails
  <2>1. /\ pc = "boot" /\ pc' = "failed" /\ UNCHANGED session
        /\ UNCHANGED <<mfg, identity, records>>
        /\ LoadSucceeds \/ LoadFails \/ UNCHANGED <<loaded, store, needs_prov>>
    BY Zenon, <1>5 DEF BootFails, flash, ram
  <2>2. session' = 0
    BY <2>1 DEF Trusted
  <2> QED BY <1>1, <1>2, <2>1, <2>2 DEF EnrollSteps, Tokens
<1>6. CASE ConnectFails \/ ConnectAccepted
  <2>1. /\ UNCHANGED <<mfg, identity, records, loaded, store, needs_prov>>
        /\ pc = "tls" /\ pc' \in {"tls", "online"}
        /\ session' \in {0, session, Session}
        /\ needs_prov => session' = 0
    BY <1>6 DEF ConnectFails, ConnectAccepted, Attempt, flash, history
  <2>2. session' \in {0, session, store}
    BY <2>1 DEF Session, SessionOf, device_identity_token, device_identity_is_loaded
  <2> QED BY <2>1, <2>2 DEF Trusted, EnrollSteps, Tokens
<1>7. CASE BeginEnrollment
  <2>1. /\ UNCHANGED <<mfg, identity, records, loaded, store, needs_prov>>
        /\ needs_prov /\ session' \in {session, -1} /\ pc' = "enroll"
    BY <1>7 DEF BeginEnrollment, Session, SessionOf, flash
  <2> QED BY <2>1 DEF Trusted, Tokens
<1>8. CASE AuthRejected
  <2>1. /\ UNCHANGED <<mfg, identity, records, loaded, store>>
        /\ pc = "tls" /\ pc' = pc
        /\ session' = IF needs_prov' THEN 0 ELSE Session
    BY Zenon, <1>8 DEF AuthRejected, Attempt, flash
  <2>2. session' \in {0, session, store}
    BY <1>8, <2>1 DEF AuthRejected, Session, SessionOf, device_identity_token,
       device_identity_is_loaded
  <2> QED BY <2>1, <2>2 DEF Trusted, EnrollSteps, Tokens
<1>9. CASE RequestFails \/ ServerRefuses \/ ServerIssues \/ PersistFails
  <2>1. /\ UNCHANGED <<mfg, identity, records, loaded, store, needs_prov>>
        /\ session' \in {session, 0}
        /\ pc \in EnrollSteps /\ pc' \in {"open", "backoff"}
    BY <1>9 DEF RequestFails, ServerRefuses, ServerIssues, PersistFails, EnrollmentEnds,
       EnrollSteps, flash, history
  <2> QED BY <1>1, <2>1 DEF Trusted
<1>10. CASE OpenTemporary \/ WriteTemporary \/ CloseTemporary
  <2>1. /\ UNCHANGED <<mfg, identity, records, loaded, store, needs_prov, session>>
        /\ pc \in EnrollSteps /\ pc' \in EnrollSteps
    BY <1>10 DEF OpenTemporary, WriteTemporary, CloseTemporary, EnrollSteps, flash, ram,
       history
  <2> QED BY <1>1, <2>1 DEF Trusted, EnrollSteps
<1>11. CASE RenameTemporary
  <2>1. /\ UNCHANGED <<mfg, loaded, store, needs_prov, session>>
        /\ pc = "rename" /\ pc' = "reload"
        /\ identity' = tmp /\ records' = records \cup ({tmp} \cap Tokens)
    BY <1>11 DEF RenameTemporary, ram
  <2> QED BY <2>1 DEF Trusted, EnrollSteps
<1>12. CASE ReloadSucceeds \/ ReloadFails
  <2>1. /\ UNCHANGED <<mfg, identity, records, needs_prov>>
        /\ LoadSucceeds \/ LoadFails
        /\ session' \in {session, 0}
        /\ pc = "reload" /\ pc' \in {"adopt", "backoff"}
    BY <1>12 DEF ReloadSucceeds, ReloadFails, EnrollmentEnds, flash
  <2> QED BY <1>2, <2>1 DEF Trusted, EnrollSteps, Tokens
<1>13. CASE Adopt
  <2>1. /\ UNCHANGED <<mfg, identity, records, loaded, store>>
        /\ pc = "adopt"
        /\ \/ session' = device_identity_token /\ ~needs_prov' /\ pc' = "confirm"
           \/ session' \in {session, 0} /\ pc' = "tls" /\ needs_prov' = needs_prov
    BY Zenon, <1>13 DEF Adopt, flash, history
  <2>2. device_identity_token \in {store, 0}
    BY DEF device_identity_token
  <2>3. CASE session' = device_identity_token /\ ~needs_prov' /\ pc' = "confirm"
    BY <2>1, <2>2, <2>3 DEF Trusted, EnrollSteps, Tokens
  <2>4. CASE session' \in {session, 0} /\ pc' = "tls" /\ needs_prov' = needs_prov
    BY <1>1, <2>1, <2>4 DEF Trusted, EnrollSteps
  <2> QED BY <2>1, <2>3, <2>4
<1>14. CASE Confirm \/ BackoffEnds \/ Disconnected \/ DeviceDeleted \/ TokenRegenerated
  <2>1. /\ UNCHANGED <<mfg, identity, records, loaded, store, needs_prov, session>>
        /\ pc' = pc \/ pc' \in {"online", "tls"}
    BY <1>14 DEF Confirm, BackoffEnds, Disconnected, DeviceDeleted, TokenRegenerated,
       flash, ram, history
  <2> QED BY <2>1 DEF Trusted, EnrollSteps
<1>15. CASE PowerCut
  <2>1. /\ UNCHANGED <<identity, records>> /\ store' = 0 /\ session' = 0 /\ ~needs_prov'
        /\ pc' = "boot"
    BY Zenon, <1>15 DEF PowerCut
  <2> QED BY <2>1 DEF Trusted, EnrollSteps, Tokens
<1> QED BY <1>3, <1>4, <1>5, <1>6, <1>7, <1>8, <1>9, <1>10, <1>11, <1>12, <1>13, <1>14,
           <1>15 DEF Next, tb_provisioning_enroll
-----------------------------------------------------------------------------
(* What the identity file becomes *)

\* What Writing speaks of.
written == <<identity, tmp, before, reply, records, lost>>

(***************************************************************************)
(* Before, between and after the enrollments the files are left alone; no  *)
(* counter ever goes back.                                                 *)
(***************************************************************************)
LEMMA ResidentStep ==
  ASSUME Numbers, Writing, UNCHANGED written, UNCHANGED <<unclosed, issued>>,
         errs' = errs \/ errs' = errs + 1, cuts' = cuts \/ cuts' = cuts + 1,
         pc' = pc \/ pc \notin Replacing,
         pc' # pc => pc' \notin Replacing \cup {"enroll"}
  PROVE  Writing'
<1>1. errs' >= errs /\ errs' \in Nat /\ cuts' >= cuts /\ cuts' \in Nat
  BY DEF Numbers
<1> QED BY <1>1 DEF Writing, written, Numbers, Replacing

(***************************************************************************)
(* The write of the identity goes through its steps with the identity file *)
(* untouched until the rename.                                             *)
(***************************************************************************)
LEMMA WritingStep ==
  ASSUME Flags, Numbers, Trusted, Writing, Next
  PROVE  Writing'
<1> USE DEF NoFile, Torn
<1>1. CASE BootWithIdentity \/ BootIntoBootstrap \/ BootFails
  <2>1. /\ UNCHANGED written /\ UNCHANGED <<unclosed, issued>>
        /\ errs' = errs \/ errs' = errs + 1
        /\ cuts' = cuts
        /\ pc = "boot" /\ pc' \in {"tls", "failed"}
    BY <1>1 DEF BootWithIdentity, BootIntoBootstrap, BootFails, LoadSucceeds, LoadFails,
       StorageFails, flash, server, ram, written
  <2> QED BY <2>1, ResidentStep DEF Replacing
<1>2. CASE ConnectFails \/ ConnectAccepted \/ AuthRejected
  <2>1. /\ UNCHANGED written /\ UNCHANGED <<unclosed, issued>>
        /\ errs' = errs \/ errs' = errs + 1
        /\ cuts' = cuts
        /\ pc = "tls" /\ pc' \in {"tls", "online"}
    BY <1>2 DEF ConnectFails, ConnectAccepted, AuthRejected, Attempt, StorageFails, flash,
       server, history, written
  <2> QED BY <2>1, ResidentStep DEF Replacing
<1>3. CASE BeginEnrollment
  <2>1. /\ UNCHANGED <<identity, tmp, records, lost, unclosed, issued, errs, cuts>>
        /\ before' = identity /\ reply' = 0 /\ pc' = "enroll"
    BY <1>3 DEF BeginEnrollment, flash, server
  <2> QED BY <2>1 DEF Writing, Replacing
<1>4. CASE RequestFails \/ ServerRefuses
  <2>1. /\ UNCHANGED written /\ UNCHANGED <<unclosed, errs>>
        /\ cuts' = cuts \/ cuts' = cuts + 1
        /\ issued' = issued \/ issued' = issued + 1
        /\ pc = "enroll" /\ pc' = "backoff"
    BY <1>4 DEF RequestFails, ServerRefuses, EnrollmentEnds, flash, server, history, written
  <2> QED BY <2>1 DEF Writing, Numbers, Replacing, written
<1>5. CASE ServerIssues
  <2>1. /\ UNCHANGED <<identity, tmp, before, records, lost, unclosed, errs, cuts>>
        /\ pc = "enroll" /\ pc' = "open" /\ reply' = issued + 1 /\ issued' = issued + 1
    BY <1>5 DEF ServerIssues, flash, history
  <2>2. issued + 1 \notin records /\ records \subseteq 1..(issued + 1)
    BY DEF Writing, Numbers
  <2> QED BY <2>1, <2>2 DEF Writing, Numbers, Replacing
<1>6. CASE PersistFails
  <2>1. /\ UNCHANGED written /\ UNCHANGED <<unclosed, issued, cuts>>
        /\ errs' = errs + 1
        /\ pc \in Replacing /\ pc' = "backoff"
    BY <1>6 DEF PersistFails, StorageFails, EnrollmentEnds, flash, server, written,
       Replacing
  <2> QED BY <2>1 DEF Writing, Numbers, Replacing, written
<1>7. CASE OpenTemporary
  <2>1. /\ UNCHANGED <<identity, before, reply, records, lost, unclosed, issued, errs, cuts>>
        /\ tmp' = -1 /\ pc = "open" /\ pc' = "write"
    BY <1>7 DEF OpenTemporary, ram, server, history
  <2> QED BY <2>1 DEF Writing, Replacing
<1>8. CASE WriteTemporary
  <2>1. /\ UNCHANGED written /\ UNCHANGED <<unclosed, issued, errs, cuts>>
        /\ pc = "write" /\ pc' = "close"
    BY <1>8 DEF WriteTemporary, flash, ram, server, history, written
  <2> QED BY <2>1 DEF Writing, Replacing, written
<1>9. CASE CloseTemporary
  <2>1. /\ UNCHANGED <<identity, before, reply, records, lost, issued, cuts>>
        /\ pc = "close" /\ pc' = "rename"
        /\ \/ tmp' = reply /\ UNCHANGED <<errs, unclosed>>
           \/ errs' = errs + 1 /\ unclosed' /\ tmp' = tmp
    BY Zenon, <1>9 DEF CloseTemporary, StorageFails, ram, server
  <2> QED BY <2>1 DEF Writing, Numbers, Replacing
<1>10. CASE RenameTemporary
  <2>1. /\ UNCHANGED <<before, reply, unclosed, issued, errs, cuts>>
        /\ pc = "rename" /\ pc' = "reload"
        /\ identity' = tmp /\ tmp' = 0
        /\ records' = records \cup ({tmp} \cap Tokens)
        /\ lost' = IF tmp = -1 THEN lost + 1 ELSE lost
    BY Zenon, <1>10 DEF RenameTemporary, ram, server
  <2>2. reply \in Tokens /\ reply \in 1..issued
    BY <2>1 DEF Writing, Replacing, Numbers, Tokens
  <2>3. CASE tmp = reply
    <3>1. identity' = reply /\ records' = records \cup {reply} /\ lost' = lost
      BY <2>1, <2>2, <2>3 DEF Tokens
    <3>2. records' \subseteq 1..issued'
      BY <2>1, <2>2, <3>1 DEF Writing
    <3> QED BY <2>1, <3>1, <3>2 DEF Writing, Replacing
  <2>4. CASE tmp = -1 /\ unclosed /\ lost < errs
    <3>1. records' = records /\ lost' = lost + 1
      BY <2>1, <2>4, IdentityAssumption DEF Tokens
    <3>2. errs' > 0 /\ errs' # 0 /\ lost' <= errs'
      BY <2>1, <2>4, <3>1 DEF Numbers
    <3>3. unclosed' /\ records' \subseteq 1..issued'
      BY <2>1, <2>4, <3>1 DEF Writing
    <3> QED BY Zenon, <2>1, <3>2, <3>3 DEF Writing, Replacing
  <2> QED BY <2>1, <2>3, <2>4 DEF Writing
<1>11. CASE ReloadSucceeds \/ ReloadFails
  <2>1. /\ UNCHANGED written /\ UNCHANGED <<unclosed, issued, cuts>>
        /\ errs' = errs \/ errs' = errs + 1
        /\ pc = "reload" /\ pc' \in {"adopt", "backoff"}
    BY <1>11 DEF ReloadSucceeds, ReloadFails, LoadSucceeds, LoadFails, StorageFails,
       EnrollmentEnds, flash, server, written
  <2> QED BY <2>1, ResidentStep DEF Replacing
<1>12. CASE Adopt \/ Confirm \/ BackoffEnds \/ Disconnected
  <2>1. /\ UNCHANGED written /\ UNCHANGED <<unclosed, issued, errs, cuts>>
        /\ pc \notin Replacing /\ pc' \in {"confirm", "tls", "online"}
    BY <1>12 DEF Adopt, Confirm, BackoffEnds, Disconnected, flash, ram, server, history,
       written, Replacing
  <2> QED BY <2>1, ResidentStep DEF Replacing
<1>13. CASE PowerCut
  <2>1. /\ UNCHANGED written /\ UNCHANGED <<unclosed, issued, errs>>
        /\ cuts' = cuts + 1 /\ pc' = "boot"
    BY <1>13 DEF PowerCut, server, written
  <2> QED BY <2>1 DEF Writing, Numbers, Replacing, written
<1>14. CASE DeviceDeleted \/ TokenRegenerated
  <2>1. /\ UNCHANGED written /\ UNCHANGED <<pc, unclosed, errs, cuts>>
        /\ issued' = issued \/ issued' = issued + 1
    BY <1>14 DEF DeviceDeleted, TokenRegenerated, flash, ram, history, written
  <2> QED BY <2>1 DEF Writing, Numbers, Replacing, written
<1> QED BY <1>1, <1>2, <1>3, <1>4, <1>5, <1>6, <1>7, <1>8, <1>9, <1>10, <1>11, <1>12,
           <1>13, <1>14 DEF Next, tb_provisioning_enroll
-----------------------------------------------------------------------------
(* The invariant *)

(***************************************************************************)
(* The device starts in the invariant.                                     *)
(***************************************************************************)
LEMMA InitIInv == Init => IInv
<1> SUFFICES ASSUME Init PROVE IInv
  OBVIOUS
<1>1. Flags
  BY Zenon DEF Init, Flags
<1>2. Places
  BY DEF Init, Places
<1>3. /\ pc = "boot" /\ identity \in {0, 1} /\ tmp = 0 /\ store = 0 /\ session = 0
      /\ auth_rejects = 0 /\ reply = 0 /\ valid \in {0, 1} /\ issued = 1
      /\ records = {identity} \ {0} /\ before = identity /\ errs = 0 /\ cuts = 0
      /\ lost = 0 /\ ~unclosed /\ ~needs_prov
  BY DEF Init, NoFile, NoSession
<1>4. Numbers
  BY <1>3, IdentityAssumption DEF Numbers, Tokens, NoFile, NoSession
<1>5. Trusted
  BY <1>3 DEF Trusted, EnrollSteps, NoSession, Tokens
<1>6. Writing
  BY <1>3 DEF Writing, Replacing
<1> QED BY <1>1, <1>2, <1>4, <1>5, <1>6 DEF IInv

(***************************************************************************)
(* Every step of the device, the server and the operator keeps it.         *)
(***************************************************************************)
LEMMA NextIInv == IInv /\ [Next]_vars => IInv'
<1> SUFFICES ASSUME IInv, [Next]_vars PROVE IInv'
  OBVIOUS
<1>1. CASE Next
  BY Zenon, <1>1, FlagsStep, PlacesStep, NumbersStep, TrustedStep, WritingStep DEF IInv
<1>2. CASE UNCHANGED vars
  <2>1. /\ UNCHANGED <<mfg, provisioning, identity, tmp, pc, loaded, store, needs_prov>>
        /\ UNCHANGED <<session, auth_rejects, reply, registered, valid, issued>>
        /\ UNCHANGED <<records, before, errs, cuts, unclosed, lost>>
    BY <1>2 DEF vars, flash, ram, server, history
  <2>2. Flags' /\ Places'
    BY Zenon, <2>1 DEF IInv, Flags, Places
  <2>3. Numbers'
    BY Zenon, <2>1 DEF IInv, Numbers
  <2>4. Trusted' /\ Writing'
    BY Zenon, <2>1 DEF IInv, Trusted, Writing
  <2> QED BY Zenon, <2>2, <2>3, <2>4 DEF IInv
<1> QED BY <1>1, <1>2

(***************************************************************************)
(* The inductive invariant of the identity.                                *)
(***************************************************************************)
THEOREM Invariant == Spec => []IInv
BY InitIInv, NextIInv, PTL DEF Spec

(***************************************************************************)
(* Every variable stays in its type, for all bounds.                       *)
(***************************************************************************)
THEOREM TypeCorrect == Spec => []TypeOK
BY Invariant, Parts, PTL

(***************************************************************************)
(* A session only ever uses a token that the facade loaded from            *)
(* identity.json under a manufacturing record that admits the device.      *)
(***************************************************************************)
THEOREM SessionIsAuthorized == Spec => []AuthorizedSession
<1>1. IInv => AuthorizedSession
  BY DEF IInv, Trusted, AuthorizedSession, device_identity_token,
         device_identity_is_loaded, Tokens
<1> QED BY <1>1, Invariant, PTL

(***************************************************************************)
(* Without a failing close, identity.json holds what it held before the    *)
(* enrollment or the whole new token, whenever the power goes.             *)
(***************************************************************************)
THEOREM ReplacedAsAWhole == Spec => []EnrollmentReplacesWhole
<1>1. IInv => EnrollmentReplacesWhole
  BY DEF IInv, Writing, EnrollmentReplacesWhole
<1> QED BY <1>1, Invariant, PTL

(***************************************************************************)
(* Without storage errors and power cuts no issued token is dropped.       *)
(***************************************************************************)
THEOREM TokenIsStored == Spec => []IssuedTokenIsStored
<1>1. IInv => IssuedTokenIsStored
  BY DEF IInv, Writing, IssuedTokenIsStored, Replacing, EnrollSteps
<1> QED BY <1>1, Invariant, PTL
-----------------------------------------------------------------------------
(* The refinement *)

(***************************************************************************)
(* Only the rename changes the record: it commits a token that never was   *)
(* current, or loses the record to the storage error of the close.         *)
(***************************************************************************)
LEMMA RecordStep ==
  ASSUME IInv, Next
  PROVE  \/ UNCHANGED <<identity, records, lost>>
         \/ /\ identity' \in Tokens /\ identity' \notin records
            /\ records' = records \cup {identity'} /\ lost' = lost
         \/ /\ identity' = Torn /\ records' = records /\ lost' = lost + 1
<1>1. CASE RenameTemporary
  <2>1. /\ pc = "rename" /\ identity' = tmp
        /\ records' = records \cup ({tmp} \cap Tokens)
        /\ lost' = IF tmp = Torn THEN lost + 1 ELSE lost
    BY Zenon, <1>1 DEF RenameTemporary
  <2>2. reply \in Tokens /\ reply \notin records /\ tmp \in {reply, Torn}
    BY <2>1 DEF IInv, Writing, Numbers, Replacing, Tokens
  <2>3. Torn \notin Tokens
    BY DEF Torn, Tokens
  <2> QED BY <2>1, <2>2, <2>3
<1>2. CASE ~RenameTemporary
  BY <1>2 DEF Next, BootWithIdentity, BootIntoBootstrap, BootFails, ConnectFails,
     BeginEnrollment, ConnectAccepted, AuthRejected, tb_provisioning_enroll, RequestFails,
     ServerRefuses, ServerIssues, PersistFails, OpenTemporary, WriteTemporary,
     CloseTemporary, ReloadSucceeds, ReloadFails, Adopt, Confirm, BackoffEnds,
     Disconnected, PowerCut, DeviceDeleted, TokenRegenerated, flash, history
<1> QED BY <1>1, <1>2

(***************************************************************************)
(* identity.json is a document of the abstract store: replaced as a whole, *)
(* and lost to nothing but a storage fault, for every server, operator and *)
(* power supply.                                                           *)
(***************************************************************************)
THEOREM IdentityIsADocument == Spec => ImplementsDocStore
<1> DEFINE current == IF identity \in Tokens THEN identity ELSE 0
<1>0. 0 \notin Tokens
  BY DEF Tokens
<1>1. Init => Record!Init
  <2> SUFFICES ASSUME Init PROVE Record!Init
    OBVIOUS
  <2>1. IInv /\ identity \in {0, 1} /\ records = {identity} \ {0} /\ lost = 0
    BY InitIInv DEF Init, NoFile
  <2>2. records \subseteq Tokens
    BY <2>1 DEF IInv, Numbers
  <2>3. current \in records \cup {0}
    BY <2>1
  <2> QED BY <2>1, <2>2, <2>3 DEF Record!Init
<1>2. IInv /\ [Next]_vars => [Record!Next]_<<current, records, lost>>
  <2> SUFFICES ASSUME IInv, [Next]_vars
               PROVE  Record!Next \/ UNCHANGED <<current, records, lost>>
    OBVIOUS
  <2>1. CASE UNCHANGED <<identity, records, lost>>
    BY <2>1
  <2>2. CASE /\ identity' \in Tokens /\ identity' \notin records
             /\ records' = records \cup {identity'} /\ lost' = lost
    <3>1. Record!Commit(identity')
      BY <2>2 DEF Record!Commit
    <3> QED BY <2>2, <3>1 DEF Record!Next
  <2>3. CASE identity' = Torn /\ records' = records /\ lost' = lost + 1
    <3>1. Record!Fault
      BY <2>3 DEF Record!Fault, Torn, Tokens
    <3> QED BY <3>1 DEF Record!Next
  <2>4. UNCHANGED vars => UNCHANGED <<identity, records, lost>>
    BY DEF vars, flash, history
  <2> QED BY <2>1, <2>2, <2>3, <2>4, RecordStep
<1> QED BY <1>1, <1>2, Invariant, PTL DEF Spec, ImplementsDocStore, Record!Spec
=============================================================================
