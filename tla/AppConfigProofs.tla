----------------------------- MODULE AppConfigProofs -----------------------------
(***************************************************************************)
(* What the configuration store guarantees for any number of documents,    *)
(* lost copies and failed steps.                                           *)
(*                                                                         *)
(* The invariant follows the commit from step to step: Job says whose      *)
(* document it writes, Files what each file holds meanwhile and where the  *)
(* backups of before are, Copies which of them are still valid.            *)
(***************************************************************************)
EXTENDS AppConfig, TLAPS

Live == file["live"]
Good == file["good"]
Old  == file["good.old"]

\* The steps before a kept file is touched, and those that move the backups.
Untouched == {"write", "inspect", "stage", "preserve"}
Moving    == {"archive", "promote", "restore"}

Types ==
  /\ file \in [Names -> Contents]
  /\ pc \in {"idle", "write", "inspect", "stage", "preserve", "archive", "promote",
             "restore", "finish"}
  /\ job \in {"none", "commit", "recover", "migrate"}
  /\ text \in 0..MaxDoc
  /\ result \in Statuses
  /\ output \in 0..MaxDoc
  /\ committed \subseteq 1..MaxDoc
  /\ offered \in 0..MaxDoc
  /\ lost \in 0..MaxLost
  /\ errs \in 0..MaxErr
  /\ floor \in 0..2
  /\ before \in [live : Contents, good : Contents]

Flags ==
  /\ handler \in BOOLEAN
  /\ displaced \in BOOLEAN
  /\ tx \in [preserved : BOOLEAN, archived : BOOLEAN]

Job ==
  /\ pc = "idle" <=> job = "none"
  /\ pc # "idle" => text \in 1..offered
  /\ job \in {"recover", "migrate"} => text \in committed
  /\ job \in {"recover", "migrate"} /\ pc # "finish" => ~Valid(Live)
  /\ job = "commit" /\ pc # "finish" => text \notin committed
  /\ pc = "finish" => text \in committed
  /\ committed \subseteq 1..offered
  /\ output # 0 => output \in committed
  /\ output # 0 => pc = "idle" /\ result \in {"OK", "OK_RECOVERED"}
  /\ \A n \in Kept : file[n].doc # 0 => file[n].doc \in committed

Files ==
  /\ pc \in {"inspect", "stage", "preserve", "archive", "promote"}
       => file["tmp"] = Current(text)
  /\ pc \in {"stage", "preserve", "archive"} => Valid(Live)
  /\ pc \in {"preserve", "archive"} => file["good.tmp"] = Live
  /\ pc = "archive" => Good = Absent
  /\ pc \in Untouched \cup Moving => Live = before.live
  /\ pc \in Untouched => Good = before.good /\ tx = NoMoves
  /\ pc \in Moving => IF tx.preserved THEN Old = before.good
                      ELSE before.good = IF tx.archived THEN Absent ELSE Good
  /\ pc = "restore" => result \in RenameErrors

Copies ==
  /\ CopiesKept
  /\ pc \in Untouched /\ floor = 2 => Valid(Live) /\ Valid(Good)
  /\ pc \in Moving /\ floor = 2 => Valid(Live) /\ tx.preserved /\ Valid(Old)
  /\ pc \in Moving /\ ~Valid(Live) => tx = NoMoves
  /\ pc = "promote" /\ floor = 2 => Valid(Good)
  /\ pc = "finish" => Valid(Live) /\ (floor = 2 => Valid(Good))

IInv == Types /\ Flags /\ Job /\ Files /\ Copies
-----------------------------------------------------------------------------
(* Contents *)

(***************************************************************************)
(* The contents of a file, and which of them are valid.                    *)
(***************************************************************************)
LEMMA ContentFacts ==
  /\ {Absent, Broken} \subseteq Contents
  /\ ~Valid(Absent) /\ ~Valid(Broken) /\ Absent.doc = 0 /\ Broken.doc = 0
  /\ \A d \in 1..MaxDoc : /\ Current(d) \in Contents /\ Valid(Current(d))
                          /\ Current(d).doc = d /\ Current(d) # Absent
  /\ \A c \in Contents : /\ c.doc \in 0..MaxDoc
                         /\ Valid(c) \/ c.class = "legacy" => c.doc # 0
<1>1. {Absent, Broken} \subseteq Contents
  BY DEF Contents
<1>2. ~Valid(Absent) /\ ~Valid(Broken) /\ Absent.doc = 0 /\ Broken.doc = 0
  BY DEF Valid, Absent, Broken
<1>3. ASSUME NEW d \in 1..MaxDoc
      PROVE  /\ Current(d) \in Contents /\ Valid(Current(d))
             /\ Current(d).doc = d /\ Current(d) # Absent
  BY DEF Contents, Valid, Current, Absent
<1>4. ASSUME NEW c \in Contents
      PROVE  c.doc \in 0..MaxDoc /\ (Valid(c) \/ c.class = "legacy" => c.doc # 0)
  <2>1. c \in {Absent, Broken, Newer}
        \/ (\E d \in 1..MaxDoc : c = Current(d) \/ c = Legacy(d))
    BY DEF Contents
  <2>2. CASE c \in {Absent, Broken, Newer}
    BY <2>2, BoundsAssumption DEF Absent, Broken, Newer, Valid
  <2>3. ASSUME NEW d \in 1..MaxDoc, c = Current(d) \/ c = Legacy(d)
        PROVE  c.doc \in 0..MaxDoc /\ c.doc # 0
    BY <2>3, BoundsAssumption DEF Current, Legacy
  <2> QED BY <2>1, <2>2, <2>3
<1> QED BY <1>1, <1>2, <1>3, <1>4

(***************************************************************************)
(* Where a document may come from, and what a call has to keep.            *)
(***************************************************************************)
LEMMA FloorFacts ==
  ASSUME NEW f
  PROVE  /\ Floor(f) \in 0..2
         /\ Floor(f) >= 1 => OneCopy(f)
         /\ Floor(f) = 2 => Valid(f["live"]) /\ Valid(f["good"]) /\ TwoCopies(f)
<1>1. CASE Valid(f["live"]) /\ Valid(f["good"])
  <2>1. OneCopy(f) /\ TwoCopies(f)
    BY <1>1 DEF OneCopy, TwoCopies, Kept
  <2> QED BY <1>1, <2>1 DEF Floor
<1>2. CASE ~(Valid(f["live"]) /\ Valid(f["good"]))
  BY <1>2 DEF Floor
<1> QED BY <1>1, <1>2

(***************************************************************************)
(* The copies are kept as long as the kept files and the floor are.        *)
(***************************************************************************)
LEMMA CopiesFrame ==
  ASSUME CopiesKept, \A n \in Kept : file'[n] = file[n], floor' = floor
  PROVE  CopiesKept'
BY DEF CopiesKept, OneCopy, TwoCopies

(***************************************************************************)
(* A valid live document is one copy, with a valid backup there are two.   *)
(***************************************************************************)
LEMMA CopiesFound ==
  ASSUME Valid(Live), floor \in 0..2, floor = 2 => Valid(Good) \/ Valid(Old)
  PROVE  CopiesKept
<1>1. OneCopy(file)
  BY DEF OneCopy, Kept, Live
<1>2. floor = 2 => TwoCopies(file)
  BY DEF TwoCopies, Kept, Live, Good, Old
<1> QED BY <1>1, <1>2 DEF CopiesKept
-----------------------------------------------------------------------------
(* Types *)

(***************************************************************************)
(* The parts make up the type invariant.                                   *)
(***************************************************************************)
LEMMA Parts == IInv => TypeOK
BY Zenon DEF IInv, Types, Flags, Job, TypeOK

(***************************************************************************)
(* The Boolean variables stay Booleans.                                    *)
(***************************************************************************)
LEMMA FlagsStep == Flags /\ Next => Flags'
<1> SUFFICES ASSUME Flags, Next PROVE Flags'
  OBVIOUS
<1>1. handler' \in BOOLEAN
  BY Zenon DEF Flags, Next, app_config_register_migration_handler, CommitRefused,
     CommitBegins, load_kind, LoadsLive, LiveUnreadable, RecoverFromGood,
     RecoverFromGoodOld, LoadFails, app_config_migrate_stored, MigrateReturns,
     MigrateBegins, app_config_platform_commit, WriteTemporary, InspectLive, StageLive,
     PreserveGood, ArchiveLive, PromoteLive, RestoreGood, FinishCommit, PowerLoss, Rot, Begin
<1>2. displaced' \in BOOLEAN
  BY Zenon DEF Flags, Next, app_config_register_migration_handler, CommitRefused,
     CommitBegins, load_kind, LoadsLive, LiveUnreadable, RecoverFromGood,
     RecoverFromGoodOld, LoadFails, app_config_migrate_stored, MigrateReturns,
     MigrateBegins, app_config_platform_commit, WriteTemporary, InspectLive, StageLive,
     PreserveGood, ArchiveLive, PromoteLive, RestoreGood, FinishCommit, PowerLoss, Rot,
     Begin, history
<1>3. tx' \in [preserved : BOOLEAN, archived : BOOLEAN]
  <2>1. \/ tx' = tx \/ tx' = NoMoves
        \/ tx' = [tx EXCEPT !.preserved = TRUE] \/ tx' = [tx EXCEPT !.archived = TRUE]
    BY Zenon DEF Next, app_config_register_migration_handler, CommitRefused,
       CommitBegins, load_kind, LoadsLive, LiveUnreadable, RecoverFromGood,
       RecoverFromGoodOld, LoadFails, app_config_migrate_stored, MigrateReturns,
       MigrateBegins, app_config_platform_commit, WriteTemporary, InspectLive, StageLive,
       PreserveGood, ArchiveLive, PromoteLive, RestoreGood, FinishCommit, PowerLoss, Rot,
       Begin, Return, Abort, RenameFails, calls
  <2>2. NoMoves \in [preserved : BOOLEAN, archived : BOOLEAN]
    BY Zenon DEF NoMoves
  <2>3. /\ [tx EXCEPT !.preserved = TRUE] \in [preserved : BOOLEAN, archived : BOOLEAN]
        /\ [tx EXCEPT !.archived = TRUE] \in [preserved : BOOLEAN, archived : BOOLEAN]
    BY DEF Flags
  <2> QED BY Zenon, <2>1, <2>2, <2>3 DEF Flags
<1> QED BY <1>1, <1>2, <1>3 DEF Flags
-----------------------------------------------------------------------------
(* The calls *)

\* The invariant without the Boolean variables.
Rest == Types /\ Job /\ Files /\ Copies

(***************************************************************************)
(* A call that returns leaves the store in the invariant if it kept the    *)
(* copies and hands out a committed document only.                         *)
(***************************************************************************)
LEMMA ReturnStep ==
  ASSUME Rest, NEW status \in Statuses, NEW doc \in committed \cup {0}, Return(status, doc),
         doc # 0 => status \in {"OK", "OK_RECOVERED"},
         file' \in [Names -> Contents],
         \A n \in Kept : file'[n].doc # 0 => file'[n].doc \in committed,
         UNCHANGED <<committed, offered>>,
         lost' \in 0..MaxLost, errs' \in 0..MaxErr, floor' \in 0..2,
         CopiesKept'
  PROVE  Rest'
<1>1. /\ pc' = "idle" /\ job' = "none" /\ text' = 0 /\ result' = status /\ output' = doc
      /\ before' = Nothing
  BY DEF Return
<1>2. Nothing \in [live : Contents, good : Contents]
  BY ContentFacts DEF Nothing
<1>3. Types'
  BY <1>1, <1>2, BoundsAssumption DEF Rest, Types
<1>4. Job'
  BY <1>1 DEF Rest, Job
<1>5. Files' /\ Copies'
  BY <1>1 DEF Files, Copies, Untouched, Moving
<1> QED BY <1>3, <1>4, <1>5 DEF Rest

(***************************************************************************)
(* A commit begins with all copies in place.                               *)
(***************************************************************************)
LEMMA BeginStep ==
  ASSUME Rest, NEW purpose \in {"commit", "recover", "migrate"}, NEW d, Begin(purpose, d),
         offered' \in offered..MaxDoc, d \in 1..offered',
         purpose = "commit" => d \notin committed,
         purpose # "commit" => d \in committed /\ ~Valid(Live),
         committed' = committed, lost' \in 0..MaxLost, errs' = errs
  PROVE  Rest'
<1>1. /\ pc' = "write" /\ job' = purpose /\ text' = d /\ tx' = NoMoves /\ result' = "NONE"
      /\ output' = 0 /\ before' = [live |-> Live, good |-> Good]
      /\ floor' = Floor(file) /\ file' = file
  BY Zenon DEF Begin, Live, Good
<1>2. Live \in Contents /\ Good \in Contents
  BY DEF Rest, Types, Live, Good, Names
<1>3. Types'
  BY <1>1, <1>2, FloorFacts, BoundsAssumption DEF Rest, Types, Statuses
<1>4. Job'
  BY <1>1 DEF Rest, Types, Job, Live
<1>5. Files'
  BY <1>1 DEF Files, Untouched, Moving, Live, Good
<1>6. CopiesKept'
  BY <1>1, FloorFacts DEF CopiesKept
<1>7. Copies'
  BY <1>1, <1>6, FloorFacts DEF Copies, Untouched, Moving, Live, Good
<1> QED BY <1>3, <1>4, <1>5, <1>7 DEF Rest

(***************************************************************************)
(* A call that returns at once hands out a committed document only; one    *)
(* that commits begins with all copies in place.                           *)
(***************************************************************************)
LEMMA CallStep ==
  ASSUME Rest, \/ app_config_register_migration_handler \/ CommitRefused \/ CommitBegins
               \/ load_kind \/ app_config_migrate_stored
  PROVE  Rest'
<1>0. /\ Types /\ Job /\ CopiesKept /\ Live \in Contents /\ Good \in Contents
      /\ Old \in Contents
  BY DEF Rest, Copies, Types, Live, Good, Old, Names
<1>1. ASSUME NEW status \in Statuses, NEW doc \in committed \cup {0}, Return(status, doc),
             doc # 0 => status \in {"OK", "OK_RECOVERED"}, UNCHANGED <<file, history>>
      PROVE  Rest'
  <2>1. CopiesKept'
    BY <1>0, <1>1, CopiesFrame DEF history
  <2> QED BY <1>0, <1>1, <2>1, ReturnStep DEF history, Types, Job
<1>2. CASE app_config_register_migration_handler
  <2>1. /\ UNCHANGED <<file, pc, job, text, tx, result, output, before>>
        /\ UNCHANGED <<committed, offered, lost, errs, floor>>
    BY Zenon, <1>2 DEF app_config_register_migration_handler, calls, history
  <2>2. CopiesKept'
    BY <1>0, <2>1, CopiesFrame
  <2> QED BY <2>1, <2>2 DEF Rest, Types, Job, Files, Copies, Live, Good, Old, Idle
<1>3. CASE CommitRefused
  BY <1>1, <1>3 DEF CommitRefused, Statuses, Failures
<1>4. CASE CommitBegins
  <2>1. /\ Begin("commit", offered + 1) /\ offered' = offered + 1 /\ offered < MaxDoc
        /\ UNCHANGED <<committed, lost, errs>>
    BY Zenon, <1>4 DEF CommitBegins
  <2>2. offered + 1 \notin committed
    BY <1>0 DEF Types, Job
  <2> QED BY <1>0, <2>1, <2>2, BeginStep, BoundsAssumption DEF Types
<1>5. CASE LoadsLive
  <2>1. Return("OK", Live.doc) /\ UNCHANGED <<file, history>> /\ Live.doc \in committed \cup {0}
    BY <1>0, <1>5 DEF LoadsLive, Live, Job, Kept
  <2> QED BY <1>1, <2>1 DEF Statuses
<1>6. CASE LiveUnreadable
  BY <1>1, <1>6 DEF LiveUnreadable, Statuses, Failures
<1>7. ASSUME NEW n \in {"good", "good.old"}, Loadable(file[n]), ~Valid(Live),
             Begin("recover", file[n].doc), UNCHANGED <<committed, offered, errs>>,
             lost' \in 0..MaxLost
      PROVE  Rest'
  <2>1. file[n] \in Contents /\ file[n].doc # 0
    BY <1>0, <1>7, ContentFacts DEF Types, Names, Loadable
  <2>2. file[n].doc \in committed /\ file[n].doc \in 1..offered
    BY <1>0, <2>1 DEF Job, Kept
  <2> QED BY <1>0, <1>7, <2>2, BeginStep DEF Types
<1>8. CASE RecoverFromGood
  BY <1>0, <1>7, <1>8 DEF RecoverFromGood, Rejected, Live, Types
<1>9. CASE RecoverFromGoodOld
  BY <1>0, <1>7, <1>9, BoundsAssumption DEF RecoverFromGoodOld, Rejected, Live, Types
<1>10. StatusOf[Live.class] \in Statuses
  <2>1. Live.class \in {"absent", "broken", "newer", "legacy", "current"}
    BY <1>0 DEF Contents, Absent, Broken, Newer, Current, Legacy
  <2> QED BY <2>1 DEF StatusOf, Statuses, Failures
<1>11. CASE LoadFails
  BY <1>1, <1>10, <1>11 DEF LoadFails, Live
<1>12. CASE MigrateReturns
  BY <1>1, <1>10, <1>12 DEF MigrateReturns, Live, Statuses, Failures
<1>13. CASE MigrateBegins
  <2>1. /\ Begin("migrate", Live.doc) /\ Live.class = "legacy"
        /\ UNCHANGED <<committed, offered, lost, errs>>
    BY Zenon, <1>13 DEF MigrateBegins, Live
  <2>2. Live.doc # 0 /\ ~Valid(Live)
    BY <1>0, <2>1, ContentFacts DEF Valid
  <2>3. Live.doc \in committed /\ Live.doc \in 1..offered
    BY <1>0, <2>2 DEF Job, Kept, Live
  <2> QED BY <1>0, <2>1, <2>2, <2>3, BeginStep DEF Types
<1> QED BY <1>2, <1>3, <1>4, <1>5, <1>6, <1>8, <1>9, <1>11, <1>12, <1>13
        DEF load_kind, app_config_migrate_stored

(***************************************************************************)
(* Neither a power loss nor a rotting copy breaks the invariant.           *)
(***************************************************************************)
LEMMA WorldStep ==
  ASSUME Rest, PowerLoss \/ Rot
  PROVE  Rest'
<1>0. /\ Types /\ Job /\ CopiesKept /\ {Absent, Broken} \subseteq Contents
      /\ Absent.doc = 0 /\ Broken.doc = 0
  BY ContentFacts DEF Rest, Copies
<1>1. CASE PowerLoss
  <2>1. /\ Return("POWER_LOSS", 0) /\ UNCHANGED history
        /\ \/ file' = file
           \/ file' = [file EXCEPT !["tmp"] = Broken]
           \/ file' = [file EXCEPT !["good.tmp"] = Broken]
    BY Zenon, <1>1 DEF PowerLoss
  <2>2. file' \in [Names -> Contents] /\ \A n \in Kept : file'[n] = file[n]
    BY <1>0, <2>1 DEF Types, Names, Kept
  <2>3. CopiesKept'
    BY <1>0, <2>1, <2>2, CopiesFrame DEF history
  <2> QED BY <1>0, <2>1, <2>2, <2>3, ReturnStep DEF history, Types, Job, Statuses
<1>2. CASE Rot
  <2>1. PICK n \in Kept, c \in {Absent, Broken} : file' = [file EXCEPT ![n] = c]
    BY <1>2 DEF Rot
  <2>2. /\ lost < MaxLost /\ lost' = lost + 1 /\ floor' = Floor(file')
        /\ result' = "NONE" /\ output' = 0 /\ pc = "idle"
        /\ UNCHANGED <<pc, job, text, tx, before, committed, offered, errs>>
    BY Zenon, <1>2 DEF Rot, Idle
  <2>3. file' \in [Names -> Contents]
    BY <1>0, <2>1 DEF Types, Names, Kept
  <2>4. \A m \in Kept : file'[m] = file[m] \/ file'[m].doc = 0
    BY <1>0, <2>1 DEF Types, Names, Kept
  <2>5. Types'
    BY <1>0, <2>2, <2>3, FloorFacts, BoundsAssumption DEF Types, Statuses
  <2>6. Job'
    BY <1>0, <2>2, <2>4 DEF Job
  <2>7. CopiesKept'
    BY <2>2, FloorFacts DEF CopiesKept
  <2>8. Files' /\ Copies'
    BY <2>2, <2>7 DEF Files, Copies, Untouched, Moving
  <2> QED BY <2>5, <2>6, <2>8 DEF Rest
<1> QED BY <1>1, <1>2
-----------------------------------------------------------------------------
(* The steps of the commit *)

(***************************************************************************)
(* A commit that is given up leaves the invariant in place, as long as the *)
(* kept files hold committed documents and enough copies.                  *)
(***************************************************************************)
LEMMA AbortStep ==
  ASSUME Rest, NEW status \in Statuses, NEW f \in [Names -> Contents], Abort(status, f),
         \A n \in Kept : f[n].doc # 0 => f[n].doc \in committed,
         UNCHANGED <<committed, offered, lost, floor>>, errs' \in 0..MaxErr,
         (floor >= 1 => OneCopy(f)) /\ (floor = 2 => TwoCopies(f))
  PROVE  Rest'
<1>1. Return(status, 0) /\ file' = [f EXCEPT !["tmp"] = Absent, !["good.tmp"] = Absent]
  BY Zenon DEF Abort
<1>2. file' \in [Names -> Contents] /\ \A n \in Kept : file'[n] = f[n]
  BY <1>1, ContentFacts DEF Names, Kept
<1>3. CopiesKept'
  BY <1>2 DEF CopiesKept, OneCopy, TwoCopies
<1> QED BY <1>1, <1>2, <1>3, ReturnStep DEF Rest, Types

(***************************************************************************)
(* The same, with the kept files as they are.                              *)
(***************************************************************************)
LEMMA GiveUp ==
  ASSUME Rest, NEW status \in Statuses, Abort(status, file), StepFails,
         UNCHANGED <<committed, offered, lost, floor>>
  PROVE  Rest'
<1>1. errs' \in 0..MaxErr
  BY BoundsAssumption DEF Rest, Types, StepFails
<1> QED BY <1>1, AbortStep DEF Rest, Types, Job, Copies, CopiesKept

(***************************************************************************)
(* A step that fails after the backups may have moved.                     *)
(***************************************************************************)
LEMMA RestoreBegins ==
  ASSUME Rest, RenameFails, pc \in {"archive", "promote"}, UNCHANGED <<offered, lost, floor>>
  PROVE  Rest'
<1>1. /\ UNCHANGED <<file, job, text, tx, output, before, committed>>
      /\ pc' = "restore" /\ result' \in RenameErrors
      /\ errs < MaxErr /\ errs' = errs + 1
  BY Zenon DEF RenameFails, StepFails
<1>2. CopiesKept'
  BY <1>1, CopiesFrame DEF Rest, Copies
<1>3. Types'
  BY <1>1, BoundsAssumption DEF Rest, Types, Statuses, Failures, RenameErrors
<1>4. Job'
  BY <1>1 DEF Rest, Job, Live
<1>5. Files' /\ Copies'
  BY <1>1, <1>2 DEF Rest, Files, Copies, Untouched, Moving, Live, Good, Old
<1> QED BY <1>3, <1>4, <1>5 DEF Rest

(***************************************************************************)
(* A step that leaves the kept files alone.                                *)
(***************************************************************************)
LEMMA StagingStep ==
  ASSUME Rest, NEW f \in [Names -> Contents], NEW step, Proceed(f, step), pc \in Untouched,
         step \in {"inspect", "stage", "preserve", "promote"},
         UNCHANGED <<tx, committed, offered, lost, floor>>,
         \A n \in Kept : f[n] = file[n],
         f["tmp"] = Current(text),
         step \in {"stage", "preserve"} => Valid(Live), step = "promote" => ~Valid(Live),
         step = "preserve" => f["good.tmp"] = Live
  PROVE  Rest'
<1>1. /\ file' = f /\ pc' = step
      /\ UNCHANGED <<job, text, result, output, before, errs>>
  BY Zenon DEF Proceed
<1>2. Live' = Live /\ Good' = Good /\ Old' = Old
  BY <1>1 DEF Live, Good, Old, Kept
<1>3. CopiesKept'
  BY <1>1, CopiesFrame DEF Rest, Copies
<1>4. Types'
  BY <1>1 DEF Rest, Types
<1>5. Job'
  BY <1>1, <1>2 DEF Rest, Job, Untouched
<1>6. Files'
  <2>1. ~NoMoves.preserved /\ ~NoMoves.archived
    BY DEF NoMoves
  <2>2. tx = NoMoves /\ Live = before.live /\ Good = before.good
    BY DEF Rest, Files
  <2> QED BY <1>1, <1>2, <2>1, <2>2 DEF Files, Untouched, Moving
<1>7. Copies'
  <2>1. floor = 2 => Valid(Live) /\ Valid(Good)
    BY DEF Rest, Copies
  <2>2. tx = NoMoves
    BY DEF Rest, Files
  <2> QED BY <1>1, <1>2, <1>3, <2>1, <2>2 DEF Copies, Untouched, Moving
<1> QED BY <1>4, <1>5, <1>6, <1>7 DEF Rest

(***************************************************************************)
(* The backup moves aside while the live document is the copy that stays.  *)
(***************************************************************************)
LEMMA PreserveStep ==
  ASSUME Rest, PreserveGood
  PROVE  Rest'
<1>0. /\ Types /\ pc = "preserve" /\ Valid(Live) /\ file["good.tmp"] = Live
      /\ file["tmp"] = Current(text) /\ tx = NoMoves /\ Live = before.live
      /\ Good = before.good /\ (floor = 2 => Valid(Good)) /\ CopiesKept
      /\ UNCHANGED <<committed, offered, lost, floor>>
      /\ ~Valid(Absent) /\ Absent \in Contents /\ Absent.doc = 0
  BY ContentFacts DEF Rest, Files, Copies, Untouched, PreserveGood
<1>1. CASE Good = Absent /\ Proceed(file, "archive") /\ UNCHANGED tx
  <2>1. /\ file' = file /\ pc' = "archive" /\ tx' = NoMoves /\ floor # 2
        /\ UNCHANGED <<job, text, result, output, before, errs>>
    BY <1>0, <1>1 DEF Proceed
  <2>2. CopiesKept'
    BY <1>0, <2>1, CopiesFrame
  <2>3. Types'
    BY <1>0, <2>1 DEF Types
  <2>6. Job'
    BY <1>0, <2>1 DEF Rest, Job, Live
  <2>4. Files'
    <3>1. ~tx'.preserved /\ ~tx'.archived
      BY <2>1 DEF NoMoves
    <3>2. Live' = Live /\ Good' = Good
      BY <2>1 DEF Live, Good
    <3> QED BY <1>0, <1>1, <2>1, <3>1, <3>2 DEF Files, Untouched, Moving
  <2>5. Copies'
    BY <1>0, <2>1, <2>2 DEF Copies, Untouched, Moving, Live
  <2> QED BY <2>3, <2>4, <2>5, <2>6 DEF Rest
<1>2. CASE /\ Good # Absent
           /\ Proceed([file EXCEPT !["good.old"] = Good, !["good"] = Absent], "archive")
           /\ tx' = [tx EXCEPT !.preserved = TRUE]
  <2>1. /\ file' = [file EXCEPT !["good.old"] = Good, !["good"] = Absent]
        /\ pc' = "archive"
        /\ UNCHANGED <<job, text, result, output, before, errs>>
    BY Zenon, <1>2 DEF Proceed
  <2>2. /\ file' \in [Names -> Contents] /\ Live' = Live /\ Good' = Absent /\ Old' = Good
        /\ file'["tmp"] = file["tmp"] /\ file'["good.tmp"] = file["good.tmp"]
    BY <1>0, <2>1 DEF Types, Names, Live, Good, Old
  <2>3. tx'.preserved
    BY <1>0, <1>2 DEF NoMoves
  <2>4. Types'
    BY <1>0, <2>1, <2>2 DEF Types
  <2>5. CopiesKept'
    BY <1>0, <2>2, <2>4, CopiesFound DEF Types, CopiesKept, OneCopy, TwoCopies, Kept, Live, Good, Old
  <2>6. \A n \in Kept : file'[n].doc # 0 => file'[n].doc \in committed
    BY <1>0, <2>2 DEF Rest, Job, Kept, Live, Good, Old
  <2>7. Job'
    BY <1>0, <2>1, <2>2, <2>6 DEF Rest, Job
  <2>8. Files'
    BY <1>0, <2>1, <2>2, <2>3 DEF Files, Untouched, Moving
  <2>9. Copies'
    BY <1>0, <2>1, <2>2, <2>3, <2>5 DEF Copies, Untouched, Moving
  <2> QED BY <2>4, <2>7, <2>8, <2>9 DEF Rest
<1>3. CASE StepFails /\ \E s \in RenameErrors : Abort(s, file)
  BY <1>0, <1>3, GiveUp DEF RenameErrors, Statuses, Failures
<1> QED BY <1>1, <1>2, <1>3 DEF PreserveGood, Good

(***************************************************************************)
(* The live document becomes its own backup.                               *)
(***************************************************************************)
LEMMA ArchiveStep ==
  ASSUME Flags, Rest, ArchiveLive
  PROVE  Rest'
<1>0. /\ Types /\ pc = "archive" /\ Valid(Live) /\ file["good.tmp"] = Live /\ Good = Absent
      /\ file["tmp"] = Current(text) /\ Live = before.live
      /\ (IF tx.preserved THEN Old = before.good ELSE before.good = Absent)
      /\ (floor = 2 => tx.preserved /\ Valid(Old))
      /\ UNCHANGED <<offered, lost, floor>> /\ Absent \in Contents
  BY ContentFacts DEF Rest, Files, Copies, Moving, ArchiveLive
<1>1. CASE /\ Proceed([file EXCEPT !["good"] = file["good.tmp"], !["good.tmp"] = Absent],
                      "promote")
           /\ tx' = [tx EXCEPT !.archived = TRUE]
           /\ UNCHANGED committed
  <2>1. /\ file' = [file EXCEPT !["good"] = Live, !["good.tmp"] = Absent]
        /\ pc' = "promote"
        /\ UNCHANGED <<job, text, result, output, before, errs, committed>>
    BY Zenon, <1>0, <1>1 DEF Proceed
  <2>2. /\ file' \in [Names -> Contents] /\ Live' = Live /\ Good' = Live /\ Old' = Old
        /\ file'["tmp"] = file["tmp"]
    BY <1>0, <2>1 DEF Types, Names, Live, Good, Old
  <2>3. (tx'.preserved <=> tx.preserved) /\ tx'.archived
    BY <1>1 DEF Flags
  <2>4. Types'
    BY <1>0, <2>1, <2>2 DEF Types
  <2>5. CopiesKept'
    BY <1>0, <2>2, <2>4 DEF Types, CopiesKept, OneCopy, TwoCopies, Kept, Live, Good
  <2>6. \A n \in Kept : file'[n].doc # 0 => file'[n].doc \in committed
    BY <1>0, <2>2 DEF Rest, Job, Kept, Live, Good, Old
  <2>7. Job'
    BY <1>0, <2>1, <2>2, <2>6 DEF Rest, Job
  <2>8. Files'
    BY <1>0, <2>1, <2>2, <2>3 DEF Files, Untouched, Moving
  <2>9. Copies'
    BY <1>0, <2>1, <2>2, <2>3, <2>5 DEF Copies, Untouched, Moving
  <2> QED BY <2>4, <2>7, <2>8, <2>9 DEF Rest
<1>2. CASE RenameFails
  BY <1>0, <1>2, RestoreBegins
<1> QED BY <1>1, <1>2 DEF ArchiveLive

(***************************************************************************)
(* The new document replaces the live one in one step; it is valid, so a   *)
(* copy stays even where the old one was not.                              *)
(***************************************************************************)
LEMMA PromoteStep ==
  ASSUME Rest, PromoteLive
  PROVE  Rest'
<1>0. /\ Types /\ Job /\ pc = "promote" /\ file["tmp"] = Current(text)
      /\ (floor = 2 => Valid(Good)) /\ text \in 1..offered /\ text \in 1..MaxDoc
      /\ Valid(Current(text)) /\ Current(text) \in Contents /\ Current(text).doc = text
      /\ Absent \in Contents /\ Valid(Good) \in BOOLEAN
      /\ UNCHANGED <<offered, lost, floor>>
  BY ContentFacts DEF Rest, Types, Job, Files, Copies, PromoteLive, Valid
<1>1. CASE /\ Proceed([file EXCEPT !["live"] = file["tmp"], !["tmp"] = Absent], "finish")
           /\ committed' = committed \cup Offered
  <2>1. /\ file' = [file EXCEPT !["live"] = Current(text), !["tmp"] = Absent]
        /\ pc' = "finish" /\ committed' = committed \cup Offered
        /\ UNCHANGED <<job, text, result, output, before, errs>>
    BY Zenon, <1>0, <1>1 DEF Proceed
  <2>2. /\ file' \in [Names -> Contents] /\ Live' = Current(text) /\ Good' = Good
        /\ Old' = Old
    BY <1>0, <2>1 DEF Types, Names, Live, Good, Old
  <2>3. committed' \subseteq committed \cup {text} /\ committed \subseteq committed'
        /\ text \in committed'
    BY <1>0, <2>1 DEF Offered, Types, Job
  <2>4. Types'
    BY <1>0, <2>1, <2>2, <2>3 DEF Types
  <2>5. CopiesKept'
    BY <1>0, <2>2, <2>4 DEF Types, CopiesKept, OneCopy, TwoCopies, Kept, Live, Good
  <2>6. \A n \in Kept : file'[n].doc # 0 => file'[n].doc \in committed'
    BY <1>0, <2>2, <2>3 DEF Job, Kept, Live, Good, Old
  <2>7. Job'
    BY <1>0, <2>1, <2>2, <2>3, <2>6 DEF Job
  <2>8. Files' /\ Copies'
    BY <1>0, <2>1, <2>2, <2>5 DEF Files, Copies, Untouched, Moving
  <2> QED BY <2>4, <2>7, <2>8 DEF Rest
<1>2. CASE RenameFails
  BY <1>0, <1>2, RestoreBegins
<1> QED BY <1>1, <1>2 DEF PromoteLive

(***************************************************************************)
(* What the restore puts back.                                             *)
(***************************************************************************)
LEMMA RestoredFacts ==
  ASSUME Rest, pc = "restore"
  PROVE  /\ Restored \in [Names -> Contents]
         /\ \A n \in Kept : Restored[n].doc # 0 => Restored[n].doc \in committed
         /\ (floor >= 1 => OneCopy(Restored)) /\ (floor = 2 => TwoCopies(Restored))
         /\ Restored["live"] = Live
         /\ before.good \in {Absent, Restored["good"], Restored["good.old"]}
<1>0. /\ Types /\ CopiesKept /\ Absent \in Contents /\ Absent.doc = 0
      /\ (IF tx.preserved THEN Old = before.good
          ELSE before.good = IF tx.archived THEN Absent ELSE Good)
      /\ (floor = 2 => Valid(Live) /\ tx.preserved /\ Valid(Old))
      /\ (~Valid(Live) => tx = NoMoves)
      /\ \A n \in Kept : file[n].doc # 0 => file[n].doc \in committed
  BY ContentFacts DEF Rest, Files, Copies, Moving, Job
<1>1. ~NoMoves.preserved /\ ~NoMoves.archived
  BY DEF NoMoves
<1>2. CASE tx.preserved
  <2>1. Restored = [file EXCEPT !["good"] = Old, !["good.old"] = Absent] /\ Valid(Live)
    BY <1>0, <1>1, <1>2 DEF Restored, Old
  <2>2. /\ Restored \in [Names -> Contents] /\ Restored["live"] = Live
        /\ Restored["good"] = Old /\ Restored["good.old"] = Absent
    BY <1>0, <2>1 DEF Types, Names, Live, Old
  <2>3. OneCopy(Restored) /\ (Valid(Old) => TwoCopies(Restored))
    BY <2>1, <2>2 DEF OneCopy, TwoCopies, Kept
  <2> QED BY <1>0, <1>2, <2>2, <2>3 DEF Kept, Live, Old
<1>3. CASE ~tx.preserved /\ tx.archived
  <2>1. Restored = [file EXCEPT !["good"] = Absent] /\ Valid(Live)
    BY <1>0, <1>1, <1>3 DEF Restored
  <2>2. /\ Restored \in [Names -> Contents] /\ Restored["live"] = Live
        /\ Restored["good"] = Absent /\ Restored["good.old"] = Old
    BY <1>0, <2>1 DEF Types, Names, Live, Old
  <2>3. OneCopy(Restored)
    BY <2>1, <2>2 DEF OneCopy, Kept
  <2> QED BY <1>0, <1>3, <2>2, <2>3 DEF Kept, Live, Old
<1>4. CASE ~tx.preserved /\ ~tx.archived
  <2>1. Restored = file
    BY <1>4 DEF Restored
  <2> QED BY <1>0, <1>4, <2>1 DEF CopiesKept, Types, Live, Good
<1> QED BY <1>2, <1>3, <1>4

(***************************************************************************)
(* Putting the backups back, or failing to, keeps the copies.              *)
(***************************************************************************)
LEMMA RestoreStep ==
  ASSUME Rest, RestoreGood
  PROVE  Rest'
<1>1. /\ pc = "restore" /\ result \in Statuses
      /\ UNCHANGED <<committed, offered, lost, floor>>
      /\ \/ Abort(result, Restored) /\ errs' = errs
         \/ StepFails /\ Abort(result, file)
  BY DEF RestoreGood, Rest, Types
<1>2. CASE Abort(result, Restored) /\ errs' = errs
  BY <1>1, <1>2, RestoredFacts, AbortStep DEF Rest, Types
<1>3. CASE StepFails /\ Abort(result, file)
  BY <1>1, <1>3, GiveUp
<1> QED BY <1>1, <1>2, <1>3

(***************************************************************************)
(* The oldest backup is removed only after the two newer files are in place.*)
(***************************************************************************)
LEMMA FinishStep ==
  ASSUME Rest, FinishCommit
  PROVE  Rest'
<1>0. /\ Types /\ Job /\ pc = "finish" /\ Valid(Live) /\ (floor = 2 => Valid(Good))
      /\ text \in committed /\ Absent \in Contents /\ Absent.doc = 0
  BY ContentFacts DEF Rest, Job, Copies, FinishCommit
<1>1. /\ UNCHANGED <<committed, offered, lost, floor>>
      /\ (file' = [file EXCEPT !["good.old"] = Absent] /\ errs' = errs)
         \/ (StepFails /\ file' = file)
      /\ Return("OK_RECOVERED", text) \/ Return("OK", 0)
  BY Zenon DEF FinishCommit
<1>2. errs' \in 0..MaxErr
  BY <1>0, <1>1, BoundsAssumption DEF Types, StepFails
<1>3. /\ file' \in [Names -> Contents] /\ Live' = Live /\ Good' = Good
      /\ Old' \in {Old, Absent}
  BY <1>0, <1>1 DEF Types, Names, Live, Good, Old
<1>4. CopiesKept'
  BY <1>0, <1>1, <1>3 DEF Types, CopiesKept, OneCopy, TwoCopies, Kept, Live, Good
<1>5. \A n \in Kept : file'[n].doc # 0 => file'[n].doc \in committed
  BY <1>0, <1>3 DEF Job, Kept, Live, Good, Old
<1> QED BY <1>0, <1>1, <1>2, <1>3, <1>4, <1>5, ReturnStep DEF Types, Statuses

(***************************************************************************)
(* Every step of a commit keeps the invariant.                             *)
(***************************************************************************)
LEMMA CommitStep ==
  ASSUME Flags, Rest, app_config_platform_commit
  PROVE  Rest'
<1>0. /\ Types /\ Job /\ Files /\ {"IO"} \subseteq Statuses
      /\ \A d \in 1..MaxDoc : Current(d) \in Contents
  BY ContentFacts DEF Rest, Statuses, Failures
<1>1. CASE WriteTemporary
  <2> DEFINE f == [file EXCEPT !["tmp"] = Current(text)]
  <2>1. CASE Proceed(f, "inspect") /\ UNCHANGED tx
    <3>1. pc = "write" /\ text \in 1..MaxDoc /\ UNCHANGED <<committed, offered, lost, floor>>
      BY <1>0, <1>1 DEF WriteTemporary, Types, Job
    <3>2. /\ f \in [Names -> Contents] /\ f["tmp"] = Current(text)
          /\ \A n \in Kept : f[n] = file[n]
      BY <1>0, <3>1 DEF Types, Names, Kept
    <3> HIDE DEF f
    <3> QED BY <2>1, <3>1, <3>2, StagingStep DEF Untouched
  <2>2. CASE StepFails /\ Abort("IO", file)
    BY <1>0, <1>1, <2>2, GiveUp DEF WriteTemporary
  <2> QED BY <1>1, <2>1, <2>2 DEF WriteTemporary
<1>2. CASE InspectLive
  <2>1. CASE Proceed(file, IF Valid(Live) THEN "stage" ELSE "promote") /\ UNCHANGED tx
    <3>1. pc = "inspect" /\ UNCHANGED <<committed, offered, lost, floor>>
      BY <1>2 DEF InspectLive
    <3>2. file \in [Names -> Contents] /\ file["tmp"] = Current(text)
      BY <1>0, <3>1 DEF Types, Files
    <3> QED BY <2>1, <3>1, <3>2, StagingStep DEF Untouched
  <2>2. CASE StepFails /\ Abort("IO", file)
    BY <1>0, <1>2, <2>2, GiveUp DEF InspectLive
  <2> QED BY <1>2, <2>1, <2>2 DEF InspectLive, Live
<1>3. CASE StageLive
  <2>1. CASE Proceed([file EXCEPT !["good.tmp"] = Live], "preserve") /\ UNCHANGED tx
    <3>1. pc = "stage" /\ UNCHANGED <<committed, offered, lost, floor>>
      BY <1>3 DEF StageLive
    <3>2. file["tmp"] = Current(text) /\ Valid(Live) /\ Live \in Contents
      BY <1>0, <3>1 DEF Types, Files, Live, Names
    <3>3. /\ [file EXCEPT !["good.tmp"] = Live] \in [Names -> Contents]
          /\ \A n \in Kept : [file EXCEPT !["good.tmp"] = Live][n] = file[n]
          /\ [file EXCEPT !["good.tmp"] = Live]["tmp"] = file["tmp"]
          /\ [file EXCEPT !["good.tmp"] = Live]["good.tmp"] = Live
      BY <1>0, <3>2 DEF Types, Names, Kept
    <3> QED BY <2>1, <3>1, <3>2, <3>3, StagingStep DEF Untouched
  <2>2. CASE StepFails /\ Abort("IO", file)
    BY <1>0, <1>3, <2>2, GiveUp DEF StageLive
  <2> QED BY <1>3, <2>1, <2>2 DEF StageLive, Live
<1> QED BY <1>1, <1>2, <1>3, PreserveStep, ArchiveStep, PromoteStep, RestoreStep, FinishStep
        DEF app_config_platform_commit
-----------------------------------------------------------------------------
(* The invariant *)

(***************************************************************************)
(* Whatever documents the flash holds at first, the store starts in the    *)
(* invariant.                                                              *)
(***************************************************************************)
LEMMA InitIInv == Init => IInv
<1> SUFFICES ASSUME Init PROVE IInv
  OBVIOUS
<1>1. PICK l \in {Absent, Broken, Newer, Current(2), Legacy(2)},
           g \in {Absent, Current(1), Legacy(1)} :
        file = [n \in Names |-> CASE n = "live" -> l [] n = "good" -> g [] OTHER -> Absent]
  BY Zenon DEF Init
<1>2. l \in Contents /\ g \in Contents /\ Absent \in Contents
  BY BoundsAssumption DEF Contents
<1>3. file \in [Names -> Contents] /\ Live = l /\ Good = g /\ Old = Absent
  BY <1>1, <1>2 DEF Names, Live, Good, Old
<1>4. /\ pc = "idle" /\ job = "none" /\ text = 0 /\ result = "NONE" /\ output = 0
      /\ committed = Docs(file) /\ offered = 2 /\ lost = 0 /\ errs = 0
      /\ floor = Floor(file) /\ before = Nothing
  BY DEF Init
<1>5. l.doc \in 0..2 /\ g.doc \in 0..2 /\ Absent.doc = 0
  BY DEF Absent, Broken, Newer, Current, Legacy
<1>6. Docs(file) = {l.doc, g.doc, Absent.doc} \ {0}
  BY <1>3 DEF Docs, Kept, Live, Good, Old
<1>7. Docs(file) \subseteq 1..2
  BY <1>5, <1>6
<1>8. Types
  <2>1. Nothing \in [live : Contents, good : Contents]
    BY <1>2 DEF Nothing
  <2>2. 2 \in 0..MaxDoc /\ 1..2 \subseteq 1..MaxDoc /\ 0 \in 0..MaxLost /\ 0 \in 0..MaxErr
    BY BoundsAssumption
  <2>3. floor \in 0..2
    BY <1>4, FloorFacts
  <2>4. committed \subseteq 1..MaxDoc
    BY <1>4, <1>7, <2>2
  <2>5. /\ pc = "idle" /\ job = "none" /\ text \in 0..MaxDoc /\ output \in 0..MaxDoc
        /\ offered \in 0..MaxDoc /\ lost \in 0..MaxLost /\ errs \in 0..MaxErr
    BY <1>4, BoundsAssumption
  <2>6. result \in Statuses /\ before \in [live : Contents, good : Contents]
    BY <1>4, <2>1 DEF Statuses
  <2> QED BY <1>3, <2>3, <2>4, <2>5, <2>6 DEF Types
<1>9. Job
  <2>1. \A n \in Kept : file[n].doc # 0 => file[n].doc \in committed
    BY <1>4 DEF Docs
  <2> QED BY <1>4, <1>7, <2>1 DEF Job
<1>10. CopiesKept
  BY <1>4, FloorFacts DEF CopiesKept
<1>11. Files /\ Copies
  BY <1>4, <1>10 DEF Files, Copies, Untouched, Moving
<1>12. Flags
  <2>1. NoMoves \in [preserved : BOOLEAN, archived : BOOLEAN]
    BY Zenon DEF NoMoves
  <2>2. handler \in BOOLEAN /\ displaced \in BOOLEAN /\ tx = NoMoves
    BY Zenon DEF Init
  <2> QED BY Zenon, <2>1, <2>2 DEF Flags
<1> QED BY <1>8, <1>9, <1>11, <1>12 DEF IInv

(***************************************************************************)
(* Every call, every step of a commit, every power loss and every rotting  *)
(* copy keeps it.                                                          *)
(***************************************************************************)
LEMMA NextIInv == IInv /\ [Next]_vars => IInv'
<1> SUFFICES ASSUME IInv, [Next]_vars PROVE IInv'
  OBVIOUS
<1>0. Flags /\ Rest
  BY DEF IInv, Rest
<1>1. CASE Next
  <2>1. Rest'
    BY <1>0, <1>1, CallStep, CommitStep, WorldStep DEF Next
  <2>2. Flags'
    BY <1>0, <1>1, FlagsStep
  <2> QED BY <2>1, <2>2 DEF Rest, IInv
<1>2. CASE UNCHANGED vars
  <2>1. /\ UNCHANGED <<file, handler, pc, job, text, tx, result, output, before>>
        /\ UNCHANGED <<committed, offered, lost, errs, floor, displaced>>
    BY <1>2 DEF vars, calls, history
  <2>2. Types' /\ Flags'
    BY Zenon, <2>1 DEF IInv, Types, Flags
  <2>3. Job' /\ Files'
    BY Zenon, <2>1 DEF IInv, Job, Files, Live, Good, Old
  <2>4. Copies'
    BY <1>0, <2>1, CopiesFrame DEF Rest, Copies, Live, Good, Old
  <2> QED BY <2>2, <2>3, <2>4 DEF IInv
<1> QED BY <1>1, <1>2

(***************************************************************************)
(* The inductive invariant of the configuration store.                     *)
(***************************************************************************)
THEOREM Invariant == Spec => []IInv
BY InitIInv, NextIInv, PTL DEF Spec

(***************************************************************************)
(* Every variable stays in its type, for all bounds, and a call that fails *)
(* has not written to the document of its caller.                          *)
(***************************************************************************)
THEOREM TypeCorrect == Spec => []TypeOK
BY Invariant, Parts, PTL

(***************************************************************************)
(* A load hands out only documents that have been live.                    *)
(***************************************************************************)
THEOREM OnlyCommittedIsLoaded == Spec => []LoadedWasCommitted
<1>1. IInv => LoadedWasCommitted
  BY DEF IInv, Job, LoadedWasCommitted
<1> QED BY <1>1, Invariant, PTL

(***************************************************************************)
(* No commit and no recovery goes through a moment with fewer copies than  *)
(* it began with, wherever it fails or the power goes.                     *)
(***************************************************************************)
THEOREM NoCopyIsRisked == Spec => []CopiesKept
<1>1. IInv => CopiesKept
  BY DEF IInv, Copies
<1> QED BY <1>1, Invariant, PTL

(***************************************************************************)
(* A commit that reports a failure has left the live document and its      *)
(* last-known-good copy on the flash.                                      *)
(***************************************************************************)
THEOREM FailureLeavesBoth == Spec => FailedCommitLeavesBoth
<1>1. ASSUME IInv, [Next]_vars, pc # "idle", result' \in Failures, pc' = "idle"
      PROVE  /\ file'["live"] = before.live
             /\ before.good \in {Absent, file'["good"], file'["good.old"]}
  <2>0. Rest /\ Types /\ Files
    BY <1>1 DEF IInv, Rest
  <2>1. ASSUME NEW s, Abort(s, file), pc \in Untouched
        PROVE  file'["live"] = before.live /\ before.good = file'["good"]
    <3>1. file' = [file EXCEPT !["tmp"] = Absent, !["good.tmp"] = Absent]
      BY Zenon, <2>1 DEF Abort
    <3>2. file'["live"] = Live /\ file'["good"] = Good
      BY <2>0, <3>1 DEF Types, Names, Live, Good
    <3> QED BY <2>0, <2>1, <3>2 DEF Files
  <2>2. CASE WriteTemporary \/ InspectLive \/ StageLive
    <3>1. Abort("IO", file) /\ pc \in Untouched
      BY <1>1, <2>2 DEF WriteTemporary, InspectLive, StageLive, Proceed, Untouched
    <3> QED BY <2>1, <3>1
  <2>3. CASE PreserveGood
    <3>1. (\E s \in RenameErrors : Abort(s, file)) /\ pc \in Untouched
      BY <1>1, <2>3 DEF PreserveGood, Proceed, Untouched
    <3> QED BY <2>1, <3>1
  <2>4. CASE RestoreGood
    <3>1. pc = "restore" /\ (Abort(result, Restored) \/ Abort(result, file))
      BY <2>4 DEF RestoreGood
    <3>2. CASE Abort(result, Restored)
      <4>1. file' = [Restored EXCEPT !["tmp"] = Absent, !["good.tmp"] = Absent]
        BY Zenon, <3>2 DEF Abort
      <4>2. /\ file'["live"] = Restored["live"] /\ file'["good"] = Restored["good"]
            /\ file'["good.old"] = Restored["good.old"]
        BY <2>0, <3>1, <4>1, RestoredFacts DEF Names
      <4> QED BY <2>0, <3>1, <4>2, RestoredFacts DEF Files, Moving
    <3>3. CASE Abort(result, file)
      <4>1. file' = [file EXCEPT !["tmp"] = Absent, !["good.tmp"] = Absent]
        BY Zenon, <3>3 DEF Abort
      <4>2. file'["live"] = Live /\ file'["good"] = Good /\ file'["good.old"] = Old
        BY <2>0, <4>1 DEF Types, Names, Live, Good, Old
      <4> QED BY <2>0, <3>1, <4>2 DEF Files, Moving
    <3> QED BY <3>1, <3>2, <3>3
  <2>5. CASE ArchiveLive \/ PromoteLive
    BY <1>1, <2>5 DEF ArchiveLive, PromoteLive, Proceed, RenameFails
  <2>6. CASE FinishCommit
    <3>1. result' \in {"OK", "OK_RECOVERED"}
      BY Zenon, <2>6 DEF FinishCommit, Return
    <3> QED BY <1>1, <3>1 DEF Failures
  <2>7. CASE PowerLoss
    <3>1. result' = "POWER_LOSS"
      BY Zenon, <2>7 DEF PowerLoss, Return
    <3> QED BY <1>1, <3>1 DEF Failures
  <2>8. /\ ~app_config_register_migration_handler /\ ~CommitRefused /\ ~CommitBegins
        /\ ~load_kind /\ ~app_config_migrate_stored /\ ~Rot
    BY <1>1 DEF app_config_register_migration_handler, CommitRefused, CommitBegins,
       load_kind, LoadsLive, LiveUnreadable, RecoverFromGood, RecoverFromGoodOld, LoadFails,
       app_config_migrate_stored, MigrateReturns, MigrateBegins, Rot, Idle
  <2>9. ~UNCHANGED vars
    BY <1>1 DEF vars, calls
  <2> QED BY <1>1, <2>2, <2>3, <2>4, <2>5, <2>6, <2>7, <2>8, <2>9
          DEF Next, app_config_platform_commit
<1>2. IInv /\ [Next]_vars =>
        [pc # "idle" /\ result' \in Failures /\ pc' = "idle" =>
           /\ file'["live"] = before.live
           /\ before.good \in {Absent, file'["good"], file'["good.old"]}]_vars
  BY <1>1
<1> QED BY <1>2, Invariant, PTL DEF Spec, FailedCommitLeavesBoth
-----------------------------------------------------------------------------
(* The refinement *)

(***************************************************************************)
(* The promotion is the only step that puts a document in the live file:   *)
(* a new one, or an earlier one where the live document had been lost.     *)
(***************************************************************************)
LEMMA LiveStep ==
  ASSUME IInv, Next
  PROVE  \/ UNCHANGED <<Live, committed, lost>>
         \/ /\ Live' = Current(text) /\ text \in 1..MaxDoc /\ text \notin committed
            /\ committed' = committed \cup {text} /\ lost' = lost
         \/ /\ ~Valid(Live) /\ Live' = Current(text) /\ text \in committed
            /\ UNCHANGED <<committed, lost>>
         \/ /\ lost' = lost + 1 /\ committed' = committed
            /\ Live' = Live \/ ~Valid(Live')
<1>0. Rest /\ Types /\ Job /\ Files
  BY DEF IInv, Rest
<1>1. ASSUME NEW n \in Names \ {"live"}, NEW c, file' = [file EXCEPT ![n] = c]
      PROVE  Live' = Live
  BY <1>0, <1>1 DEF Types, Names, Live
<1>2. ASSUME NEW s, Abort(s, file) PROVE Live' = Live
  <2>1. file' = [file EXCEPT !["tmp"] = Absent, !["good.tmp"] = Absent]
    BY Zenon, <1>2 DEF Abort
  <2> QED BY <1>0, <2>1 DEF Types, Names, Live
<1>3. CASE PromoteLive
  <2>1. CASE RenameFails
    <3>1. UNCHANGED <<file, committed, lost>>
      BY <1>3, <2>1 DEF PromoteLive, RenameFails
    <3> QED BY <3>1 DEF Live
  <2>2. CASE /\ Proceed([file EXCEPT !["live"] = file["tmp"], !["tmp"] = Absent], "finish")
             /\ committed' = committed \cup Offered
    <3>1. /\ pc = "promote" /\ file["tmp"] = Current(text) /\ text \in 1..MaxDoc
          /\ lost' = lost
      BY <1>0, <1>3 DEF PromoteLive, Files, Job, Types
    <3>2. Live' = Current(text)
      BY <1>0, <2>2, <3>1 DEF Proceed, Types, Names, Live
    <3>3. CASE job = "commit"
      BY <1>0, <2>2, <3>1, <3>2, <3>3 DEF Job, Offered
    <3>4. CASE job # "commit"
      <4>1. job \in {"recover", "migrate"} /\ committed' = committed
        BY <1>0, <2>2, <3>1, <3>4 DEF Job, Offered, Types
      <4> QED BY <1>0, <3>1, <3>2, <4>1 DEF Job
    <3> QED BY <3>3, <3>4
  <2> QED BY <1>3, <2>1, <2>2 DEF PromoteLive
<1>4. CASE Rot
  <2>1. PICK n \in Kept, c \in {Absent, Broken} : file' = [file EXCEPT ![n] = c]
    BY <1>4 DEF Rot
  <2>2. lost' = lost + 1 /\ committed' = committed
    BY <1>4 DEF Rot
  <2>3. CASE n = "live"
    <3>1. Live' = c
      BY <1>0, <2>1, <2>3 DEF Types, Names, Live
    <3> QED BY <2>2, <3>1, ContentFacts
  <2>4. CASE n # "live"
    BY <1>1, <2>1, <2>2, <2>4 DEF Kept, Names
  <2> QED BY <2>3, <2>4
<1>5. CASE RecoverFromGoodOld
  <2>1. Live' = Live /\ committed' = committed /\ (lost' = lost \/ lost' = lost + 1)
    BY <1>5 DEF RecoverFromGoodOld, Begin, Live
  <2> QED BY <2>1
<1>6. CASE RestoreGood
  <2>1. /\ pc = "restore" /\ UNCHANGED <<committed, lost>>
        /\ Abort(result, Restored) \/ Abort(result, file)
    BY <1>6 DEF RestoreGood
  <2>2. CASE Abort(result, Restored)
    <3>1. file' = [Restored EXCEPT !["tmp"] = Absent, !["good.tmp"] = Absent]
      BY Zenon, <2>2 DEF Abort
    <3>2. Live' = Live
      BY <1>0, <2>1, <3>1, RestoredFacts DEF Names, Live
    <3> QED BY <2>1, <3>2
  <2> QED BY <1>2, <2>1, <2>2
<1>7. CASE WriteTemporary \/ InspectLive \/ StageLive \/ PreserveGood
  <2>1. UNCHANGED <<committed, lost>>
    BY <1>7 DEF WriteTemporary, InspectLive, StageLive, PreserveGood
  <2>2. (\E s : Abort(s, file)) \/ Live' = Live
    BY <1>0, <1>7 DEF WriteTemporary, InspectLive, StageLive, PreserveGood, Proceed,
       Types, Names, Live
  <2> QED BY <1>2, <2>1, <2>2
<1>8. CASE ArchiveLive
  BY <1>0, <1>8 DEF ArchiveLive, Proceed, RenameFails, Types, Names, Live
<1>9. CASE FinishCommit
  BY <1>0, <1>9 DEF FinishCommit, Types, Names, Live
<1>10. CASE PowerLoss
  BY <1>0, <1>10 DEF PowerLoss, history, Types, Names, Live
<1>11. CASE \/ app_config_register_migration_handler \/ CommitRefused \/ CommitBegins
            \/ LoadsLive \/ LiveUnreadable \/ RecoverFromGood \/ LoadFails
            \/ app_config_migrate_stored
  <2>1. UNCHANGED <<file, committed, lost>>
    BY Zenon, <1>11 DEF app_config_register_migration_handler, CommitRefused, CommitBegins,
       LoadsLive, LiveUnreadable, RecoverFromGood, LoadFails, app_config_migrate_stored,
       MigrateReturns, MigrateBegins, Begin, history
  <2> QED BY <2>1 DEF Live
<1> QED BY <1>3, <1>4, <1>5, <1>6, <1>7, <1>8, <1>9, <1>10, <1>11
        DEF Next, load_kind, app_config_platform_commit

(***************************************************************************)
(* The store is the abstract document store: the document is replaced as a *)
(* whole, lost to a fault only, and recovered to what was current before.  *)
(***************************************************************************)
THEOREM StoreIsADocStore == Spec => ImplementsDocStore
<1> DEFINE current == IF Valid(file["live"]) THEN file["live"].doc ELSE 0
<1>1. Init => Doc!Init
  <2> SUFFICES ASSUME Init PROVE Doc!Init
    OBVIOUS
  <2>1. IInv /\ lost = 0
    BY InitIInv DEF Init
  <2>2. committed \subseteq 1..MaxDoc /\ Live \in Contents
    BY <2>1 DEF IInv, Types, Names, Live
  <2>3. Live.doc # 0 => Live.doc \in committed
    BY <2>1 DEF IInv, Job, Kept, Live
  <2>4. current \in committed \cup {0}
    BY <2>3 DEF Live
  <2> QED BY <2>1, <2>2, <2>4 DEF Doc!Init
<1>2. IInv /\ [Next]_vars => [Doc!Next]_<<current, committed, lost>>
  <2> SUFFICES ASSUME IInv, [Next]_vars
               PROVE  Doc!Next \/ UNCHANGED <<current, committed, lost>>
    OBVIOUS
  <2>1. CASE UNCHANGED <<Live, committed, lost>>
    BY <2>1 DEF Live
  <2>2. CASE /\ Live' = Current(text) /\ text \in 1..MaxDoc /\ text \notin committed
             /\ committed' = committed \cup {text} /\ lost' = lost
    <3>1. current' = text
      BY <2>2, ContentFacts DEF Live
    <3>2. Doc!Commit(text)
      BY <2>2, <3>1 DEF Doc!Commit
    <3> QED BY <2>2, <3>2 DEF Doc!Next
  <2>3. CASE /\ ~Valid(Live) /\ Live' = Current(text) /\ text \in committed
             /\ UNCHANGED <<committed, lost>>
    <3>1. text \in 1..MaxDoc
      BY <2>3 DEF IInv, Types
    <3>2. current = 0 /\ current' = text
      BY <2>3, <3>1, ContentFacts DEF Live
    <3>3. Doc!Recover(text)
      BY <2>3, <3>2 DEF Doc!Recover
    <3> QED BY <3>1, <3>3 DEF Doc!Next
  <2>4. CASE lost' = lost + 1 /\ committed' = committed /\ (Live' = Live \/ ~Valid(Live'))
    <3>1. current' \in {current, 0}
      BY <2>4 DEF Live
    <3>2. Doc!Fault
      BY <2>4, <3>1 DEF Doc!Fault
    <3> QED BY <3>2 DEF Doc!Next
  <2>5. UNCHANGED vars => UNCHANGED <<Live, committed, lost>>
    BY DEF vars, history, Live
  <2> QED BY <2>1, <2>2, <2>3, <2>4, <2>5, LiveStep
<1> QED BY <1>1, <1>2, Invariant, PTL DEF Spec, ImplementsDocStore, Doc!Spec
=============================================================================
