------------------------------- MODULE AppConfig -------------------------------
(***************************************************************************)
(* components/app_config/app_config.c: one product document on the flash,  *)
(* loaded, recovered, migrated and committed, with a power loss between    *)
(* any two steps of a commit, I/O errors, and copies that rot in between.  *)
(*                                                                         *)
(* A document is the number of the commit that first offered it.  A file   *)
(* holds a whole document, or something the validators reject (AppConfigText*)
(* says which text is which).  The steps of the commit belong to the       *)
(* platform's hq_json_doc_commit(), which is not part of this repository:  *)
(* they are the ones app_config.h gives and tests/app_config exercises.    *)
(* One task makes all the calls, so a load reads its files in one step.    *)
(***************************************************************************)
EXTENDS Integers, FiniteSets

CONSTANTS
  MaxDoc,   \* bound: the documents offered
  MaxLost,  \* bound: the copies that rot, or a load cannot read
  MaxErr    \* bound: the steps of a commit that fail

ASSUME BoundsAssumption == MaxDoc \in Nat \ {0, 1} /\ MaxLost \in Nat /\ MaxErr \in Nat

VARIABLES
  file,       \* the content of each file of the document
  handler,    \* a migration handler is registered
  pc,         \* the step the commit in progress is at, or "idle"
  job,        \* what the commit is for
  text,       \* the document it writes
  tx,         \* the backups it has already moved
  result,     \* the status the last call returned
  output,     \* the document the last load wrote to its caller, or 0
  committed,  \* history: the documents that have been live
  offered,    \* history: the last document offered
  lost,       \* history: copies that rotted or could not be read
  errs,       \* history: failed steps
  floor,      \* history: the valid copies the last call must keep, see Floor
  displaced,  \* history: a legacy live document was replaced without a migration
  before      \* history: the live document and its backup when the commit began

calls   == <<pc, job, text, tx, result, output, before>>
history == <<committed, offered, lost, errs, floor, displaced>>
vars    == <<file, handler, calls, history>>

Names == {"live", "tmp", "good", "good.tmp", "good.old"}
Kept == {"live", "good", "good.old"}

Absent     == [class |-> "absent",  doc |-> 0]
Broken     == [class |-> "broken",  doc |-> 0]
Newer      == [class |-> "newer",   doc |-> 0]
Current(d) == [class |-> "current", doc |-> d]
Legacy(d)  == [class |-> "legacy",  doc |-> d]

Contents == {Absent, Broken, Newer} \cup {Current(d) : d \in 1..MaxDoc}
                                    \cup {Legacy(d) : d \in 1..MaxDoc}

Nothing == [live |-> Absent, good |-> Absent]
NoMoves == [preserved |-> FALSE, archived |-> FALSE]

\* What the load reports for a live document it cannot use.
StatusOf == [absent |-> "NOT_FOUND", broken |-> "MALFORMED",
             newer |-> "UNKNOWN_SCHEMA", legacy |-> "MIGRATION", current |-> "OK"]

Failures == {"INVALID_ARGUMENT", "IO", "NOT_FOUND", "MALFORMED", "BOUNDS",
             "UNKNOWN_SCHEMA", "MIGRATION", "UNSUPPORTED"}
Statuses == Failures \cup {"NONE", "OK", "OK_RECOVERED", "POWER_LOSS"}

(* The types, with what is in the caller's document: a call that fails, or has not *)
(* returned, has written none ("written only on success", app_config.c:1349).      *)
TypeOK ==
  /\ file \in [Names -> Contents]
  /\ handler \in BOOLEAN
  /\ pc \in {"idle", "write", "inspect", "stage", "preserve", "archive", "promote",
             "restore", "finish"}
  /\ job \in {"none", "commit", "recover", "migrate"}
  /\ text \in 0..MaxDoc
  /\ tx \in [preserved : BOOLEAN, archived : BOOLEAN]
  /\ result \in Statuses
  /\ output \in 0..MaxDoc
  /\ committed \subseteq 1..MaxDoc
  /\ offered \in 0..MaxDoc
  /\ lost \in 0..MaxLost
  /\ errs \in 0..MaxErr
  /\ floor \in 0..2
  /\ displaced \in BOOLEAN
  /\ before \in [live : Contents, good : Contents]
  /\ pc = "idle" <=> job = "none"
  /\ output # 0 => pc = "idle" /\ result \in {"OK", "OK_RECOVERED"}

Valid(c) == c.class = "current"

\* The files a load may take the document from: whether one, or two, are valid.
OneCopy(f)   == \E n \in Kept : Valid(f[n])
TwoCopies(f) == \E m, n \in Kept : m # n /\ Valid(f[m]) /\ Valid(f[n])

\* What a call that starts from these files must keep.
Floor(f) == IF Valid(f["live"]) /\ Valid(f["good"]) THEN 2
            ELSE IF OneCopy(f) THEN 1 ELSE 0

Docs(f) == {f[n].doc : n \in Kept} \ {0}

\* A flash image, an older firmware or a newer one has left the first two documents.
Init ==
  /\ \E l \in {Absent, Broken, Newer, Current(2), Legacy(2)},
        g \in {Absent, Current(1), Legacy(1)} :
       file = [n \in Names |-> CASE n = "live" -> l [] n = "good" -> g
                               [] OTHER -> Absent]
  /\ handler \in BOOLEAN
  /\ pc = "idle" /\ job = "none" /\ text = 0 /\ tx = NoMoves
  /\ result = "NONE" /\ output = 0
  /\ committed = Docs(file)
  /\ offered = 2
  /\ lost = 0 /\ errs = 0
  /\ floor = Floor(file)
  /\ displaced = FALSE
  /\ before = Nothing
-----------------------------------------------------------------------------
(* Helpers *)

Idle == pc = "idle"

\* load_from_path() can make the document of this content; a legacy one needs the
\* handler, and the handler may fail.
Loadable(c) == Valid(c) \/ (c.class = "legacy" /\ handler)
Rejected(c) == ~Valid(c)

\* The call returns; a load has written its caller's document only if doc # 0.
Return(status, doc) ==
  /\ pc' = "idle" /\ job' = "none" /\ text' = 0 /\ tx' = NoMoves
  /\ result' = status /\ output' = doc
  /\ before' = Nothing

\* app_config_platform_commit() starts on the text of document d.
Begin(purpose, d) ==
  /\ pc' = "write" /\ job' = purpose /\ text' = d /\ tx' = NoMoves
  /\ result' = "NONE" /\ output' = 0
  /\ before' = [live |-> file["live"], good |-> file["good"]]
  /\ floor' = Floor(file)
  /\ displaced' = (displaced \/ (purpose # "migrate" /\ file["live"].class = "legacy"))
  /\ UNCHANGED <<file, handler>>

StepFails == errs < MaxErr /\ errs' = errs + 1

\* The commit is given up: its temporary files are removed.
Abort(status, f) ==
  /\ file' = [f EXCEPT !["tmp"] = Absent, !["good.tmp"] = Absent]
  /\ Return(status, 0)

\* The commit goes on to its next step.
Proceed(f, step) ==
  /\ file' = f
  /\ pc' = step
  /\ UNCHANGED <<job, text, result, output, before, errs>>
-----------------------------------------------------------------------------
(* The calls *)

app_config_register_migration_handler ==
  /\ Idle
  /\ handler' = ~handler
  /\ UNCHANGED <<file, calls, history>>

\* app_config_commit_device(), app_config_commit_manufacturing(): the typed
\* document is refused before anything is written.
CommitRefused ==
  /\ Idle
  /\ \E s \in {"INVALID_ARGUMENT", "MALFORMED", "BOUNDS", "UNKNOWN_SCHEMA", "MIGRATION"} :
       Return(s, 0)
  /\ UNCHANGED <<file, handler, history>>

CommitBegins ==
  /\ Idle
  /\ offered < MaxDoc
  /\ offered' = offered + 1
  /\ Begin("commit", offered + 1)
  /\ UNCHANGED <<committed, lost, errs>>

\* load_kind(): the live document is loaded, migrated in memory if it has to be.
LoadsLive ==
  /\ Idle
  /\ Loadable(file["live"])
  /\ Return("OK", file["live"].doc)
  /\ UNCHANGED <<file, handler, history>>

\* The live document cannot be read: no backup is tried.
LiveUnreadable ==
  /\ Idle
  /\ Return("IO", 0)
  /\ UNCHANGED <<file, handler, history>>

\* Mutant of RecoverFromGood: the older backup is tried first.
RecoverOldestFirst ==
  /\ Idle
  /\ Rejected(file["live"])
  /\ \E n \in {"good", "good.old"} :
       /\ Loadable(file[n])
       /\ n = "good" => Rejected(file["good.old"])
       /\ Begin("recover", file[n].doc)
  /\ UNCHANGED <<committed, offered, lost, errs>>

RecoverFromGood ==
  /\ Idle
  /\ Rejected(file["live"])
  /\ Loadable(file["good"])
  /\ Begin("recover", file["good"].doc)
  /\ UNCHANGED <<committed, offered, lost, errs>>

\* Mutant of RecoverFromGoodOld: the temporary file of an interrupted commit counts
\* as a backup.
RecoverFromTemporary ==
  /\ Idle
  /\ Rejected(file["live"]) /\ Rejected(file["good"])
  /\ \E n \in {"good.old", "tmp"} :
       /\ Loadable(file[n])
       /\ Begin("recover", file[n].doc)
  /\ UNCHANGED <<committed, offered, lost, errs>>

\* The older backup is taken when the newer one is rejected, or cannot be read.
RecoverFromGoodOld ==
  /\ Idle
  /\ Rejected(file["live"])
  /\ \/ Rejected(file["good"]) /\ UNCHANGED lost
     \/ Loadable(file["good"]) /\ lost < MaxLost /\ lost' = lost + 1
  /\ Loadable(file["good.old"])
  /\ Begin("recover", file["good.old"].doc)
  /\ UNCHANGED <<committed, offered, errs>>

\* Mutant of LoadFails: the live document was parsed into the caller's buffer and
\* rejected only then, for its schema.
LoadFailsPublishes ==
  /\ Idle
  /\ Rejected(file["live"])
  /\ Return(StatusOf[file["live"].class], file["live"].doc)
  /\ UNCHANGED <<file, handler, history>>

\* No backup is there, or none can be read: the failure of the live document.
LoadFails ==
  /\ Idle
  /\ Rejected(file["live"])
  /\ Return(StatusOf[file["live"].class], 0)
  /\ UNCHANGED <<file, handler, history>>

load_kind ==
  \/ LoadsLive \/ LiveUnreadable
  \/ RecoverFromGood \/ RecoverFromGoodOld
  \/ LoadFails

\* app_config_migrate_stored(): there is nothing to migrate, or no way to.
MigrateReturns ==
  /\ Idle
  /\ \E s \in {"IO", StatusOf[file["live"].class]} : Return(s, 0)
  /\ UNCHANGED <<file, handler, history>>

MigrateBegins ==
  /\ Idle
  /\ file["live"].class = "legacy" /\ handler
  /\ Begin("migrate", file["live"].doc)
  /\ UNCHANGED <<committed, offered, lost, errs>>

app_config_migrate_stored == MigrateReturns \/ MigrateBegins
-----------------------------------------------------------------------------
(* The steps of the commit *)

\* The text is written to the temporary file, read back and validated.
WriteTemporary ==
  /\ pc = "write"
  /\ \/ /\ Proceed([file EXCEPT !["tmp"] = Current(text)], "inspect")
        /\ UNCHANGED tx
     \/ StepFails /\ Abort("IO", file)
  /\ UNCHANGED <<handler, committed, offered, lost, floor, displaced>>

\* A valid live document is archived first; a rejected one is not; one that cannot
\* be read ends the commit.
InspectLive ==
  /\ pc = "inspect"
  /\ \/ /\ Proceed(file, IF Valid(file["live"]) THEN "stage" ELSE "promote")
        /\ UNCHANGED tx
     \/ StepFails /\ Abort("IO", file)
  /\ UNCHANGED <<handler, committed, offered, lost, floor, displaced>>

StageLive ==
  /\ pc = "stage"
  /\ \/ /\ Proceed([file EXCEPT !["good.tmp"] = file["live"]], "preserve")
        /\ UNCHANGED tx
     \/ StepFails /\ Abort("IO", file)
  /\ UNCHANGED <<handler, committed, offered, lost, floor, displaced>>

RenameErrors == {"IO", "UNSUPPORTED"}

\* Mutant of PreserveGood: the old backup is removed to make room.
PreserveByRemoval ==
  /\ pc = "preserve"
  /\ Proceed([file EXCEPT !["good"] = Absent], "archive")
  /\ UNCHANGED <<tx, handler, committed, offered, lost, floor, displaced>>

\* <live>.good -> <live>.good.old, if there is one.
PreserveGood ==
  /\ pc = "preserve"
  /\ \/ /\ file["good"] = Absent
        /\ Proceed(file, "archive")
        /\ UNCHANGED tx
     \/ /\ file["good"] # Absent
        /\ Proceed([file EXCEPT !["good.old"] = file["good"], !["good"] = Absent],
                   "archive")
        /\ tx' = [tx EXCEPT !.preserved = TRUE]
     \/ /\ file["good"] # Absent
        /\ StepFails
        /\ \E s \in RenameErrors : Abort(s, file)
  /\ UNCHANGED <<handler, committed, offered, lost, floor, displaced>>

\* A rename fails after the backups may have moved.
RenameFails ==
  /\ StepFails
  /\ result' \in RenameErrors
  /\ pc' = "restore"
  /\ UNCHANGED <<file, job, text, tx, output, before, committed>>

\* <live>.good.tmp -> <live>.good
ArchiveLive ==
  /\ pc = "archive"
  /\ \/ /\ Proceed([file EXCEPT !["good"] = file["good.tmp"], !["good.tmp"] = Absent],
                   "promote")
        /\ tx' = [tx EXCEPT !.archived = TRUE]
        /\ UNCHANGED committed
     \/ RenameFails
  /\ UNCHANGED <<handler, offered, lost, floor, displaced>>

\* The document a commit makes current; a recovery or a migration brings back one
\* that has been.
Offered == IF job = "commit" THEN {text} ELSE {}

\* Mutant of PromoteLive: a copy stands in for a refused rename, and may be torn.
PromoteByCopy ==
  /\ pc = "promote"
  /\ \E c \in {file["tmp"], Broken} :
       Proceed([file EXCEPT !["live"] = c, !["tmp"] = Absent], "finish")
  /\ committed' = committed \cup Offered
  /\ UNCHANGED <<tx, handler, offered, lost, floor, displaced>>

\* <live>.tmp -> <live>
PromoteLive ==
  /\ pc = "promote"
  /\ \/ /\ Proceed([file EXCEPT !["live"] = file["tmp"], !["tmp"] = Absent], "finish")
        /\ committed' = committed \cup Offered
        /\ UNCHANGED tx
     \/ RenameFails
  /\ UNCHANGED <<handler, offered, lost, floor, displaced>>

\* Mutant of Restored: the preserved backup is dropped with the fresh one.
RestoredDropsBoth ==
  IF tx.archived THEN [file EXCEPT !["good"] = Absent, !["good.old"] = Absent] ELSE file

\* The backups as they were before the commit.
Restored ==
  IF tx.preserved THEN [file EXCEPT !["good"] = file["good.old"], !["good.old"] = Absent]
  ELSE IF tx.archived THEN [file EXCEPT !["good"] = Absent]
  ELSE file

\* They are put back, as far as the storage lets it.
RestoreGood ==
  /\ pc = "restore"
  /\ \/ Abort(result, Restored) /\ UNCHANGED errs
     \/ StepFails /\ Abort(result, file)
  /\ UNCHANGED <<handler, committed, offered, lost, floor, displaced>>

\* <live>.good.old is removed and the call returns; a recovering load publishes the
\* document only now.
FinishCommit ==
  /\ pc = "finish"
  /\ \/ file' = [file EXCEPT !["good.old"] = Absent] /\ UNCHANGED errs
     \/ StepFails /\ UNCHANGED file
  /\ IF job = "recover" THEN Return("OK_RECOVERED", text) ELSE Return("OK", 0)
  /\ UNCHANGED <<handler, committed, offered, lost, floor, displaced>>

app_config_platform_commit ==
  \/ WriteTemporary \/ InspectLive \/ StageLive \/ PreserveGood \/ ArchiveLive
  \/ PromoteLive \/ RestoreGood \/ FinishCommit
-----------------------------------------------------------------------------
(* The world *)

\* The power goes while a commit runs: a file that was being written is torn, a
\* rename has happened or has not.
PowerLoss ==
  /\ ~Idle
  /\ \/ UNCHANGED file
     \/ pc = "write" /\ file' = [file EXCEPT !["tmp"] = Broken]
     \/ pc = "stage" /\ file' = [file EXCEPT !["good.tmp"] = Broken]
  /\ handler' = FALSE
  /\ Return("POWER_LOSS", 0)
  /\ UNCHANGED history

\* A copy rots, or is deleted.
Rot ==
  /\ Idle
  /\ lost < MaxLost
  /\ \E n \in Kept :
       /\ file[n] # Absent
       /\ \E c \in {Absent, Broken} : file' = [file EXCEPT ![n] = c]
  /\ lost' = lost + 1
  /\ floor' = Floor(file')
  /\ result' = "NONE" /\ output' = 0
  /\ UNCHANGED <<handler, pc, job, text, tx, before, committed, offered, errs,
                 displaced>>

Next ==
  \/ app_config_register_migration_handler
  \/ CommitRefused \/ CommitBegins
  \/ load_kind
  \/ app_config_migrate_stored
  \/ app_config_platform_commit
  \/ PowerLoss \/ Rot

Spec == Init /\ [][Next]_vars
-----------------------------------------------------------------------------
(* Properties *)

(* A load (app_config.c:1322) hands out only a document that has been live: never *)
(* the leftover of an aborted or interrupted commit, never something made up.     *)
LoadedWasCommitted == output # 0 => output \in committed

(* However a commit or a recovery ends, or wherever the power goes in it: if it   *)
(* began with a valid document anywhere, one is on the flash, and two copies are  *)
(* if the document and its backup were both valid.  Rotating the backups          *)
(* (app_config.h:45) never goes through a moment with fewer.                      *)
CopiesKept == (floor >= 1 => OneCopy(file)) /\ (floor = 2 => TwoCopies(file))

(* A recovery goes back at most one generation of the document for each copy that *)
(* rotted or could not be read, also when an interrupted commit left all three    *)
(* files behind (the freshness order of app_config.c:1314).                       *)
OneGenerationPerFault ==
  output # 0 => Cardinality({d \in committed : d > output})
                  <= lost + (IF displaced THEN 1 ELSE 0)

(* A commit that returns a failure leaves the live document as it was and its     *)
(* last-known-good copy, if there was one, in one of the two files a load looks   *)
(* into (app_config.h:55, :378).                                                  *)
FailedCommitLeavesBoth ==
  [][pc # "idle" /\ result' \in Failures /\ pc' = "idle" =>
       /\ file'["live"] = before.live
       /\ before.good \in {Absent, file'["good"], file'["good.old"]}]_vars

(* The store implements the abstract document store: replaced as a whole, lost to *)
(* a storage fault only, recovered to what was current before.                    *)
Doc == INSTANCE DocStore WITH
  Documents <- 1..MaxDoc, NoDocument <- 0,
  current <- IF Valid(file["live"]) THEN file["live"].doc ELSE 0
ImplementsDocStore == Doc!Spec
================================================================================
