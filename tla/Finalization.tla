---------------------------- MODULE Finalization ---------------------------
(***************************************************************************)
(* How a contest gets its final archive (contest-finalization.service.ts,  *)
(* file.service.ts, contest.service.ts): a finalizer locks the contest's   *)
(* rows, builds the archive from the log, puts it into the object store    *)
(* and commits its file row together with the contest's new status.  The   *)
(* upload, the commit and the rollback may each fail without a word on     *)
(* whether they took place, and the process may die between any two steps. *)
(*                                                                         *)
(* A file is known by the request that prepared it, since its id is new.   *)
(* A transaction that only works on the database is one step, taken while  *)
(* nobody else holds the lock on the contest's row.                        *)
(*                                                                         *)
(* The names of the specification carry the module's, so that it can be    *)
(* checked side by side with others.                                       *)
(***************************************************************************)
EXTENDS Integers

CONSTANTS
  Finalizers,  \* requests to finalize the contest
  Uploads,     \* requests of the administrator to upload a file
  NoFile,
  MaxVersion   \* bound on the changes of the event log

ASSUME FinalizationAssumption ==
  /\ Finalizers \cap Uploads = {}
  /\ NoFile \notin Finalizers \cup Uploads
  /\ MaxVersion \in Nat \ {0}

Files == Finalizers \cup Uploads

VARIABLES
  archive,   \* the contest row: status, deletion, srkFileId
  log,       \* its event log: a number that tells apart what it held, emptiness
  fileRow,   \* the file table
  objects,   \* the object store
  puts,      \* uploads on their way to the store
  session,   \* MySQL: the finalizer's transaction, which holds the row locks
  progress,  \* how far each request is; "ok" and "error" are its answers
  built,     \* version of the log an archive was built from; 0: not prepared
  reported,  \* files of which a log line says that they need attention
  straggled  \* history: uploads that arrived after their request had given up

finalizationVars ==
  <<archive, log, fileRow, objects, puts, session, progress, built, reported,
    straggled>>

Over == {"ok", "error", "dead"}

Locked == \E q \in Finalizers : session[q] # "none"

Goto(q, p) == progress' = [progress EXCEPT ![q] = p]

----------------------------------------------------------------------------
(* The object store. *)

\* The store writes an object, for its request in time or not.
StoreObject(f) ==
  /\ f \in puts
  /\ puts' = puts \ {f}
  /\ objects' = objects \cup {f}
  /\ straggled' = IF progress[f] = "uploading" THEN straggled
                  ELSE straggled \cup {f}
  /\ UNCHANGED <<archive, log, fileRow, session, progress, built, reported>>

Uploaded(f) ==
  /\ progress[f] = "uploading"
  /\ f \in objects
  /\ Goto(f, "saving")
  /\ UNCHANGED <<archive, log, fileRow, objects, puts, session, built, reported,
                 straggled>>

\* uploadPrepared throws: refused, or too late to know.  Both are logged; only
\* a finalizer goes on.
UploadFails(f) ==
  /\ progress[f] = "uploading"
  /\ puts' \in {puts, puts \ {f}}
  /\ IF f \in Finalizers
     THEN Goto(f, "rollback") /\ UNCHANGED reported
     ELSE Goto(f, "error") /\ reported' = reported \cup {f}
  /\ UNCHANGED <<archive, log, fileRow, objects, session, built, straggled>>

----------------------------------------------------------------------------
(* finalize(). *)

\* No connection, no such contest, or one whose archive is missing.
FinalizeRefused(q) ==
  /\ progress[q] = "idle"
  /\ Goto(q, "error")
  /\ UNCHANGED <<archive, log, fileRow, objects, puts, session, built, reported,
                 straggled>>

AlreadyFinal(q) ==
  /\ progress[q] = "idle" /\ ~Locked
  /\ ~archive.deleted
  /\ archive.status = "Finalized" /\ archive.file # NoFile
  /\ Goto(q, "ok")
  /\ UNCHANGED <<archive, log, fileRow, objects, puts, session, built, reported,
                 straggled>>

\* findLockedContestAndStream: from here on nobody changes the log.
LockContest(q) ==
  /\ progress[q] = "idle" /\ ~Locked
  /\ ~archive.deleted /\ archive.status # "Finalized"
  /\ session' = [session EXCEPT ![q] = "open"]
  /\ Goto(q, "building")
  /\ UNCHANGED <<archive, log, fileRow, objects, puts, built, reported, straggled>>

\* generateRanklist and prepareUpload, and the upload is sent.
Generate(q) ==
  /\ progress[q] = "building" /\ session[q] = "open"
  /\ built' = [built EXCEPT ![q] = log.version]
  /\ puts' = puts \cup {q}
  /\ Goto(q, "uploading")
  /\ UNCHANGED <<archive, log, fileRow, objects, session, reported, straggled>>

\* A query fails, or the builder refuses the events (unfinished, inconsistent).
GenerateFails(q) ==
  /\ progress[q] = "building"
  /\ Goto(q, "rollback")
  /\ UNCHANGED <<archive, log, fileRow, objects, puts, session, built, reported,
                 straggled>>

\* The file row is inserted, the contest updated, and COMMIT is sent.
SendCommit(q) ==
  /\ q \in Finalizers
  /\ progress[q] = "saving" /\ session[q] = "open"
  /\ session' = [session EXCEPT ![q] = "committing"]
  /\ Goto(q, "committing")
  /\ UNCHANGED <<archive, log, fileRow, objects, puts, built, reported, straggled>>

StatementFails(q) ==
  /\ q \in Finalizers
  /\ progress[q] = "saving"
  /\ Goto(q, "rollback")
  /\ UNCHANGED <<archive, log, fileRow, objects, puts, session, built, reported,
                 straggled>>

Committed(q) ==
  /\ progress[q] = "committing"
  /\ session[q] = "none" /\ fileRow[q] # "none"
  /\ Goto(q, "ok")
  /\ UNCHANGED <<archive, log, fileRow, objects, puts, session, built, reported,
                 straggled>>

\* The answer to COMMIT is an error or a lost connection: it may yet take place.
CommitFails(q) ==
  /\ progress[q] = "committing"
  /\ Goto(q, "rollback")
  /\ UNCHANGED <<archive, log, fileRow, objects, puts, session, built, reported,
                 straggled>>

\* Wrong: a failed finalization has only its transaction to undo.
AfterRollbackNothing(q) == "error"

AfterRollback(q) == IF built[q] = 0 THEN "error" ELSE "reconcile"

\* ROLLBACK comes behind a COMMIT that was sent on the same connection.
RolledBack(q) ==
  /\ progress[q] = "rollback" /\ session[q] # "committing"
  /\ session' = [session EXCEPT ![q] = "none"]
  /\ Goto(q, AfterRollback(q))
  /\ UNCHANGED <<archive, log, fileRow, objects, puts, built, reported, straggled>>

\* The connection is destroyed; MySQL ends its transaction when it notices.
RollbackFails(q) ==
  /\ progress[q] = "rollback"
  /\ Goto(q, AfterRollback(q))
  /\ UNCHANGED <<archive, log, fileRow, objects, puts, session, built, reported,
                 straggled>>

----------------------------------------------------------------------------
(* MySQL. *)

ExecuteCommit(q) ==
  /\ session[q] = "committing"
  /\ session' = [session EXCEPT ![q] = "none"]
  /\ fileRow' = [fileRow EXCEPT ![q] = "live"]
  /\ archive' = [archive EXCEPT !.status = "Finalized", !.file = q]
  /\ UNCHANGED <<log, objects, puts, progress, built, reported, straggled>>

\* A connection is lost; its transaction is rolled back and its locks are freed.
EndSession(q) ==
  /\ session[q] # "none"
  /\ session' = [session EXCEPT ![q] = "none"]
  /\ UNCHANGED <<archive, log, fileRow, objects, puts, progress, built, reported,
                 straggled>>

----------------------------------------------------------------------------
(* reconcileUpload(), on a connection of its own and behind the same lock. *)

Recovered(q) ==
  archive.status = "Finalized" /\ archive.file = q /\ fileRow[q] = "live"

Removable(q) == fileRow[q] = "none" /\ archive.file # q

\* Wrong: looks without waiting for the lock of the transaction in doubt.
MayReconcileUnlocked(q) == progress[q] = "reconcile"

MayReconcile(q) == progress[q] = "reconcile" /\ ~Locked

ReconcileUpload(q) ==
  /\ MayReconcile(q)
  /\ \/ Recovered(q) /\ Goto(q, "ok") /\ UNCHANGED reported
     \/ Removable(q) /\ Goto(q, "removing") /\ UNCHANGED reported
     \/ /\ ~Recovered(q) /\ ~Removable(q)
        /\ Goto(q, "error")
        /\ reported' = reported \cup {q}
  /\ UNCHANGED <<archive, log, fileRow, objects, puts, session, built, straggled>>

ReconcileFails(q) ==
  /\ progress[q] = "reconcile"
  /\ Goto(q, "error")
  /\ reported' = reported \cup {q}
  /\ UNCHANGED <<archive, log, fileRow, objects, puts, session, built, straggled>>

RemoveUploaded(q) ==
  /\ progress[q] = "removing"
  /\ objects' = objects \ {q}
  /\ Goto(q, "error")
  /\ UNCHANGED <<archive, log, fileRow, puts, session, built, reported, straggled>>

RemoveFails(q) ==
  /\ progress[q] = "removing"
  /\ objects' \in {objects, objects \ {q}}
  /\ Goto(q, "error")
  /\ reported' = reported \cup {q}
  /\ UNCHANGED <<archive, log, fileRow, puts, session, built, straggled>>

----------------------------------------------------------------------------
(* The administrator and the producer. *)

\* uploadFile: the contest is looked up without a lock.
StartUpload(f) ==
  /\ progress[f] = "idle" /\ ~archive.deleted
  /\ puts' = puts \cup {f}
  /\ Goto(f, "uploading")
  /\ UNCHANGED <<archive, log, fileRow, objects, session, built, reported, straggled>>

SaveFile(f) ==
  /\ f \in Uploads /\ progress[f] = "saving"
  /\ fileRow' = [fileRow EXCEPT ![f] = "live"]
  /\ Goto(f, "ok")
  /\ UNCHANGED <<archive, log, objects, puts, session, built, reported, straggled>>

\* The statement fails, or its answer is lost; the object is left and logged.
SaveFails(f) ==
  /\ f \in Uploads /\ progress[f] = "saving"
  /\ fileRow' \in {fileRow, [fileRow EXCEPT ![f] = "live"]}
  /\ Goto(f, "error")
  /\ reported' = reported \cup {f}
  /\ UNCHANGED <<archive, log, objects, puts, session, built, straggled>>

\* appendProducerEvents (empty' = FALSE) and dropEvents (empty' = TRUE).
ChangeLog(empty) ==
  /\ ~Locked /\ ~archive.deleted /\ archive.status # "Finalized"
  /\ log.version < MaxVersion
  /\ log' = [version |-> log.version + 1, empty |-> empty]
  /\ UNCHANGED <<archive, fileRow, objects, puts, session, progress, built,
                 reported, straggled>>

\* updateContest with srkFileID: associates, seals an empty stream, or corrects
\* the archive of a finalized contest.
AttachFile(f) ==
  /\ ~Locked /\ ~archive.deleted
  /\ fileRow[f] = "live"
  /\ archive' = [archive EXCEPT !.file = f,
                                !.status = IF log.empty THEN "Finalized" ELSE @]
  /\ UNCHANGED <<log, fileRow, objects, puts, session, progress, built, reported,
                 straggled>>

\* updateContest with srkFileID null, which a finalized contest refuses.
DetachFile ==
  /\ ~Locked /\ ~archive.deleted /\ archive.status # "Finalized"
  /\ archive.file # NoFile
  /\ archive' = [archive EXCEPT !.file = NoFile]
  /\ UNCHANGED <<log, fileRow, objects, puts, session, progress, built, reported,
                 straggled>>

RemoveContest ==
  /\ ~Locked /\ ~archive.deleted
  /\ archive' = [archive EXCEPT !.deleted = TRUE]
  /\ UNCHANGED <<log, fileRow, objects, puts, session, progress, built, reported,
                 straggled>>

\* Wrong: checks for a reference when the file is looked up, not under the lock.
MayDeleteUnchecked(f) == ~Locked /\ fileRow[f] = "live"

MayDelete(f) ==
  /\ ~Locked
  /\ fileRow[f] = "live"
  /\ ~(~archive.deleted /\ archive.status = "Finalized" /\ archive.file = f)

\* deleteFile: the row is marked; the object stays.
DeleteFile(f) ==
  /\ MayDelete(f)
  /\ fileRow' = [fileRow EXCEPT ![f] = "deleted"]
  /\ UNCHANGED <<archive, log, objects, puts, session, progress, built, reported,
                 straggled>>

\* The process that serves a request dies.
Die(f) ==
  /\ progress[f] \notin Over \cup {"idle"}
  /\ Goto(f, "dead")
  /\ UNCHANGED <<archive, log, fileRow, objects, puts, session, built, reported,
                 straggled>>

----------------------------------------------------------------------------
FinalizationInit ==
  /\ archive = [status |-> "Created", deleted |-> FALSE, file |-> NoFile]
  /\ log = [version |-> 1, empty |-> TRUE]
  /\ fileRow = [f \in Files |-> "none"]
  /\ objects = {}
  /\ puts = {}
  /\ session = [q \in Finalizers |-> "none"]
  /\ progress = [f \in Files |-> "idle"]
  /\ built = [q \in Finalizers |-> 0]
  /\ reported = {}
  /\ straggled = {}

FinalizationNext ==
  \/ \E f \in Files :
       \/ StoreObject(f) \/ Uploaded(f) \/ UploadFails(f)
       \/ AttachFile(f) \/ DeleteFile(f) \/ Die(f)
  \/ \E q \in Finalizers :
       \/ FinalizeRefused(q) \/ AlreadyFinal(q) \/ LockContest(q)
       \/ Generate(q) \/ GenerateFails(q)
       \/ SendCommit(q) \/ StatementFails(q) \/ Committed(q) \/ CommitFails(q)
       \/ RolledBack(q) \/ RollbackFails(q)
       \/ ExecuteCommit(q) \/ EndSession(q)
       \/ ReconcileUpload(q) \/ ReconcileFails(q)
       \/ RemoveUploaded(q) \/ RemoveFails(q)
  \/ \E u \in Uploads : StartUpload(u) \/ SaveFile(u) \/ SaveFails(u)
  \/ \E empty \in BOOLEAN : ChangeLog(empty)
  \/ DetachFile \/ RemoveContest

FinalizationSpec == FinalizationInit /\ [][FinalizationNext]_finalizationVars
============================================================================
