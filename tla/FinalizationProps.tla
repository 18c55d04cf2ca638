------------------------- MODULE FinalizationProps -------------------------
(***************************************************************************)
(* What holds of a contest's archive, whatever fails on the way to it.     *)
(***************************************************************************)
EXTENDS Finalization

\* Type invariant of the rows, the store and the requests.
FinalizationTypeOK ==
  /\ archive \in [status : {"Created", "Finalized"}, deleted : BOOLEAN,
                  file : Files \cup {NoFile}]
  /\ log \in [version : 1 .. MaxVersion, empty : BOOLEAN]
  /\ fileRow \in [Files -> {"none", "live", "deleted"}]
  /\ objects \subseteq Files
  /\ puts \subseteq Files
  /\ session \in [Finalizers -> {"none", "open", "committing"}]
  /\ progress \in [Files -> {"idle", "building", "uploading", "saving",
                             "committing", "rollback", "reconcile", "removing"}
                            \cup Over]
  /\ built \in [Finalizers -> 0 .. MaxVersion]
  /\ reported \subseteq Files
  /\ straggled \subseteq Files

\* A finalized contest has its archive: the file's row is live, its object is in
\* the store, and an archive that was generated holds everything the log ever
\* will.  Uploads and commits in doubt, cleaning up after a failure, corrections
\* and deletions by the administrator in between must not take it away.
ArchiveStands ==
  (archive.status = "Finalized" /\ ~archive.deleted)
  => /\ archive.file # NoFile
     /\ fileRow[archive.file] = "live"
     /\ archive.file \in objects
     /\ archive.file \in Finalizers => built[archive.file] = log.version

\* An object without a row belongs to a request that is under way or whose process
\* died, or a log line names it, or it arrived after its request had been told that
\* the upload had failed: nothing else is left behind in the store.
NothingLeftBehind ==
  \A f \in objects :
    \/ fileRow[f] # "none"
    \/ progress[f] \notin {"ok", "error"}
    \/ f \in reported \cup straggled

\* Answers are true, also after a commit in doubt: "ok" only for a contest that is
\* finalized, and a finalizer that was told "error" has not finalized the contest
\* with its file, unless a log line says that this must be looked into.
AnswersAreTrue ==
  \A q \in Finalizers :
    /\ progress[q] = "ok" => archive.status = "Finalized"
    /\ (progress[q] = "error" /\ archive.file = q) => q \in reported
============================================================================
