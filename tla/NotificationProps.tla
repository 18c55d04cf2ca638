------------------------- MODULE NotificationProps -------------------------
(***************************************************************************)
(* What an SSE connection may rely on, on whatever instance it is.         *)
(***************************************************************************)
EXTENDS Notification

\* Type invariant.
TypeOK ==
  /\ db \in [mark : Committed, deleted : BOOLEAN]
  /\ inst \in [Instances -> {"up", "stopping", "down"}]
  /\ announcing \subseteq Instances \X Message
  /\ published \subseteq Message
  /\ reconciling \in [Instances -> Reconcile]
  /\ conn \in [Clients -> Connection]

\* A connection that is active knows at least what had been committed when it was
\* registered and what its instance heard of since, and never more than the
\* database holds, although the database was read while commits and
\* announcements went on.
ToldBetween ==
  \A c \in Clients : conn[c].registration = "active" =>
    ~Newer(conn[c].owed, conn[c].told) /\ ~Newer(conn[c].told, db.mark)

\* No response is left hanging: once its handler is done, it has ended or is a stream in
\* the hub of an instance that runs, although a stop, a deletion or the client may close
\* the registration at any await of the attachment, and the hub does not end the
\* response of a client that is not active.
NoResponseHangs ==
  \A c \in Clients : conn[c].phase = "done" /\ conn[c].writable =>
    conn[c].registration = "active" /\ Running(conn[c].at)

\* However many announcements are lost, with a crash between commit and
\* announcement among them, a connection that stays is told of the newest
\* watermark in the end.
Converges ==
  <>[](\A c \in Clients : conn[c].registration = "active" =>
         db.deleted \/ conn[c].told = db.mark)

\* Every connection to a deleted contest is closed in the end, also one whose
\* attachment overtook the deletion on an instance that never hears of it.
DeletionReaches ==
  db.deleted ~> \A c \in Clients : ~conn[c].writable
============================================================================
