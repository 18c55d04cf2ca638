---------------------------- MODULE Notification ---------------------------
(***************************************************************************)
(* The notification coordinators of all server instances for one contest:  *)
(* commit, announcement to the local hub and over Redis, reconciliation    *)
(* with the database, and the attachment of SSE connections                *)
(* (contest-event-notification.ts and the routes that call it).            *)
(*                                                                         *)
(* Each step runs between two awaits of one instance.  Redis promises      *)
(* nothing: what was published reaches each instance at any time, in any   *)
(* order, more than once or never.  The hub of an instance keeps what      *)
(* SseHub is shown to keep, WatermarkFeed: an active connection is told    *)
(* what the hub is notified of, a paused one has it pending.  An operator  *)
(* marked "Wrong" is a slip one could make in the operator that follows    *)
(* it; Next uses none of them.                                             *)
(***************************************************************************)
EXTENDS Watermark, Integers, FiniteSets

CONSTANTS
  Instances,
  Clients,                \* SSE requests, each made once
  MaxRevision, MaxEventId,\* bounds on the stream explored
  MaxAnnouncing           \* bound on the announcements outstanding at once

ASSUME NotificationAssumption ==
  /\ Instances # {}
  /\ MaxRevision \in Nat \ {0}
  /\ MaxEventId \in Nat
  /\ MaxAnnouncing \in Nat \ {0}

VARIABLES
  db,         \* the stream row's watermark; "deleted" of the contest row
  inst,       \* life of each instance
  announcing, \* commits whose announcement by their instance is still to come
  published,  \* messages that were published over Redis
  reconciling,\* each instance's reconcile()
  conn        \* SSE requests

vars == <<db, inst, announcing, published, reconciling, conn>>

Committed == [rev : 1 .. MaxRevision, id : 0 .. MaxEventId]

MaybeWatermark == Committed \cup {NoWatermark}

\* A committed watermark, or the control message of a deletion (NoWatermark).
Message == MaybeWatermark

Deletion == NoWatermark

Reconcile ==
  [state : {"idle", "reading", "read"}, gone : BOOLEAN, answer : MaybeWatermark]

Idle == [state |-> "idle", gone |-> FALSE, answer |-> NoWatermark]

\* The handler of a request awaits the identity ("identifying") and then the authority
\* ("registered"); in "identified", "read" and "prepared" it is about to go on, in
\* prepareClient or in the route; after that it is "done".  registration: its place in
\* pendingAttachments, and then in the hub.  writable: the response has not ended.
\* seen: the last watermark read for it.  owed (history): the least it must be told
\* once it is active.
Connection ==
  [phase : {"absent", "identifying", "identified", "registered", "read", "prepared",
            "done"},
   at : Instances, registration : {"none", "pending", "paused", "active", "closed"},
   writable : BOOLEAN, seen : MaybeWatermark, pending : MaybeWatermark,
   told : MaybeWatermark, owed : MaybeWatermark]

NoRequest ==
  [phase |-> "absent", at |-> CHOOSE i \in Instances : TRUE,
   registration |-> "none", writable |-> FALSE,
   seen |-> NoWatermark, pending |-> NoWatermark, told |-> NoWatermark,
   owed |-> NoWatermark]

\* Answered, with an error or as a stream that has ended, and forgotten.
Over == [NoRequest EXCEPT !.phase = "done", !.registration = "closed"]

HubClients(i) ==
  { c \in Clients : conn[c].at = i /\ conn[c].registration \in {"paused", "active"} }

Running(i) == inst[i] = "up"

----------------------------------------------------------------------------
(* The hub of instance i. *)

Heard(c, w) ==
  IF conn[c].registration = "active"
    THEN [conn[c] EXCEPT !.told = Latest(@, w), !.owed = Latest(@, w)]
    ELSE [conn[c] EXCEPT !.pending = Latest(@, w), !.owed = Latest(@, w)]

NotifyHub(i, w) ==
  conn' = [c \in Clients |-> IF c \in HubClients(i) THEN Heard(c, w) ELSE conn[c]]

\* A registration that is closed takes nothing more and will be told nothing.
Unregistered(k) ==
  [k EXCEPT !.registration = "closed", !.seen = NoWatermark, !.pending = NoWatermark,
            !.owed = NoWatermark]

\* closeClient: it ends a stream; the response of a paused client is not its own, and
\* the handler will find the registration closed.
Detached(k) == IF k.registration = "active" THEN Over ELSE Unregistered(k)

CloseContest(i) ==
  conn' = [c \in Clients |-> IF c \in HubClients(i) THEN Detached(conn[c]) ELSE conn[c]]

\* announceCommitted, announceControl and their counterparts for Redis.
Handle(i, m) == IF m = Deletion THEN CloseContest(i) ELSE NotifyHub(i, m)

----------------------------------------------------------------------------
(* Commits and their announcement. *)

\* An append or a reset; an append of duplicates only commits nothing new and is
\* announced all the same.
Commit(i, w) ==
  /\ Running(i) /\ ~db.deleted
  /\ Cardinality(announcing) < MaxAnnouncing
  /\ w \in Committed
  /\ \/ w = db.mark
     \/ w = [db.mark EXCEPT !.id = @ + 1]
     \/ w = [rev |-> db.mark.rev + 1, id |-> 0]
  /\ db' = [db EXCEPT !.mark = w]
  /\ announcing' = announcing \cup {<<i, w>>}
  /\ UNCHANGED <<inst, published, reconciling, conn>>

DeleteContest(i) ==
  /\ Running(i) /\ ~db.deleted
  /\ Cardinality(announcing) < MaxAnnouncing
  /\ db' = [db EXCEPT !.deleted = TRUE]
  /\ announcing' = announcing \cup {<<i, Deletion>>}
  /\ UNCHANGED <<inst, published, reconciling, conn>>

\* First the local hub, then Redis, unless the publisher is not ready, fails or
\* times out; nothing at all once the instance is stopping.
Announce(i, m, sent) ==
  /\ <<i, m>> \in announcing
  /\ announcing' = announcing \ {<<i, m>>}
  /\ IF Running(i) THEN Handle(i, m) ELSE UNCHANGED conn
  /\ published' = IF Running(i) /\ sent THEN published \cup {m} ELSE published
  /\ UNCHANGED <<db, inst, reconciling>>

\* notifyFromRedis, after the wait for the eager tail fill, and
\* notifyControlFromRedis.
Deliver(i, m) ==
  /\ Running(i)
  /\ m \in published
  /\ Handle(i, m)
  /\ UNCHANGED <<db, inst, announcing, published, reconciling>>

----------------------------------------------------------------------------
(* Reconciliation: on a timer and whenever Redis was (re)subscribed. *)

StartReconcile(i) ==
  /\ Running(i)
  /\ reconciling[i].state = "idle"
  /\ HubClients(i) # {}
  /\ reconciling' = [reconciling EXCEPT ![i].state = "reading"]
  /\ UNCHANGED <<db, inst, announcing, published, conn>>

\* The database answers with one snapshot, in which a deleted contest is missing.
ReadReconcile(i) ==
  /\ reconciling[i].state = "reading"
  /\ reconciling' = [reconciling EXCEPT
       ![i] = [state |-> "read", gone |-> db.deleted,
               answer |-> IF db.deleted THEN NoWatermark ELSE db.mark]]
  /\ UNCHANGED <<db, inst, announcing, published, conn>>

FailReconcile(i) ==
  /\ reconciling[i].state = "reading"
  /\ reconciling' = [reconciling EXCEPT ![i] = Idle]
  /\ UNCHANGED <<db, inst, announcing, published, conn>>

\* What the answer says of the contest goes to the hub.
Reconciled(i) ==
  IF reconciling[i].gone THEN CloseContest(i) ELSE NotifyHub(i, reconciling[i].answer)

\* Wrong: a contest the database does not know any more is passed over.
FinishReconcileOfKnown(i) ==
  /\ reconciling[i].state = "read"
  /\ IF reconciling[i].gone \/ ~Running(i) THEN UNCHANGED conn
     ELSE NotifyHub(i, reconciling[i].answer)
  /\ reconciling' = [reconciling EXCEPT ![i] = Idle]
  /\ UNCHANGED <<db, inst, announcing, published>>

\* Wrong: stays in flight for ever.
FinishReconcileInFlight(i) ==
  /\ reconciling[i].state = "read"
  /\ IF Running(i) THEN Reconciled(i) ELSE UNCHANGED conn
  /\ UNCHANGED <<db, inst, announcing, published, reconciling>>

\* An answer that comes back to an instance that is stopping is ignored.
FinishReconcile(i) ==
  /\ reconciling[i].state = "read"
  /\ IF Running(i) THEN Reconciled(i) ELSE UNCHANGED conn
  /\ reconciling' = [reconciling EXCEPT ![i] = Idle]
  /\ UNCHANGED <<db, inst, announcing, published>>

----------------------------------------------------------------------------
(* prepareClient and the SSE route. *)

\* A request that comes when the instance is stopping is refused.
Request(c, i) ==
  /\ inst[i] # "down"
  /\ conn[c].phase = "absent"
  /\ conn' = [conn EXCEPT ![c] =
       IF Running(i)
         THEN [@ EXCEPT !.phase = "identifying", !.at = i,
                        !.registration = "pending", !.writable = TRUE]
         ELSE Over]
  /\ UNCHANGED <<db, inst, announcing, published, reconciling>>

\* getCanonicalStreamState.
Identify(c) ==
  /\ conn[c].phase = "identifying"
  /\ conn' = [conn EXCEPT ![c] =
       IF db.deleted THEN Over
       ELSE [@ EXCEPT !.phase = "identified", !.seen = db.mark]]
  /\ UNCHANGED <<db, inst, announcing, published, reconciling>>

\* A read fails, or is cancelled with its batch by stop: the handler gives up.
FailRead(c) ==
  /\ conn[c].phase \in {"identifying", "registered"}
  /\ conn' = [conn EXCEPT ![c] = Over]
  /\ UNCHANGED <<db, inst, announcing, published, reconciling>>

\* After the identity read: unless the response has ended or the instance is stopping,
\* and so drains its hub, the hub has the client before anything else is read.
Register(c) ==
  /\ conn[c].phase = "identified"
  /\ conn' = [conn EXCEPT ![c] =
       IF conn[c].registration = "pending" /\ Running(conn[c].at)
         THEN [@ EXCEPT !.phase = "registered", !.registration = "paused",
                        !.owed = db.mark]
         ELSE Over]
  /\ UNCHANGED <<db, inst, announcing, published, reconciling>>

\* Wrong: the watermark of the identity read will do.
ReadAuthorityEarly(c) ==
  /\ conn[c].phase = "registered"
  /\ conn' = [conn EXCEPT ![c] =
       IF db.deleted THEN Over ELSE [@ EXCEPT !.phase = "read"]]
  /\ UNCHANGED <<db, inst, announcing, published, reconciling>>

\* readPostRegistrationAuthority: requests share a query that starts after all of
\* them are registered; each is answered with some later snapshot.
ReadAuthority(c) ==
  /\ conn[c].phase = "registered"
  /\ conn' = [conn EXCEPT ![c] =
       IF db.deleted THEN Over
       ELSE [@ EXCEPT !.phase = "read", !.seen = db.mark]]
  /\ UNCHANGED <<db, inst, announcing, published, reconciling>>

\* After the authority read: the instance may be stopping by now, or the registration
\* have been closed by the hub or by the response.
Prepare(c) ==
  /\ conn[c].phase = "read"
  /\ conn' = [conn EXCEPT ![c] =
       IF Running(conn[c].at) /\ conn[c].registration = "paused"
         THEN [@ EXCEPT !.phase = "prepared"]
         ELSE Over]
  /\ UNCHANGED <<db, inst, announcing, published, reconciling>>

\* activateClient, which does nothing for a registration that is closed.
Activated(k) ==
  IF k.registration # "paused" THEN k
  ELSE [k EXCEPT !.registration = "active", !.told = Latest(k.seen, k.pending),
                 !.pending = NoWatermark]

\* Wrong: opens the stream whatever has become of the registration since.
OpenAnyway(c) ==
  /\ conn[c].phase = "prepared"
  /\ conn' = [conn EXCEPT ![c] =
       [Activated(conn[c]) EXCEPT !.phase = "done", !.seen = NoWatermark]]
  /\ UNCHANGED <<db, inst, announcing, published, reconciling>>

\* The route: once it has opened the stream, only the hub will end it.
Open(c) ==
  /\ conn[c].phase = "prepared"
  /\ conn' = [conn EXCEPT ![c] =
       IF conn[c].registration = "closed" THEN Over
       ELSE [Activated(conn[c]) EXCEPT !.phase = "done", !.seen = NoWatermark]]
  /\ UNCHANGED <<db, inst, announcing, published, reconciling>>

\* The response ends at the client's end, or the hub gives a stream up.  Who listens
\* notes it, pending attachment or registration; the handler goes on.
Leave(c) ==
  /\ conn[c].writable
  /\ conn' = [conn EXCEPT ![c] =
       IF conn[c].phase = "done" THEN Over
       ELSE [Unregistered(conn[c]) EXCEPT !.writable = FALSE]]
  /\ UNCHANGED <<db, inst, announcing, published, reconciling>>

----------------------------------------------------------------------------
(* The life of an instance. *)

\* stop: attachments that are not with the hub yet are marked closed, the hub is
\* drained.  Handlers that wait for the database find that later.
Stop(i) ==
  /\ Running(i)
  /\ inst' = [inst EXCEPT ![i] = "stopping"]
  /\ conn' = [c \in Clients |->
       IF conn[c].at = i /\ conn[c].registration \in {"pending", "paused", "active"}
         THEN Detached(conn[c]) ELSE conn[c]]
  /\ UNCHANGED <<db, announcing, published, reconciling>>

\* The process ends, in order or not, and takes its sockets with it.
Exit(i) ==
  /\ inst[i] # "down"
  /\ inst' = [inst EXCEPT ![i] = "down"]
  /\ conn' = [c \in Clients |->
       IF conn[c].at = i /\ conn[c].phase # "absent" THEN Over ELSE conn[c]]
  /\ announcing' = { a \in announcing : a[1] # i }
  /\ reconciling' = [reconciling EXCEPT ![i] = Idle]
  /\ UNCHANGED <<db, published>>

Restart(i) ==
  /\ inst[i] = "down"
  /\ inst' = [inst EXCEPT ![i] = "up"]
  /\ UNCHANGED <<db, announcing, published, reconciling, conn>>

----------------------------------------------------------------------------
Init ==
  /\ db = [mark |-> [rev |-> 1, id |-> 0], deleted |-> FALSE]
  /\ inst = [i \in Instances |-> "up"]
  /\ announcing = {}
  /\ published = {}
  /\ reconciling = [i \in Instances |-> Idle]
  /\ conn = [c \in Clients |-> NoRequest]

Write(i) == (\E w \in Committed : Commit(i, w)) \/ DeleteContest(i)

Pass(i) ==
  \E m \in Message :
    Deliver(i, m) \/ \E sent \in BOOLEAN : Announce(i, m, sent)

Reconciling(i) ==
  StartReconcile(i) \/ ReadReconcile(i) \/ FailReconcile(i) \/ FinishReconcile(i)

Attaching(c) ==
  \/ Identify(c) \/ FailRead(c) \/ Register(c)
  \/ ReadAuthority(c) \/ Prepare(c) \/ Open(c)

Next ==
  \/ \E i \in Instances : Write(i)
  \/ \E i \in Instances : Pass(i)
  \/ \E i \in Instances : Reconciling(i)
  \/ \E i \in Instances : Stop(i) \/ Exit(i) \/ Restart(i)
  \/ \E c \in Clients, i \in Instances : Request(c, i)
  \/ \E c \in Clients : Attaching(c) \/ Leave(c)

Spec == Init /\ [][Next]_vars

\* The reconcile timer of a running instance fires, its query succeeds in the end if it
\* is repeated, and a handler goes on: each of its reads is answered or fails.
Fairness ==
  /\ \A i \in Instances :
       /\ WF_vars(StartReconcile(i)) /\ WF_vars(FinishReconcile(i))
       /\ SF_vars(ReadReconcile(i))
  /\ \A c \in Clients : WF_vars(Attaching(c))

LiveSpec == Spec /\ Fairness
============================================================================
