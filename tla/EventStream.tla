---------------------------- MODULE EventStream ----------------------------
(***************************************************************************)
(* The MySQL side of one contest: its row, its event-stream row and the    *)
(* append-only event log (src/server/modules/contest).  Every write path   *)
(* locks the contest row and then the stream row before it reads anything, *)
(* so one transaction is one atomic step; a step that throws rolls back,   *)
(* which is the same as not taking it.                                     *)
(*                                                                         *)
(* Requests are drawn from Batches at any moment, so retries, late         *)
(* duplicates, reordered batches and batches of a displaced producer are   *)
(* all among the behaviours.                                               *)
(***************************************************************************)
EXTENDS Integers, Sequences

CONSTANTS
  Producers,       \* values of the x-producer-id header
  Solutions,       \* solution ids an event may name
  Times,           \* normalised event times, in nanoseconds
  FreezeStarts,    \* effective freeze boundaries an update may set
  Batches,         \* the batches a producer may submit
  NoProducer, NoSolution, NoTime, NoFreeze,
  MaxRevision      \* bound on the stream revisions explored

EventTypes == {"NEW", "PROGRESS", "SETTLE", "CHANGE", "CONFIG"}

\* A decoded producer event: "time" stands for the times and percentages of the
\* payload, "judged" tells a final verdict from a pending one (PD, JG, "?").
ProducerEvent ==
  { e \in [id : Nat \ {0}, type : EventTypes,
           sol : Solutions \cup {NoSolution}, time : Times, judged : BOOLEAN] :
      (e.sol = NoSolution) <=> (e.type = "CONFIG") }

\* What validateProducerBatch lets through: non-empty, ids strictly increasing.
WellFormedBatch(b) ==
  /\ b \in Seq(ProducerEvent)
  /\ b # << >>
  /\ \A i, j \in 1 .. Len(b) : i < j => b[i].id < b[j].id

ASSUME StreamAssumption ==
  /\ Times \subseteq Nat
  /\ NoTime \notin Times
  /\ NoProducer \notin Producers
  /\ NoSolution \notin Solutions
  /\ FreezeStarts \subseteq Nat
  /\ NoFreeze \notin FreezeStarts
  /\ MaxRevision \in Nat \ {0}
  /\ \A b \in Batches : WellFormedBatch(b)

VARIABLES
  contest,   \* the contest row: status, soft deletion, freeze boundary
  stream,    \* the stream row: revision, last event id, producer lock
  rows,      \* the contest_event table, every revision
  acked,     \* history: what append responses have acknowledged
  writers    \* history: who inserted since the lock was last free

vars == <<contest, stream, rows, acked, writers>>

Row ==
  [rev : Nat \ {0}, id : Nat \ {0}, type : EventTypes,
   sol : Solutions \cup {NoSolution}, time : Times, judged : BOOLEAN,
   submit : Times \cup {NoTime}]

Contest ==
  [status : {"Absent", "Created", "Finalized"}, deleted : BOOLEAN,
   frozenStart : FreezeStarts \cup {NoFreeze}]

Stream ==
  [rev : Nat \ {0}, last : Nat, producer : Producers \cup {NoProducer}]

Max2(a, b) == IF a < b THEN b ELSE a

----------------------------------------------------------------------------
(* The append transaction. *)

\* findEvents: the rows of the current revision with this event id.
Stored(id) == { r \in rows : r.rev = stream.rev /\ r.id = id }

Fresh(b) == { i \in 1 .. Len(b) : Stored(b[i].id) = {} }

\* The payload hash covers everything the producer sent and nothing else.
SamePayload(r, e) ==
  /\ r.type = e.type
  /\ r.sol = e.sol
  /\ r.time = e.time
  /\ r.judged = e.judged

\* Wrong: an event id seen before is a duplicate if the type agrees.
NoConflictByType(b) ==
  \A i \in 1 .. Len(b) : \A r \in Stored(b[i].id) : r.type = b[i].type

NoConflict(b) ==
  \A i \in 1 .. Len(b) : \A r \in Stored(b[i].id) : SamePayload(r, b[i])

\* "cursor" when the loop reaches event i, whatever it did with the others.
CursorBefore(b, i) ==
  IF i = 1 THEN stream.last ELSE Max2(stream.last, b[i - 1].id)

\* Wrong: new ids need only lie beyond the watermark.
NoGapBeyond(b) == \A i \in Fresh(b) : b[i].id > stream.last

NoGap(b) == \A i \in Fresh(b) : b[i].id = CursorBefore(b, i) + 1

NeedsSubmitTime(e) == e.type \in {"PROGRESS", "SETTLE", "CHANGE"}

\* Wrong: looks for the NEW in every revision of the contest.
NewRowsAnyRevision(s) == { r \in rows : r.type = "NEW" /\ r.sol = s }

NewRows(s) == { r \in rows : r.rev = stream.rev /\ r.type = "NEW" /\ r.sol = s }

\* findNewSolutionSubmitTimes: an unordered query folded into a Map, so when
\* several NEW rows name one solution, any of them may be the one kept.
PersistedSubmitTimes ==
  { f \in [Solutions -> Times \cup {NoTime}] :
      \A s \in Solutions :
        IF NewRows(s) = {} THEN f[s] = NoTime
                           ELSE \E r \in NewRows(s) : f[s] = r.submit }

\* getBatchSubmitTimesByEventId: the batch's own NEW events before event i.
BatchNews(b, i) ==
  { j \in 1 .. (i - 1) : b[j].type = "NEW" /\ b[j].sol = b[i].sol }

\* fillSolutionSubmitTime: batch first (its latest NEW), then the database.
SubmitTime(b, i, persisted) ==
  CASE b[i].type = "NEW" -> b[i].time
    [] b[i].type = "CONFIG" -> NoTime
    [] NeedsSubmitTime(b[i]) /\ BatchNews(b, i) # {} ->
         b[CHOOSE j \in BatchNews(b, i) :
             \A k \in BatchNews(b, i) : k <= j].time
    [] OTHER -> persisted[b[i].sol]

Submitted(b, persisted) ==
  \A i \in Fresh(b) :
    NeedsSubmitTime(b[i]) => SubmitTime(b, i, persisted) # NoTime

NewRow(b, i, persisted) ==
  [rev |-> stream.rev, id |-> b[i].id, type |-> b[i].type, sol |-> b[i].sol,
   time |-> b[i].time, judged |-> b[i].judged,
   submit |-> SubmitTime(b, i, persisted)]

Inserted(b, persisted) == { NewRow(b, i, persisted) : i \in Fresh(b) }

Live == contest.status # "Absent" /\ ~contest.deleted

\* Wrong: a producer that knows the revision may append beside the holder.
MayAppendUnlocked(p, rev) ==
  Live /\ contest.status # "Finalized" /\ rev = stream.rev

MayAppend(p, rev) ==
  /\ Live
  /\ contest.status # "Finalized"
  /\ rev = stream.rev
  /\ stream.producer \in {NoProducer, p}

\* appendProducerEvents: claim or check the lock, insert what is new, advance
\* the watermark; the response acknowledges duplicates and insertions alike.
AppendProducerEvents(p, rev, b, persisted) ==
  /\ MayAppend(p, rev)
  /\ persisted \in PersistedSubmitTimes
  /\ NoConflict(b)
  /\ NoGap(b)
  /\ Submitted(b, persisted)
  /\ rows' = rows \cup Inserted(b, persisted)
  /\ stream' = [stream EXCEPT !.producer = p,
                              !.last = Max2(stream.last, b[Len(b)].id)]
  /\ acked' = acked \cup { [rev |-> rev, event |-> b[i]] : i \in 1 .. Len(b) }
  /\ writers' = IF Fresh(b) = {} THEN writers ELSE writers \cup {p}
  /\ UNCHANGED contest

----------------------------------------------------------------------------
(* Administrative transactions. *)

\* createContest: a uk is used once, even if its contest was deleted since.
CreateContest(freeze) ==
  /\ contest.status = "Absent"
  /\ contest' = [status |-> "Created", deleted |-> FALSE, frozenStart |-> freeze]
  /\ stream' = [rev |-> 1, last |-> 0, producer |-> NoProducer]
  /\ UNCHANGED <<rows, acked, writers>>

\* releaseProducerLock: no status check, a finalized stream is released too.
ReleaseProducerLock ==
  /\ Live
  /\ stream' = [stream EXCEPT !.producer = NoProducer]
  /\ writers' = {}
  /\ UNCHANGED <<contest, rows, acked>>

\* Wrong: removes the rows instead of leaving them to the old revision.
DropEventsAndRows ==
  /\ Live
  /\ contest.status # "Finalized"
  /\ stream.rev < MaxRevision
  /\ stream' = [rev |-> stream.rev + 1, last |-> 0, producer |-> NoProducer]
  /\ rows' = {}
  /\ writers' = {}
  /\ UNCHANGED <<contest, acked>>

\* dropEvents: a new, empty, unlocked revision; the old rows stay.
DropEvents ==
  /\ Live
  /\ contest.status # "Finalized"
  /\ stream.rev < MaxRevision
  /\ stream' = [rev |-> stream.rev + 1, last |-> 0, producer |-> NoProducer]
  /\ writers' = {}
  /\ UNCHANGED <<contest, rows, acked>>

\* updateContest with duration or frozenDuration, on an open contest.
UpdateFreeze(freeze) ==
  /\ Live
  /\ contest.status = "Created"
  /\ contest' = [contest EXCEPT !.frozenStart = freeze]
  /\ UNCHANGED <<stream, rows, acked, writers>>

\* updateContest with a srkFileID: an empty stream is sealed by it, a stream
\* with events only gets the file reference.  On a finalized contest it is the
\* archive correction, which may change the durations along with the file.
AttachArchive(freeze) ==
  /\ Live
  /\ contest' = [contest EXCEPT
       !.status = IF stream.last = 0 THEN "Finalized" ELSE @,
       !.frozenStart = freeze]
  /\ UNCHANGED <<stream, rows, acked, writers>>

CurrentRows == { r \in rows : r.rev = stream.rev }

Settling == {"SETTLE", "CHANGE"}

\* Wrong: a verdict anywhere in the stream settles its solution for good.
FinalizableOnceJudged ==
  \A r \in CurrentRows : r.type = "NEW" =>
    \E q \in CurrentRows : q.type \in Settling /\ q.judged /\ q.sol = r.sol

\* What FinalContestRanklistBuilder accepts: consecutive ids up to the
\* watermark, one NEW per solution and before its other events, and no solution
\* left open: the last event after its NEW carries a final verdict.
Finalizable ==
  /\ \A n \in 1 .. stream.last : \E r \in CurrentRows : r.id = n
  /\ \A r, q \in CurrentRows :
       (r.type = "NEW" /\ q.type = "NEW" /\ r.sol = q.sol) => r = q
  /\ \A r \in CurrentRows : NeedsSubmitTime(r) =>
       \E q \in CurrentRows : q.type = "NEW" /\ q.sol = r.sol /\ q.id < r.id
  /\ \A r \in CurrentRows : r.type = "NEW" =>
       \E q \in CurrentRows :
         /\ q.type \in Settling /\ q.judged /\ q.sol = r.sol
         /\ \A x \in CurrentRows : x.sol = r.sol => x.id <= q.id

\* finalize: the committed outcome; FinalizationUpload has its object store.
Finalize ==
  /\ Live
  /\ contest.status = "Created"
  /\ Finalizable
  /\ contest' = [contest EXCEPT !.status = "Finalized"]
  /\ UNCHANGED <<stream, rows, acked, writers>>

\* deleteContest: a soft delete; no query finds the contest afterwards.
DeleteContest ==
  /\ Live
  /\ contest' = [contest EXCEPT !.deleted = TRUE]
  /\ UNCHANGED <<stream, rows, acked, writers>>

----------------------------------------------------------------------------
Init ==
  /\ contest = [status |-> "Absent", deleted |-> FALSE, frozenStart |-> NoFreeze]
  /\ stream = [rev |-> 1, last |-> 0, producer |-> NoProducer]
  /\ rows = {}
  /\ acked = {}
  /\ writers = {}

AppendSome ==
  \E p \in Producers, rev \in 1 .. MaxRevision, b \in Batches :
    \E persisted \in PersistedSubmitTimes :
      AppendProducerEvents(p, rev, b, persisted)

Next ==
  \/ \E freeze \in FreezeStarts \cup {NoFreeze} : CreateContest(freeze)
  \/ AppendSome
  \/ ReleaseProducerLock
  \/ DropEvents
  \/ \E freeze \in FreezeStarts \cup {NoFreeze} : UpdateFreeze(freeze)
  \/ \E freeze \in FreezeStarts \cup {NoFreeze} : AttachArchive(freeze)
  \/ Finalize
  \/ DeleteContest

Spec == Init /\ [][Next]_vars

============================================================================
