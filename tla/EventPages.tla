---------------------------- MODULE EventPages -----------------------------
(***************************************************************************)
(* The pages of a contest's events, which two pieces of code select: the   *)
(* service from the rows of the log (contest-event-stream.service.ts,      *)
(* contest-event-codec.ts) and the read cache from a snapshot that is built *)
(* in chunks and extended (contest-event-read-cache-core.ts).              *)
(*                                                                         *)
(* An event is its type and its solution, known by its id, its place in    *)
(* the log; SETTLE and CHANGE are alike ("result") for what is shown.  A   *)
(* page is a set of ids, since ids are ascending everywhere.               *)
(***************************************************************************)
EXTENDS Integers, Sequences, FiniteSets

CONSTANTS
  Solutions,
  FrozenSolutions,  \* those submitted after the freeze
  ChunkEventCount,
  MaxSynchronousProjectionChunks,
  MaxEvents         \* bound on the log

ASSUME EventPagesAssumption ==
  /\ FrozenSolutions \subseteq Solutions
  /\ ChunkEventCount \in Nat \ {0}
  /\ MaxSynchronousProjectionChunks \in Nat
  /\ MaxEvents \in Nat

VARIABLES
  events,   \* the log of the revision
  snapshot  \* the cache: the snapshot, <<>> when there is none

pagesVars == <<events, snapshot>>

NewEvent == {[type |-> "new", solution |-> s] : s \in Solutions}

\* Events of a solution that was submitted; config changes have no solution.
LaterEvents ==
  {[type |-> t, solution |-> s] :
     t \in {"progress", "result"},
     s \in {events[i].solution : i \in {j \in DOMAIN events : events[j].type = "new"}}}
  \cup {[type |-> "config", solution |-> "none"]}

\* filterFrozenNonNewEvents, isVisibleForFreeze.
VisibleForFreeze(id) ==
  events[id].type \in {"progress", "result"} => events[id].solution \notin FrozenSolutions

----------------------------------------------------------------------------
(* From the rows of the log. *)

\* Wrong: looks beyond the fence.
SettledEventIdUnfenced(solution, after, through) ==
  LET ids == {id \in after + 1 .. Len(events) :
                events[id] = [type |-> "result", solution |-> solution]}
  IN  IF ids = {} THEN 0 ELSE CHOOSE id \in ids : \A other \in ids : other <= id

\* The newest result of a solution that the snapshot read of the database finds.
SettledEventId(solution, after, through) ==
  LET ids == {id \in after + 1 .. through :
                events[id] = [type |-> "result", solution |-> solution]}
  IN  IF ids = {} THEN 0 ELSE CHOOSE id \in ids : \A other \in ids : other <= id

\* compactSettledProgressEvents.
ShownCompact(id, after, through) ==
  \/ events[id].type # "progress"
  \/ SettledEventId(events[id].solution, after, through) <= id

\* getClientEventsAtFence.
ServicePage(after, limit, compact, through) ==
  LET rows == {id \in after + 1 .. through : id <= after + limit + 1}
      page == {id \in rows : id <= after + limit}
  IN  [shown |-> {id \in page : /\ VisibleForFreeze(id)
                                /\ compact => ShownCompact(id, after, through)},
       checkpoint |-> IF page = {} THEN after
                      ELSE CHOOSE id \in page : \A other \in page : other <= id,
       hasMore |-> Cardinality(rows) > limit]

----------------------------------------------------------------------------
(* The snapshot.  Chunks count from 1 here, slots from 0 as in the code. *)

ChunkOf(id) == (id - 1) \div ChunkEventCount + 1

ChunksUpTo(id) == (id + ChunkEventCount - 1) \div ChunkEventCount

FirstOf(k) == (k - 1) * ChunkEventCount + 1

\* buildChunk: the slots of the events that are shown, in full and compacted.
BuildChunk(k, last, full, compact) ==
  LET slots(ids) == {slot \in 0 .. ChunkEventCount - 1 :
                       FirstOf(k) + slot <= last /\ FirstOf(k) + slot \in ids}
  IN  [full |-> slots(full), compact |-> slots(compact)]

IdsOf(k, slots) == {FirstOf(k) + slot : slot \in slots}

\* One event passes by, in a build or an append.  A result takes the progress that
\* it supersedes out of the compacted view.
Consume(state, id) ==
  LET solution == events[id].solution
      Shows(type) == VisibleForFreeze(id) /\ events[id].type = type
      superseded == IF Shows("result") THEN state.pending[solution] ELSE {}
  IN  [removed |-> state.removed \cup superseded,
       touched |-> state.touched \cup {ChunkOf(i) : i \in superseded},
       pending |-> IF Shows("progress") THEN [state.pending EXCEPT ![solution] = @ \cup {id}]
                   ELSE IF Shows("result") THEN [state.pending EXCEPT ![solution] = {}]
                   ELSE state.pending]

Consumed(pending, first, last) ==
  LET read[id \in first - 1 .. last] ==
        IF id < first THEN [removed |-> {}, touched |-> {}, pending |-> pending]
        ELSE Consume(read[id - 1], id)
  IN  read[last]

\* buildContestEventCacheSnapshot.
Build(last) ==
  LET read == Consumed([s \in Solutions |-> {}], 1, last)
      full == {id \in 1 .. last : VisibleForFreeze(id)}
  IN  [last |-> last,
       chunks |-> [k \in 1 .. ChunksUpTo(last) |->
                     BuildChunk(k, last, full, full \ read.removed)],
       pending |-> read.pending]

\* Wrong: only the chunks that are rebuilt anyhow lose the superseded progress.
FilterChunkNot(k, chunk, removed) == chunk

\* filterChunkCompactProjection.
FilterChunk(k, chunk, removed) ==
  [full |-> chunk.full,
   compact |-> {slot \in chunk.compact : FirstOf(k) + slot \notin removed}]

\* rebuildAppendedChunks: whole chunks are kept, a partial one is built again.
RebuildAppendedChunks(last, removed) ==
  LET whole == snapshot.last \div ChunkEventCount
      tail == IF whole < Len(snapshot.chunks) THEN snapshot.chunks[whole + 1]
              ELSE [full |-> {}, compact |-> {}]
      new == {id \in snapshot.last + 1 .. last : VisibleForFreeze(id)}
      full == IdsOf(whole + 1, tail.full) \cup new
      compact == (IdsOf(whole + 1, tail.compact) \cup new) \ removed
  IN  [k \in 1 .. ChunksUpTo(last) |->
         IF k <= whole THEN FilterChunk(k, snapshot.chunks[k], removed)
         ELSE BuildChunk(k, last, full, compact)]

\* selectPage, selectVisibleRecords.
SnapshotPage(after, limit, compact) ==
  LET checkpoint == IF after + limit < snapshot.last THEN after + limit
                    ELSE snapshot.last
      chunks == IF checkpoint > after THEN ChunkOf(after + 1) .. ChunkOf(checkpoint)
                ELSE {}
      slots(k) == IF compact THEN snapshot.chunks[k].compact
                  ELSE snapshot.chunks[k].full
  IN  [shown |-> {id \in UNION {IdsOf(k, slots(k)) : k \in chunks} :
                    after < id /\ id <= checkpoint},
       checkpoint |-> checkpoint,
       hasMore |-> checkpoint < snapshot.last]

----------------------------------------------------------------------------
(* The producer and the cache. *)

AppendEvent(e) ==
  /\ Len(events) < MaxEvents
  /\ e \in NewEvent \cup LaterEvents
  /\ events' = Append(events, e)
  /\ UNCHANGED snapshot

\* A hydration without a snapshot to start from.
BuildSnapshot ==
  /\ snapshot = <<>>
  /\ snapshot' = Build(Len(events))
  /\ UNCHANGED events

\* The committed batch, or the tail that a hydration has read, is appended; if that
\* would rewrite too many chunks, a hydration builds the snapshot again and a
\* batch that comes by itself drops it.
AppendCommitted(last, hydration) ==
  /\ snapshot # <<>> /\ last \in snapshot.last + 1 .. Len(events)
  /\ LET read == Consumed(snapshot.pending, snapshot.last + 1, last)
     IN  snapshot' =
           IF Cardinality(read.touched) <= MaxSynchronousProjectionChunks
           THEN [last |-> last,
                 chunks |-> RebuildAppendedChunks(last, read.removed),
                 pending |-> read.pending]
           ELSE IF hydration THEN Build(last) ELSE <<>>
  /\ UNCHANGED events

\* An eviction.
DropSnapshot ==
  /\ snapshot # <<>>
  /\ snapshot' = <<>>
  /\ UNCHANGED events

PagesInit == events = <<>> /\ snapshot = <<>>

PagesNext ==
  \/ \E e \in NewEvent \cup LaterEvents : AppendEvent(e)
  \/ BuildSnapshot
  \/ \E last \in 1 .. Len(events), hydration \in BOOLEAN :
       AppendCommitted(last, hydration)
  \/ DropSnapshot

PagesSpec == PagesInit /\ [][PagesNext]_pagesVars
============================================================================
