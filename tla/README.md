# Formal models of RankLand's live contest pipeline

RankLand shows programming-contest ranklists. Its live part takes a stream of
judge events from a producer, keeps it in MySQL, tells browsers over SSE that
there is something new, and lets each browser read the events it is missing and
compute the ranklist itself. This directory holds TLA+ models of that pipeline,
the TLC runs that check them on small instances, and TLAPS proofs of what the
models promise for every size. `PROJECT.json` maps each definition to the lines it
models (`src/...`), and lists the runs, the mutants, the hazards and the theorems.

Run everything inside this directory, for example

    tlc -workers 2 -config MCSseHub.cfg MCSseHub
    tlapm SseHubProofs.tla

## 1. The system

    producer --POST events--> [EventStream: contest, stream, event rows in MySQL]
                                   |  commit
                                   v
                         [Notification: coordinator of each instance] <--> Redis
                                   |  notify                 ^ reconcile (DB)
                                   v                         |
                         [SseHub: connections of one instance]
                                   |  events-available (revision, last id)
                                   v
    ranklist <-- [Board] <-- [LiveConsumer: the browser's session] <--> [LiveView]
    rows <-- [ScrollQueue]         |  GET event-stream, GET events?after=...
                                   v
                         [ReadCache, CacheBudget: one instance's memory]
                                   |  a miss, a refresh, a hydration
                                   v
                         [ReadAdmission: bulkhead, deadline, pool] --> MySQL

    administrator --finalize--> [Finalization: contest rows, archive file, object store]
    every instance              [IdGenerator: ids, worker slots in MySQL]

What passes between the parts is a *watermark*: the pair (stream revision, last
event id), ordered lexicographically. A reset (`dropEvents`) starts a new revision at
id 0. Notifications carry only watermarks; events are always fetched.

### Components, their state and operations

| Component (source) | State | Operations | What makes it correct |
|---|---|---|---|
| Event log (`contest-event-stream.service.ts`, `contest-event-store.typeorm.ts`, `contest.service.ts`) | contest row (status, deletion, freeze), stream row (revision, last id, producer lock), event rows | append, release lock, reset, update, attach archive, finalize, delete, create | contiguous ids per revision, acknowledged events durable, one writer at a time, watermark = end of log and monotone, sealed streams stay as judged |
| Finalization and files (`contest-finalization.service.ts`, `file.service.ts`) | contest rows under lock, file rows, objects, transactions in doubt | upload, commit, roll back, reconcile, remove, attach, delete | a finalized contest has its archive, no object is left behind unaccounted, nobody is told what is not so, whatever fails in between |
| Notification coordinator (`contest-event-notification.ts`, `contest.controller.ts`) | pending attachments, reconcile flag, timers | announce, receive, reconcile, attach, stop | a connection misses nothing committed before or after its attachment, whatever Redis does; deleted contests are closed; no response is left hanging by a stop |
| Redis adapter (`contest-event-notification.redis.ts`) | connection state, generation | start, ready, subscribe result, error, close, message, publish, stop | subscribed means the current connection is acknowledged; every gap ends in a reconciliation |
| SSE hub (`contest-sse-hub.ts`) | connections with pending/last sent watermark, fan-out state and cycle, timers | prepare, activate, notify, fan-out, heartbeat, drain, time out, close | every open connection is told increasing, announced watermarks and finally the newest |
| Live consumer (`contest-event-consumer.ts`, `live-contest-transport.ts`) | generation, revision, cursor, target, boundary, run and follow-up flags, EventSource | start, page, reset page, notification, retry, failure, stop | the ranklist is made of an exact prefix of one revision, no wakeup is lost, it catches up |
| Live page (`live.view.vue`) | session generation, pending board and rows, frame, ticks, what is shown | follow route and data, batches, reset, failure, frame, tick, leave | the screen belongs to the current session and revision, and nothing of it is left out |
| Live ranklist projector (`live-ranklist-projector.ts`) | results, heaps of accepted solutions, touched users, rows | initial batches, live batches, reset | the board built batch by batch is the one built at once; first blood is the earliest accepted |
| Scroll queue (`scroll-solution-state.ts`) | queue, screen, timers | push, pop, dismiss, reset, start, stop | every row gets its turn and leaves, no timer is left behind |
| Read cache (`contest-event-read-cache.ts`) | snapshots, authority, targets | get, observe, hydrate, refresh, calibrate, invalidate | a page is what the database would have answered at some moment after the request's knowledge |
| Pages and snapshots (`contest-event-read-cache-core.ts`, `contest-event-codec.ts`) | chunks of projected events, checkpoints | build, append, page | a page from a snapshot is the page of the rows: the freeze filter and compaction do not depend on how the snapshot came to be |
| Cache memory (`contest-event-read-cache.ts`) | shared parts with owners, pins, reservations, counters | reserve, resize, publish, pin, release, evict, close | counters say what is there, the budget holds, what was reserved suffices |
| Bulkhead, DB deadline, connector (`contest-event-read-bulkhead.ts`, `contest-event-read-db-deadline.ts`, `mysql2-utc-connector.ts`) | slots, queue, reads, pool connections | start, queue, refuse, acquire, retry, execute, roll back, expire | slots are not leaked, no connection is reused with a transaction open, every caller is answered |
| Id generator (`id-generator.service.ts`, `snowflake-id.ts`) | worker slot, reserved window, clock offset, last id; locks and rows in MySQL | start, claim, reserve, next, renew, lose, dispose | ids are unique across instances and restarts, whatever clocks and connections do |
| SSR page cache, collections, views, RSS, sitemap, misc | rows, entries with a time to live | read, write | single transactions, or none |
| Server bootstrap and shutdown (`index.ts`, `application-*.ts`) | - | start, dispose in order | every resource is disposed of once, in order |

### What is hard here

* *Retries and displaced producers*: a batch may arrive twice, late, overlapping, or
  from a producer whose lock was taken away.
* *Resets*: everything downstream must notice that ids start over.
* *Register, then read*: a connection is registered with the hub before the database
  is read, so that a commit in between is not lost.
* *Lossy hints*: local announcements die with a crash, Redis loses and reorders
  messages; only reconciliation is reliable.
* *Coalescing*: the hub delivers shard by shard and drops watermarks it thinks old.
* *Back-pressure*: a blocked connection keeps one pending watermark.
* *Generations*: the browser has late answers of abandoned calls in flight, the Redis
  adapter those of earlier connections.
* *Unknown outcomes*: an upload, a COMMIT, a rollback may fail without a word on whether
  it took place, and a deadline answers a caller while an acquisition goes on.
* *Sharing*: snapshots share chunks with the ones they extend, answers pin them, and a
  result in the tail supersedes progress deep in a shared chunk.
* *Ownership that ends unnoticed*: MySQL frees a worker slot with the connection, while
  its owner goes on; clocks that disagree make time itself unreliable as a fence.

The list with lines and the properties that cover each is `hazards` in
`PROJECT.json`.

## 2. The modules

`X` is the model, `XProps` what is claimed of it, `XProofs` what is proved, `MC...` an
instance for TLC.

| Module | Models |
|---|---|
| `Watermark` | the order of watermarks |
| `EventStream`, `-Props`, `-Proofs` | the MySQL side of one contest |
| `IdGenerator`, `-Props`, `-Proofs` | the processes that generate ids, and their MySQL |
| `WatermarkFeed` | abstract: what a subscriber may rely on |
| `EventCallbacks` | abstract: what the view may rely on that gives a session its callbacks |
| `SseHub`, `-Props`, `-Proofs`, `MCSseHub` | one instance's hub, for one contest |
| `Notification`, `-Props`, `-Proofs`, `MCNotification` | the coordinators of all instances |
| `RedisAdapter`, `-Props`, `-Proofs` | one instance's Redis adapter |
| `Finalization`, `-Props` | finalizers, uploads and administrators around one contest's archive; its proofs are in `EventStreamProofs` |
| `EventPages`, `-Props` | pages cut from rows, and from snapshots built in chunks; its proofs are in `ReadAdmissionProofs` |
| `Board`, `-Props` | the projector; its proofs are in `LiveConsumerProofs` |
| `LiveView`, `-Props` | the live page around consumer, projector and scroll queue; its proofs are in `LiveConsumerProofs` |
| `ReadCache`, `-Props`, `-Proofs`, `MCReadCache` | one instance's read cache, for one contest |
| `CacheBudget`, `-Props` | its memory, for several contests; its proofs are in `ReadAdmissionProofs` |
| `ReadAdmission`, `-Props`, `-Proofs` | how a read gets to MySQL |
| `LiveConsumer`, `-Props`, `-Proofs` | one browser session |
| `ScrollQueue`, `-Props` | the rows that scroll by; its proofs are in `LiveConsumerProofs` |
| `MCWriteParts`, `MCSafetyParts`, `MCLivenessParts` | several of these side by side, see section 3 |
| `MCIdGenerator` | the generator alone, for its finding |

The modules compose by what they promise each other. `EventStream` shows that the
watermark is the end of a contiguous log, and that it only grows: within a revision, or to
the next revision, at id 0. The others start from a database watermark that steps the same
way (`Commit`). `SseHub` is shown to implement
`WatermarkFeed`; `Notification` keeps of a hub only that. `LiveConsumer` assumes of
notifications only that those it hears were committed and that, while its source is
open again and again, it hears of the newest, which is `Notification`'s `Converges`.
`LiveConsumer` is shown to implement `EventCallbacks`: the events of one revision from its
first, in order, those that were there at the beginning before any other, and nothing of a
revision that was reset. `LiveView` takes callbacks of that kind, and gives `ScrollQueue`
rows and resets in that order. `ReadCache` decides which snapshot answers,
`EventPages` what is in it, `CacheBudget` whether there is room for it. `Finalization`
opens up what is the single step `Finalize` of `EventStream`.

### EventStream

`contest`, `stream` and `rows` are the three tables, restricted to what the write
paths decide on; `acked` and `writers` are history. Every write path locks the contest
row and then the stream row before it reads anything else, so a transaction is a step,
and one that throws is no step. `AppendProducerEvents` is the whole append: status and
revision checks, lock claim, duplicate and conflict check by payload, the running
cursor, the lookup of submit times (in the batch first, then in the rows; the query is
unordered, so with several NEW rows any may win) and the insertions. A payload is
its type, solution, time and whether it carries a final verdict: what the payload hash,
the submit-time rule and finalization tell apart. Producers, revisions and batches are
drawn freely at each step, which gives retries, duplicates and displaced producers.

### IdGenerator

A process is one life of a server; `state`, `first`, `offset`, `reserved`, `requested` and
`last`, `sequence` are the fields of `IdGeneratorService` and `SnowflakeIdGenerator`; `step`
and `renewal` say how far `init()` and the renewal loop are, and a statement is sent,
executed and answered in three steps. `connected`, `lock` and `row` belong to MySQL: when it
ends a connection, the lock is free at once, and `NoticeLoss` comes later or never. A crash
is a connection that ends and a process that takes no further step. `Date.now()` is any
number of `Clock` at each call, so clocks are skewed, jump and step back. A call that finds
the sequence of a millisecond used up spins until the clock goes on, which is the same call
with a later reading. Left out: `workerIdOverride`, which bypasses the registry in tests and
tools; the epoch and 41-bit range checks; and a `dispose()` while `init()` still awaits,
which the server's start-up order does not do (it would end "ready" without a lock).

### SseHub

The fields of `client`, `fan` and `cycle` are those of `ClientState`, `ContestFanoutState`
and `FanoutCycle`; `owed` and `announced` are history. Each handler is one step because
the hub is synchronous. What a response does with a frame ("ok", "full", "gone") is
chosen by the environment at each write. The variable `scheduled`, chosen at the start,
tells the direct from the coalescing setting. A connection is a model value used once.

### Notification

Steps are the pieces of the coordinator between awaits. A commit leaves an entry in
`announcing`; its instance announces it (hub, then Redis), or stops or dies before
it can. `published` is what ever went to Redis: any instance may get any of it at any
time, repeatedly or never, which covers reconnects of the subscriber, the eager
tail-fill wait and publish timeouts. `reconciling` is the single flight of
`reconcile()`, with the snapshot its query took. The batching of authority reads is not
modelled: a batch's query starts after all its members are registered, so each member gets
some snapshot taken later, which is what `ReadAuthority` says.

A request keeps apart what the code keeps apart: `phase` is how far its handler has come in
`prepareClient` and the SSE route, `registration` the flag of its pending attachment and
then of its place in the hub, `writable` the response. `Stop`, a deletion and the end of
the response set the flags, and only an active stream is ended by the hub; a handler that
waits for the database is not interrupted. It looks at `stopping` and at the flag when its
read is answered (`Register` after the identity, `Prepare` after the authority, `Open` in
the route), and gives up or goes on. A request that is given up is answered with 503 or, if
its response has ended, not at all; both are `Over`. (In the route, a registration closed
since `prepareClient` returned ends the handler without an error.) Left out: the comparison
of the identities that the two reads return, and that a response is no longer writable a
moment before its close event.

### RedisAdapter

`Notification` assumes nothing of Redis; this module says what the adapter adds. `state`
and `generation` are its fields, `link`, `asked`, `served` and `wire` are the subscriber's
connection as ioredis and Redis see it: a connection may be dead before its close event,
and on a living one replies and messages keep their order. The server is configured with
`autoResubscribe: false`, `autoResendUnfulfilledCommands: false` and `lazyConnect`, so the
only SUBSCRIBE is the one of `handleReady`, and `start` never finds a ready connection.
Settled promises wait in `answers`, which lets the answer of an earlier connection come
late. `reconciling` is the coordinator's single flight. The two channels are one, a
watermark is a number, and what the parser refuses is one value, `Invalid`. A publication
that times out for its caller may still reach Redis later: it is `Publish` at that time.

### Finalization

A finalizer goes through the steps of `finalizeContest`: checks, lock on the contest's row,
generation and upload, statements, COMMIT, and, when that ends without an answer,
`reconcileUpload` and the removal of the object. Sessions belong to MySQL: a commit that
was sent may be executed until its session ends, and the lock goes with it. Uploads of
other files, deletions, attaching and detaching by administrators, resets of the log and
process deaths come in between. A file is known by the request that prepared it. The object
store may do what it was asked to do after its caller has given up: a PUT that timed out
may land after its removal, and `NothingLeftBehind` counts such stragglers apart.

### EventPages and Board

`EventPages` has both implementations of a page: `ServicePage` selects from the rows
(freeze filter, then compaction of superseded progress), a snapshot is a sequence of chunks
that is built at once or extended by appended events, synchronously or by a projection
rebuild, and shares old chunks. `PagesAgree` compares them for every cursor and limit.
An event is its type and solution; the sizes in bytes that may end a chunk early are left
out, as are estimates of memory.

`Board` has the projector's own data structures: results per solution, the heap per
problem with each solution's place in it, touched users and the rows that were built. A row
is the set of judged solutions it was built from; scores, statuses and the order of rows
are a library's. The sift loops are recursive functions of their turns, as many as the heap
has places: a loop that is done stays where it is. (Among tied rows the published order may depend on history, because that
sort starts from the last order; it is not part of the model.)

### LiveConsumer, LiveView and ScrollQueue

`session` holds the consumer's fields; `call` is the outstanding transport call, with
the flag `current` for "its generation and revision are still the session's".
Abort signals need no state of their own: an abandoned call ends in `SettleStaleCall`.
`applied` is what the projector has been given since it was last reset. The freeze
filter and compaction remove events from pages but never move the checkpoint, so a
page is modelled without them. The browser's `EventSource` reconnects after a lost
connection and gives up for good after an answer that is not a 200 event stream.
What the server is like is chosen at the start: "prompt", or "lagging" when any watermark
the database has had may answer (an over-approximation of an instance whose cache lags),
or "refusing" when it may answer an SSE request with 503.

`LiveView` is the page around it: route and loaded data change when the framework says so,
`syncLiveState` follows, a board waits for one animation frame and rows wait for the frame
and then a tick, in which Vue has rendered before. Callbacks keep the generation they have
captured. A tick that throws shows the error page while the consumer goes on, as in the
code. `ScrollQueue` has queue, head, timers by key and the browser's own timers beside
them, so that a timer which the code forgets is seen to be set still.

### ReadCache and CacheBudget

`cache.entry` has the fields of `CacheEntry`; an age stands for a time stamp. Identity
load, authority refresh, hydration and calibration are each at most one call under way,
and a step is what runs between two awaits: the call is made, its query runs, its answer
is handled, with anything in between. Object tokens are not values. Who holds an old one
is marked `current = FALSE`, or removed with the callers that wait for it when nothing
but an error can come of it; of such a hydration `detached` remains, because its failure
closes the entry even then. `targetVersion` fences are the flag `advanced`. A caller is a
GET or an eager tail-fill; `Stops` are the points at which `getEvents` asks for the
authority or answers without a page, `From` goes to the first of them, `Resumption`
continues behind one. `past` and `heard` are
history: what the database held in recent ticks and the newest watermark the entry was
told of. A snapshot is its watermark and freeze boundary; memory is "an allocation may
fail" at each place where one is made.

`CacheBudget` is that memory. A snapshot is a set of parts of one unit each; extending one
keeps any proper subset of the base's parts and adds fresh ones. `ledger` counts the owners
of parts, `flight` has each hydration with its reservation, `responses` pin what they write
out. Estimates are upper bounds, and which snapshot is the oldest is left open, so eviction
may take any that is not pinned. A hydration is attached to its entry before its first step
because the bulkhead starts a task in a microtask.

### ReadAdmission

The caller and the operation of a read are apart: a deadline answers the caller and frees its
slot while an acquisition that cannot be cancelled goes on. The bulkhead's queue and timers,
the retries, the transaction with its rollback, and the connector that prepares a session
before anybody uses it are all there, and MySQL may never answer. A task with several reads
repeats what is modelled for one; other users of the pool are not modelled.

## 3. The runs

| Run | States | Bounds and why they suffice |
|---|---|---|
| `write_parts` | 2 795 362 | *Log*: two producers, one solution, two times, ids to 3, batches of up to two events, two revisions: a batch can repeat, overlap, skip and cross a reset, a verdict can be followed by a progress; a CONFIG event only as the first. *Ids*: two processes on one slot, clock readings 0 to 2, windows of one tick, three ids: the second starts behind, inside and before the first's window while the first still generates |
| `sse_hub` | 31 711 | two connections on two shards, three watermarks of two revisions, both settings: one shard is flushed while the other waits, a connection registers in a running cycle, two watermarks queue behind a third |
| `notification` | 619 168 | two instances, one connection, watermarks of two revisions, one announcement outstanding: the other instance can be the writer, the crashed one or the lagging one; connections of one contest do not influence each other |
| `read_cache` | 932 814 | one caller, two revisions, one event each, two freeze boundaries, no lease: every authority, snapshot and hydration can be of either revision and boundary, with two passes and two attempts; one event is enough to be ahead, behind and at the end |
| `read_cache_lease` | 1 220 877 | one revision, a lease and a deadline of one tick, deletion; one pass and one attempt, so that both give up |
| `read_cache_joins` | 192 728 | two callers on one entry, with the same bounds: one makes the call, the other joins, either is woken first |
| `parts_safety` | 1 256 180 | *Adapter*: two connections, two commits, two messages on the way: a late answer can be of the other connection. *Finalization*: two finalizers, one upload, two versions of the log: every unknown outcome meets every step of the other. *Pages*: two solutions, one of them frozen, five events, chunks of two, limits 1 to 3, one chunk projected synchronously: full and partial last chunks, and both ways to extend. *Board*: six submissions of two users on one problem, the freeze at time 5, batches of two: with six accepted, the element that replaces a removed one in the heap may have to rise. *Memory*: two contests, two hydrations, two answers, a budget of four parts, pages of one, extensions of two. *Page*: two contests, two sessions, two revisions, two events |
| `parts_liveness` | 53 380 | *Consumer*: two revisions, three events, two per page: a page may end before, at and behind the initial boundary and the stream's end. *Reads*: three, two of them transactional, two slots and connections, a queue of one, two attempts. *Scroll*: five rows, one or two places, compaction after two |
| `live_consumer_refused` | - | violation, see below |
| `id_generator_step_back` | - | violation, see below |
| `read_cache_stale_revision` | - | violation, see below |
| `read_cache_slow_rebuild` | - | violation, see below |

The three runs named *parts* check several components side by side: they share no state,
`Init` picks one, and only that one moves. What such a run shows, it shows of each alone; a
part that rests satisfies its fairness, because none of its steps is enabled.

What the properties say:

* *Log*: `LogIsWhole` (ids 1 to n once each in every revision, the watermark their end),
  `AckDurable`, `SubmitTimeResolved`, `SingleWriter`, `SealedIsJudged`; `HistoryStands` (no
  step changes or removes a row, goes back behind the watermark or touches a sealed log).
* *Ids*: `UniqueIds`, `NoRequestStranded` (a wish for a longer reservation is not lost).
* *Hub*: `NothingForgotten` (what was announced while a connection was open is on a path to
  it), `WaitingEnds` (each such path has a timer, a drain or an activation that goes on),
  `FeedSpec` (the hub implements `WatermarkFeed`, liveness included).
* *Coordinators*: `ToldBetween` (a connection holds between what it was owed and what was
  committed), `NoResponseHangs` (a response whose handler is done has ended or is a stream
  of a running instance's hub, whatever closed the registration in between), `Converges`,
  `DeletionReaches`.
* *Adapter*: `NoSilentGap`: what was lost while unsubscribed is read by a reconciliation.
* *Finalization*: `ArchiveStands`, `NothingLeftBehind`, `AnswersAreTrue`.
* *Cache*: `SnapshotFitsEntry`, `PageCoversHeard`, `TargetMonotone`, `PageWithinLease`,
  `CallersAnswered`; `PagesAgree`, `ReadersMissNothing` (paging on, whatever was appended in
  between, skips only progress that a result follows, and stops only at the end);
  `MemoryIsAccounted`, `ReservationsSuffice`.
* *Reads*: `SlotsAddUp`, `ConnectionsAreSafe` (none shared, none back in the pool with a
  transaction open, none lost to it), `NothingHangs`.
* *Browser*: `ShowsTheLog` (an exact prefix of one revision, committed; a failure is never
  the server's word misread), `NoLostWakeup`, `NeverBackwards`,
  `KeepsItsCallbacks` (the session implements `EventCallbacks`), `Converges`;
  `BoardIsProjection`; `ScreenFollowsStream`; `NothingSticks`, `EverythingScrollsBy`.

Every property has a mutant: an operator marked "Wrong" beside the definition that it
replaces, a slip one could make in that code, under which TLC finds the property
violated. `CHECK_DEADLOCK FALSE` is set where a model may come to rest: a deleted
contest at its bounds, a hub after shutdown, a stopped session or adapter, processes whose
reservations are at their bound, a finalized contest.

What must be known of a setting is part of a property rather than of another run: with a
lagging server only `ShowsTheLog` promises less (what is shown may be behind, never
wrong), with a refusing one `Converges` does not apply.

### Fairness

* `SseHub`: a timer that is set fires; the coordinator activates or aborts what it
  prepared (its reads have deadlines); a full response drains or runs into the 10 s
  back-pressure timeout. Nothing is assumed of announcements or of responses.
* `Notification`: the reconcile timer of a running instance fires, a query that is
  repeated for ever succeeds in the end (strong fairness, the only such assumption),
  continuations run, a read of an attachment is answered or fails (each has a deadline).
  No fairness for announcements or for Redis: convergence rests on reconciliation alone.
* `ReadCache`: continuations run, queries end (each has a deadline) and a callback that is
  due runs although continuations of other callers come before it, which is why that
  fairness is strong. Nothing is assumed of notifications or calibrations.
* `ReadAdmission`: the queue's timer, the deadline and the connector's timer fire, and
  mysql2 gives up a connection that is not established. MySQL need never answer.
* `LiveConsumer`: continuations and retry timers run; a call repeated for ever is
  answered, a source that keeps reconnecting gets through and hears of the newest
  watermark (strong fairness, justified by `Notification`). Appends need no fairness.
* `ScrollQueue`: timers that are set fire.

### The findings

`live_consumer_refused` lets the server answer a reconnection with 503, which
`prepareClient` does whenever it cannot attach (stopping instance, failed authority
read). `EventSource` does not retry after such an answer, and the consumer's `onError`
only logs "awaiting reconnect"; the producer/consumer guide promises the automatic
reconnection. The session stays on screen and is never told of anything again.

`read_cache_stale_revision` sends a cursor beyond the end of what the cache knows.
`getEvents` then refreshes the authority; if that brings a later revision, only the
branch for an equal revision answers with a reset, and the request goes on to a page of
the new revision, cut at the old cursor, with `resetRequired: false`. The API promises
the reset, the branch below it and the uncached path give it.

`read_cache_slow_rebuild` lets a hydration take long after it has asked for the authority:
a projection rebuild reads the log again in pages, each with a deadline of its own, and
publishes under the old start time, while `getEvents` compared the lease before it began to
wait. The page is served from an authority older than the six seconds that the
architecture document promises. With `SlowRebuild = FALSE` (`read_cache_lease`) the
promise holds.

`id_generator_step_back` lets a clock step back between the start of a process and its
first id. `init()` shifts its logical time behind the previous owner's window, but
`nextId` compares a reading only with the last id's, which there is none of, so the
first ids may lie in the predecessor's window and repeat its ids. `EarlyStepBack = FALSE`
excludes just this; later steps back, of any size, do no harm.

More observations, for which there is no run, because no document says otherwise or
nothing wrong comes of them:

* *Read cache*: a hydration that was detached closes the entry of its successor when its
  query fails (line 1054 lacks the token comparison of line 1046); no page is wrong, but the
  new generation's work is lost. A contest that is idle may lose its own snapshot to the
  reservation for its own append, whose error is swallowed. The snapshot a detached
  hydration started from stays in memory, unaccounted, until the hydration ends.
* *Adapter*: the design (section 7 of the multi-instance document) wants a reconciliation
  after each acknowledged SUBSCRIBE; `reconcile()` passes over the request while another
  one is under way, whose query may be older than the acknowledgement. Messages lost in
  between are then missing until the next tick: without `uncovered` in it, `NoSilentGap`
  fails. And an `error` event on a connection that lives on leaves the adapter degraded,
  dropping messages, until ioredis connects anew.
* *Finalization*: a PUT that timed out may land after the removal of its object, which then
  stays in the store. A retry of a finalization that had committed is answered without the
  cache control that the first answer would have caused. When an administrator corrects a
  contest between a commit in doubt and its reconciliation, the caller sees an error though
  the finalization took place; the object is kept and the case logged.
* *Live page*: an error thrown in a tick puts up the error page, but the consumer is not
  stopped and goes on reading until the page is left.
* *Freeze*: when the boundary moves later, readers that have passed the hidden events are
  not told to start over.

## 4. The proofs

Each module of proofs begins with its inductive invariant and has one lemma per handler.

`EventStreamProofs`: for all producers, solutions, times, batches and bounds that satisfy
`StreamAssumption`, `Spec` implies the properties of the log. The invariant `IInv` adds two
facts: an absent contest has no rows, acknowledgements or writers (otherwise
`createContest` could contradict the watermark), and a NEW row carries its own time
(otherwise the time taken from a NEW of the same batch need not be the one stored). The
heart is `AppendProducerEvents`: `LeastElement` gives the least id that is missing and
`NoGap` makes it the watermark's successor, so the inserted ids extend the log without a
hole. `HistoryIsKept` follows from `IInv` and one step; the part of it that is about the
watermark is the `Commit` from which the modules behind MySQL start.

`IdGeneratorProofs`: for any number of processes and slots, any clock readings and any
window, `NoRequestStranded` and, under `~EarlyStepBack`, `UniqueIds`. A row's reservation
is only extended by the holder of the lock, since an update is executed on the connection
whose end frees it; so the windows of two owners of a slot are disjoint (`FencesHold`): the
later one begins behind every reservation in the registry, executed updates included that
their process never heard of, and from then on the earlier one cannot extend its own.
Within its window a process only goes forward, by time and then by sequence. The
assumption on the first reading is what keeps it in its window at the start.

`NotificationProofs`: for all instances and connections, `ToldBetween` and
`NoResponseHangs`. The invariant adds that nothing on its way to a hub (announcements, Redis
messages, a reconciliation's answer) is ahead of the database, and what a connection holds
in each phase: once the authority read is back, the newer of that answer and what is
pending covers what the connection is owed. Without the phases `read` and `prepared` in it,
activation could lose a watermark. `Attached` says that whoever is pending or registered is
so with an instance that runs, so a handler on a stopped one finds its flag down, and that
a handler which returns from `prepareClient` has been in the hub. The argument needs of
watermarks only that they are totally ordered (`WatermarkOrder`) and that a commit moves
forward (`CommitGrows`).

`SseHubProofs`: for any connections, watermarks and number of shards, `NothingForgotten`,
`WaitingEnds`, and `HubImplementsFeed`: every step of the hub is a step of `WatermarkFeed`
or a stutter (the liveness conjunct of `FeedSpec` stays with TLC). `HubInv` follows a
watermark on its way: it is queued, or carried by a cycle that has yet to visit the
connection's shard (`Visits`), or sent or pending there. `Reached` says so of what each
connection is owed *and* of the newest accepted watermark, also for connections that are
owed less: that is why `queueFanout` may drop what is not newer. `FlushOK` is the one step
of a cycle, `EveryShardVisited` the arithmetic by which a cycle visits each shard once,
wherever it begins. `Moves` says what no step may do to a connection, from which the
refinement follows.

`RedisAdapterProofs`: for any number of connections and commits, `NoSilentGap`. The
invariant says which connection each outstanding answer belongs to, and that
whatever was committed is with the hub, on the wire behind the acknowledgement, or will be
read by a reconciliation.

On `Finalization` (also in `EventStreamProofs`): for any finalizers and uploads, `ArchiveStands`, `NothingLeftBehind`
and `AnswersAreTrue`. At most one session holds the contest's row, and a commit in doubt
keeps it held: so reconciliation, which takes the lock, decides from rows that no commit
under way can still change.

`ReadAdmissionProofs`: for any reads, connections, slots, queue and attempts, `SlotsAddUp`
and `ConnectionsAreSafe`. `ReadInv` has four parts: who has a slot, what each phase of a
read implies, who holds which connection, and which sessions are dirty. Bulkhead and
operations meet in `Answer` only, so that each handler disturbs few of them. `Attended` adds
that a connection in use is held by a read; a read lets go of its connection only in steps
that give it back to the pool or destroy it (`LetGoOfOne`), so none is lost.

On `EventPages` (also there): for any log, chunk size, freeze, cursors and limits,
`PagesAgree`. By `PagesInv` a snapshot is `SnapshotOf(n)`, a function of the log up to the
event `n` it was built to, however it came to be. Extending it is the same recursion,
`Reading`, continued from where it was left: an old chunk is the new one unless a result in
the tail supersedes progress in it, and then it is among the chunks that are filtered again.
What remains is arithmetic: which chunk an event is in (`Quotient`, `Multiples`,
`ChunkFacts`), and that the chunks behind the cursor's leave out nothing that the page of
the rows has. Limits are positive (`LimitsAssumption`), as the service makes them.

`ReadersAreGivenAll` says what such pages leave out: for any log, freeze, fence and limit, a
page that is not the last moves on, consecutive pages share no event, and what is missing,
beside what the freeze hides, is progress which a result within the fence supersedes
(`ResultsAreShown`): the reader gets that result in this page, in the next, or later, also
when events are appended between the two requests.

On `CacheBudget` (also there): for any number of contests, hydrations and answers, any
budgets and any estimates, `MemoryIsAccounted` and `ReservationsSuffice`. `Books` says of a
ledger that its counters are the parts it holds and the units that are owed to hydrations;
that a part has one resident reference for each resident snapshot it is in and a retired one
for each retired snapshot; and that contests share no part. It is stated of a ledger and of
what is owed, not of the state, because a handler makes several ledgers before it leaves
one: dropping, evicting, charging and publishing each have a lemma that keeps the books
right (`DroppedKeeps`, `RoomKeeps`, `Balance` and their like), and `At` says that a ledger may stand while
one hydration owes so many units. A reservation moves from units owed to parts held without
the sum changing for the worse, since a build adds at most the bound that was reserved;
so `publishSnapshot` never refuses, and `overrun` stays false. That a hydration which
counts extends the snapshot that is there is needed for it: only what is fresh was reserved.
When a superseded snapshot loses its last pin, what is given back are the parts that no
resident and no other answer's snapshot has (`RetiredReleases`). That the estimates are upper
bounds is taken for granted, as in the model.

`LiveConsumerProofs`: for any bounds and page size, `ShowsTheLog`, `NoLostWakeup` and
`NeverBackwards`, for all three kinds of server. What was applied is the prefix up to the
cursor of a revision that was committed, a current call asks for what comes next, and an
answer it was given is a page of some committed watermark.

`SessionImplementsCallbacks`: the session, seen through `CallbackPhase`, is an
`EventCallbacks`. The whole of `KeepsItsCallbacks` is proved, since the abstract
specification has no fairness. Each handler ends in one of a few helpers, and each of those
in a callback or in none: a page that counts is given (`PagesAreGiven`), a reset opens
(`ResetsOpen`), a failure ends (`EndingsEnd`), and all else calls nobody (`CallsNobody`). It
needs of the invariant that a session whose initial events are not complete has not passed
their boundary, and that one which is not live is not initialized.

On `LiveView` (also there): for any number of sessions, resets and events,
`ScreenFollowsStream`. By `ViewInv`, whatever waits for the frame or for a tick and still
counts belongs to the session that runs and to the newest board; before a session's first
board nothing is on its way; and what the panel shows, then what the callbacks of `$nextTick`
will add, then what waits for the frame, is what was delivered, in order. What those
callbacks make of the panel is a recursion over them (`AfterTicks`). Its facts are proved by
induction on how many callbacks have run: `UpTo` is that induction for a set in place of a
predicate, which the provers can instantiate.

On `ScrollQueue` (also there): for any number of rows and any limit, `NothingSticks`. By
`ScrollInv` each screen's items, keys and timers agree and are in order, the queue's pending
rows are those that are neither shown nor gone, and no key was spent on two rows:
`nextKey` and the pending rows together are at most one more than what was pushed. The
queue's timer is set exactly when it runs and something is pending, so it can neither stop
for good nor run twice.

On `Board` (also there): for any submissions, users, problems and batches,
`BoardIsProjection`. A heap holds a set of solutions, each in its place (`Placed`), and is in
order but for some places (`OrderedBut`): for the place of the loop while a solution rises,
for the places below while it sinks, and in both cases what is below is in order with what
is above (`Bridged`). Each turn keeps that and either ends in a heap or moves on, so the
loops are done within their turns, and `AddFacts` and `RemoveFacts` say that a heap remains
one. That the last solution may have to rise after it took the place of a removed one is
where `SettledDown`, the mutant, fails. `ProjectionOK` says that each problem's heap holds
its accepted solutions, and `FirstFacts` that its top is then the earliest. By `BoardInv`
rows lag behind the projection only for the users that are touched, and marks and rolled
solutions are first blood once the board follows; if nobody is touched, first blood has not
changed either, because rows determine it (`SameFirst`).

`ReadCacheProofs`: for any number of callers, any stream, lease, deadline and number of
passes and attempts, `SnapshotFitsEntry`, `TargetMonotone`, `PageCoversHeard` and, without
slow rebuilds, `PageWithinLease`; also that no caller waits for a call that is not there
(`NobodyWaitsForNothing`), which is what is left of `CallersAnswered` without fairness.
`FitsInv` connects entry, snapshot, calls and callers. It is stated of a cache `c` and a set
`W` of watermarks, so that each operator of the cache (`failClosed`, `supersedeEntry`,
`applyAuthority` and the rest) has a lemma that knows nothing of the database, and `W` is
`Committed` only in the steps. Its heart is `HydrationOK`: a hydration's base is still the
entry's snapshot, and nothing it has read is beyond the entry, because whatever moves the
entry to another revision or boundary ends the hydration too. The other properties compare
a state with an earlier one, so there is a relation for what a step does: `Keeps`, when
nothing is heard of the database, and `Proceeds`, when an authority may be taken over.
`HeardInv` says that what the entry was told of is covered by its target or is pending, and
that a caller who goes on after a refresh finds nothing pending. `LeaseInv` says that the
entry, and the answer of each call under way, include what was committed before their
query began; a call is never older than its deadline, which is where a slow rebuild would
break it. `SlowRebuild = FALSE` is the one assumption of `PagesWithinLease`; the run
`read_cache_slow_rebuild` shows what happens without it.

Assumptions are those on the constants, which the runs evaluate; nothing else is assumed,
but for `~EarlyStepBack` and `SlowRebuild = FALSE` where they are named.
Type correctness is proved for each of these modules.

Only model-checked:

* everything temporal with fairness (the liveness of `FeedSpec`, `Converges`,
  `DeletionReaches`, `CallersAnswered`, `NothingHangs`, `EverythingScrollsBy`) and what
  rests on ENABLED, which TLAPS cannot treat here;
* that the modules put side by side in `MCSafetyParts` and `MCLivenessParts` do not disturb
  each other.

Every other property of the passing runs is stated by a theorem.

## 5. Not modelled

* *SSR page cache* (`ssr-page-cache.ts`, `page-renderer.prod.ts`): a lookup, a rendering and
  a store with a time to live; there is no single flight, no invalidation and no state in
  the process, so nothing interleaves.
* *Server bootstrap and shutdown*: the application framework drives it, and its code is not
  part of the repository; `disposeApplicationResources` is a fixed sequence with a time limit
  per step. What stopping does to each resource is in that resource's module.
* *Contest log*: metadata, users and statistics of contests, on which no event depends, and
  what the final builder checks beyond unfinished solutions.
* *Read cache*: aliases; the cooldown after a failed hydration where memory is concerned.
* *Coordinator*: the metadata control message, which only touches the read cache.
* *Memory event store*: a test double of the MySQL store.
* *Files*: the HTTP controller and the providers' protocols.
* *Collections, views, RSS, sitemap, misc routes*: single transactions, or readers and
  formatters without state.
* *Ranklist components and pages*, styles, colours, filters: rendering without concurrency.
* Message formats, HTTP details, metrics, logs, instrumentation of database connectors.
  MySQL's transactions and row locks are assumed.

Much of the repository by lines is generated (protobuf codecs, the API client) or rendering,
and is left aside for that reason. `components` in `PROJECT.json` has every part.

## 6. Plan

1. `ReadCache` and `CacheBudget` together, with the cooldown after failed hydrations.
2. `LiveConsumer` and `LiveView` in one module, each callback a step of both.
