----------------------------- MODULE ReadCache -----------------------------
(***************************************************************************)
(* The read cache of one server instance, for one contest: the entry with  *)
(* the authority it last took from MySQL, the snapshot that pages are cut  *)
(* from, and the database calls under way (contest-event-read-cache.ts).   *)
(*                                                                         *)
(* Each step runs between two awaits.  A call that has been made is        *)
(* "asked", then its query runs ("answered"), then its answer is handled;  *)
(* anything may happen between.  The token of the entry is not a value:    *)
(* whoever holds an older one is marked not current, or, when only its     *)
(* failure can come of it, dropped and its callers refused.  Of such a     *)
(* hydration "detached" remains, since its failure still has an effect.    *)
(* In the same way "advanced" says that the entry's targetVersion is       *)
(* beyond the fence a call took.  Memory is abstracted: an allocation may  *)
(* fail.  An operator marked "Wrong" is a slip one could make in the       *)
(* operator that follows it; Next uses none of them.                       *)
(***************************************************************************)
EXTENDS Watermark, Integers, FiniteSets

CONSTANTS
  Readers,                 \* callers: GETs and eager fills, one at a time each
  MaxRevision, MaxEventId, \* bounds on the stream explored
  MaxVisibility,           \* bound on the freeze boundaries it goes through
  Lease,                   \* authorityLeaseMs, in ticks
  Deadline,                \* queryTimeoutMs, in ticks
  SlowRebuild,             \* whether a rebuild, of many queries, may outlast them
  MaxPasses,               \* MAX_AUTHORITY_STABILIZATION_PASSES
  MaxAttempts,             \* MAX_HYDRATION_ATTEMPTS
  MayDelete                \* whether the contest may be deleted

ASSUME ReadCacheAssumption ==
  /\ MaxRevision \in Nat \ {0}
  /\ MaxEventId \in Nat
  /\ MaxVisibility \in Nat \ {0}
  /\ Lease \in Nat
  /\ Deadline \in 0 .. Lease
  /\ SlowRebuild \in BOOLEAN
  /\ MaxPasses \in Nat \ {0}
  /\ MaxAttempts \in Nat \ {0}
  /\ MayDelete \in BOOLEAN

VARIABLES
  db,      \* contest and stream row, and the last id of each revision
  cache,   \* this instance's cache: entry, calls under way, callers
  past,    \* history: what the database held at the start of each recent tick
  heard,   \* history: the newest watermark the live entry was told of
  answer   \* what the last step answered to a caller

vars == <<db, cache, past, heard, answer>>

Revisions == 1 .. MaxRevision
Ids == 0 .. MaxEventId
Visibilities == 1 .. MaxVisibility

Expired == Lease + 1      \* the age of an authority that is beyond its lease

\* What an authority query returns: the watermark and the fingerprint of the
\* visibility.  Gone: no such contest.
Gone == [mark |-> NoWatermark, fp |-> 0]

Authority ==
  IF db.deleted THEN Gone
  ELSE [mark |-> [rev |-> db.rev, id |-> db.last[db.rev]], fp |-> db.fp]

\* Every watermark that was ever committed.
Committed ==
  { w \in [rev : 1 .. db.rev, id : Ids] : w.id <= db.last[w.rev] }

NoSnapshot == Gone

\* mark: revision and target; age of the authority; pending: a watermark of a
\* later revision that MySQL has yet to confirm; cooldown: retryNotBefore has
\* not passed.  An entry that does not exist has no mark.
NoEntry ==
  [mark |-> NoWatermark, fp |-> 0, age |-> 0, snap |-> NoSnapshot,
   pending |-> NoWatermark, cooldown |-> FALSE]

NoCall ==
  [phase |-> "none", current |-> FALSE, advanced |-> FALSE, age |-> 0,
   seen |-> Gone, pass |-> 0]

Ask(pass) == [NoCall EXCEPT !.phase = "asked", !.current = TRUE, !.pass = pass]

NoHydration ==
  [phase |-> "none", advanced |-> FALSE, age |-> 0, seen |-> Gone,
   base |-> FALSE, target |-> 0, after |-> 0, reads |-> 0, attempt |-> 0]

Idle == [await |-> "none", n |-> 0, resumed |-> FALSE, req |-> NoWatermark]

NoAnswer == [kind |-> "none", req |-> NoWatermark, mark |-> NoWatermark, fp |-> 0]

----------------------------------------------------------------------------
(* What the cache does to its entry.  Each operator takes a cache to one. *)

Exists(c) == c.entry.mark # NoWatermark

Live(c) == Exists(c) /\ ~c.tombstoned

Unusable(c) == c.tombstoned \/ c.entry.pending # NoWatermark

\* Callers that wait for a call that failed are refused with a 503 or 404.
Refused(readers, awaited) ==
  [r \in Readers |->
     IF readers[r].await \in awaited /\ ~readers[r].resumed THEN Idle
     ELSE readers[r]]

Woken(readers, awaited) ==
  [r \in Readers |->
     IF readers[r].await \in awaited THEN [readers[r] EXCEPT !.resumed = TRUE]
     ELSE readers[r]]

NewVersion(c) ==
  [c EXCEPT !.refresh.advanced = c.refresh.phase # "none",
            !.hydration.advanced = c.hydration.phase # "none",
            !.calibration.advanced = c.calibration.phase # "none"]

\* Wrong: a watermark that comes late moves the target back.
AdvanceTargetEither(c, id) ==
  IF id = c.entry.mark.id THEN c
  ELSE NewVersion([c EXCEPT !.entry.mark.id = id])

AdvanceTarget(c, id) ==
  IF id <= c.entry.mark.id THEN c
  ELSE NewVersion([c EXCEPT !.entry.mark.id = id])

\* A query of the hydration is under way.
Reading(c) == c.hydration.phase \in {"range", "asked", "rebuild"}

Emptied(e) == [e EXCEPT !.snap = NoSnapshot, !.cooldown = FALSE]

\* A new token: refresh and hydration are detached and will throw.
FailClosed(c) ==
  [c EXCEPT !.entry = Emptied(@), !.calibration = NoCall,
            !.detached = @ \/ Reading(c), !.refresh = NoCall,
            !.hydration = NoHydration,
            !.readers = Refused(@, {"refresh", "hydration"})]

\* Wrong: the snapshot of the old revision is kept to be extended.
SupersedeKeep(c, w) ==
  NewVersion([FailClosed(c) EXCEPT !.entry.mark = w, !.entry.age = Expired,
                !.entry.snap = c.entry.snap, !.entry.pending = NoWatermark])

Supersede(c, w) ==
  NewVersion([FailClosed(c) EXCEPT !.entry.mark = w, !.entry.age = Expired,
                                   !.entry.pending = NoWatermark])

Disowned(call) == [call EXCEPT !.current = FALSE]

\* Unlike failClosed, invalidate leaves the refresh in place: it will fail, and
\* those who join it until then.
Invalidate(c) ==
  [c EXCEPT !.entry = Emptied(@), !.calibration = NoCall,
            !.detached = @ \/ Reading(c), !.refresh = Disowned(@),
            !.identity = Disowned(@), !.hydration = NoHydration,
            !.readers = Refused(@, {"hydration"})]

InvalidateDelete(c) == [Invalidate(c) EXCEPT !.tombstoned = TRUE]

InvalidateMetadata(c, fp) ==
  IF ~Exists(c) THEN Invalidate(c)
  ELSE [Invalidate(c) EXCEPT !.entry.fp = fp, !.entry.age = Expired]

\* A later revision is only noted; MySQL must confirm it.
Pend(c, w) ==
  LET pending == c.entry.pending
      fresh == IF w.rev > pending.rev THEN FailClosed(c) ELSE c
  IN [fresh EXCEPT !.entry.pending = Latest(pending, w), !.entry.age = Expired]

ObserveWatermark(c, w) ==
  IF w.rev > c.entry.mark.rev THEN Pend(c, w)
  ELSE IF w.rev = c.entry.mark.rev THEN AdvanceTarget(c, w.id)
  ELSE c

----------------------------------------------------------------------------
(* Authority answers. *)

\* The target moved after the query was made: the answer proves nothing.
Stale(c, call) ==
  /\ call.seen.mark.rev = c.entry.mark.rev
  /\ call.seen.fp = c.entry.fp
  /\ call.seen.mark.id < c.entry.mark.id
  /\ call.advanced

Satisfies(c, seen) == ~Newer(c.entry.pending, seen.mark)

Accepted(c, seen) ==
  ~c.tombstoned /\ Satisfies(c, seen) /\ ~Newer(c.entry.mark, seen.mark)

Regressed(c, seen) ==
  /\ ~c.tombstoned /\ Satisfies(c, seen)
  /\ seen.mark.rev = c.entry.mark.rev /\ seen.mark.id < c.entry.mark.id

ApplyAuthority(c, seen, age) ==
  IF Regressed(c, seen) THEN FailClosed(c)
  ELSE IF ~Accepted(c, seen) THEN c
  ELSE LET moved == IF seen.mark.rev > c.entry.mark.rev
                    THEN Supersede(c, seen.mark)
                    ELSE AdvanceTarget(c, seen.mark.id)
           shown == IF seen.fp = c.entry.fp THEN moved
                    ELSE [FailClosed(moved) EXCEPT !.entry.fp = seen.fp]
       IN [shown EXCEPT !.entry.age = age, !.entry.pending = NoWatermark]

----------------------------------------------------------------------------
(* getEvents and materializeObservedWatermark.  A GET passes five points at *)
(* which it may want a refresh of the authority: 1 a pending watermark, 2   *)
(* the lease, 3 a revision, 4 a cursor beyond the entry, 5 a cursor at its  *)
(* end.                                                                     *)

\* Wrong: only a missing watermark makes a GET ask.
WantedLazy(e, req, point) ==
  CASE point = 1 -> e.pending # NoWatermark
    [] point = 2 -> FALSE
    [] point = 3 -> req.rev > e.mark.rev
    [] point = 4 -> req.id > e.mark.id
    [] point = 5 -> req = e.mark

Wanted(e, req, point) ==
  CASE point = 1 -> e.pending # NoWatermark
    [] point = 2 -> e.age > Lease
    [] point = 3 -> req.rev > e.mark.rev
    [] point = 4 -> req.id > e.mark.id
    [] point = 5 -> req = e.mark

Do(what, n) == [what |-> what, n |-> n]

\* What the code answers behind a point, if anything.
Verdict(c, req, point) ==
  LET mark == c.entry.mark IN
  CASE point \in {1, 2} -> IF Unusable(c) THEN "refuse" ELSE "go"
    [] point = 3 -> IF req.rev > mark.rev THEN "refuse"
                    ELSE IF req.rev < mark.rev THEN "reset" ELSE "go"
    [] point = 4 -> IF req.rev = mark.rev /\ req.id > mark.id THEN "reset"
                    ELSE "go"
    [] point = 5 -> IF req.rev > mark.rev THEN "refuse"
                    ELSE IF req.rev < mark.rev \/ req.id > mark.id THEN "reset"
                    ELSE "go"

\* Wrong: whatever snapshot there is will do.
SnapshotReadyAny(e) == e.snap # NoSnapshot

SnapshotReady(e) == e.snap # NoSnapshot /\ e.snap.mark.id = e.mark.id

\* Hydrations a GET waits for are numbered from 1, that of an eager fill is 0.
Materialize(c, pass) ==
  IF SnapshotReady(c.entry) THEN Do("page", 0)
  ELSE IF pass <= MaxPasses THEN Do("hydrate", pass) ELSE Do("refuse", 0)

\* The points from "first" on at which a GET gets no further: it asks for a refresh,
\* or is answered without a page.
Stops(c, req, first) ==
  {p \in first .. 5 :
     Wanted(c.entry, req, p) \/ (p < 4 /\ Verdict(c, req, p) # "go")}

From(c, req, first) ==
  LET stops == Stops(c, req, first)
      point == CHOOSE p \in stops : \A other \in stops : p <= other
  IN IF stops = {} THEN Materialize(c, 1)
     ELSE IF Wanted(c.entry, req, point) THEN Do("refresh", point)
     ELSE Do(Verdict(c, req, point), 0)

EagerPoint == 6

\* An eager fill goes on to hydrate once, if there is anything left to fill.
Fill(c) == IF SnapshotReady(c.entry) THEN Do("done", 0) ELSE Do("hydrate", 0)

\* What a caller does next, once what it waited for is done.
Resumption(c, reader) ==
  LET n == reader.n  req == reader.req IN
  CASE reader.await = "identity" -> From(c, req, 1)
    [] reader.await = "refresh" /\ n = EagerPoint ->
         IF Unusable(c) \/ c.entry.mark.rev # req.rev \/ Newer(req, c.entry.mark)
         THEN Do("done", 0) ELSE Fill(c)
    [] reader.await = "refresh" /\ n # EagerPoint ->
         IF Verdict(c, req, n) # "go" THEN Do(Verdict(c, req, n), 0)
         ELSE From(c, req, n + 1)
    [] reader.await = "hydration" ->
         IF Unusable(c) \/ n = 0 THEN Do("refuse", 0)
         ELSE Materialize(c, n + 1)

\* refreshEntryAuthority and ensureHydrated: refuse in the cooldown, join the call
\* that is there, or make it.
Wait(c, r, what, n, req) ==
  LET waiting ==
        [c EXCEPT !.readers[r] = [await |-> what, n |-> n, resumed |-> FALSE,
                                  req |-> req]]
  IN IF c.tombstoned \/ c.entry.cooldown \/ (what = "hydration" /\ Unusable(c))
     THEN [c EXCEPT !.readers[r] = Idle]
     ELSE IF what = "refresh" /\ c.refresh.phase = "none"
          THEN [waiting EXCEPT !.refresh = Ask(1)]
     ELSE IF what = "hydration" /\ c.hydration.phase = "none"
          THEN [waiting EXCEPT !.hydration.phase = "queued"]
     ELSE waiting

\* The caller r, with request req, does "step".
Perform(c, r, req, step) ==
  /\ cache' = CASE step.what = "refresh" -> Wait(c, r, "refresh", step.n, req)
                [] step.what = "hydrate" -> Wait(c, r, "hydration", step.n, req)
                [] OTHER -> [c EXCEPT !.readers[r] = Idle]
  /\ answer' = CASE step.what = "page" ->
                      [kind |-> "page", req |-> req, mark |-> c.entry.snap.mark,
                       fp |-> c.entry.snap.fp]
                 [] step.what = "reset" ->
                      [kind |-> "reset", req |-> req, mark |-> c.entry.mark,
                       fp |-> 0]
                 [] OTHER -> NoAnswer

\* Continuations run before any other event of the process.
Quiet == \A r \in Readers : ~cache.readers[r].resumed

----------------------------------------------------------------------------
(* The database. *)

Init ==
  /\ db = [rev |-> 1, last |-> [r \in Revisions |-> 0], fp |-> 1,
           deleted |-> FALSE]
  /\ cache = [entry |-> NoEntry, identity |-> NoCall, refresh |-> NoCall,
              hydration |-> NoHydration, calibration |-> NoCall,
              detached |-> FALSE, readers |-> [r \in Readers |-> Idle], tombstoned |-> FALSE]
  /\ past = [t \in 0 .. Lease |-> Authority]
  /\ heard = NoWatermark
  /\ answer = NoAnswer

Commit(next) ==
  /\ ~db.deleted
  /\ db' = next
  /\ answer' = NoAnswer
  /\ UNCHANGED <<cache, past, heard>>

Append ==
  /\ db.last[db.rev] < MaxEventId
  /\ Commit([db EXCEPT !.last[db.rev] = @ + 1])

Reset == db.rev < MaxRevision /\ Commit([db EXCEPT !.rev = @ + 1])

ChangeVisibility == db.fp < MaxVisibility /\ Commit([db EXCEPT !.fp = @ + 1])

Delete == MayDelete /\ Commit([db EXCEPT !.deleted = TRUE])

Older(call) ==
  IF call.phase \in {"asked", "answered", "rebuild"} /\ call.age < Expired
  THEN [call EXCEPT !.age = @ + 1] ELSE call

Within(call) == call.phase \in {"asked", "answered"} => call.age < Deadline

\* Time: every authority ages from when its query was made, and each query comes
\* back by its deadline.
Tick ==
  /\ \A call \in {cache.identity, cache.refresh, cache.calibration,
                  cache.hydration} : Within(call)
  /\ cache.hydration.phase = "rebuild" =>
       SlowRebuild \/ cache.hydration.age < Deadline
  /\ past' = [t \in 0 .. Lease |-> IF t = 0 THEN Authority ELSE past[t - 1]]
  /\ cache' = [cache EXCEPT !.identity = Older(@), !.refresh = Older(@),
                            !.hydration = Older(@), !.calibration = Older(@),
                            !.entry.age = IF Exists(cache) /\ @ < Expired
                                          THEN @ + 1 ELSE @]
  /\ answer' = NoAnswer
  /\ UNCHANGED <<db, heard>>

----------------------------------------------------------------------------
(* What other parts tell the cache. *)

Told(next) ==
  /\ cache' = next
  /\ answer' = NoAnswer
  /\ UNCHANGED <<db, past, heard>>

Hear(w) == heard' = IF Live(cache) THEN Latest(heard, w) ELSE heard

HearWatermark(w) ==
  /\ w \in Committed
  /\ Live(cache)
  /\ cache' = ObserveWatermark(cache, w)
  /\ Hear(w)
  /\ answer' = NoAnswer
  /\ UNCHANGED <<db, past>>

\* The snapshot is extended, or the projection must be rebuilt or the memory is
\* short after the old one was dropped, or it is left to a hydration.
WriteThrough(c, w, first, outcome) ==
  IF c.hydration.phase # "none" \/ c.entry.snap = NoSnapshot
     \/ c.entry.snap.mark.id + 1 # first \/ outcome = "deferred"
  THEN c
  ELSE IF outcome = "dropped" THEN [c EXCEPT !.entry.snap = NoSnapshot]
  ELSE [c EXCEPT !.entry.snap.mark = w]

\* The announcement of an append of this instance, with events first to w.id.
\* Announcements may overtake each other.
ObserveAppend(c, w, first, outcome) ==
  IF Newer(c.entry.pending, w) \/ w.rev < c.entry.mark.rev THEN c
  ELSE IF w.rev > c.entry.mark.rev THEN Supersede(c, w)
  ELSE WriteThrough(AdvanceTarget(c, w.id), w, first, outcome)

HearAppend(w, first, outcome) ==
  /\ w \in Committed
  /\ Live(cache)
  /\ cache' = ObserveAppend(cache, w, first, outcome)
  /\ Hear(w)
  /\ answer' = NoAnswer
  /\ UNCHANGED <<db, past>>

\* Control messages may be late and out of order.
HearVisibility(fp) == fp <= db.fp /\ Told(InvalidateMetadata(cache, fp))

HearDelete == db.deleted /\ ~cache.tombstoned /\ Told(InvalidateDelete(cache))

\* recordComparison found a difference.
Mismatch == Exists(cache) /\ Told(FailClosed(cache))

\* Idle for too long, or the least recently used when memory is short.
Evict ==
  /\ cache.entry.snap # NoSnapshot
  /\ cache.hydration.phase = "none"
  /\ Told([cache EXCEPT !.entry.snap = NoSnapshot, !.refresh = NoCall,
                        !.calibration = NoCall,
                        !.readers = Refused(@, {"refresh"})])

CooldownOver ==
  cache.entry.cooldown /\ Told([cache EXCEPT !.entry.cooldown = FALSE])

----------------------------------------------------------------------------
(* Callers. *)

Get(r, req) ==
  /\ cache.readers[r] = Idle
  /\ ~cache.tombstoned
  /\ req \in Committed
  /\ IF Exists(cache) THEN Perform(cache, r, req, From(cache, req, 1))
     ELSE /\ ~cache.entry.cooldown \/ cache.identity.phase # "none"
          /\ cache' = [cache EXCEPT
               !.identity = IF @.phase = "none" THEN Ask(1) ELSE @,
               !.readers[r] = [Idle EXCEPT !.await = "identity", !.req = req]]
          /\ answer' = NoAnswer
  /\ UNCHANGED <<db, past, heard>>

EagerFill(r, w) ==
  /\ cache.readers[r] = Idle
  /\ Live(cache)
  /\ w \in Committed
  /\ w.rev >= cache.entry.mark.rev
  /\ LET told == IF w.rev > cache.entry.mark.rev THEN Pend(cache, w) ELSE cache
     IN IF told.entry.pending # NoWatermark
        THEN Perform(told, r, w, Do("refresh", EagerPoint))
        ELSE LET next == AdvanceTarget(told, w.id) IN
             Perform(next, r, w, Fill(next))
  /\ Hear(w)
  /\ UNCHANGED <<db, past>>

Resume(r) ==
  /\ cache.readers[r].resumed
  /\ Perform(cache, r, cache.readers[r].req, Resumption(cache, cache.readers[r]))
  /\ UNCHANGED <<db, past, heard>>

----------------------------------------------------------------------------
(* loadIdentity: the first authority. *)

Answered(call) == [call EXCEPT !.phase = "answered", !.seen = Authority]

AnswerIdentity ==
  cache.identity.phase = "asked" /\ Told([cache EXCEPT !.identity = Answered(@)])

IdentityRefused == [cache EXCEPT !.identity = NoCall,
                                 !.readers = Refused(@, {"identity"})]

FailIdentity ==
  /\ cache.identity.phase = "asked"
  /\ Told([IdentityRefused EXCEPT !.entry.cooldown = @ \/ cache.identity.current])

FinishIdentity ==
  /\ cache.identity.phase = "answered"
  /\ IF cache.identity.seen = Gone \/ cache.tombstoned \/ ~cache.identity.current
     THEN Told(IdentityRefused)
     ELSE Told([cache EXCEPT
            !.identity = NoCall,
            !.entry = [NoEntry EXCEPT !.mark = cache.identity.seen.mark,
                                      !.fp = cache.identity.seen.fp,
                                      !.age = cache.identity.age],
            !.readers = Woken(@, {"identity"})])

----------------------------------------------------------------------------
(* refreshEntryAuthority: one flight, which those who come later join. *)

AnswerRefresh ==
  cache.refresh.phase = "asked" /\ Told([cache EXCEPT !.refresh = Answered(@)])

\* Wrong: the flight stays for others to join when it has failed.
RefreshRefusedKept == [cache EXCEPT !.refresh.phase = "failed",
                                    !.readers = Refused(@, {"refresh"})]

RefreshRefused == [cache EXCEPT !.refresh = NoCall,
                                !.readers = Refused(@, {"refresh"})]

FailRefresh ==
  /\ cache.refresh.phase = "asked"
  /\ Told([RefreshRefused EXCEPT !.entry.cooldown = @ \/ cache.refresh.current])

\* Wrong: one pass too many.
AgainOff(pass) == pass <= MaxPasses

\* Whether a stale answer is asked for once more.
Again(pass) == pass < MaxPasses

FinishRefresh ==
  LET call == cache.refresh
      done == [cache EXCEPT !.refresh = NoCall,
                            !.readers = Woken(@, {"refresh"})]
  IN
  /\ call.phase = "answered"
  /\ \/ /\ call.seen = Gone
        /\ Told(InvalidateDelete(RefreshRefused))
     \/ /\ call.seen # Gone /\ ~call.current
        /\ Told(RefreshRefused)
     \/ /\ call.seen # Gone /\ call.current
        /\ IF Stale(cache, call)
           THEN IF Again(call.pass)
                THEN Told([cache EXCEPT !.refresh = Ask(call.pass + 1)])
                ELSE Told([RefreshRefused EXCEPT !.entry.cooldown = TRUE])
           ELSE IF Accepted(cache, call.seen)
                THEN Told([ApplyAuthority(done, call.seen, call.age)
                           EXCEPT !.entry.cooldown = FALSE])
                ELSE Told(ApplyAuthority(RefreshRefused, call.seen, call.age))

----------------------------------------------------------------------------
(* Hydration: read the events up to the target, then ask for the authority  *)
(* until no more have come, then build and publish.                         *)

Larger(a, b) == IF a > b THEN a ELSE b

\* Unavailable: the snapshot there was stays, and the next hydration waits.
GiveUp(c) ==
  [c EXCEPT !.hydration = NoHydration, !.entry.cooldown = TRUE,
            !.readers = Refused(@, {"hydration"})]

AskAuthority(h) ==
  [h EXCEPT !.phase = "asked", !.reads = @ - 1, !.age = 0, !.advanced = FALSE,
            !.seen = Gone]

ReadUpTo(h, target) == [h EXCEPT !.phase = "range", !.target = target]

Attempt(c, attempt, reads) ==
  LET base == c.entry.snap # NoSnapshot /\ c.entry.snap.mark.rev = c.entry.mark.rev
      h == [NoHydration EXCEPT
              !.base = base, !.target = c.entry.mark.id, !.reads = reads,
              !.after = IF base THEN c.entry.snap.mark.id ELSE 0,
              !.attempt = attempt]
  IN IF attempt > MaxAttempts \/ reads = 0 THEN GiveUp(c)
     ELSE [c EXCEPT !.hydration = IF h.after < h.target
                                  THEN ReadUpTo(h, h.target)
                                  ELSE AskAuthority(h)]

StartHydration ==
  /\ cache.hydration.phase = "queued"
  /\ Told(Attempt(cache, 1, MaxPasses))

\* The bulkhead is full or its queue is too slow.
RefuseHydration ==
  /\ cache.hydration.phase = "queued"
  /\ Told([cache EXCEPT !.hydration = NoHydration,
                        !.readers = Refused(@, {"hydration"})])

\* A query of the hydration fails.
FailHydration ==
  /\ Reading(cache)
  /\ Told([FailClosed(cache) EXCEPT !.entry.cooldown = TRUE,
                                    !.detached = cache.detached])

\* A query of a detached hydration fails: that closes the entry as it is by now.
FailDetached ==
  /\ cache.detached
  /\ Told([FailClosed(cache) EXCEPT !.entry.cooldown = ~cache.tombstoned])

DetachedOver == cache.detached /\ Told([cache EXCEPT !.detached = FALSE])

\* No memory for what was read; or for the new snapshot, when the old is gone.
ShortOfMemory(dropped) ==
  /\ cache.hydration.phase \in {"range", "answered", "rebuild"}
  /\ LET kept == GiveUp(cache) IN
     Told(IF dropped THEN [kept EXCEPT !.entry.snap = NoSnapshot] ELSE kept)

\* Rows of a revision stay when the stream is reset, so the range is there.
FinishRange ==
  LET read == [cache.hydration EXCEPT !.after = cache.hydration.target]
  IN
  /\ cache.hydration.phase = "range"
  /\ IF read.reads > 0 THEN Told([cache EXCEPT !.hydration = AskAuthority(read)])
     ELSE Told(Attempt(cache, read.attempt + 1, 0))

AnswerHydration ==
  /\ cache.hydration.phase = "asked"
  /\ Told([cache EXCEPT !.hydration = Answered(@)])

Publish(c, fp) ==
  [c EXCEPT !.entry.snap = [mark |-> c.entry.mark, fp |-> fp],
            !.entry.age = c.hydration.age, !.entry.cooldown = FALSE,
            !.hydration = NoHydration, !.readers = Woken(@, {"hydration"})]

\* The authority that ends a hydration is back.
FinishHydration(rebuild) ==
  LET h == cache.hydration
      e == cache.entry
      top == Larger(h.target, Larger(e.mark.id, h.seen.mark.id))
      changed == \/ h.seen.fp # e.fp
                 \/ h.seen.mark.id < h.target /\ ~Stale(cache, h)
  IN
  /\ h.phase = "answered"
  /\ \/ /\ h.seen = Gone
        /\ Told(InvalidateDelete(cache))
     \/ /\ h.seen # Gone /\ h.seen.mark.rev # e.mark.rev
        /\ Told(GiveUp(cache))
     \/ /\ h.seen.mark.rev = e.mark.rev /\ changed
        /\ Told(ApplyAuthority(cache, h.seen, h.age))
     \/ /\ h.seen.mark.rev = e.mark.rev /\ ~changed /\ top > h.after
        /\ Told(AdvanceTarget([cache EXCEPT !.hydration = ReadUpTo(h, top)], top))
     \/ /\ h.seen.mark.rev = e.mark.rev /\ ~changed /\ top <= h.after
        /\ IF rebuild
           THEN h.base /\ Told([cache EXCEPT !.hydration.phase = "rebuild"])
           ELSE Told(Publish(cache, IF h.base THEN e.snap.fp ELSE h.seen.fp))

\* Extending the snapshot would change events that were read long ago: it is
\* built again from all of them, and the target may have moved meanwhile.
FinishRebuild ==
  LET h == cache.hydration IN
  /\ h.phase = "rebuild"
  /\ IF cache.entry.mark.id = h.target THEN Told(Publish(cache, h.seen.fp))
     ELSE Told(Attempt(cache, h.attempt + 1, h.reads))

----------------------------------------------------------------------------
(* Calibration by the coordinator's reconciliation. *)

BeginCalibration ==
  /\ Exists(cache)
  /\ cache.calibration.phase = "none"
  /\ Told([cache EXCEPT !.calibration = Ask(1)])

AnswerCalibration ==
  /\ cache.calibration.phase = "asked"
  /\ Told([cache EXCEPT !.calibration = Answered(@)])

Calibrate ==
  LET call == cache.calibration
      done == [cache EXCEPT !.calibration = NoCall]
  IN
  /\ call.phase = "answered"
  /\ IF cache.tombstoned THEN Told(done)
     ELSE IF call.seen = Gone THEN Told(InvalidateDelete(done))
     ELSE IF Stale(cache, call) THEN Told(done)
     ELSE Told(ApplyAuthority(done, call.seen, call.age))

FailCalibration ==
  /\ cache.calibration.phase = "asked"
  /\ Told([cache EXCEPT !.calibration = NoCall])

----------------------------------------------------------------------------

Environment ==
  \/ Append \/ Reset \/ ChangeVisibility \/ Delete
  \/ Tick \/ CooldownOver \/ Evict \/ Mismatch \/ HearDelete
  \/ \E fp \in Visibilities : HearVisibility(fp)
  \/ \E w \in Committed : HearWatermark(w)
  \/ \E w \in Committed, first \in Ids \ {0},
        outcome \in {"extended", "dropped", "deferred"} :
       first <= w.id /\ HearAppend(w, first, outcome)
  \/ \E r \in Readers, w \in Committed : Get(r, w) \/ EagerFill(r, w)

Calls ==
  \/ AnswerIdentity \/ FailIdentity \/ FinishIdentity
  \/ AnswerRefresh \/ FailRefresh \/ FinishRefresh
  \/ StartHydration \/ RefuseHydration \/ FailHydration \/ FinishRange
  \/ AnswerHydration \/ FinishRebuild \/ FailDetached \/ DetachedOver
  \/ \E b \in BOOLEAN : FinishHydration(b) \/ ShortOfMemory(b)
  \/ BeginCalibration \/ AnswerCalibration \/ Calibrate \/ FailCalibration

Next ==
  \/ \E r \in Readers : Resume(r)
  \/ Quiet /\ (Environment \/ Calls)

Spec == Init /\ [][Next]_vars

\* Queries come back or run into their deadline, and a callback that is due runs
\* even if continuations of others keep coming first.
Fairness ==
  /\ \A r \in Readers : WF_vars(Resume(r))
  /\ SF_vars(Quiet /\ (AnswerIdentity \/ FinishIdentity))
  /\ SF_vars(Quiet /\ (AnswerRefresh \/ FinishRefresh))
  /\ SF_vars(Quiet /\ (StartHydration \/ FinishRange \/ AnswerHydration
                       \/ FinishRebuild \/ FinishHydration(FALSE)))

LiveSpec == Spec /\ Fairness
============================================================================
