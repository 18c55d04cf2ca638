-------------------------- MODULE ReadCacheProps ---------------------------
(***************************************************************************)
(* What a caller of the read cache may rely on.                            *)
(***************************************************************************)
EXTENDS ReadCache

Marks == [rev : 0 .. MaxRevision, id : Ids]
Authorities == [mark : Marks, fp : 0 .. MaxVisibility]
Ages == 0 .. Expired

\* Type invariant.
TypeOK ==
  /\ db \in [rev : Revisions, last : [Revisions -> Ids], fp : Visibilities,
             deleted : BOOLEAN]
  /\ cache.entry \in
       [mark : Marks, fp : 0 .. MaxVisibility, age : Ages, snap : Authorities,
        pending : Marks, cooldown : BOOLEAN]
  /\ \A call \in {cache.identity, cache.refresh, cache.calibration} :
       call \in [phase : {"none", "asked", "answered"}, current : BOOLEAN,
                 advanced : BOOLEAN, age : Ages, seen : Authorities,
                 pass : 0 .. MaxPasses]
  /\ cache.hydration \in
       [phase : {"none", "queued", "range", "asked", "answered", "rebuild"},
        advanced : BOOLEAN, age : Ages, seen : Authorities, base : BOOLEAN,
        target : Ids, after : Ids, reads : 0 .. MaxPasses,
        attempt : 0 .. MaxAttempts]
  /\ cache.readers \in
       [Readers -> [await : {"none", "identity", "refresh", "hydration"},
                    n : Nat, resumed : BOOLEAN, req : Marks]]
  /\ cache.detached \in BOOLEAN
  /\ past \in [0 .. Lease -> Authorities]

\* Every part of the cache has its type, and
\* the snapshot is of the entry's revision and freeze boundary and not ahead of the
\* target, and the target is not ahead of the database, whichever appends, resets,
\* refreshes and hydrations overlapped.
SnapshotFitsEntry ==
  LET e == cache.entry IN
  /\ TypeOK
  /\ Exists(cache) => e.mark \in Committed
  /\ e.snap # NoSnapshot =>
       /\ e.snap.mark.rev = e.mark.rev /\ e.snap.mark.id <= e.mark.id
       /\ e.snap.fp = e.fp

\* A page reaches every watermark the live entry was told of, so a consumer that
\* asks because it was notified is not shown less than what it was notified of.
PageCoversHeard ==
  answer.kind = "page" => ~Newer(heard, answer.mark)

\* A page is no older than the authority lease: it has everything that was
\* committed a lease ago, under a freeze boundary set since, of a contest that
\* was not deleted by then.
PageWithinLease ==
  answer.kind = "page" =>
    LET bound == past[Lease] IN
    /\ bound # Gone
    /\ ~Newer(bound.mark, answer.mark)
    /\ answer.fp >= bound.fp

\* A page is cut from a generation whose last authority query began no more than a
\* lease ago (src/docs/contest-event-architecture.md:149-152).
AuthorityIsRecent == answer.kind = "page" => cache.entry.age <= Lease

\* What the entry takes for the end of the stream never moves backwards.
TargetMonotone ==
  [][~Newer(cache.entry.mark, cache'.entry.mark)]_vars

\* Every caller is answered, or refused, in the end: nobody waits for a call that
\* was detached or replaced.
CallersAnswered ==
  \A r \in Readers : cache.readers[r] # Idle ~> cache.readers[r] = Idle

\* A request whose revision is no longer that of the stream is told to reset, and
\* a page of another revision is never passed off as a continuation.
StaleRevisionIsReset ==
  answer.kind = "page" => answer.mark.rev = answer.req.rev
============================================================================
