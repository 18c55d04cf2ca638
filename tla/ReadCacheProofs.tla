------------------------- MODULE ReadCacheProofs -------------------------
(***************************************************************************)
(* The safety properties of ReadCache hold for any number of callers, any  *)
(* stream and any lease, deadline and number of attempts.  FitsInv is what *)
(* connects the entry, its snapshot, the calls under way and those who     *)
(* wait for them; W stands for the watermarks committed, so that what is   *)
(* said of an operator does not depend on the database.  HeardInv and      *)
(* LeaseInv add what the entry was told of and what is due to time.        *)
(***************************************************************************)
EXTENDS ReadCacheProps, TLAPS

CallPhases == {"none", "asked", "answered"}
HydrationPhases == {"none", "queued", "range", "asked", "answered", "rebuild"}

Entries ==
  [mark : Marks, fp : 0 .. MaxVisibility, age : Ages, snap : Authorities,
   pending : Marks, cooldown : BOOLEAN]

CallRecords ==
  [phase : CallPhases, current : BOOLEAN, advanced : BOOLEAN, age : Ages,
   seen : Authorities, pass : 0 .. MaxPasses]

Hydrations ==
  [phase : HydrationPhases, advanced : BOOLEAN, age : Ages, seen : Authorities,
   base : BOOLEAN, target : Ids, after : Ids, reads : 0 .. MaxPasses,
   attempt : 0 .. MaxAttempts]

Awaits == {"none", "identity", "refresh", "hydration"}

\* Only who waited goes on; who waits for a refresh knows at which point it is.
Callers ==
  {k \in [await : Awaits, n : Nat, resumed : BOOLEAN, req : Marks] :
     /\ k.await = "none" => k = Idle
     /\ k.await = "refresh" => k.n \in 1 .. EagerPoint}

Caches ==
  [entry : Entries, identity : CallRecords, refresh : CallRecords,
   hydration : Hydrations, calibration : CallRecords, detached : BOOLEAN,
   readers : [Readers -> Callers], tombstoned : BOOLEAN]

\* What an authority query may have returned, when W has been committed.
Seen(a, W) == a # Gone => a.mark \in W /\ a.fp \in Visibilities

\* The calls under way belong to an entry, the identity to none yet.
CallsOK(c, W) ==
  /\ \A call \in {c.identity, c.refresh, c.calibration, c.hydration} : Seen(call.seen, W)
  /\ c.identity.phase # "none" => ~Exists(c)
  /\ c.refresh.phase # "none" \/ c.calibration.phase # "none" => Exists(c)

\* The entry and the snapshot it holds.
EntryOK(e, W) ==
  /\ e.mark # NoWatermark => e.mark \in W
  /\ e.snap # NoSnapshot =>
       /\ e.mark # NoWatermark
       /\ e.snap.mark.rev = e.mark.rev /\ e.snap.mark.id <= e.mark.id
       /\ e.snap.fp = e.fp
  /\ e.pending # NoWatermark =>
       /\ e.mark # NoWatermark
       /\ e.pending.rev > e.mark.rev

\* What a hydration relies on: its base is still there, nothing it has read is
\* beyond the entry, and what it rebuilds has the freeze boundary of the entry.
HydrationOK(h, e) ==
  /\ h.phase # "none" => e.mark # NoWatermark /\ e.pending = NoWatermark
  /\ h.target <= e.mark.id /\ h.after <= e.mark.id
  /\ h.phase = "none" => h.age = 0
  /\ h.base => h.phase # "none" /\ e.snap # NoSnapshot
  /\ h.phase = "rebuild" =>
       /\ h.seen.mark.rev = e.mark.rev /\ h.seen.mark.id <= e.mark.id
       /\ h.seen.fp = e.fp

\* Who waits, waits for a call that is there; who goes on has an entry.
WaitingOK(c) ==
  /\ \A r \in Readers : c.readers[r].resumed => Exists(c)
  /\ \A r \in Readers : ~c.readers[r].resumed =>
       /\ c.readers[r].await = "identity" => c.identity.phase # "none"
       /\ c.readers[r].await = "refresh" => c.refresh.phase # "none"
       /\ c.readers[r].await = "hydration" => c.hydration.phase # "none"

Fits(c, W) ==
  /\ c \in Caches
  /\ EntryOK(c.entry, W)
  /\ CallsOK(c, W)
  /\ HydrationOK(c.hydration, c.entry)
  /\ WaitingOK(c)

\* What the entry was told of has been read, or is known to be pending.
Covers(e, w) == ~Newer(w, e.mark) \/ ~Newer(w, e.pending)

HeardOK(c, w) ==
  /\ w \in Marks
  /\ ~Exists(c) => w = NoWatermark
  /\ Covers(c.entry, w)
  /\ \A r \in Readers :
       c.readers[r].resumed /\ c.readers[r].await = "refresh"
         /\ c.readers[r].n # EagerPoint => c.entry.pending = NoWatermark

\* What was read at most "age" ticks ago has all that p recorded before that.
Includes(p, seen, age) ==
  \A t \in 0 .. Lease : t >= age =>
    /\ p[t] # Gone
    /\ ~Newer(p[t].mark, seen.mark) /\ p[t].fp <= seen.fp

CallsInTime(c, p) ==
  \A call \in {c.identity, c.refresh, c.calibration, c.hydration} :
    /\ call.phase # "none" => call.age <= Deadline
    /\ call.phase \in {"answered", "rebuild"} /\ call.seen # Gone =>
         Includes(p, call.seen, call.age)

LeaseOK(c, p) ==
  /\ Exists(c) => Includes(p, c.entry, c.entry.age)
  /\ CallsInTime(c, p)
  /\ \A r \in Readers :
       c.readers[r].resumed /\ c.readers[r].await \in {"refresh", "hydration"}
          => c.entry.age <= Lease

PastOK ==
  /\ past \in [0 .. Lease -> Authorities]
  /\ \A t \in 0 .. Lease :
       /\ past[t] = Gone => db.deleted
       /\ past[t].mark \in {NoWatermark} \cup Committed
       /\ past[t].fp <= db.fp

DbOK ==
  db \in [rev : Revisions, last : [Revisions -> Ids], fp : Visibilities,
          deleted : BOOLEAN]

FitsInv == DbOK /\ PastOK /\ Fits(cache, Committed)
HeardInv == HeardOK(cache, heard) /\ PageCoversHeard
LeaseInv == LeaseOK(cache, past) /\ PageWithinLease

\* What becomes of a call in a step that neither answers it nor is its end.
CallKept(k, d) ==
  /\ d.phase # "none" => d.age = 0 \/ (k.phase # "none" /\ d.age = k.age)
  /\ d.phase \in {"answered", "rebuild"} =>
       k.phase \in {"answered", "rebuild"} /\ d.seen = k.seen /\ d.age = k.age

\* What a step does to the cache: nothing that was known is forgotten.
Continues(c, d) ==
  /\ ~Newer(c.entry.mark, d.entry.mark)
  /\ Exists(d) <=> Exists(c)
  /\ \A w \in Marks : Covers(c.entry, w) => Covers(d.entry, w)
  /\ CallKept(c.identity, d.identity) /\ CallKept(c.refresh, d.refresh)
  /\ CallKept(c.calibration, d.calibration) /\ CallKept(c.hydration, d.hydration)

\* The authority is not taken for newer than it is.
AgeKept(e, f) == f.age = Expired \/ (f.age = e.age /\ f.fp = e.fp)

\* No caller goes on that did not go on before.
NoneResumed(c, d) ==
  \A r \in Readers : d.readers[r].resumed => d.readers[r] = c.readers[r]

Keeps(c, d) == Continues(c, d) /\ AgeKept(c.entry, d.entry) /\ NoneResumed(c, d)

\* Watermarks that may be committed.
StreamMarks == [rev : Revisions, id : Ids]

SameCall(k, d) == d.phase = k.phase /\ d.seen = k.seen /\ d.age = k.age
Dead(d) == d.phase = "none" /\ d.seen = Gone

\* The snapshot is dropped and the hydration ended, perhaps other calls too.
Closes(c, d) ==
  /\ d \in Caches
  /\ SameCall(c.identity, d.identity)
  /\ SameCall(c.refresh, d.refresh) \/ Dead(d.refresh)
  /\ SameCall(c.calibration, d.calibration) \/ Dead(d.calibration)
  /\ Dead(d.hydration) /\ d.hydration.age = 0
  /\ d.hydration.target = 0 /\ d.hydration.after = 0 /\ d.hydration.base = FALSE
  /\ d.entry.snap = NoSnapshot
  /\ \A r \in Readers :
       \/ d.readers[r] = Idle
       \/ /\ d.readers[r] = c.readers[r]
          /\ \/ c.readers[r].resumed
             \/ /\ c.readers[r].await # "hydration"
                /\ c.readers[r].await = "refresh" => SameCall(c.refresh, d.refresh)

\* The entry takes over the authority that a call came back with.
Answers(c, d) ==
  \E call \in {c.refresh, c.calibration, c.hydration} :
    /\ call.phase \in {"answered", "rebuild"} /\ call.seen # Gone
    /\ d.entry.age = call.age
    /\ ~Newer(call.seen.mark, d.entry.mark) /\ call.seen.fp <= d.entry.fp

\* Whatever the instance does, unless an answer of the database arrives.
Proceeds(c, d) ==
  /\ Continues(c, d)
  /\ AgeKept(c.entry, d.entry) \/ Answers(c, d)
  /\ NoneResumed(c, d) \/ (Answers(c, d) /\ d.entry.pending = NoWatermark)

\* A call that is dropped, or made anew.
Ends(k, d) == SameCall(k, d) \/ (d.phase \in {"none", "asked"} /\ d.seen = Gone /\ d.age = 0)

\* Steps that change the cache by what it holds, and neither ask nor hear anything.
Handled ==
  \/ CooldownOver \/ Evict \/ Mismatch \/ HearDelete
  \/ \E fp \in Visibilities : HearVisibility(fp)
  \/ FailIdentity \/ FailRefresh \/ FinishRefresh
  \/ StartHydration \/ RefuseHydration \/ FailHydration \/ FinishRange
  \/ FinishRebuild \/ FailDetached \/ DetachedOver
  \/ \E b \in BOOLEAN : FinishHydration(b) \/ ShortOfMemory(b)
  \/ BeginCalibration \/ Calibrate \/ FailCalibration

Commits == Append \/ Reset \/ ChangeVisibility \/ Delete

Replies == AnswerIdentity \/ AnswerRefresh \/ AnswerHydration \/ AnswerCalibration

\* The query of the call has run, or the call is as it was.
Replied(k, d) ==
  \/ SameCall(k, d)
  \/ /\ k.phase = "asked" /\ d.phase = "answered"
     /\ d.age = k.age /\ d.seen = Authority

----------------------------------------------------------------------------
(* The operators of the cache, by the fields they change. *)

\* The values that fields start with, or are put back to, have their types.
LEMMA CacheConstants ==
  /\ NoWatermark \in Marks /\ Gone \in Authorities /\ NoSnapshot = Gone
  /\ Expired \in Ages /\ 0 \in Ages
  /\ NoCall \in CallRecords /\ NoCall.phase = "none" /\ NoCall.seen = Gone
  /\ NoHydration \in Hydrations /\ NoHydration.phase = "none"
  /\ NoHydration.seen = Gone /\ NoHydration.age = 0
  /\ NoHydration.target = 0 /\ NoHydration.after = 0 /\ NoHydration.base = FALSE
  /\ Idle \in Callers /\ Idle.await = "none" /\ Idle.resumed = FALSE
BY ReadCacheAssumption
   DEF NoWatermark, Marks, Gone, Authorities, NoSnapshot, Expired, Ages, NoCall, CallRecords,
       CallPhases, NoHydration, Hydrations, HydrationPhases, Idle, Callers, Awaits, Ids

\* A call that is made anew has been asked, just now, and has seen nothing.
LEMMA AskFacts ==
  ASSUME NEW pass \in 0 .. MaxPasses
  PROVE  /\ Ask(pass) \in CallRecords
         /\ Ask(pass).phase = "asked" /\ Ask(pass).seen = Gone /\ Ask(pass).age = 0
BY CacheConstants DEF Ask, CallRecords, CallPhases, NoCall

\* Refusing callers changes nobody but those who wait for what failed.
LEMMA RefusedFacts ==
  ASSUME NEW readers \in [Readers -> Callers], NEW awaited
  PROVE  /\ Refused(readers, awaited) \in [Readers -> Callers]
         /\ \A r \in Readers :
              \/ /\ Refused(readers, awaited)[r] = readers[r]
                 /\ readers[r].resumed \/ readers[r].await \notin awaited
              \/ Refused(readers, awaited)[r] = Idle
BY CacheConstants DEF Refused, Callers

\* Waking callers changes nobody but those who wait for what is done.
LEMMA WokenFacts ==
  ASSUME NEW readers \in [Readers -> Callers], NEW awaited, "none" \notin awaited
  PROVE  /\ Woken(readers, awaited) \in [Readers -> Callers]
         /\ \A r \in Readers :
              \/ /\ Woken(readers, awaited)[r] = readers[r]
                 /\ readers[r].await \notin awaited
              \/ /\ readers[r].await \in awaited
                 /\ Woken(readers, awaited)[r].resumed
                 /\ Woken(readers, awaited)[r].await = readers[r].await
                 /\ Woken(readers, awaited)[r].n = readers[r].n
<1>1. \A k \in Callers : k.await \in awaited =>
        /\ [k EXCEPT !.resumed = TRUE] \in Callers
        /\ [k EXCEPT !.resumed = TRUE].resumed
        /\ [k EXCEPT !.resumed = TRUE].await = k.await /\ [k EXCEPT !.resumed = TRUE].n = k.n
  BY DEF Callers
<1>2. QED  BY <1>1 DEF Woken

\* What failClosed leaves of a cache.
LEMMA FailClosedFacts ==
  ASSUME NEW c \in Caches
  PROVE  LET d == FailClosed(c) IN
         /\ d \in Caches
         /\ d.entry.mark = c.entry.mark /\ d.entry.fp = c.entry.fp
         /\ d.entry.age = c.entry.age /\ d.entry.pending = c.entry.pending
         /\ d.entry.snap = NoSnapshot
         /\ d.identity = c.identity /\ d.refresh = NoCall /\ d.calibration = NoCall
         /\ d.hydration = NoHydration
         /\ d.readers = Refused(c.readers, {"refresh", "hydration"})
         /\ d.tombstoned = c.tombstoned
<1>1. c.readers \in [Readers -> Callers]
  BY DEF Caches
<1>2. Refused(c.readers, {"refresh", "hydration"}) \in [Readers -> Callers]
  BY <1>1, RefusedFacts
<1>3. Reading(c) \in BOOLEAN
  BY DEF Reading
<1>4. QED  BY <1>2, <1>3, CacheConstants DEF FailClosed, Emptied, Caches, Entries

\* A new target version only marks the calls under way.
LEMMA NewVersionFacts ==
  ASSUME NEW c \in Caches
  PROVE  LET d == NewVersion(c) IN
         /\ d \in Caches
         /\ d.entry = c.entry
         /\ d.identity = c.identity
         /\ d.refresh.phase = c.refresh.phase /\ d.refresh.seen = c.refresh.seen
         /\ d.refresh.age = c.refresh.age
         /\ d.calibration.phase = c.calibration.phase /\ d.calibration.seen = c.calibration.seen
         /\ d.calibration.age = c.calibration.age
         /\ \E b \in BOOLEAN : d.hydration = [c.hydration EXCEPT !.advanced = b]
         /\ d.readers = c.readers
         /\ d.tombstoned = c.tombstoned
BY DEF NewVersion, Caches, CallRecords, Hydrations

\* The target moves to the later of the two ids, and no other field with it.
LEMMA AdvanceFacts ==
  ASSUME NEW c \in Caches, NEW id \in Ids
  PROVE  LET d == AdvanceTarget(c, id) IN
         /\ d \in Caches
         /\ d.entry = [c.entry EXCEPT !.mark = [rev |-> c.entry.mark.rev,
                                                id |-> Larger(c.entry.mark.id, id)]]
         /\ d.identity = c.identity
         /\ d.refresh.phase = c.refresh.phase /\ d.refresh.seen = c.refresh.seen
         /\ d.refresh.age = c.refresh.age
         /\ d.calibration.phase = c.calibration.phase /\ d.calibration.seen = c.calibration.seen
         /\ d.calibration.age = c.calibration.age
         /\ \E b \in BOOLEAN : d.hydration = [c.hydration EXCEPT !.advanced = b]
         /\ d.readers = c.readers
         /\ d.tombstoned = c.tombstoned
<1>. DEFINE m == [c EXCEPT !.entry.mark.id = id]
<1>0. /\ c.entry \in Entries /\ c.entry.mark \in Marks /\ c.hydration \in Hydrations
      /\ c.entry.mark.id \in Nat /\ id \in Nat /\ c.entry.mark.id \in Ids
  BY ReadCacheAssumption DEF Caches, Entries, Marks, Ids
<1>1. CASE id <= c.entry.mark.id
  <2>1. Larger(c.entry.mark.id, id) = c.entry.mark.id
    BY <1>1, <1>0 DEF Larger
  <2>2. c.entry = [c.entry EXCEPT !.mark = [rev |-> c.entry.mark.rev, id |-> c.entry.mark.id]]
    BY <1>0 DEF Entries, Marks
  <2>3. c.hydration = [c.hydration EXCEPT !.advanced = c.hydration.advanced]
        /\ c.hydration.advanced \in BOOLEAN
    BY <1>0 DEF Hydrations
  <2>4. QED  BY <1>1, <2>1, <2>2, <2>3 DEF AdvanceTarget
<1>2. CASE ~(id <= c.entry.mark.id)
  <2>1. Larger(c.entry.mark.id, id) = id
    BY <1>2, <1>0 DEF Larger
  <2>2. m \in Caches
    BY <1>0 DEF Caches, Entries, Marks
  <2>3. m.entry = [c.entry EXCEPT !.mark = [rev |-> c.entry.mark.rev, id |-> id]]
    BY <1>0 DEF Entries, Marks, Caches
  <2>4. /\ m.identity = c.identity /\ m.refresh = c.refresh /\ m.calibration = c.calibration
        /\ m.hydration = c.hydration /\ m.readers = c.readers /\ m.tombstoned = c.tombstoned
    BY DEF Caches
  <2>5. AdvanceTarget(c, id) = NewVersion(m)
    BY <1>2 DEF AdvanceTarget
  <2>. HIDE DEF m
  <2>6. QED  BY <2>1, <2>2, <2>3, <2>4, <2>5, NewVersionFacts
<1>3. QED  BY <1>1, <1>2

\* What a confirmed later revision leaves of a cache.
LEMMA SupersedeFacts ==
  ASSUME NEW c \in Caches, NEW w \in Marks
  PROVE  LET d == Supersede(c, w) IN
         /\ d \in Caches
         /\ d.entry.mark = w /\ d.entry.fp = c.entry.fp /\ d.entry.age = Expired
         /\ d.entry.pending = NoWatermark /\ d.entry.snap = NoSnapshot
         /\ d.identity = c.identity
         /\ d.refresh.phase = "none" /\ d.refresh.seen = Gone
         /\ d.calibration.phase = "none" /\ d.calibration.seen = Gone
         /\ d.hydration \in Hydrations /\ d.hydration.phase = "none"
         /\ d.hydration.seen = Gone /\ d.hydration.age = 0 /\ d.hydration.target = 0
         /\ d.hydration.after = 0 /\ d.hydration.base = FALSE
         /\ d.readers = Refused(c.readers, {"refresh", "hydration"})
         /\ d.tombstoned = c.tombstoned
<1>. DEFINE f == FailClosed(c)
            m == [f EXCEPT !.entry.mark = w, !.entry.age = Expired,
                           !.entry.pending = NoWatermark]
<1>1. /\ f \in Caches
      /\ f.entry.fp = c.entry.fp /\ f.entry.snap = NoSnapshot
      /\ f.identity = c.identity /\ f.refresh = NoCall /\ f.calibration = NoCall
      /\ f.hydration = NoHydration
      /\ f.readers = Refused(c.readers, {"refresh", "hydration"})
      /\ f.tombstoned = c.tombstoned
  BY FailClosedFacts
<1>2. Supersede(c, w) = NewVersion(m)
  BY DEF Supersede
<1>. HIDE DEF f
<1>3. /\ m \in Caches
      /\ m.entry.mark = w /\ m.entry.fp = f.entry.fp /\ m.entry.age = Expired
      /\ m.entry.pending = NoWatermark /\ m.entry.snap = f.entry.snap
      /\ m.identity = f.identity /\ m.refresh = f.refresh /\ m.calibration = f.calibration
      /\ m.hydration = f.hydration /\ m.readers = f.readers /\ m.tombstoned = f.tombstoned
  BY <1>1, CacheConstants DEF Caches, Entries
<1>. HIDE DEF m
<1>4. /\ NewVersion(m) \in Caches
      /\ NewVersion(m).entry = m.entry /\ NewVersion(m).identity = m.identity
      /\ NewVersion(m).refresh.phase = m.refresh.phase
      /\ NewVersion(m).refresh.seen = m.refresh.seen
      /\ NewVersion(m).calibration.phase = m.calibration.phase
      /\ NewVersion(m).calibration.seen = m.calibration.seen
      /\ NewVersion(m).readers = m.readers /\ NewVersion(m).tombstoned = m.tombstoned
  BY <1>3, NewVersionFacts
<1>5. PICK b \in BOOLEAN : NewVersion(m).hydration = [NoHydration EXCEPT !.advanced = b]
  BY <1>1, <1>3, NewVersionFacts
<1>6. /\ NewVersion(m).hydration \in Hydrations /\ NewVersion(m).hydration.phase = "none"
      /\ NewVersion(m).hydration.seen = Gone /\ NewVersion(m).hydration.age = 0
      /\ NewVersion(m).hydration.target = 0
      /\ NewVersion(m).hydration.after = 0
      /\ NewVersion(m).hydration.base = FALSE
  BY <1>5, CacheConstants DEF Hydrations
<1>7. QED  BY <1>1, <1>2, <1>3, <1>4, <1>6, CacheConstants

\* What invalidate leaves of a cache.
LEMMA InvalidateFacts ==
  ASSUME NEW c \in Caches
  PROVE  LET d == Invalidate(c) IN
         /\ d \in Caches
         /\ d.entry.mark = c.entry.mark /\ d.entry.fp = c.entry.fp
         /\ d.entry.age = c.entry.age /\ d.entry.pending = c.entry.pending
         /\ d.entry.snap = NoSnapshot
         /\ d.identity.phase = c.identity.phase /\ d.identity.seen = c.identity.seen
         /\ d.identity.age = c.identity.age
         /\ d.refresh.phase = c.refresh.phase /\ d.refresh.seen = c.refresh.seen
         /\ d.refresh.age = c.refresh.age
         /\ d.calibration = NoCall /\ d.hydration = NoHydration
         /\ d.readers = Refused(c.readers, {"hydration"})
         /\ d.tombstoned = c.tombstoned
<1>1. c.readers \in [Readers -> Callers]
  BY DEF Caches
<1>2. Refused(c.readers, {"hydration"}) \in [Readers -> Callers]
  BY <1>1, RefusedFacts
<1>3. Reading(c) \in BOOLEAN
  BY DEF Reading
<1>4. c.entry \in Entries /\ c.identity \in CallRecords /\ c.refresh \in CallRecords
  BY DEF Caches
<1>5. /\ Emptied(c.entry) \in Entries
      /\ Emptied(c.entry).mark = c.entry.mark /\ Emptied(c.entry).fp = c.entry.fp
      /\ Emptied(c.entry).age = c.entry.age /\ Emptied(c.entry).pending = c.entry.pending
      /\ Emptied(c.entry).snap = NoSnapshot
  BY <1>4, CacheConstants DEF Entries, Emptied
<1>6. \A call \in CallRecords :
        /\ Disowned(call) \in CallRecords
        /\ Disowned(call).phase = call.phase /\ Disowned(call).seen = call.seen
        /\ Disowned(call).age = call.age
  BY DEF CallRecords, Disowned
<1>7. QED  BY <1>2, <1>3, <1>4, <1>5, <1>6, CacheConstants DEF Invalidate, Caches

\* The watermarks in a cache are pairs of numbers.
LEMMA MarkFacts ==
  ASSUME NEW c \in Caches
  PROVE  /\ c.entry \in Entries
         /\ c.entry.mark \in [rev : Nat, id : Nat] /\ c.entry.pending \in [rev : Nat, id : Nat]
         /\ c.entry.snap.mark \in [rev : Nat, id : Nat]
         /\ c.entry.mark \in Marks
         /\ c.hydration \in Hydrations
         /\ c.hydration.target \in Nat /\ c.hydration.after \in Nat
         /\ c.hydration.seen.mark \in [rev : Nat, id : Nat]
         /\ c.readers \in [Readers -> Callers]
BY ReadCacheAssumption DEF Caches, Entries, Marks, Authorities, Ids, Hydrations

----------------------------------------------------------------------------
(* Steps that close the entry. *)

\* Nothing that was known is forgotten by two steps if it is by neither.
LEMMA ContinuesIsTransitive ==
  ASSUME NEW b \in Caches, NEW c \in Caches, NEW d \in Caches,
         Continues(b, c), Continues(c, d)
  PROVE  Continues(b, d)
<1>1. ~Newer(b.entry.mark, d.entry.mark)
  <2>1. /\ b.entry.mark \in [rev : Nat, id : Nat] /\ c.entry.mark \in [rev : Nat, id : Nat]
        /\ d.entry.mark \in [rev : Nat, id : Nat]
    BY MarkFacts
  <2>2. ~Newer(b.entry.mark, c.entry.mark) /\ ~Newer(c.entry.mark, d.entry.mark)
    BY DEF Continues
  <2>3. QED  BY <2>1, <2>2 DEF Newer
<1>2. /\ Exists(d) <=> Exists(b)
      /\ \A w \in Marks : Covers(b.entry, w) => Covers(d.entry, w)
  BY DEF Continues
<1>3. /\ CallKept(b.identity, d.identity) /\ CallKept(b.refresh, d.refresh)
      /\ CallKept(b.calibration, d.calibration) /\ CallKept(b.hydration, d.hydration)
  BY DEF Continues, CallKept
<1>4. QED  BY <1>1, <1>2, <1>3 DEF Continues

\* The same of the age of the authority and of who goes on.
LEMMA KeepsIsTransitive ==
  ASSUME NEW b \in Caches, NEW c \in Caches, NEW d \in Caches, Keeps(b, c), Keeps(c, d)
  PROVE  Keeps(b, d)
BY ContinuesIsTransitive DEF Keeps, AgeKept, NoneResumed

\* An entry that is closed, with its calls, fits and keeps, if the entry alone
\* does.
LEMMA ClosingIsFit ==
  ASSUME NEW c, NEW d, NEW W, Fits(c, W), Closes(c, d), Exists(d) <=> Exists(c),
         EntryOK(d.entry, W), ~Newer(c.entry.mark, d.entry.mark),
         \A w \in Marks : Covers(c.entry, w) => Covers(d.entry, w),
         d.entry.age = Expired \/ (d.entry.age = c.entry.age /\ d.entry.fp = c.entry.fp)
  PROVE  Fits(d, W) /\ Keeps(c, d)
<1>1. c \in Caches /\ d \in Caches
  BY DEF Fits, Closes
<1>2. c.readers \in [Readers -> Callers] /\ d.entry.mark.id \in Nat
  BY <1>1, MarkFacts
<1>3. CallsOK(d, W)
  BY CacheConstants DEF Closes, SameCall, Dead, Fits, CallsOK, Seen
<1>4. HydrationOK(d.hydration, d.entry)
  BY <1>2 DEF Closes, Dead, HydrationOK
<1>5. WaitingOK(d)
  BY CacheConstants DEF Fits, Closes, SameCall, WaitingOK
<1>6. \A r \in Readers : d.readers[r].resumed => d.readers[r] = c.readers[r]
  BY CacheConstants DEF Closes
<1>7. /\ CallKept(c.identity, d.identity) /\ CallKept(c.refresh, d.refresh)
      /\ CallKept(c.calibration, d.calibration) /\ CallKept(c.hydration, d.hydration)
  BY DEF Closes, SameCall, Dead, CallKept
<1>8. QED
  BY <1>1, <1>3, <1>4, <1>5, <1>6, <1>7 DEF Fits, Keeps, Continues, AgeKept, NoneResumed

\* It does when neither the target nor what is pending has changed.
LEMMA ClosedEntry ==
  ASSUME NEW c, NEW d, NEW W, Fits(c, W), Closes(c, d),
         d.entry.mark = c.entry.mark, d.entry.pending = c.entry.pending,
         d.entry.age = Expired \/ (d.entry.age = c.entry.age /\ d.entry.fp = c.entry.fp)
  PROVE  Fits(d, W) /\ Keeps(c, d)
<1>1. c \in Caches /\ d \in Caches
  BY DEF Fits, Closes
<1>2. c.entry.mark \in [rev : Nat, id : Nat]
  BY <1>1, MarkFacts
<1>3. ~Newer(c.entry.mark, d.entry.mark)
  BY <1>2 DEF Newer
<1>4. (Exists(d) <=> Exists(c)) /\ EntryOK(d.entry, W)
  BY DEF Fits, EntryOK, Exists, Closes
<1>5. \A w \in Marks : Covers(c.entry, w) => Covers(d.entry, w)
  BY DEF Covers
<1>6. QED  BY <1>3, <1>4, <1>5, ClosingIsFit

\* failClosed leaves a cache that fits, and forgets nothing.
LEMMA KeepsFailClosed ==
  ASSUME NEW c, NEW W, Fits(c, W)
  PROVE  Fits(FailClosed(c), W) /\ Keeps(c, FailClosed(c))
<1>. DEFINE d == FailClosed(c)
<1>1. c \in Caches
  BY DEF Fits
<1>2. /\ d \in Caches
      /\ d.entry.mark = c.entry.mark /\ d.entry.fp = c.entry.fp
      /\ d.entry.age = c.entry.age /\ d.entry.pending = c.entry.pending
      /\ d.entry.snap = NoSnapshot
      /\ d.identity = c.identity /\ d.refresh = NoCall /\ d.calibration = NoCall
      /\ d.hydration = NoHydration
      /\ d.readers = Refused(c.readers, {"refresh", "hydration"})
  BY <1>1, FailClosedFacts
<1>. HIDE DEF d
<1>3. \A r \in Readers :
        \/ d.readers[r] = c.readers[r]
           /\ (c.readers[r].resumed \/ c.readers[r].await \notin {"refresh", "hydration"})
        \/ d.readers[r] = Idle
  BY <1>1, <1>2, MarkFacts, RefusedFacts
<1>4. Closes(c, d)
  BY <1>2, <1>3, CacheConstants DEF Closes, SameCall, Dead
<1>5. QED  BY <1>2, <1>4, ClosedEntry DEF d

\* So does invalidate,
LEMMA KeepsInvalidate ==
  ASSUME NEW c, NEW W, Fits(c, W)
  PROVE  Fits(Invalidate(c), W) /\ Keeps(c, Invalidate(c))
<1>. DEFINE d == Invalidate(c)
<1>1. c \in Caches
  BY DEF Fits
<1>2. /\ d \in Caches
      /\ d.entry.mark = c.entry.mark /\ d.entry.fp = c.entry.fp
      /\ d.entry.age = c.entry.age /\ d.entry.pending = c.entry.pending
      /\ d.entry.snap = NoSnapshot
      /\ d.identity.phase = c.identity.phase /\ d.identity.seen = c.identity.seen
      /\ d.identity.age = c.identity.age
      /\ d.refresh.phase = c.refresh.phase /\ d.refresh.seen = c.refresh.seen
      /\ d.refresh.age = c.refresh.age
      /\ d.calibration = NoCall /\ d.hydration = NoHydration
      /\ d.readers = Refused(c.readers, {"hydration"})
  BY <1>1, InvalidateFacts
<1>. HIDE DEF d
<1>3. \A r \in Readers :
        \/ d.readers[r] = c.readers[r]
           /\ (c.readers[r].resumed \/ c.readers[r].await \notin {"hydration"})
        \/ d.readers[r] = Idle
  BY <1>1, <1>2, MarkFacts, RefusedFacts
<1>4. Closes(c, d)
  BY <1>2, <1>3, CacheConstants DEF Closes, SameCall, Dead
<1>5. QED  BY <1>2, <1>4, ClosedEntry DEF d

\* and so does the step to a revision that is at least what was pending.
LEMMA KeepsSupersede ==
  ASSUME NEW c, NEW W \in SUBSET StreamMarks, Fits(c, W), NEW w \in W, Exists(c),
         w.rev > c.entry.mark.rev, ~Newer(c.entry.pending, w)
  PROVE  Fits(Supersede(c, w), W) /\ Keeps(c, Supersede(c, w))
<1>. DEFINE d == Supersede(c, w)
<1>1. c \in Caches /\ w \in Marks /\ w \in [rev : Nat, id : Nat] /\ w # NoWatermark
  BY ReadCacheAssumption DEF Fits, StreamMarks, Marks, Revisions, Ids, NoWatermark
<1>2. /\ d \in Caches
      /\ d.entry.mark = w /\ d.entry.age = Expired
      /\ d.entry.pending = NoWatermark /\ d.entry.snap = NoSnapshot
      /\ d.identity = c.identity
      /\ d.refresh.phase = "none" /\ d.refresh.seen = Gone
      /\ d.calibration.phase = "none" /\ d.calibration.seen = Gone
      /\ d.hydration.phase = "none"
      /\ d.hydration.seen = Gone /\ d.hydration.age = 0 /\ d.hydration.target = 0
      /\ d.hydration.after = 0 /\ d.hydration.base = FALSE
      /\ d.readers = Refused(c.readers, {"refresh", "hydration"})
  BY <1>1, SupersedeFacts
<1>. HIDE DEF d
<1>3. \A r \in Readers :
        \/ d.readers[r] = c.readers[r]
           /\ (c.readers[r].resumed \/ c.readers[r].await \notin {"refresh", "hydration"})
        \/ d.readers[r] = Idle
  BY <1>1, <1>2, MarkFacts, RefusedFacts
<1>4. Closes(c, d)
  BY <1>2, <1>3, CacheConstants DEF Closes, SameCall, Dead
<1>5. /\ c.entry.mark \in [rev : Nat, id : Nat] /\ c.entry.pending \in [rev : Nat, id : Nat]
  BY <1>1, MarkFacts
<1>6. (Exists(d) <=> Exists(c)) /\ EntryOK(d.entry, W) /\ ~Newer(c.entry.mark, d.entry.mark)
  BY <1>1, <1>2, <1>5 DEF EntryOK, Exists, Newer
<1>7. \A v \in Marks : Covers(c.entry, v) => Covers(d.entry, v)
  <2>1. SUFFICES ASSUME NEW v \in [rev : Nat, id : Nat], Covers(c.entry, v)
                 PROVE  ~Newer(v, w)
    BY <1>2, ReadCacheAssumption DEF Covers, Marks, Ids
  <2>2. QED  BY <1>1, <1>5, <2>1 DEF Covers, Newer
<1>8. QED  BY <1>2, <1>4, <1>6, <1>7, ClosingIsFit DEF d

\* Nothing is forgotten when nothing happens.
LEMMA KeepsIsReflexive ==
  ASSUME NEW c \in Caches
  PROVE  Keeps(c, c)
<1>1. ~Newer(c.entry.mark, c.entry.mark)
  BY MarkFacts DEF Newer
<1>2. QED  BY <1>1 DEF Keeps, Continues, AgeKept, NoneResumed, CallKept

\* Neither is it when only the cooldown, the tombstone or the detached flag
\* changes.
LEMMA FlagsAlone ==
  ASSUME NEW c, NEW d \in Caches, NEW W, Fits(c, W),
         d.entry = c.entry \/ \E b \in BOOLEAN : d.entry = [c.entry EXCEPT !.cooldown = b],
         d.identity = c.identity, d.refresh = c.refresh, d.calibration = c.calibration,
         d.hydration = c.hydration, d.readers = c.readers
  PROVE  Fits(d, W) /\ Keeps(c, d)
<1>1. c \in Caches /\ c.entry \in Entries /\ c.entry.mark \in [rev : Nat, id : Nat]
  BY MarkFacts DEF Fits
<1>2. /\ d.entry.mark = c.entry.mark /\ d.entry.fp = c.entry.fp /\ d.entry.age = c.entry.age
      /\ d.entry.snap = c.entry.snap /\ d.entry.pending = c.entry.pending
  BY <1>1 DEF Entries
<1>3. Exists(d) <=> Exists(c)
  BY <1>2 DEF Exists
<1>4. Fits(d, W)
  BY <1>2, <1>3 DEF Fits, EntryOK, CallsOK, HydrationOK, WaitingOK
<1>5. ~Newer(c.entry.mark, d.entry.mark)
  BY <1>1, <1>2 DEF Newer
<1>6. Keeps(c, d)
  BY <1>2, <1>3, <1>5 DEF Keeps, Continues, AgeKept, NoneResumed, CallKept, Covers
<1>7. QED  BY <1>4, <1>6

\* The case of the cooldown.
LEMMA CooldownAlone ==
  ASSUME NEW c, NEW W, Fits(c, W), NEW b \in BOOLEAN
  PROVE  LET d == [c EXCEPT !.entry.cooldown = b] IN
         /\ Fits(d, W) /\ Keeps(c, d)
         /\ d.readers = c.readers /\ d.entry.age = c.entry.age
         /\ d.entry.pending = c.entry.pending
<1>1. c \in Caches
  BY DEF Fits
<1>2. [c EXCEPT !.entry.cooldown = b] \in Caches
  BY <1>1 DEF Caches, Entries
<1>3. /\ [c EXCEPT !.entry.cooldown = b].entry = [c.entry EXCEPT !.cooldown = b]
      /\ [c EXCEPT !.entry.cooldown = b].identity = c.identity
      /\ [c EXCEPT !.entry.cooldown = b].refresh = c.refresh
      /\ [c EXCEPT !.entry.cooldown = b].calibration = c.calibration
      /\ [c EXCEPT !.entry.cooldown = b].hydration = c.hydration
      /\ [c EXCEPT !.entry.cooldown = b].readers = c.readers
      /\ [c EXCEPT !.entry.cooldown = b].entry.age = c.entry.age
      /\ [c EXCEPT !.entry.cooldown = b].entry.pending = c.entry.pending
  BY <1>1 DEF Caches, Entries
<1>4. QED  BY <1>2, <1>3, FlagsAlone

\* A deletion that is heard of leaves a cache that fits, and forgets nothing.
LEMMA KeepsInvalidateDelete ==
  ASSUME NEW c, NEW W, Fits(c, W)
  PROVE  Fits(InvalidateDelete(c), W) /\ Keeps(c, InvalidateDelete(c))
<1>. DEFINE i == Invalidate(c)
            d == [i EXCEPT !.tombstoned = TRUE]
<1>1. Fits(i, W) /\ Keeps(c, i)
  BY KeepsInvalidate
<1>. HIDE DEF i
<1>2. i \in Caches /\ c \in Caches
  BY <1>1 DEF Fits
<1>3. /\ d \in Caches
      /\ d.entry = i.entry /\ d.identity = i.identity /\ d.refresh = i.refresh
      /\ d.calibration = i.calibration /\ d.hydration = i.hydration /\ d.readers = i.readers
  BY <1>2 DEF Caches
<1>4. InvalidateDelete(c) = d
  BY DEF InvalidateDelete, i
<1>. HIDE DEF d
<1>5. Fits(d, W) /\ Keeps(i, d)
  BY <1>1, <1>3, FlagsAlone
<1>6. QED  BY <1>1, <1>2, <1>3, <1>4, <1>5, KeepsIsTransitive

\* A change of the freeze boundary leaves a cache that fits, and forgets nothing.
LEMMA KeepsInvalidateMetadata ==
  ASSUME NEW c, NEW W, Fits(c, W), NEW fp \in Visibilities
  PROVE  Fits(InvalidateMetadata(c, fp), W) /\ Keeps(c, InvalidateMetadata(c, fp))
<1>. DEFINE i == Invalidate(c)
            d == [i EXCEPT !.entry.fp = fp, !.entry.age = Expired]
<1>1. Fits(i, W) /\ Keeps(c, i)
  BY KeepsInvalidate
<1>2. CASE ~Exists(c)
  BY <1>1, <1>2 DEF InvalidateMetadata
<1>3. CASE Exists(c)
  <2>1. c \in Caches
    BY DEF Fits
  <2>2. InvalidateMetadata(c, fp) = d
    BY <1>3 DEF InvalidateMetadata
  <2>3. /\ i \in Caches
        /\ i.entry.mark = c.entry.mark /\ i.entry.pending = c.entry.pending
        /\ i.entry.snap = NoSnapshot
        /\ i.identity.phase = c.identity.phase /\ i.identity.seen = c.identity.seen
        /\ i.identity.age = c.identity.age
        /\ i.refresh.phase = c.refresh.phase /\ i.refresh.seen = c.refresh.seen
        /\ i.refresh.age = c.refresh.age
        /\ i.calibration = NoCall /\ i.hydration = NoHydration
        /\ i.readers = Refused(c.readers, {"hydration"})
    BY <2>1, InvalidateFacts
  <2>. HIDE DEF i
  <2>4. \A r \in Readers :
          \/ i.readers[r] = c.readers[r]
             /\ (c.readers[r].resumed \/ c.readers[r].await \notin {"hydration"})
          \/ i.readers[r] = Idle
    BY <2>1, <2>3, MarkFacts, RefusedFacts
  <2>5. fp \in 0 .. MaxVisibility /\ Expired \in Ages
    BY ReadCacheAssumption, CacheConstants DEF Visibilities
  <2>6. /\ d \in Caches
        /\ d.entry.mark = i.entry.mark /\ d.entry.pending = i.entry.pending
        /\ d.entry.age = Expired /\ d.entry.snap = i.entry.snap
        /\ d.identity = i.identity /\ d.refresh = i.refresh
        /\ d.calibration = i.calibration /\ d.hydration = i.hydration /\ d.readers = i.readers
    BY <2>3, <2>5 DEF Caches, Entries
  <2>. HIDE DEF d
  <2>7. Closes(c, d)
    BY <2>3, <2>4, <2>6, CacheConstants DEF Closes, SameCall, Dead
  <2>8. QED  BY <2>2, <2>3, <2>6, <2>7, ClosedEntry
<1>4. QED  BY <1>2, <1>3

\* The target moves to what is committed, and the calls under way stay as they
\* were.
LEMMA KeepsAdvance ==
  ASSUME NEW c, NEW W, Fits(c, W), Exists(c), NEW id \in Ids,
         [rev |-> c.entry.mark.rev, id |-> Larger(c.entry.mark.id, id)] \in W
  PROVE  LET d == AdvanceTarget(c, id) IN
         /\ Fits(d, W) /\ Keeps(c, d)
         /\ d.entry.pending = c.entry.pending /\ d.entry.age = c.entry.age
         /\ d.entry.snap = c.entry.snap /\ d.entry.fp = c.entry.fp
         /\ d.entry.mark = [rev |-> c.entry.mark.rev, id |-> Larger(c.entry.mark.id, id)]
         /\ d.readers = c.readers
<1>. DEFINE d == AdvanceTarget(c, id)
            m == [rev |-> c.entry.mark.rev, id |-> Larger(c.entry.mark.id, id)]
<1>1. /\ c \in Caches /\ c.entry \in Entries
      /\ c.entry.mark \in [rev : Nat, id : Nat] /\ c.entry.pending \in [rev : Nat, id : Nat]
      /\ c.entry.snap.mark \in [rev : Nat, id : Nat]
      /\ c.hydration \in Hydrations /\ c.hydration.target \in Nat /\ c.hydration.after \in Nat
      /\ c.hydration.seen.mark.id \in Nat
  BY MarkFacts DEF Fits
<1>2. /\ d \in Caches
      /\ d.entry = [c.entry EXCEPT !.mark = m]
      /\ d.identity = c.identity
      /\ d.refresh.phase = c.refresh.phase /\ d.refresh.seen = c.refresh.seen
      /\ d.refresh.age = c.refresh.age
      /\ d.calibration.phase = c.calibration.phase /\ d.calibration.seen = c.calibration.seen
      /\ d.calibration.age = c.calibration.age
      /\ \E b \in BOOLEAN : d.hydration = [c.hydration EXCEPT !.advanced = b]
      /\ d.readers = c.readers
  BY <1>1, AdvanceFacts
<1>3. /\ m.rev = c.entry.mark.rev /\ m.id >= c.entry.mark.id /\ m.id \in Nat
      /\ m # NoWatermark
  BY <1>1, ReadCacheAssumption DEF Larger, Ids, Exists, NoWatermark
<1>. HIDE DEF d
<1>4. /\ d.entry.mark = m /\ d.entry.fp = c.entry.fp /\ d.entry.age = c.entry.age
      /\ d.entry.snap = c.entry.snap /\ d.entry.pending = c.entry.pending
  BY <1>1, <1>2 DEF Entries
<1>5. /\ d.hydration.phase = c.hydration.phase /\ d.hydration.seen = c.hydration.seen
      /\ d.hydration.age = c.hydration.age /\ d.hydration.target = c.hydration.target
      /\ d.hydration.after = c.hydration.after
      /\ d.hydration.base = c.hydration.base
  BY <1>1, <1>2 DEF Hydrations
<1>6. Exists(d) /\ m \in W
  BY <1>3, <1>4 DEF Exists
<1>. HIDE DEF m
<1>7. EntryOK(d.entry, W)
  BY <1>1, <1>3, <1>4, <1>6 DEF Fits, EntryOK, Exists
<1>8. CallsOK(d, W)
  BY <1>2, <1>5, <1>6 DEF Fits, CallsOK
<1>9. HydrationOK(d.hydration, d.entry)
  BY <1>1, <1>3, <1>4, <1>5 DEF Fits, HydrationOK
<1>10. WaitingOK(d)
  BY <1>2, <1>5, <1>6 DEF Fits, WaitingOK
<1>11. ~Newer(c.entry.mark, d.entry.mark)
  BY <1>1, <1>3, <1>4 DEF Newer
<1>12. \A w \in Marks : Covers(c.entry, w) => Covers(d.entry, w)
  <2>1. SUFFICES ASSUME NEW w \in [rev : Nat, id : Nat], ~Newer(w, c.entry.mark)
                 PROVE  ~Newer(w, m)
    BY <1>4, ReadCacheAssumption DEF Covers, Marks, Ids
  <2>2. QED  BY <1>1, <1>3, <2>1 DEF Newer
<1>13. /\ CallKept(c.identity, d.identity) /\ CallKept(c.refresh, d.refresh)
       /\ CallKept(c.calibration, d.calibration) /\ CallKept(c.hydration, d.hydration)
  BY <1>2, <1>5 DEF CallKept
<1>14. Keeps(c, d)
  BY <1>2, <1>4, <1>6, <1>11, <1>12, <1>13 DEF Keeps, Continues, AgeKept, NoneResumed
<1>15. QED  BY <1>2, <1>4, <1>7, <1>8, <1>9, <1>10, <1>14 DEF Fits, d, m

----------------------------------------------------------------------------
(* What the entry is told. *)

\* The later of two watermarks is one of them and behind neither.
LEMMA LatestFacts ==
  ASSUME NEW a \in [rev : Nat, id : Nat], NEW b \in [rev : Nat, id : Nat]
  PROVE  /\ Latest(a, b) \in {a, b}
         /\ ~Newer(a, Latest(a, b)) /\ ~Newer(b, Latest(a, b))
         /\ Latest(a, b).rev >= a.rev /\ Latest(a, b).rev >= b.rev
BY DEF Latest, Newer

\* Committed watermarks have a revision and are pairs of numbers.
LEMMA MarksAreWatermarks ==
  ASSUME NEW W \in SUBSET StreamMarks
  PROVE  /\ \A w \in W : /\ w \in Marks /\ w \in [rev : Nat, id : Nat]
                         /\ w.id \in Ids /\ w # NoWatermark /\ w.rev >= 1
         /\ \A w \in Marks : w \in [rev : Nat, id : Nat]
BY ReadCacheAssumption DEF StreamMarks, Marks, Revisions, Ids, NoWatermark

\* What a later revision that is noted leaves of an entry without a hydration.
LEMMA Pended ==
  ASSUME NEW c, NEW W \in SUBSET StreamMarks, Fits(c, W), Exists(c),
         NEW w \in W, w.rev > c.entry.mark.rev, c.hydration.phase = "none"
  PROVE  LET d == [c EXCEPT !.entry.pending = Latest(c.entry.pending, w),
                            !.entry.age = Expired]
         IN  /\ Fits(d, W) /\ Keeps(c, d)
             /\ d.entry.pending = Latest(c.entry.pending, w)
<1>. DEFINE p == Latest(c.entry.pending, w)
            d == [c EXCEPT !.entry.pending = p, !.entry.age = Expired]
<1>1. /\ c \in Caches /\ c.entry \in Entries /\ w \in Marks
      /\ c.entry.mark \in [rev : Nat, id : Nat] /\ c.entry.pending \in [rev : Nat, id : Nat]
      /\ c.entry.pending \in Marks
      /\ w \in [rev : Nat, id : Nat]
  BY MarkFacts, MarksAreWatermarks DEF Fits, Entries
<1>2. /\ p \in Marks /\ p \in [rev : Nat, id : Nat] /\ p.rev > c.entry.mark.rev
      /\ ~Newer(c.entry.pending, p)
  BY <1>1, LatestFacts
<1>. HIDE DEF p
<1>3. /\ d \in Caches
      /\ d.entry.mark = c.entry.mark /\ d.entry.fp = c.entry.fp /\ d.entry.age = Expired
      /\ d.entry.snap = c.entry.snap /\ d.entry.pending = p
      /\ d.identity = c.identity /\ d.refresh = c.refresh /\ d.calibration = c.calibration
      /\ d.hydration = c.hydration /\ d.readers = c.readers
  BY <1>1, <1>2, CacheConstants DEF Caches, Entries
<1>. HIDE DEF d
<1>4. Exists(d)
  BY <1>3 DEF Exists
<1>5. Fits(d, W)
  BY <1>2, <1>3, <1>4 DEF Fits, EntryOK, CallsOK, HydrationOK, WaitingOK, Exists
<1>6. ~Newer(c.entry.mark, d.entry.mark)
  BY <1>1, <1>3 DEF Newer
<1>7. \A v \in Marks : Covers(c.entry, v) => Covers(d.entry, v)
  <2>1. \A v \in [rev : Nat, id : Nat] : ~Newer(v, c.entry.pending) => ~Newer(v, p)
    BY <1>1, <1>2 DEF Newer
  <2>2. QED  BY <1>3, <2>1, MarksAreWatermarks DEF Covers
<1>8. Keeps(c, d)
  BY <1>3, <1>4, <1>6, <1>7 DEF Keeps, Continues, AgeKept, NoneResumed, CallKept
<1>9. QED  BY <1>3, <1>5, <1>8 DEF d, p

\* A later revision that is noted is covered by being pending.
LEMMA KeepsPend ==
  ASSUME NEW c, NEW W \in SUBSET StreamMarks, Fits(c, W), Exists(c),
         NEW w \in W, w.rev > c.entry.mark.rev
  PROVE  LET d == Pend(c, w) IN
         /\ Fits(d, W) /\ Keeps(c, d)
         /\ ~Newer(w, d.entry.pending) /\ d.entry.pending # NoWatermark
<1>. DEFINE f == IF w.rev > c.entry.pending.rev THEN FailClosed(c) ELSE c
            d == [f EXCEPT !.entry.pending = Latest(f.entry.pending, w),
                           !.entry.age = Expired]
<1>1. /\ c \in Caches /\ c.entry.mark \in [rev : Nat, id : Nat]
      /\ c.entry.pending \in [rev : Nat, id : Nat] /\ w \in [rev : Nat, id : Nat]
      /\ w # NoWatermark /\ w.rev >= 1
  BY MarkFacts, MarksAreWatermarks DEF Fits
<1>2. Fits(f, W) /\ Keeps(c, f)
  BY <1>1, KeepsFailClosed, KeepsIsReflexive
<1>3. /\ f.entry.mark = c.entry.mark /\ f.entry.pending = c.entry.pending
      /\ f.hydration.phase = "none"
  <2>1. CASE w.rev > c.entry.pending.rev
    BY <1>1, <2>1, FailClosedFacts, CacheConstants
  <2>2. CASE ~(w.rev > c.entry.pending.rev)
    <3>1. c.entry.pending # NoWatermark
      BY <1>1, <2>2 DEF NoWatermark
    <3>2. QED  BY <2>2, <3>1 DEF Fits, HydrationOK
  <2>3. QED  BY <2>1, <2>2
<1>4. Pend(c, w) = d
  BY <1>3 DEF Pend
<1>. HIDE DEF f
<1>5. Exists(f)
  BY <1>3 DEF Exists
<1>6. Fits(d, W) /\ Keeps(f, d) /\ d.entry.pending = Latest(c.entry.pending, w)
  BY <1>2, <1>3, <1>5, Pended
<1>. HIDE DEF d
<1>7. ~Newer(w, d.entry.pending) /\ d.entry.pending.rev >= w.rev
  BY <1>1, <1>6, LatestFacts
<1>8. d.entry.pending # NoWatermark
  BY <1>1, <1>7 DEF NoWatermark
<1>9. Keeps(c, d)
  BY <1>1, <1>2, <1>6, KeepsIsTransitive DEF Fits
<1>10. QED  BY <1>4, <1>6, <1>7, <1>8, <1>9

\* The target that an announcement moves to is committed.
LEMMA AdvancedMark ==
  ASSUME NEW c, NEW W \in SUBSET StreamMarks, Fits(c, W), Exists(c),
         NEW w \in W, w.rev = c.entry.mark.rev
  PROVE  /\ w.id \in Ids
         /\ [rev |-> c.entry.mark.rev, id |-> Larger(c.entry.mark.id, w.id)] \in W
         /\ Larger(c.entry.mark.id, w.id) \in Nat
         /\ Larger(c.entry.mark.id, w.id) >= w.id
         /\ ~Newer(c.entry.mark, w) =>
              [rev |-> c.entry.mark.rev, id |-> Larger(c.entry.mark.id, w.id)] = w
<1>1. /\ w \in [rev : Nat, id : Nat] /\ w.id \in Ids /\ c.entry.mark \in W
      /\ c.entry.mark \in [rev : Nat, id : Nat]
  BY MarkFacts, MarksAreWatermarks DEF Fits, EntryOK, Exists
<1>2. /\ w = [rev |-> c.entry.mark.rev, id |-> w.id]
      /\ c.entry.mark = [rev |-> c.entry.mark.rev, id |-> c.entry.mark.id]
  BY <1>1
<1>3. Larger(c.entry.mark.id, w.id) \in {c.entry.mark.id, w.id}
      /\ Larger(c.entry.mark.id, w.id) >= w.id
  BY <1>1 DEF Larger
<1>4. ~Newer(c.entry.mark, w) => Larger(c.entry.mark.id, w.id) = w.id
  BY <1>1 DEF Larger, Newer
<1>5. QED  BY <1>1, <1>2, <1>3, <1>4

\* After an announcement the entry covers the watermark that it announced.
LEMMA KeepsObserveWatermark ==
  ASSUME NEW c, NEW W \in SUBSET StreamMarks, Fits(c, W), Exists(c), NEW w \in W
  PROVE  LET d == ObserveWatermark(c, w) IN
         Fits(d, W) /\ Keeps(c, d) /\ Covers(d.entry, w)
<1>1. /\ c \in Caches /\ c.entry.mark \in [rev : Nat, id : Nat]
      /\ w \in [rev : Nat, id : Nat]
  BY MarkFacts, MarksAreWatermarks DEF Fits
<1>2. CASE w.rev > c.entry.mark.rev
  BY <1>2, KeepsPend DEF ObserveWatermark, Covers
<1>3. CASE w.rev = c.entry.mark.rev
  <2>. DEFINE d == AdvanceTarget(c, w.id)
  <2>1. /\ Fits(d, W) /\ Keeps(c, d)
        /\ d.entry.mark = [rev |-> c.entry.mark.rev, id |-> Larger(c.entry.mark.id, w.id)]
    BY <1>3, AdvancedMark, KeepsAdvance
  <2>2. Larger(c.entry.mark.id, w.id) >= w.id /\ Larger(c.entry.mark.id, w.id) \in Nat
    BY <1>3, AdvancedMark
  <2>3. ObserveWatermark(c, w) = d
    BY <1>1, <1>3 DEF ObserveWatermark
  <2>. HIDE DEF d
  <2>4. ~Newer(w, d.entry.mark)
    BY <1>1, <1>3, <2>1, <2>2 DEF Newer
  <2>5. QED  BY <2>1, <2>3, <2>4 DEF Covers
<1>4. CASE w.rev < c.entry.mark.rev
  <2>1. ObserveWatermark(c, w) = c /\ ~Newer(w, c.entry.mark)
    BY <1>1, <1>4 DEF ObserveWatermark, Newer
  <2>2. QED  BY <1>1, <2>1, KeepsIsReflexive DEF Covers
<1>5. QED  BY <1>1, <1>2, <1>3, <1>4

\* The write-through leaves a snapshot of the entry's revision, or none.
LEMMA KeepsWriteThrough ==
  ASSUME NEW c, NEW W \in SUBSET StreamMarks, Fits(c, W), Exists(c),
         NEW w \in W, w.rev = c.entry.mark.rev, w.id <= c.entry.mark.id,
         NEW first, NEW outcome
  PROVE  LET d == WriteThrough(c, w, first, outcome) IN
         Fits(d, W) /\ Keeps(c, d) /\ d.entry.mark = c.entry.mark
<1>. DEFINE d == WriteThrough(c, w, first, outcome)
            e == IF outcome = "dropped" THEN NoSnapshot ELSE [c.entry.snap EXCEPT !.mark = w]
<1>1. /\ c \in Caches /\ c.entry \in Entries
      /\ c.entry.mark \in [rev : Nat, id : Nat] /\ w \in [rev : Nat, id : Nat]
      /\ w \in Marks /\ w # NoWatermark /\ c.entry.snap \in Authorities
  BY MarkFacts, MarksAreWatermarks DEF Fits, Entries
<1>2. CASE d = c
  BY <1>1, <1>2, KeepsIsReflexive
<1>3. CASE d # c
  <2>1. /\ c.hydration.phase = "none" /\ c.entry.snap # NoSnapshot
        /\ d = IF outcome = "dropped" THEN [c EXCEPT !.entry.snap = NoSnapshot]
               ELSE [c EXCEPT !.entry.snap.mark = w]
    BY <1>3 DEF WriteThrough
  <2>2. /\ e \in Authorities
        /\ e # NoSnapshot =>
             e.mark = w /\ e.fp = c.entry.snap.fp
    BY <1>1, CacheConstants DEF Authorities
  <2>3. [c EXCEPT !.entry.snap.mark = w]
          = [c EXCEPT !.entry.snap = [c.entry.snap EXCEPT !.mark = w]]
    BY <1>1 DEF Caches, Entries
  <2>4. d = [c EXCEPT !.entry.snap = e]
    BY <2>1, <2>3
  <2>. HIDE DEF e, d
  <2>5. /\ d \in Caches
        /\ d.entry.mark = c.entry.mark /\ d.entry.fp = c.entry.fp
        /\ d.entry.age = c.entry.age /\ d.entry.snap = e
        /\ d.entry.pending = c.entry.pending
        /\ d.identity = c.identity /\ d.refresh = c.refresh /\ d.calibration = c.calibration
        /\ d.hydration = c.hydration /\ d.readers = c.readers
    BY <1>1, <2>2, <2>4 DEF Caches, Entries
  <2>6. Exists(d)
    BY <2>5 DEF Exists
  <2>7. Fits(d, W)
    BY <2>1, <2>2, <2>5, <2>6 DEF Fits, EntryOK, CallsOK, HydrationOK, WaitingOK, Exists
  <2>8. ~Newer(c.entry.mark, d.entry.mark)
    BY <1>1, <2>5 DEF Newer
  <2>9. Keeps(c, d)
    BY <2>5, <2>6, <2>8 DEF Keeps, Continues, AgeKept, NoneResumed, CallKept, Covers
  <2>10. QED  BY <2>5, <2>7, <2>9 DEF d
<1>4. QED  BY <1>2, <1>3

\* It does so too when the append was of this instance.
LEMMA KeepsObserveAppend ==
  ASSUME NEW c, NEW W \in SUBSET StreamMarks, Fits(c, W), Exists(c), NEW w \in W,
         NEW first, NEW outcome
  PROVE  LET d == ObserveAppend(c, w, first, outcome) IN
         Fits(d, W) /\ Keeps(c, d) /\ Covers(d.entry, w)
<1>1. /\ c \in Caches /\ c.entry.mark \in [rev : Nat, id : Nat]
      /\ c.entry.pending \in [rev : Nat, id : Nat]
      /\ w \in [rev : Nat, id : Nat] /\ w \in Marks
  BY MarkFacts, MarksAreWatermarks DEF Fits
<1>2. CASE Newer(c.entry.pending, w) \/ w.rev < c.entry.mark.rev
  <2>1. ObserveAppend(c, w, first, outcome) = c
    BY <1>2 DEF ObserveAppend
  <2>2. Covers(c.entry, w)
    BY <1>1, <1>2 DEF Covers, Newer
  <2>3. QED  BY <1>1, <2>1, <2>2, KeepsIsReflexive
<1>3. CASE ~Newer(c.entry.pending, w) /\ w.rev > c.entry.mark.rev
  <2>1. ObserveAppend(c, w, first, outcome) = Supersede(c, w)
    BY <1>1, <1>3 DEF ObserveAppend
  <2>2. Supersede(c, w).entry.mark = w
    BY <1>1, SupersedeFacts
  <2>3. ~Newer(w, w)
    BY <1>1 DEF Newer
  <2>4. QED  BY <1>3, <2>1, <2>2, <2>3, KeepsSupersede DEF Covers
<1>4. CASE ~Newer(c.entry.pending, w) /\ w.rev = c.entry.mark.rev
  <2>. DEFINE a == AdvanceTarget(c, w.id)
              d == WriteThrough(a, w, first, outcome)
  <2>1. /\ Fits(a, W) /\ Keeps(c, a)
        /\ a.entry.mark = [rev |-> c.entry.mark.rev, id |-> Larger(c.entry.mark.id, w.id)]
    BY <1>4, AdvancedMark, KeepsAdvance
  <2>2. Larger(c.entry.mark.id, w.id) >= w.id /\ Larger(c.entry.mark.id, w.id) \in Nat
    BY <1>4, AdvancedMark
  <2>3. ObserveAppend(c, w, first, outcome) = d
    BY <1>1, <1>4 DEF ObserveAppend
  <2>. HIDE DEF a
  <2>4. Exists(a)
    BY <2>1 DEF Keeps, Continues
  <2>5. w.rev = a.entry.mark.rev /\ w.id <= a.entry.mark.id
    BY <1>1, <1>4, <2>1, <2>2
  <2>6. Fits(d, W) /\ Keeps(a, d) /\ d.entry.mark = a.entry.mark
    BY <2>1, <2>4, <2>5, KeepsWriteThrough
  <2>. HIDE DEF d
  <2>7. Keeps(c, d)
    BY <1>1, <2>1, <2>6, KeepsIsTransitive DEF Fits
  <2>8. ~Newer(w, d.entry.mark)
    BY <1>1, <2>1, <2>2, <2>5, <2>6 DEF Newer
  <2>9. QED  BY <2>3, <2>6, <2>7, <2>8 DEF Covers
<1>5. QED  BY <1>1, <1>2, <1>3, <1>4

----------------------------------------------------------------------------
(* What an authority that comes back does to the entry. *)

\* An entry whose authority is confirmed for its target covers what was pending.
LEMMA Renewed ==
  ASSUME NEW c, NEW d \in Caches, NEW W, Fits(c, W), Exists(c),
         \/ d.entry.fp = c.entry.fp
         \/ c.entry.snap = NoSnapshot /\ c.hydration.phase = "none",
         d.entry.mark = c.entry.mark, d.entry.snap = c.entry.snap,
         d.entry.pending = NoWatermark, ~Newer(c.entry.pending, c.entry.mark),
         d.identity = c.identity, d.refresh = c.refresh, d.calibration = c.calibration,
         d.hydration = c.hydration, d.readers = c.readers
  PROVE  Fits(d, W) /\ Continues(c, d)
<1>1. /\ c \in Caches /\ c.entry.mark \in [rev : Nat, id : Nat]
      /\ c.entry.pending \in [rev : Nat, id : Nat]
  BY MarkFacts DEF Fits
<1>2. Exists(d)
  BY DEF Exists
<1>3. Fits(d, W)
  BY <1>2 DEF Fits, EntryOK, CallsOK, HydrationOK, WaitingOK, Exists
<1>4. ~Newer(c.entry.mark, d.entry.mark)
  BY <1>1 DEF Newer
<1>5. \A w \in Marks : Covers(c.entry, w) => Covers(d.entry, w)
  <2>1. SUFFICES ASSUME NEW w \in [rev : Nat, id : Nat], Covers(c.entry, w)
                 PROVE  ~Newer(w, c.entry.mark)
    BY ReadCacheAssumption DEF Covers, Marks, Ids
  <2>2. QED  BY <1>1, <2>1 DEF Covers, Newer
<1>6. QED  BY <1>2, <1>3, <1>4, <1>5 DEF Continues, CallKept

\* An authority that comes back either replaces what the entry had, or leaves an entry
\* that is closed or as it was.
LEMMA AuthorityApplied ==
  ASSUME NEW c, NEW W \in SUBSET StreamMarks, Fits(c, W), Exists(c),
         NEW seen \in Authorities, seen # Gone, Seen(seen, W), NEW age \in Ages
  PROVE  LET d == ApplyAuthority(c, seen, age) IN
         /\ Fits(d, W) /\ Continues(c, d) /\ NoneResumed(c, d)
         /\ IF Accepted(c, seen)
            THEN /\ d.entry.mark = seen.mark /\ d.entry.fp = seen.fp /\ d.entry.age = age
                 /\ d.entry.pending = NoWatermark
            ELSE AgeKept(c.entry, d.entry)
<1>. DEFINE d == ApplyAuthority(c, seen, age)
<1>1. /\ c \in Caches /\ c.entry.mark \in [rev : Nat, id : Nat]
      /\ c.entry.pending \in [rev : Nat, id : Nat]
      /\ seen.mark \in W /\ seen.mark \in [rev : Nat, id : Nat] /\ seen.mark \in Marks
      /\ seen.fp \in 0 .. MaxVisibility
  BY MarkFacts, MarksAreWatermarks, ReadCacheAssumption DEF Fits, Seen, Visibilities
<1>2. CASE Regressed(c, seen)
  <2>1. d = FailClosed(c)
    BY <1>2 DEF ApplyAuthority
  <2>2. ~Accepted(c, seen)
    BY <1>1, <1>2 DEF Regressed, Accepted, Newer
  <2>3. QED  BY <2>1, <2>2, KeepsFailClosed DEF Keeps
<1>3. CASE ~Regressed(c, seen) /\ ~Accepted(c, seen)
  <2>1. d = c
    BY <1>3 DEF ApplyAuthority
  <2>2. QED  BY <1>1, <1>3, <2>1, KeepsIsReflexive DEF Keeps
<1>4. CASE ~Regressed(c, seen) /\ Accepted(c, seen)
  <2>. DEFINE moved == IF seen.mark.rev > c.entry.mark.rev THEN Supersede(c, seen.mark)
                       ELSE AdvanceTarget(c, seen.mark.id)
              base == IF seen.fp = c.entry.fp THEN moved ELSE FailClosed(moved)
              shown == IF seen.fp = c.entry.fp THEN moved
                       ELSE [FailClosed(moved) EXCEPT !.entry.fp = seen.fp]
  <2>1. d = [shown EXCEPT !.entry.age = age, !.entry.pending = NoWatermark]
    BY <1>4 DEF ApplyAuthority
  <2>2. ~Newer(c.entry.pending, seen.mark) /\ ~Newer(c.entry.mark, seen.mark)
    BY <1>4 DEF Accepted, Satisfies
  <2>3. /\ Fits(moved, W) /\ Keeps(c, moved)
        /\ moved.entry.mark = seen.mark /\ moved.entry.fp = c.entry.fp
        /\ ~Newer(moved.entry.pending, seen.mark)
    <3>1. CASE seen.mark.rev > c.entry.mark.rev
      <4>1. ~Newer(NoWatermark, seen.mark)
        BY <1>1 DEF Newer, NoWatermark
      <4>2. QED  BY <1>1, <2>2, <3>1, <4>1, SupersedeFacts, KeepsSupersede
    <3>2. CASE ~(seen.mark.rev > c.entry.mark.rev)
      <4>1. seen.mark.rev = c.entry.mark.rev
        BY <1>1, <2>2, <3>2 DEF Newer
      <4>2. /\ seen.mark.id \in Ids
            /\ [rev |-> c.entry.mark.rev, id |-> Larger(c.entry.mark.id, seen.mark.id)] \in W
            /\ [rev |-> c.entry.mark.rev, id |-> Larger(c.entry.mark.id, seen.mark.id)]
                 = seen.mark
        BY <1>1, <2>2, <4>1, AdvancedMark
      <4>3. moved = AdvanceTarget(c, seen.mark.id)
        BY <3>2
      <4>4. QED  BY <2>2, <4>2, <4>3, KeepsAdvance
    <3>3. QED  BY <3>1, <3>2
  <2>. HIDE DEF moved
  <2>4. moved \in Caches
    BY <2>3 DEF Fits
  <2>5. /\ Fits(base, W) /\ Keeps(moved, base)
        /\ base.entry.mark = seen.mark /\ base.entry.fp = c.entry.fp
        /\ base.entry.pending = moved.entry.pending
        /\ seen.fp # c.entry.fp => base.entry.snap = NoSnapshot /\ base.hydration.phase = "none"
    <3>1. CASE seen.fp = c.entry.fp
      BY <2>3, <2>4, <3>1, KeepsIsReflexive
    <3>2. CASE seen.fp # c.entry.fp
      BY <2>3, <2>4, <3>2, KeepsFailClosed, FailClosedFacts, CacheConstants
    <3>3. QED  BY <3>1, <3>2
  <2>6. shown = IF seen.fp = c.entry.fp THEN base ELSE [base EXCEPT !.entry.fp = seen.fp]
    OBVIOUS
  <2>. HIDE DEF base
  <2>7. base \in Caches /\ Exists(base)
    BY <2>3, <2>5 DEF Fits, Keeps, Continues
  <2>8. /\ shown \in Caches /\ shown.entry.fp = seen.fp
        /\ shown.entry.mark = base.entry.mark /\ shown.entry.snap = base.entry.snap
        /\ shown.identity = base.identity /\ shown.refresh = base.refresh
        /\ shown.calibration = base.calibration /\ shown.hydration = base.hydration
        /\ shown.readers = base.readers
    <3>1. [base EXCEPT !.entry.fp = seen.fp] \in Caches
      BY <1>1, <2>7 DEF Caches, Entries
    <3>2. QED  BY <2>5, <2>6, <2>7, <3>1 DEF Caches, Entries
  <2>. HIDE DEF shown
  <2>9. /\ d \in Caches
        /\ d.entry.mark = base.entry.mark /\ d.entry.fp = seen.fp /\ d.entry.age = age
        /\ d.entry.snap = base.entry.snap /\ d.entry.pending = NoWatermark
        /\ d.identity = base.identity /\ d.refresh = base.refresh
        /\ d.calibration = base.calibration /\ d.hydration = base.hydration
        /\ d.readers = base.readers
    <3>. HIDE DEF d
    <3>1. [shown EXCEPT !.entry.age = age, !.entry.pending = NoWatermark] \in Caches
      BY <2>8, CacheConstants DEF Caches, Entries
    <3>2. QED  BY <2>1, <2>8, <3>1 DEF Caches, Entries
  <2>. HIDE DEF d
  <2>10. Fits(d, W) /\ Continues(base, d)
    BY <2>3, <2>5, <2>7, <2>9, Renewed
  <2>11. Keeps(c, base)
    BY <1>1, <2>3, <2>4, <2>5, <2>7, KeepsIsTransitive
  <2>12. Continues(c, d)
    BY <1>1, <2>7, <2>9, <2>10, <2>11, ContinuesIsTransitive DEF Keeps
  <2>13. NoneResumed(c, d)
    BY <2>9, <2>11 DEF Keeps, NoneResumed
  <2>14. QED  BY <1>4, <2>5, <2>9, <2>10, <2>12, <2>13 DEF d
<1>5. QED  BY <1>2, <1>3, <1>4

----------------------------------------------------------------------------
(* Callers and hydrations. *)

\* A caller that is to wait leaves all calls as they are or makes the one it waits
\* for.
LEMMA Waits ==
  ASSUME NEW c, NEW W, Fits(c, W), Exists(c), NEW r \in Readers,
         NEW what \in {"refresh", "hydration"}, NEW n \in Nat, NEW req \in Marks,
         what = "refresh" => n \in 1 .. EagerPoint
  PROVE  LET d == Wait(c, r, what, n, req) IN
         Fits(d, W) /\ Keeps(c, d) /\ d.entry = c.entry
<1>. DEFINE caller == [await |-> what, n |-> n, resumed |-> FALSE, req |-> req]
            waiting == [c EXCEPT !.readers[r] = caller]
            quit == [c EXCEPT !.readers[r] = Idle]
            d == Wait(c, r, what, n, req)
<1>1. /\ c \in Caches /\ c.readers \in [Readers -> Callers]
      /\ c.hydration \in Hydrations
      /\ c.entry.mark \in [rev : Nat, id : Nat] /\ caller \in Callers
  BY MarkFacts DEF Fits, Callers, Awaits
<1>2. /\ waiting \in Caches
      /\ waiting.readers = [c.readers EXCEPT ![r] = caller]
      /\ waiting.entry = c.entry
      /\ waiting.identity = c.identity /\ waiting.refresh = c.refresh
      /\ waiting.calibration = c.calibration /\ waiting.hydration = c.hydration
  BY <1>1 DEF Caches
<1>3. /\ quit \in Caches
      /\ quit.readers = [c.readers EXCEPT ![r] = Idle]
      /\ quit.entry = c.entry
      /\ quit.identity = c.identity /\ quit.refresh = c.refresh
      /\ quit.calibration = c.calibration /\ quit.hydration = c.hydration
  BY <1>1, CacheConstants DEF Caches
<1>4. \/ d = quit
      \/ what = "refresh" /\ c.refresh.phase = "none" /\ d = [waiting EXCEPT !.refresh = Ask(1)]
      \/ /\ what = "hydration" /\ c.hydration.phase = "none" /\ ~Unusable(c)
         /\ d = [waiting EXCEPT !.hydration.phase = "queued"]
      \/ /\ d = waiting
         /\ what = "refresh" => c.refresh.phase # "none"
         /\ what = "hydration" => c.hydration.phase # "none"
  BY DEF Wait
<1>. HIDE DEF waiting, quit, d
<1>5. ~Newer(c.entry.mark, c.entry.mark)
  BY <1>1 DEF Newer
<1>6. \A s \in Readers :
        s # r => waiting.readers[s] = c.readers[s] /\ quit.readers[s] = c.readers[s]
  BY <1>1, <1>2, <1>3
<1>7. /\ waiting.readers[r] = caller /\ quit.readers[r] = Idle
      /\ caller.resumed = FALSE /\ caller.await = what
  BY <1>1, <1>2, <1>3
<1>. HIDE DEF caller
<1>8. \A e \in Caches :
        /\ e.entry = c.entry
        /\ e.identity = c.identity /\ e.calibration = c.calibration
        /\ e.readers = waiting.readers \/ e.readers = quit.readers
        /\ CallKept(c.refresh, e.refresh) /\ CallKept(c.hydration, e.hydration)
        => Keeps(c, e)
  BY <1>5, <1>6, <1>7, CacheConstants
     DEF Keeps, Continues, AgeKept, NoneResumed, CallKept, Covers, Exists
<1>9. CASE d = quit
  <2>1. WaitingOK(d)
    BY <1>3, <1>6, <1>7, <1>9, CacheConstants DEF Fits, WaitingOK, Exists
  <2>2. Fits(d, W)
    BY <1>3, <1>9, <2>1 DEF Fits, EntryOK, CallsOK, HydrationOK, Exists
  <2>3. Keeps(c, d)
    BY <1>3, <1>8, <1>9 DEF CallKept
  <2>4. QED  BY <1>3, <1>9, <2>2, <2>3 DEF d
<1>10. CASE /\ d = waiting
            /\ what = "refresh" => c.refresh.phase # "none"
            /\ what = "hydration" => c.hydration.phase # "none"
  <2>1. WaitingOK(d)
    BY <1>2, <1>6, <1>7, <1>10, CacheConstants DEF Fits, WaitingOK, Exists
  <2>2. Fits(d, W)
    BY <1>2, <1>10, <2>1 DEF Fits, EntryOK, CallsOK, HydrationOK, Exists
  <2>3. Keeps(c, d)
    BY <1>2, <1>8, <1>10 DEF CallKept
  <2>4. QED  BY <1>2, <1>10, <2>2, <2>3 DEF d
<1>11. CASE /\ what = "refresh" /\ c.refresh.phase = "none"
            /\ d = [waiting EXCEPT !.refresh = Ask(1)]
  <2>1. /\ Ask(1) \in CallRecords
        /\ Ask(1).phase = "asked" /\ Ask(1).seen = Gone /\ Ask(1).age = 0
    BY AskFacts, ReadCacheAssumption
  <2>2. /\ d \in Caches
        /\ d.readers = waiting.readers /\ d.entry = c.entry
        /\ d.identity = c.identity /\ d.refresh = Ask(1)
        /\ d.calibration = c.calibration /\ d.hydration = c.hydration
    BY <1>2, <1>11, <2>1 DEF Caches
  <2>3. WaitingOK(d)
    BY <1>6, <1>7, <1>11, <2>1, <2>2, CacheConstants DEF Fits, WaitingOK, Exists
  <2>4. Fits(d, W)
    BY <2>1, <2>2, <2>3 DEF Fits, EntryOK, CallsOK, HydrationOK, Exists, Seen
  <2>5. Keeps(c, d)
    BY <1>8, <2>1, <2>2 DEF CallKept
  <2>6. QED  BY <2>2, <2>4, <2>5 DEF d
<1>12. CASE /\ what = "hydration" /\ c.hydration.phase = "none" /\ ~Unusable(c)
            /\ d = [waiting EXCEPT !.hydration.phase = "queued"]
  <2>1. /\ d \in Caches
        /\ d.readers = waiting.readers /\ d.entry = c.entry
        /\ d.identity = c.identity /\ d.refresh = c.refresh /\ d.calibration = c.calibration
        /\ d.hydration = [c.hydration EXCEPT !.phase = "queued"]
    <3>1. [waiting EXCEPT !.hydration.phase = "queued"] \in Caches
      BY <1>1, <1>2 DEF Caches, Hydrations, HydrationPhases
    <3>2. QED  BY <1>2, <1>12, <3>1 DEF Caches
  <2>2. /\ d.hydration.phase = "queued" /\ d.hydration.seen = c.hydration.seen
        /\ d.hydration.age = c.hydration.age /\ d.hydration.target = c.hydration.target
        /\ d.hydration.after = c.hydration.after
        /\ d.hydration.base = c.hydration.base
    BY <1>1, <2>1 DEF Hydrations
  <2>3. WaitingOK(d)
    BY <1>6, <1>7, <1>12, <2>1, <2>2, CacheConstants DEF Fits, WaitingOK, Exists
  <2>4. HydrationOK(d.hydration, d.entry)
    BY <1>12, <2>1, <2>2 DEF Fits, HydrationOK, Exists, Unusable
  <2>5. Fits(d, W)
    BY <2>1, <2>2, <2>3, <2>4 DEF Fits, EntryOK, CallsOK, Exists
  <2>6. CallKept(c.hydration, d.hydration)
    BY <1>12, <2>2 DEF CallKept, Fits, HydrationOK
  <2>7. Keeps(c, d)
    BY <1>8, <2>1, <2>6 DEF CallKept
  <2>8. QED  BY <2>1, <2>5, <2>7 DEF d
<1>13. QED  BY <1>4, <1>9, <1>10, <1>11, <1>12

\* A caller that is answered leaves everything else as it is.
LEMMA Quits ==
  ASSUME NEW c, NEW W, Fits(c, W), NEW r \in Readers
  PROVE  LET d == [c EXCEPT !.readers[r] = Idle] IN
         Fits(d, W) /\ Keeps(c, d) /\ d.entry = c.entry
<1>. DEFINE d == [c EXCEPT !.readers[r] = Idle]
<1>1. /\ c \in Caches /\ c.readers \in [Readers -> Callers]
      /\ c.entry.mark \in [rev : Nat, id : Nat]
  BY MarkFacts DEF Fits
<1>2. /\ d \in Caches
      /\ d.readers = [c.readers EXCEPT ![r] = Idle]
      /\ d.entry = c.entry
      /\ d.identity = c.identity /\ d.refresh = c.refresh
      /\ d.calibration = c.calibration /\ d.hydration = c.hydration
  BY <1>1, CacheConstants DEF Caches
<1>. HIDE DEF d
<1>3. \A s \in Readers : d.readers[s] = c.readers[s] \/ d.readers[s] = Idle
  BY <1>1, <1>2
<1>4. Fits(d, W)
  BY <1>2, <1>3, CacheConstants DEF Fits, EntryOK, CallsOK, HydrationOK, WaitingOK, Exists
<1>5. ~Newer(c.entry.mark, d.entry.mark)
  BY <1>1, <1>2 DEF Newer
<1>6. Keeps(c, d)
  BY <1>2, <1>3, <1>5, CacheConstants
     DEF Keeps, Continues, AgeKept, NoneResumed, CallKept, Covers, Exists
<1>7. QED  BY <1>2, <1>4, <1>6 DEF d

\* The hydration goes on, with the entry as it is.
LEMMA Hydrates ==
  ASSUME NEW c, NEW d \in Caches, NEW W, Fits(c, W), c.hydration.phase # "none",
         d.entry = c.entry, SameCall(c.identity, d.identity),
         SameCall(c.refresh, d.refresh), SameCall(c.calibration, d.calibration),
         d.readers = c.readers, d.hydration.phase # "none",
         HydrationOK(d.hydration, d.entry), Seen(d.hydration.seen, W)
  PROVE  /\ Fits(d, W)
         /\ CallKept(c.hydration, d.hydration) => Keeps(c, d)
<1>1. c.entry.mark \in [rev : Nat, id : Nat]
  BY MarkFacts DEF Fits
<1>2. Fits(d, W)
  BY DEF Fits, CallsOK, WaitingOK, SameCall, Exists
<1>3. ~Newer(c.entry.mark, d.entry.mark)
  BY <1>1 DEF Newer
<1>4. CallKept(c.hydration, d.hydration) => Keeps(c, d)
  BY <1>3 DEF Keeps, Continues, AgeKept, NoneResumed, CallKept, SameCall, Covers, Exists
<1>5. QED  BY <1>2, <1>4

\* The hydration is over, and those who wait for it go.
LEMMA HydrationGone ==
  ASSUME NEW c, NEW d \in Caches, NEW W, Fits(c, W),
         d.entry.mark = c.entry.mark, d.entry.fp = c.entry.fp,
         d.entry.age = c.entry.age, d.entry.pending = c.entry.pending,
         d.entry.snap = c.entry.snap \/ d.entry.snap = NoSnapshot,
         d.identity = c.identity, d.refresh = c.refresh, d.calibration = c.calibration,
         d.hydration = NoHydration, d.readers = Refused(c.readers, {"hydration"})
  PROVE  Fits(d, W) /\ Keeps(c, d)
<1>1. /\ c \in Caches /\ c.entry.mark \in [rev : Nat, id : Nat]
      /\ c.readers \in [Readers -> Callers]
  BY MarkFacts DEF Fits
<1>2. \A r \in Readers :
        \/ d.readers[r] = c.readers[r]
           /\ (c.readers[r].resumed \/ c.readers[r].await \notin {"hydration"})
        \/ d.readers[r] = Idle
  BY <1>1, RefusedFacts
<1>3. Exists(d) <=> Exists(c)
  BY DEF Exists
<1>4. EntryOK(d.entry, W)
  BY DEF Fits, EntryOK
<1>5. CallsOK(d, W)
  BY <1>3, CacheConstants DEF Fits, CallsOK, Seen
<1>6. HydrationOK(d.hydration, d.entry)
  BY <1>1, CacheConstants DEF HydrationOK
<1>7. WaitingOK(d)
  BY <1>2, <1>3, CacheConstants DEF Fits, WaitingOK
<1>8. ~Newer(c.entry.mark, d.entry.mark)
  BY <1>1 DEF Newer
<1>9. Keeps(c, d)
  BY <1>2, <1>3, <1>8, CacheConstants
     DEF Keeps, Continues, AgeKept, NoneResumed, CallKept, Covers
<1>10. QED  BY <1>4, <1>5, <1>6, <1>7, <1>9 DEF Fits

\* A hydration that is given up leaves the rest as it is, or without a snapshot.
LEMMA KeepsGiveUp ==
  ASSUME NEW c, NEW W, Fits(c, W)
  PROVE  /\ Fits(GiveUp(c), W) /\ Keeps(c, GiveUp(c))
         /\ Fits([GiveUp(c) EXCEPT !.entry.snap = NoSnapshot], W)
         /\ Keeps(c, [GiveUp(c) EXCEPT !.entry.snap = NoSnapshot])
<1>. DEFINE d == GiveUp(c)
            e == [d EXCEPT !.entry.snap = NoSnapshot]
<1>1. /\ c \in Caches /\ c.readers \in [Readers -> Callers]
      /\ Refused(c.readers, {"hydration"}) \in [Readers -> Callers]
  BY MarkFacts, RefusedFacts DEF Fits
<1>2. /\ d \in Caches
      /\ d.entry.mark = c.entry.mark /\ d.entry.fp = c.entry.fp
      /\ d.entry.age = c.entry.age /\ d.entry.pending = c.entry.pending
      /\ d.entry.snap = c.entry.snap
      /\ d.identity = c.identity /\ d.refresh = c.refresh /\ d.calibration = c.calibration
      /\ d.hydration = NoHydration /\ d.readers = Refused(c.readers, {"hydration"})
  BY <1>1, CacheConstants DEF GiveUp, Caches, Entries
<1>. HIDE DEF d
<1>3. /\ e \in Caches
      /\ e.entry.mark = d.entry.mark /\ e.entry.fp = d.entry.fp
      /\ e.entry.age = d.entry.age /\ e.entry.pending = d.entry.pending
      /\ e.entry.snap = NoSnapshot
      /\ e.identity = d.identity /\ e.refresh = d.refresh /\ e.calibration = d.calibration
      /\ e.hydration = d.hydration /\ e.readers = d.readers
  BY <1>2, CacheConstants DEF Caches, Entries
<1>. HIDE DEF e
<1>4. Fits(d, W) /\ Keeps(c, d)
  BY <1>2, HydrationGone
<1>5. Fits(e, W) /\ Keeps(c, e)
  BY <1>2, <1>3, HydrationGone
<1>6. QED  BY <1>4, <1>5 DEF d, e

\* A new attempt reads from the snapshot there is to the target of the entry.
LEMMA KeepsAttempt ==
  ASSUME NEW c, NEW W, Fits(c, W), c.hydration.phase # "none",
         NEW attempt \in Nat \ {0}, NEW reads \in 0 .. MaxPasses
  PROVE  Fits(Attempt(c, attempt, reads), W) /\ Keeps(c, Attempt(c, attempt, reads))
<1>. DEFINE base == c.entry.snap # NoSnapshot /\ c.entry.snap.mark.rev = c.entry.mark.rev
            after == IF base THEN c.entry.snap.mark.id ELSE 0
            h == [NoHydration EXCEPT !.base = base, !.target = c.entry.mark.id,
                    !.reads = reads, !.after = after, !.attempt = attempt]
            g == IF after < c.entry.mark.id THEN ReadUpTo(h, c.entry.mark.id)
                 ELSE AskAuthority(h)
            d == [c EXCEPT !.hydration = g]
<1>1. /\ c \in Caches /\ c.entry \in Entries
      /\ c.entry.mark \in [rev : Nat, id : Nat] /\ c.entry.mark.id \in Ids
      /\ c.entry.snap.mark \in [rev : Nat, id : Nat] /\ c.entry.snap.mark.id \in Ids
  BY MarkFacts DEF Fits, Entries, Marks, Authorities
<1>2. CASE attempt > MaxAttempts \/ reads = 0
  BY <1>2, KeepsGiveUp DEF Attempt
<1>3. CASE ~(attempt > MaxAttempts \/ reads = 0)
  <2>1. /\ base \in BOOLEAN
        /\ base => c.entry.snap # NoSnapshot
        /\ after \in Ids /\ after <= c.entry.mark.id
        /\ after \in Nat
    BY <1>1, ReadCacheAssumption DEF Fits, EntryOK, Ids
  <2>2. attempt \in 0 .. MaxAttempts /\ reads - 1 \in 0 .. MaxPasses
    BY <1>3, ReadCacheAssumption
  <2>3. h.after = after /\ h.target = c.entry.mark.id
    BY DEF NoHydration
  <2>4. Attempt(c, attempt, reads) = d
    BY <1>3, <2>3 DEF Attempt
  <2>5. /\ h \in Hydrations /\ h.base = base /\ h.seen = Gone /\ h.age = 0 /\ h.reads = reads
    BY <1>1, <2>1, <2>2, CacheConstants DEF Hydrations, NoHydration
  <2>. HIDE DEF base, after, h
  <2>6. /\ g \in Hydrations /\ g.phase \in {"range", "asked"} /\ g.seen = Gone /\ g.age = 0
        /\ g.base = base /\ g.target = c.entry.mark.id /\ g.after = after
    BY <1>1, <2>2, <2>3, <2>5, CacheConstants
       DEF ReadUpTo, AskAuthority, Hydrations, HydrationPhases
  <2>. HIDE DEF g
  <2>7. /\ d \in Caches
        /\ d.entry = c.entry /\ d.identity = c.identity /\ d.refresh = c.refresh
        /\ d.calibration = c.calibration /\ d.readers = c.readers /\ d.hydration = g
    BY <1>1, <2>6 DEF Caches
  <2>. HIDE DEF d
  <2>8. HydrationOK(d.hydration, d.entry)
    BY <1>1, <2>1, <2>6, <2>7 DEF HydrationOK, Fits
  <2>9. CallKept(c.hydration, d.hydration) /\ Seen(d.hydration.seen, W)
    BY <2>6, <2>7 DEF CallKept, Seen
  <2>10. d.hydration.phase # "none"
    BY <2>6, <2>7
  <2>11. QED  BY <2>4, <2>7, <2>8, <2>9, <2>10, Hydrates DEF SameCall
<1>4. QED  BY <1>2, <1>3

\* What is published is what the entry knows, as old as the authority that ended the
\* hydration.
LEMMA Published ==
  ASSUME NEW c, NEW W, Fits(c, W), NEW fp, fp = c.entry.fp,
         c.hydration.phase \in {"answered", "rebuild"}, c.hydration.seen # Gone,
         c.hydration.seen.mark.rev = c.entry.mark.rev,
         c.hydration.seen.mark.id <= c.entry.mark.id, c.hydration.seen.fp = c.entry.fp
  PROVE  Fits(Publish(c, fp), W) /\ Proceeds(c, Publish(c, fp))
<1>. DEFINE d == Publish(c, fp)
            s == [mark |-> c.entry.mark, fp |-> fp]
<1>1. /\ c \in Caches /\ c.entry \in Entries
      /\ c.entry.mark \in [rev : Nat, id : Nat]
      /\ c.hydration.seen.mark \in [rev : Nat, id : Nat]
      /\ c.readers \in [Readers -> Callers]
      /\ Woken(c.readers, {"hydration"}) \in [Readers -> Callers]
      /\ c.hydration.age \in Ages /\ c.entry.fp \in 0 .. MaxVisibility
  BY MarkFacts, WokenFacts DEF Fits, Hydrations, Entries
<1>2. s \in Authorities /\ s.mark = c.entry.mark /\ s.fp = c.entry.fp
  BY <1>1 DEF Authorities, Entries
<1>3. /\ d.entry = [c.entry EXCEPT !.snap = s, !.age = c.hydration.age, !.cooldown = FALSE]
      /\ d.identity = c.identity /\ d.refresh = c.refresh /\ d.calibration = c.calibration
      /\ d.hydration = NoHydration /\ d.readers = Woken(c.readers, {"hydration"})
  BY <1>1 DEF Publish, Caches, Entries
<1>4. d \in Caches
  BY <1>1, <1>2, CacheConstants DEF Publish, Caches, Entries
<1>. HIDE DEF s, d
<1>5. /\ d.entry.mark = c.entry.mark /\ d.entry.fp = c.entry.fp
      /\ d.entry.age = c.hydration.age /\ d.entry.pending = c.entry.pending
      /\ d.entry.snap = s
  BY <1>1, <1>3 DEF Entries
<1>6. /\ c.entry.mark # NoWatermark /\ c.entry.pending = NoWatermark
      /\ Exists(c) /\ Exists(d)
  BY <1>5 DEF Fits, HydrationOK, Exists
<1>7. \A r \in Readers :
        \/ d.readers[r] = c.readers[r] /\ c.readers[r].await # "hydration"
        \/ d.readers[r].resumed
  BY <1>1, <1>3, WokenFacts
<1>8. EntryOK(d.entry, W)
  BY <1>1, <1>2, <1>5, <1>6 DEF Fits, EntryOK
<1>9. CallsOK(d, W)
  BY <1>3, <1>6, CacheConstants DEF Fits, CallsOK, Seen
<1>10. HydrationOK(d.hydration, d.entry)
  BY <1>1, <1>3, <1>5, CacheConstants DEF HydrationOK
<1>11. WaitingOK(d)
  BY <1>3, <1>6, <1>7 DEF Fits, WaitingOK
<1>12. ~Newer(c.entry.mark, d.entry.mark)
  BY <1>1, <1>5 DEF Newer
<1>13. Continues(c, d)
  BY <1>3, <1>5, <1>6, <1>12, CacheConstants DEF Continues, CallKept, Covers
<1>14. ~Newer(c.hydration.seen.mark, d.entry.mark)
  BY <1>1, <1>5 DEF Newer
<1>15. Answers(c, d)
  BY <1>1, <1>5, <1>14 DEF Answers
<1>16. QED  BY <1>4, <1>5, <1>6, <1>8, <1>9, <1>10, <1>11, <1>13, <1>15 DEF Fits, Proceeds, d

----------------------------------------------------------------------------
(* The steps that end a call. *)

\* Calls end or begin, and nothing else happens but that the snapshot may go.
LEMMA CallsAlone ==
  ASSUME NEW c, NEW d \in Caches, NEW W, Fits(c, W),
         d.entry.mark = c.entry.mark, d.entry.fp = c.entry.fp,
         d.entry.age = c.entry.age, d.entry.pending = c.entry.pending,
         \/ d.entry.snap = c.entry.snap
         \/ d.entry.snap = NoSnapshot /\ c.hydration.phase = "none",
         Ends(c.identity, d.identity), Ends(c.refresh, d.refresh),
         Ends(c.calibration, d.calibration), d.hydration = c.hydration,
         d.identity.phase # "none" => ~Exists(c),
         d.refresh.phase # "none" \/ d.calibration.phase # "none" => Exists(c),
         WaitingOK(d), NoneResumed(c, d)
  PROVE  Fits(d, W) /\ Keeps(c, d)
<1>1. c \in Caches /\ c.entry.mark \in [rev : Nat, id : Nat]
  BY MarkFacts DEF Fits
<1>2. Exists(d) <=> Exists(c)
  BY DEF Exists
<1>3. EntryOK(d.entry, W)
  BY DEF Fits, EntryOK
<1>4. CallsOK(d, W)
  BY <1>2 DEF Fits, CallsOK, Seen, Ends, SameCall
<1>5. HydrationOK(d.hydration, d.entry)
  BY DEF Fits, HydrationOK
<1>6. ~Newer(c.entry.mark, d.entry.mark)
  BY <1>1 DEF Newer
<1>7. /\ CallKept(c.identity, d.identity) /\ CallKept(c.refresh, d.refresh)
      /\ CallKept(c.calibration, d.calibration) /\ CallKept(c.hydration, d.hydration)
  BY DEF Ends, SameCall, CallKept
<1>8. Keeps(c, d)
  BY <1>2, <1>6, <1>7 DEF Keeps, Continues, AgeKept, Covers
<1>9. QED  BY <1>3, <1>4, <1>5, <1>8 DEF Fits

\* To keep everything is one way to proceed.
LEMMA KeepsProceeds ==
  ASSUME NEW c, NEW d, Keeps(c, d)
  PROVE  Proceeds(c, d)
BY DEF Keeps, Proceeds

\* The refresh ends, and those who wait for it are refused.
LEMMA KeepsRefreshRefused ==
  ASSUME NEW c, NEW W, Fits(c, W)
  PROVE  LET d == [c EXCEPT !.refresh = NoCall, !.readers = Refused(@, {"refresh"})] IN
         /\ Fits(d, W) /\ Keeps(c, d)
         /\ d.entry = c.entry /\ d.tombstoned = c.tombstoned /\ d.refresh = NoCall
<1>. DEFINE d == [c EXCEPT !.refresh = NoCall, !.readers = Refused(@, {"refresh"})]
<1>1. /\ c \in Caches /\ c.readers \in [Readers -> Callers]
      /\ Refused(c.readers, {"refresh"}) \in [Readers -> Callers]
  BY MarkFacts, RefusedFacts DEF Fits
<1>2. /\ d \in Caches
      /\ d.entry = c.entry /\ d.identity = c.identity /\ d.refresh = NoCall
      /\ d.calibration = c.calibration /\ d.hydration = c.hydration
      /\ d.readers = Refused(c.readers, {"refresh"}) /\ d.tombstoned = c.tombstoned
  BY <1>1, CacheConstants DEF Caches
<1>. HIDE DEF d
<1>3. \A r \in Readers :
        \/ d.readers[r] = c.readers[r]
           /\ (c.readers[r].resumed \/ c.readers[r].await \notin {"refresh"})
        \/ d.readers[r] = Idle
  BY <1>1, <1>2, RefusedFacts
<1>4. WaitingOK(d) /\ NoneResumed(c, d)
  BY <1>2, <1>3, CacheConstants DEF Fits, WaitingOK, NoneResumed, Exists
<1>5. /\ Ends(c.identity, d.identity) /\ Ends(c.refresh, d.refresh)
      /\ Ends(c.calibration, d.calibration)
  BY <1>2, CacheConstants DEF Ends, SameCall, NoCall
<1>6. /\ d.identity.phase # "none" => ~Exists(c)
      /\ d.refresh.phase # "none" \/ d.calibration.phase # "none" => Exists(c)
  BY <1>2, CacheConstants DEF Fits, CallsOK
<1>7. Fits(d, W) /\ Keeps(c, d)
  BY <1>2, <1>4, <1>5, <1>6, CallsAlone
<1>8. QED  BY <1>2, <1>7 DEF d

\* The identity call ends, and those who wait for it are refused.
LEMMA KeepsIdentityRefused ==
  ASSUME NEW c, NEW W, Fits(c, W)
  PROVE  LET d == [c EXCEPT !.identity = NoCall, !.readers = Refused(@, {"identity"})] IN
         Fits(d, W) /\ Keeps(c, d) /\ d.entry = c.entry
<1>. DEFINE d == [c EXCEPT !.identity = NoCall, !.readers = Refused(@, {"identity"})]
<1>1. /\ c \in Caches /\ c.readers \in [Readers -> Callers]
      /\ Refused(c.readers, {"identity"}) \in [Readers -> Callers]
  BY MarkFacts, RefusedFacts DEF Fits
<1>2. /\ d \in Caches
      /\ d.entry = c.entry /\ d.identity = NoCall /\ d.refresh = c.refresh
      /\ d.calibration = c.calibration /\ d.hydration = c.hydration
      /\ d.readers = Refused(c.readers, {"identity"})
  BY <1>1, CacheConstants DEF Caches
<1>. HIDE DEF d
<1>3. \A r \in Readers :
        \/ d.readers[r] = c.readers[r]
           /\ (c.readers[r].resumed \/ c.readers[r].await \notin {"identity"})
        \/ d.readers[r] = Idle
  BY <1>1, <1>2, RefusedFacts
<1>4. WaitingOK(d) /\ NoneResumed(c, d)
  BY <1>2, <1>3, CacheConstants DEF Fits, WaitingOK, NoneResumed, Exists
<1>5. /\ Ends(c.identity, d.identity) /\ Ends(c.refresh, d.refresh)
      /\ Ends(c.calibration, d.calibration)
  BY <1>2, CacheConstants DEF Ends, SameCall, NoCall
<1>6. /\ d.identity.phase # "none" => ~Exists(c)
      /\ d.refresh.phase # "none" \/ d.calibration.phase # "none" => Exists(c)
  BY <1>2, CacheConstants DEF Fits, CallsOK
<1>7. Fits(d, W) /\ Keeps(c, d)
  BY <1>2, <1>4, <1>5, <1>6, CallsAlone
<1>8. QED  BY <1>2, <1>7 DEF d

\* An entry that is evicted keeps its target, and those who wait for the refresh
\* go.
LEMMA KeepsEvict ==
  ASSUME NEW c, NEW W, Fits(c, W), c.hydration.phase = "none"
  PROVE  LET d == [c EXCEPT !.entry.snap = NoSnapshot, !.refresh = NoCall,
                            !.calibration = NoCall, !.readers = Refused(@, {"refresh"})]
         IN  Fits(d, W) /\ Keeps(c, d)
<1>. DEFINE d == [c EXCEPT !.entry.snap = NoSnapshot, !.refresh = NoCall,
                           !.calibration = NoCall, !.readers = Refused(@, {"refresh"})]
<1>1. /\ c \in Caches /\ c.entry \in Entries /\ c.readers \in [Readers -> Callers]
      /\ Refused(c.readers, {"refresh"}) \in [Readers -> Callers]
  BY MarkFacts, RefusedFacts DEF Fits
<1>2. /\ d.entry.mark = c.entry.mark /\ d.entry.fp = c.entry.fp
      /\ d.entry.age = c.entry.age /\ d.entry.pending = c.entry.pending
      /\ d.entry.snap = NoSnapshot /\ d.identity = c.identity /\ d.refresh = NoCall
      /\ d.calibration = NoCall /\ d.hydration = c.hydration
      /\ d.readers = Refused(c.readers, {"refresh"})
  BY <1>1 DEF Caches, Entries
<1>3. d \in Caches
  BY <1>1, CacheConstants DEF Caches, Entries
<1>. HIDE DEF d
<1>4. \A r \in Readers :
        \/ d.readers[r] = c.readers[r]
           /\ (c.readers[r].resumed \/ c.readers[r].await \notin {"refresh"})
        \/ d.readers[r] = Idle
  BY <1>1, <1>2, RefusedFacts
<1>5. WaitingOK(d) /\ NoneResumed(c, d)
  BY <1>2, <1>4, CacheConstants DEF Fits, WaitingOK, NoneResumed, Exists
<1>6. /\ Ends(c.identity, d.identity) /\ Ends(c.refresh, d.refresh)
      /\ Ends(c.calibration, d.calibration)
  BY <1>2, CacheConstants DEF Ends, SameCall, NoCall
<1>7. /\ d.identity.phase # "none" => ~Exists(c)
      /\ d.refresh.phase # "none" \/ d.calibration.phase # "none" => Exists(c)
  BY <1>2, CacheConstants DEF Fits, CallsOK
<1>8. Fits(d, W) /\ Keeps(c, d)
  BY <1>2, <1>3, <1>5, <1>6, <1>7, CallsAlone
<1>9. QED  BY <1>8 DEF d

\* A calibration begins or ends.
LEMMA KeepsCalibration ==
  ASSUME NEW c, NEW W, Fits(c, W), NEW call,
         call = NoCall \/ (call = Ask(1) /\ Exists(c))
  PROVE  LET d == [c EXCEPT !.calibration = call] IN
         /\ Fits(d, W) /\ Keeps(c, d)
         /\ d.entry = c.entry /\ d.tombstoned = c.tombstoned
<1>. DEFINE d == [c EXCEPT !.calibration = call]
<1>0. /\ Ask(1) \in CallRecords
      /\ Ask(1).phase = "asked" /\ Ask(1).seen = Gone /\ Ask(1).age = 0
  BY AskFacts, ReadCacheAssumption
<1>1. /\ c \in Caches /\ call \in CallRecords /\ call.seen = Gone /\ call.age = 0
      /\ call.phase \in {"none", "asked"} /\ (call.phase # "none" => Exists(c))
  <2>1. CASE call = Ask(1) /\ Exists(c)
    BY <1>0, <2>1 DEF Fits
  <2>2. CASE call = NoCall
    BY <2>2, CacheConstants DEF Fits, NoCall
  <2>3. QED  BY <2>1, <2>2
<1>2. /\ d \in Caches
      /\ d.entry = c.entry /\ d.identity = c.identity /\ d.refresh = c.refresh
      /\ d.calibration = call /\ d.hydration = c.hydration
      /\ d.readers = c.readers /\ d.tombstoned = c.tombstoned
  BY <1>1 DEF Caches
<1>. HIDE DEF d
<1>3. WaitingOK(d) /\ NoneResumed(c, d)
  BY <1>2 DEF Fits, WaitingOK, NoneResumed, Exists
<1>4. /\ Ends(c.identity, d.identity) /\ Ends(c.refresh, d.refresh)
      /\ Ends(c.calibration, d.calibration)
  BY <1>1, <1>2 DEF Ends, SameCall
<1>5. /\ d.identity.phase # "none" => ~Exists(c)
      /\ d.refresh.phase # "none" \/ d.calibration.phase # "none" => Exists(c)
  BY <1>1, <1>2 DEF Fits, CallsOK
<1>6. Fits(d, W) /\ Keeps(c, d)
  BY <1>2, <1>3, <1>4, <1>5, CallsAlone
<1>7. QED  BY <1>2, <1>6 DEF d

\* The refresh that is done, before its answer is applied.
LEMMA RefreshDone ==
  ASSUME NEW c, NEW W, Fits(c, W), c.refresh.phase # "none"
  PROVE  LET d == [c EXCEPT !.refresh = NoCall, !.readers = Woken(@, {"refresh"})] IN
         /\ Fits(d, W) /\ Continues(c, d)
         /\ d.entry = c.entry /\ d.tombstoned = c.tombstoned
<1>. DEFINE d == [c EXCEPT !.refresh = NoCall, !.readers = Woken(@, {"refresh"})]
<1>1. /\ c \in Caches /\ c.readers \in [Readers -> Callers]
      /\ c.entry.mark \in [rev : Nat, id : Nat]
      /\ Woken(c.readers, {"refresh"}) \in [Readers -> Callers]
  BY MarkFacts, WokenFacts DEF Fits
<1>2. /\ d \in Caches
      /\ d.entry = c.entry /\ d.identity = c.identity /\ d.refresh = NoCall
      /\ d.calibration = c.calibration /\ d.hydration = c.hydration
      /\ d.readers = Woken(c.readers, {"refresh"}) /\ d.tombstoned = c.tombstoned
  BY <1>1, CacheConstants DEF Caches
<1>. HIDE DEF d
<1>3. Exists(c) /\ Exists(d)
  BY <1>2 DEF Fits, CallsOK, Exists
<1>4. \A r \in Readers :
        \/ d.readers[r] = c.readers[r] /\ c.readers[r].await \notin {"refresh"}
        \/ d.readers[r].resumed
  BY <1>1, <1>2, WokenFacts
<1>5. WaitingOK(d)
  BY <1>2, <1>3, <1>4 DEF Fits, WaitingOK
<1>6. CallsOK(d, W)
  BY <1>2, <1>3, CacheConstants DEF Fits, CallsOK, Seen
<1>7. EntryOK(d.entry, W) /\ HydrationOK(d.hydration, d.entry)
  BY <1>2 DEF Fits
<1>8. ~Newer(c.entry.mark, d.entry.mark)
  BY <1>1, <1>2 DEF Newer
<1>9. Continues(c, d)
  BY <1>2, <1>3, <1>8, CacheConstants DEF Continues, CallKept, Covers
<1>10. QED  BY <1>2, <1>5, <1>6, <1>7, <1>9 DEF Fits, d

\* The authority that a call came back with is applied to the entry as it is now; those
\* who waited for it go on only if it is accepted.
LEMMA AnswerApplied ==
  ASSUME NEW c, NEW b, NEW W \in SUBSET StreamMarks, Fits(c, W), Fits(b, W), Exists(c),
         Continues(c, b), b.entry = c.entry, b.tombstoned = c.tombstoned,
         NEW call \in {c.refresh, c.calibration, c.hydration},
         call.phase = "answered", call.seen # Gone,
         NoneResumed(c, b) \/ Accepted(c, call.seen)
  PROVE  LET d == ApplyAuthority(b, call.seen, call.age) IN
         Fits(d, W) /\ Proceeds(c, d)
<1>. DEFINE d == ApplyAuthority(b, call.seen, call.age)
<1>1. /\ c \in Caches /\ b \in Caches /\ Exists(b)
      /\ call.seen \in Authorities /\ call.age \in Ages /\ Seen(call.seen, W)
  <2>1. c \in Caches /\ b \in Caches /\ Exists(b)
    BY DEF Fits, Exists
  <2>2. c.refresh \in CallRecords /\ c.calibration \in CallRecords /\ c.hydration \in Hydrations
    BY <2>1 DEF Caches
  <2>3. call.seen \in Authorities /\ call.age \in Ages
    BY <2>2 DEF CallRecords, Hydrations
  <2>4. QED  BY <2>1, <2>3 DEF Fits, CallsOK
<1>2. Accepted(b, call.seen) <=> Accepted(c, call.seen)
  BY DEF Accepted, Satisfies
<1>3. /\ Fits(d, W) /\ Continues(b, d) /\ NoneResumed(b, d)
      /\ IF Accepted(b, call.seen)
         THEN /\ d.entry.mark = call.seen.mark /\ d.entry.fp = call.seen.fp
              /\ d.entry.age = call.age /\ d.entry.pending = NoWatermark
         ELSE AgeKept(b.entry, d.entry)
  BY <1>1, AuthorityApplied
<1>. HIDE DEF d
<1>4. Continues(c, d)
  BY <1>1, <1>3, ContinuesIsTransitive DEF Fits
<1>5. CASE Accepted(c, call.seen)
  <2>1. call.seen.mark \in [rev : Nat, id : Nat] /\ call.seen.fp \in Nat
    BY <1>1, ReadCacheAssumption DEF Authorities, Marks, Ids
  <2>2. ~Newer(call.seen.mark, d.entry.mark) /\ call.seen.fp <= d.entry.fp
    BY <1>2, <1>3, <1>5, <2>1 DEF Newer
  <2>3. Answers(c, d)
    BY <1>2, <1>3, <1>5, <2>2 DEF Answers
  <2>4. QED  BY <1>2, <1>3, <1>4, <1>5, <2>3 DEF Proceeds, d
<1>6. CASE ~Accepted(c, call.seen)
  <2>1. AgeKept(c.entry, d.entry) /\ NoneResumed(c, d)
    BY <1>2, <1>3, <1>6 DEF NoneResumed
  <2>2. QED  BY <1>3, <1>4, <2>1 DEF Proceeds, d
<1>7. QED  BY <1>5, <1>6

\* A cooldown that begins or ends is nothing to the rest.
LEMMA ProceedsCooldown ==
  ASSUME NEW c, NEW b, NEW W, c \in Caches, Fits(b, W), Proceeds(c, b), NEW k \in BOOLEAN
  PROVE  LET d == [b EXCEPT !.entry.cooldown = k] IN
         Fits(d, W) /\ Proceeds(c, d)
<1>. DEFINE d == [b EXCEPT !.entry.cooldown = k]
<1>1. b \in Caches /\ b.entry \in Entries
  BY DEF Fits, Caches
<1>2. /\ d.entry.mark = b.entry.mark /\ d.entry.fp = b.entry.fp
      /\ d.entry.age = b.entry.age /\ d.entry.pending = b.entry.pending
      /\ d.readers = b.readers
  BY <1>1 DEF Caches, Entries
<1>3. Fits(d, W) /\ Keeps(b, d)
  BY CooldownAlone
<1>. HIDE DEF d
<1>4. Continues(c, d)
  BY <1>1, <1>3, ContinuesIsTransitive DEF Fits, Keeps, Proceeds
<1>5. QED  BY <1>2, <1>3, <1>4 DEF Proceeds, AgeKept, Answers, NoneResumed, d

\* The answer to a refresh is applied, asked for again, or ends it.
LEMMA RefreshFinishes ==
  ASSUME NEW W \in SUBSET StreamMarks, Fits(cache, W), FinishRefresh
  PROVE  Fits(cache', W) /\ Proceeds(cache, cache')
<1>. DEFINE call == cache.refresh
            done == [cache EXCEPT !.refresh = NoCall, !.readers = Woken(@, {"refresh"})]
<1>1. /\ cache \in Caches /\ call.phase = "answered" /\ Exists(cache)
      /\ call \in CallRecords
  BY DEF FinishRefresh, Fits, CallsOK, Caches
<1>2. /\ Fits(RefreshRefused, W) /\ Keeps(cache, RefreshRefused)
      /\ RefreshRefused.entry = cache.entry
      /\ RefreshRefused.tombstoned = cache.tombstoned
  BY KeepsRefreshRefused DEF RefreshRefused
<1>3. /\ Fits(done, W) /\ Continues(cache, done)
      /\ done.entry = cache.entry /\ done.tombstoned = cache.tombstoned
  BY <1>1, RefreshDone
<1>4. RefreshRefused \in Caches
  BY <1>2 DEF Fits
<1>. HIDE DEF done
<1>5. CASE cache' = InvalidateDelete(RefreshRefused)
  <2>1. Fits(cache', W) /\ Keeps(RefreshRefused, cache')
    BY <1>2, <1>5, KeepsInvalidateDelete
  <2>2. Keeps(cache, cache')
    BY <1>1, <1>2, <1>4, <2>1, KeepsIsTransitive DEF Fits
  <2>3. QED  BY <2>1, <2>2, KeepsProceeds
<1>6. CASE cache' = RefreshRefused
  BY <1>2, <1>6, KeepsProceeds
<1>7. CASE Again(call.pass) /\ cache' = [cache EXCEPT !.refresh = Ask(call.pass + 1)]
  <2>1. call.pass + 1 \in 0 .. MaxPasses
    BY <1>1, <1>7, ReadCacheAssumption DEF Again, CallRecords
  <2>2. /\ Ask(call.pass + 1) \in CallRecords /\ Ask(call.pass + 1).phase = "asked"
        /\ Ask(call.pass + 1).seen = Gone /\ Ask(call.pass + 1).age = 0
    BY <2>1, AskFacts
  <2>3. /\ cache' \in Caches
        /\ cache'.entry = cache.entry /\ cache'.identity = cache.identity
        /\ cache'.refresh = Ask(call.pass + 1) /\ cache'.calibration = cache.calibration
        /\ cache'.hydration = cache.hydration /\ cache'.readers = cache.readers
    BY <1>1, <1>7, <2>2 DEF Caches
  <2>4. WaitingOK(cache') /\ NoneResumed(cache, cache')
    BY <2>2, <2>3 DEF Fits, WaitingOK, NoneResumed, Exists
  <2>5. /\ Ends(cache.identity, cache'.identity) /\ Ends(cache.refresh, cache'.refresh)
        /\ Ends(cache.calibration, cache'.calibration)
    BY <2>2, <2>3 DEF Ends, SameCall
  <2>6. /\ cache'.identity.phase # "none" => ~Exists(cache)
        /\ cache'.refresh.phase # "none" \/ cache'.calibration.phase # "none" => Exists(cache)
    BY <1>1, <2>3 DEF Fits, CallsOK
  <2>7. Fits(cache', W) /\ Keeps(cache, cache')
    BY <2>3, <2>4, <2>5, <2>6, CallsAlone
  <2>8. QED  BY <2>7, KeepsProceeds
<1>8. CASE cache' = [RefreshRefused EXCEPT !.entry.cooldown = TRUE]
  <2>1. Proceeds(cache, RefreshRefused)
    BY <1>2, KeepsProceeds
  <2>2. QED  BY <1>1, <1>2, <1>8, <2>1, ProceedsCooldown
<1>9. CASE /\ call.seen # Gone /\ Accepted(cache, call.seen)
           /\ cache' = [ApplyAuthority(done, call.seen, call.age)
                          EXCEPT !.entry.cooldown = FALSE]
  <2>1. /\ Fits(ApplyAuthority(done, call.seen, call.age), W)
        /\ Proceeds(cache, ApplyAuthority(done, call.seen, call.age))
    BY <1>1, <1>3, <1>9, AnswerApplied
  <2>2. QED  BY <1>1, <1>9, <2>1, ProceedsCooldown
<1>10. CASE /\ call.seen # Gone
            /\ cache' = ApplyAuthority(RefreshRefused, call.seen, call.age)
  BY <1>1, <1>2, <1>10, AnswerApplied DEF Keeps
<1>11. QED
  BY <1>5, <1>6, <1>7, <1>8, <1>9, <1>10 DEF FinishRefresh, Told, done

\* The authority that ends a hydration is applied, read up to, or lets it publish.
LEMMA HydrationFinishes ==
  ASSUME NEW W \in SUBSET StreamMarks, Fits(cache, W), NEW rebuild \in BOOLEAN,
         FinishHydration(rebuild)
  PROVE  Fits(cache', W) /\ Proceeds(cache, cache')
<1>. DEFINE h == cache.hydration
            e == cache.entry
            top == Larger(h.target, Larger(e.mark.id, h.seen.mark.id))
            changed == \/ h.seen.fp # e.fp
                       \/ h.seen.mark.id < h.target /\ ~Stale(cache, h)
<1>1. /\ cache \in Caches /\ e \in Entries /\ h \in Hydrations /\ h.phase = "answered"
      /\ e.mark \in [rev : Nat, id : Nat] /\ h.seen.mark \in [rev : Nat, id : Nat]
      /\ h.target \in Nat /\ h.after \in Nat /\ h.seen \in Authorities
  BY MarkFacts DEF FinishHydration, Fits, Hydrations
<1>2. /\ Exists(cache) /\ e.mark \in W /\ h.target <= e.mark.id /\ h.after <= e.mark.id
      /\ h.seen.mark.rev = e.mark.rev => h.seen # Gone
  <2>1. Exists(cache) /\ e.mark \in W /\ h.target <= e.mark.id /\ h.after <= e.mark.id
    BY <1>1 DEF Fits, HydrationOK, Exists, EntryOK
  <2>2. QED  BY <2>1, MarksAreWatermarks DEF Gone, NoWatermark
<1>3. Continues(cache, cache) /\ NoneResumed(cache, cache)
  BY <1>1, KeepsIsReflexive DEF Keeps
<1>4. CASE cache' = InvalidateDelete(cache)
  BY <1>4, KeepsInvalidateDelete, KeepsProceeds
<1>5. CASE cache' = GiveUp(cache)
  BY <1>5, KeepsGiveUp, KeepsProceeds
<1>6. CASE h.seen # Gone /\ cache' = ApplyAuthority(cache, h.seen, h.age)
  BY <1>1, <1>2, <1>3, <1>6, AnswerApplied
<1>7. CASE /\ h.seen # Gone /\ h.seen.mark.rev = e.mark.rev
           /\ cache' = AdvanceTarget([cache EXCEPT !.hydration = ReadUpTo(h, top)], top)
  <2>. DEFINE b == [cache EXCEPT !.hydration = ReadUpTo(h, top)]
              a == AdvanceTarget(cache, top)
  <2>1. h.seen.mark \in W /\ Seen(h.seen, W)
    BY <1>7 DEF Fits, CallsOK, Seen
  <2>2. /\ top = Larger(e.mark.id, h.seen.mark.id) /\ top \in Ids /\ top \in Nat
        /\ Larger(e.mark.id, top) = top
    <3>1. e.mark.id \in Ids /\ h.seen.mark.id \in Ids
      BY <1>1 DEF Entries, Authorities, Marks
    <3>2. QED  BY <1>1, <1>2, <3>1 DEF Larger
  <2>3. [rev |-> e.mark.rev, id |-> top] \in W
    BY <1>2, <1>7, <2>1, <2>2, AdvancedMark
  <2>4. /\ Fits(a, W) /\ Keeps(cache, a)
        /\ a.entry.pending = e.pending /\ a.entry.age = e.age
        /\ a.entry.snap = e.snap /\ a.entry.fp = e.fp
        /\ a.entry.mark = [rev |-> e.mark.rev, id |-> top]
        /\ a.readers = cache.readers
    BY <1>2, <2>2, <2>3, KeepsAdvance
  <2>5. /\ ReadUpTo(h, top) \in Hydrations
        /\ ReadUpTo(h, top).phase = "range" /\ ReadUpTo(h, top).target = top
        /\ ReadUpTo(h, top).after = h.after /\ ReadUpTo(h, top).base = h.base
        /\ ReadUpTo(h, top).seen = h.seen /\ ReadUpTo(h, top).age = h.age
    BY <1>1, <2>2 DEF ReadUpTo, Hydrations, HydrationPhases
  <2>. HIDE DEF top
  <2>6. /\ b \in Caches /\ b.entry = e /\ b.identity = cache.identity
        /\ b.refresh = cache.refresh /\ b.calibration = cache.calibration
        /\ b.hydration = ReadUpTo(h, top) /\ b.readers = cache.readers
    BY <1>1, <2>5 DEF Caches
  <2>. HIDE DEF b
  <2>18. cache' = AdvanceTarget(b, top)
    BY <1>7 DEF b
  <2>7. /\ cache' \in Caches
        /\ cache'.entry = [e EXCEPT !.mark = [rev |-> e.mark.rev, id |-> top]]
        /\ cache'.identity = cache.identity
        /\ SameCall(cache.refresh, cache'.refresh)
        /\ SameCall(cache.calibration, cache'.calibration)
        /\ \E k \in BOOLEAN : cache'.hydration = [ReadUpTo(h, top) EXCEPT !.advanced = k]
        /\ cache'.readers = cache.readers
    <3>. DEFINE d == AdvanceTarget(b, top)
    <3>1. /\ d \in Caches
          /\ d.entry = [b.entry EXCEPT !.mark = [rev |-> b.entry.mark.rev,
                                                id |-> Larger(b.entry.mark.id, top)]]
          /\ d.identity = b.identity
          /\ d.refresh.phase = b.refresh.phase /\ d.refresh.seen = b.refresh.seen
          /\ d.refresh.age = b.refresh.age
          /\ d.calibration.phase = b.calibration.phase
          /\ d.calibration.seen = b.calibration.seen
          /\ d.calibration.age = b.calibration.age
          /\ \E k \in BOOLEAN : d.hydration = [b.hydration EXCEPT !.advanced = k]
          /\ d.readers = b.readers
      BY <2>2, <2>6, AdvanceFacts
    <3>2. cache' = d
      BY <2>18
    <3>. HIDE DEF d
    <3>3. d.entry = [e EXCEPT !.mark = [rev |-> e.mark.rev, id |-> top]]
      BY <2>2, <2>6, <3>1
    <3>4. SameCall(cache.refresh, d.refresh) /\ SameCall(cache.calibration, d.calibration)
      BY <2>6, <3>1 DEF SameCall
    <3>5. QED  BY <2>6, <3>1, <3>2, <3>3, <3>4
  <2>8. /\ a.entry = cache'.entry /\ a.identity = cache.identity
        /\ SameCall(cache.refresh, a.refresh)
        /\ SameCall(cache.calibration, a.calibration)
        /\ \E k \in BOOLEAN : a.hydration = [h EXCEPT !.advanced = k]
    <3>1. /\ a.entry = [e EXCEPT !.mark = [rev |-> e.mark.rev, id |-> Larger(e.mark.id, top)]]
          /\ a.identity = cache.identity
          /\ a.refresh.phase = cache.refresh.phase /\ a.refresh.seen = cache.refresh.seen
          /\ a.refresh.age = cache.refresh.age
          /\ a.calibration.phase = cache.calibration.phase
          /\ a.calibration.seen = cache.calibration.seen
          /\ a.calibration.age = cache.calibration.age
          /\ \E k \in BOOLEAN : a.hydration = [h EXCEPT !.advanced = k]
      BY <1>1, <2>2, AdvanceFacts
    <3>. HIDE DEF a
    <3>2. QED  BY <2>2, <2>7, <3>1 DEF SameCall
  <2>. HIDE DEF a
  <2>9. /\ cache'.hydration.phase = "range" /\ cache'.hydration.target = top
        /\ cache'.hydration.after = h.after /\ cache'.hydration.base = h.base
        /\ cache'.hydration.seen = h.seen /\ cache'.hydration.age = h.age
    BY <2>5, <2>7 DEF Hydrations
  <2>10. a.hydration.phase = "answered" /\ a.hydration.age = h.age /\ a.hydration.base = h.base
    BY <1>1, <2>8 DEF Hydrations
  <2>11. cache'.entry.mark.id = top
    BY <2>4, <2>8
  <2>12. HydrationOK(cache'.hydration, cache'.entry)
    BY <2>2, <2>4, <2>8, <2>9, <2>10, <2>11 DEF Fits, HydrationOK
  <2>13. CallKept(a.hydration, cache'.hydration)
    BY <2>9, <2>10 DEF CallKept
  <2>14. Fits(cache', W) /\ Keeps(a, cache')
    BY <2>1, <2>4, <2>7, <2>8, <2>9, <2>10, <2>12, <2>13, Hydrates DEF SameCall
  <2>15. Keeps(cache, cache')
    BY <1>1, <2>4, <2>7, <2>14, KeepsIsTransitive DEF Fits
  <2>16. QED  BY <2>14, <2>15, KeepsProceeds
<1>8. CASE /\ h.seen # Gone /\ h.seen.mark.rev = e.mark.rev /\ ~changed /\ top <= h.after
           /\ cache' = [cache EXCEPT !.hydration.phase = "rebuild"]
  <2>1. /\ cache' \in Caches
        /\ cache'.entry = e /\ cache'.identity = cache.identity
        /\ cache'.refresh = cache.refresh /\ cache'.calibration = cache.calibration
        /\ cache'.hydration = [h EXCEPT !.phase = "rebuild"] /\ cache'.readers = cache.readers
    <3>1. [cache EXCEPT !.hydration.phase = "rebuild"] \in Caches
      BY <1>1 DEF Caches, Hydrations, HydrationPhases
    <3>2. QED  BY <1>1, <1>8, <3>1 DEF Caches
  <2>2. /\ cache'.hydration.phase = "rebuild" /\ cache'.hydration.target = h.target
        /\ cache'.hydration.after = h.after /\ cache'.hydration.base = h.base
        /\ cache'.hydration.seen = h.seen /\ cache'.hydration.age = h.age
    BY <1>1, <2>1 DEF Hydrations
  <2>3. h.seen.mark.id <= e.mark.id /\ h.seen.fp = e.fp
    BY <1>1, <1>2, <1>8 DEF Larger
  <2>4. HydrationOK(cache'.hydration, cache'.entry)
    BY <1>1, <1>8, <2>1, <2>2, <2>3 DEF Fits, HydrationOK
  <2>5. CallKept(h, cache'.hydration) /\ Seen(cache'.hydration.seen, W)
    BY <1>1, <2>2 DEF CallKept, Fits, CallsOK
  <2>6. Fits(cache', W) /\ Keeps(cache, cache')
    BY <1>1, <2>1, <2>2, <2>4, <2>5, Hydrates DEF SameCall
  <2>7. QED  BY <2>6, KeepsProceeds
<1>9. CASE /\ h.seen # Gone /\ h.seen.mark.rev = e.mark.rev /\ ~changed /\ top <= h.after
           /\ cache' = Publish(cache, IF h.base THEN e.snap.fp ELSE h.seen.fp)
  <2>1. h.seen.mark.id <= e.mark.id /\ h.seen.fp = e.fp
    BY <1>1, <1>2, <1>9 DEF Larger
  <2>2. (IF h.base THEN e.snap.fp ELSE h.seen.fp) = e.fp
    BY <2>1 DEF Fits, HydrationOK, EntryOK
  <2>3. QED  BY <1>1, <1>9, <2>1, <2>2, Published
<1>10. QED
  BY <1>2, <1>4, <1>5, <1>6, <1>7, <1>8, <1>9 DEF FinishHydration, Told

\* A snapshot built from all events is published, or tried again, if the target
\* moved.
LEMMA RebuildFinishes ==
  ASSUME NEW W \in SUBSET StreamMarks, Fits(cache, W), FinishRebuild
  PROVE  Fits(cache', W) /\ Proceeds(cache, cache')
<1>. DEFINE h == cache.hydration
            e == cache.entry
<1>1. h.phase = "rebuild" /\ cache \in Caches /\ h \in Hydrations
  BY MarkFacts DEF FinishRebuild, Fits
<1>2. /\ h.seen.mark.rev = e.mark.rev /\ h.seen.mark.id <= e.mark.id /\ h.seen.fp = e.fp
      /\ e.mark \in W
  BY <1>1 DEF Fits, HydrationOK, EntryOK
<1>3. h.seen # Gone
  BY <1>2, MarksAreWatermarks DEF Gone, NoWatermark
<1>4. CASE cache' = Publish(cache, h.seen.fp)
  BY <1>1, <1>2, <1>3, <1>4, Published
<1>5. CASE cache' = Attempt(cache, h.attempt + 1, h.reads)
  <2>1. h.attempt + 1 \in Nat \ {0} /\ h.reads \in 0 .. MaxPasses
    BY <1>1, ReadCacheAssumption DEF Hydrations
  <2>2. QED  BY <1>1, <1>5, <2>1, KeepsAttempt, KeepsProceeds
<1>6. QED  BY <1>4, <1>5 DEF FinishRebuild, Told

\* A range that was read is followed by the authority or by a new attempt.
LEMMA RangeFinishes ==
  ASSUME NEW W \in SUBSET StreamMarks, Fits(cache, W), FinishRange
  PROVE  Fits(cache', W) /\ Proceeds(cache, cache')
<1>. DEFINE h == cache.hydration
            e == cache.entry
            read == [h EXCEPT !.after = h.target]
            g == AskAuthority(read)
<1>1. h.phase = "range" /\ cache \in Caches /\ h \in Hydrations
  BY MarkFacts DEF FinishRange, Fits
<1>2. /\ read \in Hydrations /\ read.after = h.target /\ read.target = h.target
      /\ read.base = h.base /\ read.reads = h.reads /\ read.attempt = h.attempt
  BY <1>1 DEF Hydrations
<1>. HIDE DEF read
<1>3. CASE read.reads > 0 /\ cache' = [cache EXCEPT !.hydration = g]
  <2>1. read.reads - 1 \in 0 .. MaxPasses
    BY <1>2, <1>3, ReadCacheAssumption DEF Hydrations
  <2>2. /\ g \in Hydrations /\ g.phase = "asked" /\ g.seen = Gone /\ g.age = 0
        /\ g.base = h.base /\ g.target = h.target /\ g.after = h.target
    BY <1>2, <2>1, CacheConstants DEF AskAuthority, Hydrations, HydrationPhases
  <2>. HIDE DEF g
  <2>3. /\ cache' \in Caches
        /\ cache'.entry = e /\ cache'.identity = cache.identity
        /\ cache'.refresh = cache.refresh /\ cache'.calibration = cache.calibration
        /\ cache'.hydration = g /\ cache'.readers = cache.readers
    BY <1>1, <1>3, <2>2 DEF Caches
  <2>4. HydrationOK(cache'.hydration, cache'.entry)
    BY <1>1, <2>2, <2>3 DEF Fits, HydrationOK
  <2>5. CallKept(h, cache'.hydration) /\ Seen(cache'.hydration.seen, W)
    BY <2>2, <2>3 DEF CallKept, Seen
  <2>6. Fits(cache', W) /\ Keeps(cache, cache')
    BY <1>1, <2>2, <2>3, <2>4, <2>5, Hydrates DEF SameCall
  <2>7. QED  BY <2>6, KeepsProceeds
<1>4. CASE cache' = Attempt(cache, read.attempt + 1, 0)
  <2>1. read.attempt + 1 \in Nat \ {0} /\ 0 \in 0 .. MaxPasses
    BY <1>2, ReadCacheAssumption DEF Hydrations
  <2>2. QED  BY <1>1, <1>4, <2>1, KeepsAttempt, KeepsProceeds
<1>5. QED  BY <1>3, <1>4 DEF FinishRange, Told, read

\* The answer to a calibration is applied to the entry as it is now, or dropped.
LEMMA Calibrates ==
  ASSUME NEW W \in SUBSET StreamMarks, Fits(cache, W), Calibrate
  PROVE  Fits(cache', W) /\ Proceeds(cache, cache')
<1>. DEFINE call == cache.calibration
            done == [cache EXCEPT !.calibration = NoCall]
<1>1. call.phase = "answered" /\ Exists(cache) /\ cache \in Caches
  BY DEF Calibrate, Fits, CallsOK
<1>2. /\ Fits(done, W) /\ Keeps(cache, done)
      /\ done.entry = cache.entry /\ done.tombstoned = cache.tombstoned
  BY KeepsCalibration
<1>3. done \in Caches
  BY <1>2 DEF Fits
<1>. HIDE DEF done
<1>4. CASE cache' = done
  BY <1>2, <1>4, KeepsProceeds
<1>5. CASE cache' = InvalidateDelete(done)
  <2>1. Fits(cache', W) /\ Keeps(done, cache')
    BY <1>2, <1>5, KeepsInvalidateDelete
  <2>2. Keeps(cache, cache')
    BY <1>1, <1>2, <1>3, <2>1, KeepsIsTransitive DEF Fits
  <2>3. QED  BY <2>1, <2>2, KeepsProceeds
<1>6. CASE call.seen # Gone /\ cache' = ApplyAuthority(done, call.seen, call.age)
  BY <1>1, <1>2, <1>6, AnswerApplied DEF Keeps
<1>7. QED  BY <1>4, <1>5, <1>6 DEF Calibrate, Told, done

\* A query of the hydration fails, or that of one that was detached.
LEMMA HydrationFails ==
  ASSUME NEW W \in SUBSET StreamMarks, Fits(cache, W), FailHydration \/ FailDetached
  PROVE  Fits(cache', W) /\ Proceeds(cache, cache')
<1>. DEFINE f == FailClosed(cache)
<1>1. /\ cache \in Caches /\ f \in Caches /\ f.entry \in Entries
      /\ Fits(f, W) /\ Keeps(cache, f)
      /\ cache.detached \in BOOLEAN /\ cache.tombstoned \in BOOLEAN
  BY KeepsFailClosed DEF Fits, Caches
<1>. HIDE DEF f
<1>2. PICK k \in BOOLEAN, b \in BOOLEAN :
        cache' = [f EXCEPT !.entry.cooldown = k, !.detached = b]
  <2>1. CASE FailHydration
    <3>1. cache' = [f EXCEPT !.entry.cooldown = TRUE, !.detached = cache.detached]
      BY <2>1 DEF FailHydration, Told, f
    <3>2. QED  BY <1>1, <3>1
  <2>2. CASE FailDetached
    <3>1. cache' = [f EXCEPT !.entry.cooldown = ~cache.tombstoned]
      BY <2>2 DEF FailDetached, Told, f
    <3>2. cache' = [f EXCEPT !.entry.cooldown = ~cache.tombstoned, !.detached = f.detached]
          /\ f.detached \in BOOLEAN
      BY <1>1, <3>1 DEF Caches
    <3>3. QED  BY <1>1, <3>2
  <2>3. QED  BY <2>1, <2>2
<1>3. /\ cache'.entry = [f.entry EXCEPT !.cooldown = k]
      /\ cache'.identity = f.identity /\ cache'.refresh = f.refresh
      /\ cache'.calibration = f.calibration
      /\ cache'.hydration = f.hydration /\ cache'.readers = f.readers
  BY <1>1, <1>2 DEF Caches
<1>4. cache' \in Caches
  BY <1>1, <1>2 DEF Caches, Entries
<1>5. Fits(cache', W) /\ Keeps(f, cache')
  BY <1>1, <1>3, <1>4, FlagsAlone
<1>6. Keeps(cache, cache')
  BY <1>1, <1>4, <1>5, KeepsIsTransitive
<1>7. QED  BY <1>5, <1>6, KeepsProceeds

\* The first authority could not be had.
LEMMA IdentityFails ==
  ASSUME NEW W \in SUBSET StreamMarks, Fits(cache, W), FailIdentity
  PROVE  Fits(cache', W) /\ Proceeds(cache, cache')
<1>1. /\ Fits(IdentityRefused, W) /\ Keeps(cache, IdentityRefused)
      /\ IdentityRefused.entry = cache.entry
  BY KeepsIdentityRefused DEF IdentityRefused
<1>2. cache \in Caches /\ IdentityRefused \in Caches /\ Proceeds(cache, IdentityRefused)
  BY <1>1, KeepsProceeds DEF Fits
<1>3. cache' = [IdentityRefused EXCEPT !.entry.cooldown =
                  IdentityRefused.entry.cooldown \/ cache.identity.current]
  BY DEF FailIdentity, Told
<1>4. (IdentityRefused.entry.cooldown \/ cache.identity.current) \in BOOLEAN
  OBVIOUS
<1>5. QED  BY <1>1, <1>2, <1>3, <1>4, ProceedsCooldown

\* A refresh failed.
LEMMA RefreshFails ==
  ASSUME NEW W \in SUBSET StreamMarks, Fits(cache, W), FailRefresh
  PROVE  Fits(cache', W) /\ Proceeds(cache, cache')
<1>1. /\ Fits(RefreshRefused, W) /\ Keeps(cache, RefreshRefused)
  BY KeepsRefreshRefused DEF RefreshRefused
<1>2. cache \in Caches /\ RefreshRefused \in Caches /\ Proceeds(cache, RefreshRefused)
  BY <1>1, KeepsProceeds DEF Fits
<1>3. cache' = [RefreshRefused EXCEPT !.entry.cooldown =
                  RefreshRefused.entry.cooldown \/ cache.refresh.current]
  BY DEF FailRefresh, Told
<1>4. (RefreshRefused.entry.cooldown \/ cache.refresh.current) \in BOOLEAN
  OBVIOUS
<1>5. QED  BY <1>1, <1>2, <1>3, <1>4, ProceedsCooldown

\* Whatever the cache does by itself proceeds and leaves it fit.
LEMMA HandledSteps ==
  ASSUME NEW W \in SUBSET StreamMarks, Fits(cache, W), Handled
  PROVE  Fits(cache', W) /\ Proceeds(cache, cache')
<1>0. cache \in Caches
  BY DEF Fits
<1>1. CASE CooldownOver
  <2>1. Proceeds(cache, cache)
    BY <1>0, KeepsIsReflexive, KeepsProceeds
  <2>2. QED  BY <1>0, <1>1, <2>1, ProceedsCooldown DEF CooldownOver, Told
<1>2. CASE Evict
  BY <1>2, KeepsEvict, KeepsProceeds DEF Evict, Told
<1>3. CASE Mismatch
  BY <1>3, KeepsFailClosed, KeepsProceeds DEF Mismatch, Told
<1>4. CASE HearDelete
  BY <1>4, KeepsInvalidateDelete, KeepsProceeds DEF HearDelete, Told
<1>5. CASE \E fp \in Visibilities : HearVisibility(fp)
  BY <1>5, KeepsInvalidateMetadata, KeepsProceeds DEF HearVisibility, Told
<1>6. CASE FailIdentity \/ FailRefresh \/ FinishRefresh
  BY <1>6, IdentityFails, RefreshFails, RefreshFinishes
<1>7. CASE StartHydration
  <2>1. 1 \in Nat \ {0} /\ MaxPasses \in 0 .. MaxPasses
    BY ReadCacheAssumption
  <2>2. cache.hydration.phase # "none" /\ cache' = Attempt(cache, 1, MaxPasses)
    BY <1>7 DEF StartHydration, Told
  <2>3. QED  BY <2>1, <2>2, KeepsAttempt, KeepsProceeds
<1>8. CASE RefuseHydration
  <2>1. /\ cache.readers \in [Readers -> Callers]
        /\ Refused(cache.readers, {"hydration"}) \in [Readers -> Callers]
    BY <1>0, MarkFacts, RefusedFacts
  <2>2. /\ cache' \in Caches
        /\ cache'.entry = cache.entry /\ cache'.identity = cache.identity
        /\ cache'.refresh = cache.refresh /\ cache'.calibration = cache.calibration
        /\ cache'.hydration = NoHydration
        /\ cache'.readers = Refused(cache.readers, {"hydration"})
    BY <1>0, <1>8, <2>1, CacheConstants DEF RefuseHydration, Told, Caches
  <2>3. QED  BY <2>2, HydrationGone, KeepsProceeds
<1>9. CASE FailHydration \/ FailDetached
  BY <1>9, HydrationFails
<1>10. CASE FinishRange \/ FinishRebuild \/ \E b \in BOOLEAN : FinishHydration(b)
  BY <1>10, RangeFinishes, RebuildFinishes, HydrationFinishes
<1>11. CASE DetachedOver
  <2>1. /\ cache' \in Caches
        /\ cache'.entry = cache.entry /\ cache'.identity = cache.identity
        /\ cache'.refresh = cache.refresh /\ cache'.calibration = cache.calibration
        /\ cache'.hydration = cache.hydration /\ cache'.readers = cache.readers
    BY <1>0, <1>11 DEF DetachedOver, Told, Caches
  <2>2. QED  BY <2>1, FlagsAlone, KeepsProceeds
<1>12. CASE \E b \in BOOLEAN : ShortOfMemory(b)
  BY <1>12, KeepsGiveUp, KeepsProceeds DEF ShortOfMemory, Told
<1>13. CASE BeginCalibration
  BY <1>13, KeepsCalibration, KeepsProceeds DEF BeginCalibration, Told
<1>14. CASE Calibrate
  BY <1>14, Calibrates
<1>15. CASE FailCalibration
  BY <1>15, KeepsCalibration, KeepsProceeds DEF FailCalibration, Told
<1>16. QED
  BY <1>1, <1>2, <1>3, <1>4, <1>5, <1>6, <1>7, <1>8, <1>9, <1>10, <1>11, <1>12, <1>13,
     <1>14, <1>15 DEF Handled

----------------------------------------------------------------------------
(* The steps of a caller. *)

\* What a caller that gets no page does, or one that gets it.
LEMMA PerformFacts ==
  ASSUME NEW c, NEW W, Fits(c, W), Exists(c), NEW r \in Readers, NEW req \in Marks,
         NEW step, step.n \in Nat, step.what = "refresh" => step.n \in 1 .. EagerPoint,
         Perform(c, r, req, step)
  PROVE  /\ Fits(cache', W) /\ Keeps(c, cache') /\ cache'.entry = c.entry
         /\ IF step.what = "page"
            THEN answer'.mark = c.entry.snap.mark /\ answer'.fp = c.entry.snap.fp
            ELSE answer'.kind # "page"
<1>1. /\ Fits(cache', W) /\ Keeps(c, cache') /\ cache'.entry = c.entry
  <2>1. CASE step.what = "refresh"
    <3>1. cache' = Wait(c, r, "refresh", step.n, req)
      BY <2>1 DEF Perform
    <3>2. /\ Fits(Wait(c, r, "refresh", step.n, req), W)
          /\ Keeps(c, Wait(c, r, "refresh", step.n, req))
          /\ Wait(c, r, "refresh", step.n, req).entry = c.entry
      BY <2>1, Waits
    <3>3. QED  BY <3>1, <3>2
  <2>2. CASE step.what = "hydrate"
    <3>1. cache' = Wait(c, r, "hydration", step.n, req)
      BY <2>2 DEF Perform
    <3>2. /\ Fits(Wait(c, r, "hydration", step.n, req), W)
          /\ Keeps(c, Wait(c, r, "hydration", step.n, req))
          /\ Wait(c, r, "hydration", step.n, req).entry = c.entry
      BY Waits
    <3>3. QED  BY <3>1, <3>2
  <2>3. CASE step.what \notin {"refresh", "hydrate"}
    BY <2>3, Quits DEF Perform
  <2>4. QED  BY <2>1, <2>2, <2>3
<1>2. step.what = "page" =>
        answer' = [kind |-> "page", req |-> req, mark |-> c.entry.snap.mark,
                   fp |-> c.entry.snap.fp]
  BY DEF Perform
<1>3. step.what # "page" => answer'.kind # "page"
  BY DEF Perform, NoAnswer
<1>4. QED  BY <1>1, <1>2, <1>3

\* A GET stops at the first point that holds it up; it comes to a page from where it is
\* only if there is none.
LEMMA FromFacts ==
  ASSUME NEW c \in Caches, NEW req, NEW first \in Nat \ {0}
  PROVE  LET step == From(c, req, first) IN
         /\ step.n \in Nat /\ (step.what = "refresh" => step.n \in 1 .. EagerPoint)
         /\ step.what = "page" => /\ SnapshotReady(c.entry)
                                  /\ first = 1 => /\ c.entry.pending = NoWatermark
                                                  /\ c.entry.age <= Lease
<1>. DEFINE stops == Stops(c, req, first)
            point == CHOOSE p \in stops : \A other \in stops : p <= other
            step == From(c, req, first)
<1>1. \A k : Do(k, 0).n = 0 /\ Do(k, 0).what = k
  BY DEF Do
<1>2. CASE stops = {}
  <2>1. step = Materialize(c, 1)
    BY <1>2 DEF From
  <2>2. /\ step.n \in Nat /\ step.what # "refresh"
        /\ step.what = "page" => SnapshotReady(c.entry)
    BY <2>1 DEF Materialize, Do
  <2>3. ASSUME first = 1
        PROVE  c.entry.pending = NoWatermark /\ c.entry.age <= Lease
    <3>1. 1 \in first .. 5 /\ 2 \in first .. 5
      BY <2>3
    <3>2. ~Wanted(c.entry, req, 1) /\ ~Wanted(c.entry, req, 2)
      BY <1>2, <3>1 DEF Stops
    <3>3. c.entry.age \in Nat
      BY ReadCacheAssumption DEF Caches, Entries, Ages, Expired
    <3>4. QED  BY <3>2, <3>3, ReadCacheAssumption DEF Wanted
  <2>4. QED  BY <2>2, <2>3
<1>3. CASE stops # {}
  <2>1. stops \subseteq Nat
    BY DEF Stops
  <2>2. \E p \in stops : \A other \in stops : p <= other
    <3>1. PICK q \in stops : TRUE
      BY <1>3
    <3>2. stops \subseteq 1 .. 5
      BY DEF Stops
    <3>3. QED
      <4>1. CASE 1 \in stops
        BY <3>2, <4>1
      <4>2. CASE 1 \notin stops /\ 2 \in stops
        BY <3>2, <4>2
      <4>3. CASE 1 \notin stops /\ 2 \notin stops /\ 3 \in stops
        BY <3>2, <4>3
      <4>4. CASE 1 \notin stops /\ 2 \notin stops /\ 3 \notin stops /\ 4 \in stops
        BY <3>2, <4>4
      <4>5. CASE 1 \notin stops /\ 2 \notin stops /\ 3 \notin stops /\ 4 \notin stops
        BY <3>1, <3>2, <4>5
      <4>6. QED  BY <4>1, <4>2, <4>3, <4>4, <4>5
  <2>3. point \in stops
    BY <2>2
  <2>4. point \in Nat /\ (~Wanted(c.entry, req, point) => point < 4)
    BY <2>1, <2>3 DEF Stops
  <2>5. step = IF Wanted(c.entry, req, point) THEN Do("refresh", point)
               ELSE Do(Verdict(c, req, point), 0)
    BY <1>3 DEF From
  <2>6. point \in {1, 2, 3, 4, 5}
    BY <2>3 DEF Stops
  <2>. HIDE DEF point
  <2>7. ASSUME ~Wanted(c.entry, req, point)
        PROVE  Verdict(c, req, point) \notin {"page", "refresh"}
    BY <2>6 DEF Verdict
  <2>8. QED
    BY <2>4, <2>5, <2>6, <2>7 DEF Do, EagerPoint
<1>4. QED  BY <1>2, <1>3

\* A caller comes to a page only with a snapshot of all that the entry has, and with
\* nothing pending and an authority that holds, unless it was just told that it does.
LEMMA ResumptionFacts ==
  ASSUME NEW c, NEW W, Fits(c, W), NEW r \in Readers, c.readers[r].resumed
  PROVE  LET step == Resumption(c, c.readers[r]) IN
         /\ step.n \in Nat /\ (step.what = "refresh" => step.n \in 1 .. EagerPoint)
         /\ step.what = "page" =>
              /\ SnapshotReady(c.entry)
              /\ \/ c.entry.pending = NoWatermark /\ c.entry.age <= Lease
                 \/ c.entry.pending = NoWatermark /\ c.readers[r].await = "hydration"
                 \/ c.readers[r].await = "refresh" /\ c.readers[r].n # EagerPoint
<1>. DEFINE n == c.readers[r].n
            req == c.readers[r].req
            step == Resumption(c, c.readers[r])
<1>1. /\ c \in Caches /\ c.readers[r] \in Callers /\ n \in Nat
      /\ n + 1 \in Nat \ {0} /\ 1 \in Nat \ {0} /\ n # n + 1
  BY MarkFacts DEF Fits, Callers
<1>2. CASE c.readers[r].await = "identity"
  <2>1. step = From(c, req, 1)
    BY <1>2 DEF Resumption
  <2>2. QED  BY <1>1, <2>1, FromFacts
<1>3. CASE c.readers[r].await = "refresh" /\ n = EagerPoint
  <2>1. \/ step = Do("done", 0) \/ step = Fill(c)
    BY <1>3 DEF Resumption
  <2>2. QED  BY <2>1 DEF Fill, Do
<1>4. CASE c.readers[r].await = "refresh" /\ n # EagerPoint
  <2>1. \/ step = Do(Verdict(c, req, n), 0) /\ Verdict(c, req, n) # "go"
        \/ step = From(c, req, n + 1)
    BY <1>4 DEF Resumption
  <2>2. CASE step = Do(Verdict(c, req, n), 0)
    <3>1. n \in {1, 2, 3, 4, 5}
      BY <1>1, <1>4 DEF Callers, EagerPoint
    <3>2. Verdict(c, req, n) \notin {"page", "refresh"}
      BY <3>1 DEF Verdict
    <3>3. QED  BY <2>2, <3>2 DEF Do
  <2>3. CASE step = From(c, req, n + 1)
    BY <1>1, <1>4, <2>3, FromFacts
  <2>4. QED  BY <2>1, <2>2, <2>3
<1>5. CASE c.readers[r].await = "hydration"
  <2>1. \/ step = Do("refuse", 0)
        \/ step = Materialize(c, n + 1) /\ ~Unusable(c)
    BY <1>5 DEF Resumption
  <2>2. QED  BY <1>1, <1>5, <2>1 DEF Materialize, Do, Unusable
<1>6. c.readers[r].await \in {"identity", "refresh", "hydration"}
  BY <1>1, CacheConstants DEF Callers, Awaits
<1>7. QED  BY <1>2, <1>3, <1>4, <1>5, <1>6

\* A caller that goes on disturbs nothing, and gets a page only by the points it
\* passed.
LEMMA Resumes ==
  ASSUME NEW W \in SUBSET StreamMarks, Fits(cache, W), NEW r \in Readers, Resume(r)
  PROVE  /\ Fits(cache', W) /\ Keeps(cache, cache') /\ cache'.entry = cache.entry
         /\ answer'.kind = "page" =>
              /\ SnapshotReady(cache.entry)
              /\ \/ cache.entry.pending = NoWatermark /\ cache.entry.age <= Lease
                 \/ cache.entry.pending = NoWatermark /\ cache.readers[r].await = "hydration"
                 \/ cache.readers[r].await = "refresh" /\ cache.readers[r].n # EagerPoint
              /\ answer'.mark = cache.entry.snap.mark /\ answer'.fp = cache.entry.snap.fp
<1>. DEFINE step == Resumption(cache, cache.readers[r])
            req == cache.readers[r].req
<1>1. /\ cache.readers[r].resumed /\ Exists(cache) /\ req \in Marks
      /\ Perform(cache, r, req, step)
  <2>1. cache.readers[r] \in Callers
    BY MarkFacts DEF Fits
  <2>2. QED  BY <2>1 DEF Resume, Fits, WaitingOK, Callers
<1>2. /\ step.n \in Nat /\ (step.what = "refresh" => step.n \in 1 .. EagerPoint)
      /\ step.what = "page" =>
           /\ SnapshotReady(cache.entry)
           /\ \/ cache.entry.pending = NoWatermark /\ cache.entry.age <= Lease
              \/ cache.entry.pending = NoWatermark /\ cache.readers[r].await = "hydration"
              \/ cache.readers[r].await = "refresh" /\ cache.readers[r].n # EagerPoint
  BY <1>1, ResumptionFacts
<1>. HIDE DEF step
<1>3. /\ Fits(cache', W) /\ Keeps(cache, cache') /\ cache'.entry = cache.entry
      /\ IF step.what = "page"
         THEN answer'.mark = cache.entry.snap.mark /\ answer'.fp = cache.entry.snap.fp
         ELSE answer'.kind # "page"
  BY <1>1, <1>2, PerformFacts
<1>4. QED  BY <1>2, <1>3

\* A new GET does neither, and passes all points on its way to a page.
LEMMA Gets ==
  ASSUME NEW W \in SUBSET StreamMarks, Fits(cache, W), NEW r \in Readers, NEW req \in W,
         Get(r, req)
  PROVE  /\ Fits(cache', W) /\ Keeps(cache, cache') /\ cache'.entry = cache.entry
         /\ answer'.kind = "page" =>
              /\ SnapshotReady(cache.entry)
              /\ cache.entry.pending = NoWatermark /\ cache.entry.age <= Lease
              /\ answer'.mark = cache.entry.snap.mark /\ answer'.fp = cache.entry.snap.fp
<1>1. req \in Marks /\ cache \in Caches /\ cache.readers \in [Readers -> Callers]
  BY MarksAreWatermarks, MarkFacts DEF Fits
<1>2. CASE Exists(cache)
  <2>. DEFINE step == From(cache, req, 1)
  <2>1. Perform(cache, r, req, step)
    BY <1>2 DEF Get
  <2>2. /\ step.n \in Nat /\ (step.what = "refresh" => step.n \in 1 .. EagerPoint)
        /\ step.what = "page" => /\ SnapshotReady(cache.entry)
                                 /\ cache.entry.pending = NoWatermark
                                 /\ cache.entry.age <= Lease
    <3>1. 1 \in Nat \ {0}
      OBVIOUS
    <3>2. QED  BY <1>1, <3>1, FromFacts
  <2>. HIDE DEF step
  <2>3. /\ Fits(cache', W) /\ Keeps(cache, cache') /\ cache'.entry = cache.entry
        /\ IF step.what = "page"
           THEN answer'.mark = cache.entry.snap.mark /\ answer'.fp = cache.entry.snap.fp
           ELSE answer'.kind # "page"
    BY <1>1, <1>2, <2>1, <2>2, PerformFacts
  <2>4. QED  BY <2>2, <2>3
<1>3. CASE ~Exists(cache)
  <2>. DEFINE caller == [Idle EXCEPT !.await = "identity", !.req = req]
              call == IF cache.identity.phase = "none" THEN Ask(1) ELSE cache.identity
  <2>1. /\ Ask(1) \in CallRecords /\ Ask(1).phase = "asked"
        /\ Ask(1).seen = Gone /\ Ask(1).age = 0
    BY AskFacts, ReadCacheAssumption
  <2>2. call \in CallRecords /\ call.phase # "none" /\ Ends(cache.identity, call)
    BY <1>1, <2>1 DEF Caches, Ends, SameCall
  <2>3. caller \in Callers /\ caller.await = "identity" /\ caller.resumed = FALSE
    BY <1>1 DEF Callers, Awaits, Idle
  <2>. HIDE DEF call, caller
  <2>4. cache' = [cache EXCEPT !.identity = call, !.readers[r] = caller] /\ answer' = NoAnswer
    BY <1>3 DEF Get, call, caller
  <2>5. /\ cache' \in Caches
        /\ cache'.entry = cache.entry /\ cache'.identity = call
        /\ cache'.refresh = cache.refresh /\ cache'.calibration = cache.calibration
        /\ cache'.hydration = cache.hydration
        /\ cache'.readers = [cache.readers EXCEPT ![r] = caller]
    BY <1>1, <2>2, <2>3, <2>4 DEF Caches
  <2>6. \A s \in Readers : \/ s # r /\ cache'.readers[s] = cache.readers[s]
                           \/ s = r /\ cache'.readers[s] = caller
    BY <1>1, <2>5
  <2>7. WaitingOK(cache') /\ NoneResumed(cache, cache')
    BY <2>2, <2>3, <2>5, <2>6 DEF Fits, WaitingOK, NoneResumed, Exists, Ends, SameCall
  <2>8. /\ Ends(cache.identity, cache'.identity) /\ Ends(cache.refresh, cache'.refresh)
        /\ Ends(cache.calibration, cache'.calibration)
    BY <2>2, <2>5 DEF Ends, SameCall
  <2>9. /\ cache'.identity.phase # "none" => ~Exists(cache)
        /\ cache'.refresh.phase # "none" \/ cache'.calibration.phase # "none" => Exists(cache)
    BY <1>3, <2>5 DEF Fits, CallsOK
  <2>10. Fits(cache', W) /\ Keeps(cache, cache')
    BY <2>5, <2>7, <2>8, <2>9, CallsAlone
  <2>11. answer'.kind # "page"
    BY <2>4 DEF NoAnswer
  <2>12. QED  BY <2>5, <2>10, <2>11
<1>4. QED  BY <1>2, <1>3

\* An eager fill covers the watermark that it was made for.
LEMMA FillsEagerly ==
  ASSUME NEW W \in SUBSET StreamMarks, Fits(cache, W), NEW r \in Readers, NEW w \in W,
         EagerFill(r, w)
  PROVE  /\ Fits(cache', W) /\ Keeps(cache, cache') /\ Covers(cache'.entry, w)
         /\ answer'.kind # "page"
<1>. DEFINE told == IF w.rev > cache.entry.mark.rev THEN Pend(cache, w) ELSE cache
            next == AdvanceTarget(told, w.id)
<1>1. /\ Exists(cache) /\ cache \in Caches /\ w \in Marks /\ w \in [rev : Nat, id : Nat]
      /\ cache.entry.mark \in [rev : Nat, id : Nat]
      /\ cache.entry.pending \in [rev : Nat, id : Nat]
      /\ w.rev >= cache.entry.mark.rev
  BY MarksAreWatermarks, MarkFacts DEF Fits, EagerFill, Live
<1>2. /\ Fits(told, W) /\ Keeps(cache, told)
      /\ told.entry.pending # NoWatermark => Covers(told.entry, w)
      /\ told.entry.pending = NoWatermark => told = cache /\ w.rev = cache.entry.mark.rev
  <2>1. CASE w.rev > cache.entry.mark.rev
    <3>1. Fits(Pend(cache, w), W) /\ Keeps(cache, Pend(cache, w))
          /\ ~Newer(w, Pend(cache, w).entry.pending)
          /\ Pend(cache, w).entry.pending # NoWatermark
      BY <1>1, <2>1, KeepsPend
    <3>2. QED  BY <2>1, <3>1 DEF Covers
  <2>2. CASE ~(w.rev > cache.entry.mark.rev)
    <3>1. Keeps(cache, cache) /\ w.rev = cache.entry.mark.rev
      BY <1>1, <2>2, KeepsIsReflexive
    <3>2. cache.entry.pending # NoWatermark => ~Newer(w, cache.entry.pending)
      BY <1>1, <3>1 DEF Fits, EntryOK, Newer
    <3>3. QED  BY <2>2, <3>1, <3>2 DEF Covers
  <2>3. QED  BY <2>1, <2>2
<1>3. told \in Caches /\ Exists(told)
  BY <1>1, <1>2 DEF Fits, Keeps, Continues
<1>4. CASE told.entry.pending # NoWatermark
  <2>. DEFINE step == Do("refresh", EagerPoint)
  <2>1. Perform(told, r, w, step) /\ step.n \in Nat /\ step.n \in 1 .. EagerPoint
        /\ step.what = "refresh"
    BY <1>4 DEF EagerFill, Do, EagerPoint
  <2>. HIDE DEF told, step
  <2>2. /\ Fits(cache', W) /\ Keeps(told, cache') /\ cache'.entry = told.entry
        /\ answer'.kind # "page"
    <3>1. /\ Fits(cache', W) /\ Keeps(told, cache') /\ cache'.entry = told.entry
          /\ IF step.what = "page"
             THEN answer'.mark = told.entry.snap.mark /\ answer'.fp = told.entry.snap.fp
             ELSE answer'.kind # "page"
      BY <1>1, <1>2, <1>3, <2>1, PerformFacts
    <3>2. QED  BY <2>1, <3>1
  <2>3. Keeps(cache, cache')
    BY <1>1, <1>2, <1>3, <2>2, KeepsIsTransitive DEF Fits
  <2>4. QED  BY <1>2, <1>4, <2>2, <2>3 DEF Covers
<1>5. CASE told.entry.pending = NoWatermark
  <2>. DEFINE step == Fill(next)
  <2>0. told = cache /\ w.rev = cache.entry.mark.rev
    BY <1>2, <1>5
  <2>1. Perform(next, r, w, step) /\ step.n \in Nat /\ step.what \notin {"refresh", "page"}
    BY <1>5 DEF EagerFill, Fill, Do
  <2>2. /\ Fits(next, W) /\ Keeps(cache, next)
        /\ next.entry.mark = [rev |-> cache.entry.mark.rev,
                              id |-> Larger(cache.entry.mark.id, w.id)]
    BY <1>1, <2>0, AdvancedMark, KeepsAdvance
  <2>3. Larger(cache.entry.mark.id, w.id) \in Nat /\ Larger(cache.entry.mark.id, w.id) >= w.id
    BY <1>1, <2>0, AdvancedMark
  <2>. HIDE DEF next, step
  <2>4. Covers(next.entry, w)
    BY <1>1, <2>0, <2>2, <2>3 DEF Covers, Newer
  <2>5. next \in Caches /\ Exists(next)
    BY <1>1, <2>2 DEF Fits, Keeps, Continues
  <2>6. /\ Fits(cache', W) /\ Keeps(next, cache') /\ cache'.entry = next.entry
        /\ answer'.kind # "page"
    <3>1. /\ Fits(cache', W) /\ Keeps(next, cache') /\ cache'.entry = next.entry
          /\ IF step.what = "page"
             THEN answer'.mark = next.entry.snap.mark /\ answer'.fp = next.entry.snap.fp
             ELSE answer'.kind # "page"
      BY <1>1, <2>1, <2>2, <2>5, PerformFacts
    <3>2. QED  BY <2>1, <3>1
  <2>7. Keeps(cache, cache')
    BY <1>1, <2>2, <2>5, <2>6, KeepsIsTransitive DEF Fits
  <2>8. QED  BY <2>4, <2>6, <2>7
<1>6. QED  BY <1>4, <1>5

----------------------------------------------------------------------------
(* The steps of the database, of time and of its answers. *)

\* The steps, by what has to be shown of them.
LEMMA NextSteps ==
  ASSUME Next
  PROVE  \/ \E r \in Readers : Resume(r)
         \/ /\ Quiet
            /\ \/ Handled \/ Commits \/ Tick \/ Replies \/ FinishIdentity
               \/ \E w \in Committed : HearWatermark(w)
               \/ \E w \in Committed, first \in Ids \ {0},
                     outcome \in {"extended", "dropped", "deferred"} :
                    HearAppend(w, first, outcome)
               \/ \E r \in Readers, w \in Committed : Get(r, w)
               \/ \E r \in Readers, w \in Committed : EagerFill(r, w)
BY DEF Next, Environment, Calls, Handled, Commits, Replies

\* What is committed, and the answer that an authority query gives now.
LEMMA DatabaseFacts ==
  ASSUME DbOK
  PROVE  /\ Committed \in SUBSET StreamMarks
         /\ Authority \in Authorities /\ Seen(Authority, Committed)
         /\ Authority # Gone => Authority.fp = db.fp
         /\ (Authority = Gone) <=> db.deleted
         /\ ~db.deleted => \A w \in Committed : ~Newer(w, Authority.mark)
<1>1. Committed \in SUBSET StreamMarks
  BY ReadCacheAssumption DEF DbOK, Committed, StreamMarks, Revisions
<1>2. CASE db.deleted
  <2>1. Authority = Gone
    BY <1>2 DEF Authority
  <2>2. QED  BY <1>1, <1>2, <2>1, CacheConstants DEF Seen
<1>3. CASE ~db.deleted
  <2>. DEFINE top == [rev |-> db.rev, id |-> db.last[db.rev]]
  <2>1. Authority = [mark |-> top, fp |-> db.fp]
    BY <1>3 DEF Authority
  <2>2. /\ db.rev \in Nat \ {0} /\ db.rev <= MaxRevision /\ db.last[db.rev] \in Ids
        /\ db.fp \in Visibilities /\ db.last[db.rev] \in Nat
    BY ReadCacheAssumption DEF DbOK, Revisions, Ids
  <2>3. top \in Committed /\ top \in Marks
    BY <2>2, ReadCacheAssumption DEF Committed, Marks
  <2>4. db.fp \in 0 .. MaxVisibility /\ db.fp # 0
    BY <2>2, ReadCacheAssumption DEF Visibilities
  <2>5. Authority # Gone
    BY <2>1, <2>4 DEF Gone
  <2>6. \A w \in Committed : ~Newer(w, top)
    <3>1. SUFFICES ASSUME NEW w \in Committed
                   PROVE  ~Newer(w, top)
      OBVIOUS
    <3>2. w.rev \in 1 .. db.rev /\ w.id \in Nat /\ w.id <= db.last[w.rev]
      BY ReadCacheAssumption DEF Committed, Ids
    <3>3. QED  BY <2>2, <3>2 DEF Newer
  <2>7. QED
    BY <1>1, <1>3, <2>1, <2>2, <2>3, <2>4, <2>5, <2>6 DEF Authorities, Seen
<1>4. QED  BY <1>2, <1>3

\* What is committed stays so, whatever the database does.
LEMMA DatabaseGrows ==
  ASSUME DbOK, Commits
  PROVE  /\ DbOK' /\ Committed \subseteq Committed'
         /\ db.fp <= db'.fp /\ (db.deleted => db'.deleted)
         /\ UNCHANGED <<cache, past, heard>> /\ answer'.kind # "page"
<1>0. /\ db.rev \in Revisions /\ db.last \in [Revisions -> Ids]
      /\ db.rev \in Nat /\ db.fp \in Nat /\ db.last[db.rev] \in Nat
      /\ \A r \in Revisions : db.last[r] \in Nat
      /\ \A r \in 1 .. db.rev : r \in Revisions
  BY ReadCacheAssumption DEF DbOK, Revisions, Visibilities, Ids
<1>1. UNCHANGED <<cache, past, heard>> /\ answer'.kind # "page"
  BY DEF Commits, Append, Reset, ChangeVisibility, Delete, Commit, NoAnswer
<1>2. CASE Append
  <2>1. db' = [db EXCEPT !.last = [db.last EXCEPT ![db.rev] = db.last[db.rev] + 1]]
    BY <1>2 DEF Append, Commit, DbOK
  <2>2. [db.last EXCEPT ![db.rev] = db.last[db.rev] + 1] \in [Revisions -> Ids]
    BY <1>0, <1>2, ReadCacheAssumption DEF Append, Ids
  <2>3. /\ DbOK' /\ db'.rev = db.rev /\ db'.fp = db.fp /\ db'.deleted = db.deleted
        /\ db'.last = [db.last EXCEPT ![db.rev] = db.last[db.rev] + 1]
    BY <2>1, <2>2 DEF DbOK
  <2>4. \A r \in 1 .. db.rev : db.last[r] <= db'.last[r] /\ db'.last[r] \in Nat
    BY <1>0, <2>3
  <2>5. Committed \subseteq Committed'
    <3>1. SUFFICES ASSUME NEW w \in Committed
                   PROVE  w \in Committed'
      OBVIOUS
    <3>2. w \in [rev : 1 .. db.rev, id : Ids] /\ w.id \in Nat /\ w.id <= db.last[w.rev]
      BY ReadCacheAssumption DEF Committed, Ids
    <3>3. w.id <= db'.last[w.rev]
      BY <1>0, <2>4, <3>2
    <3>4. QED  BY <2>3, <3>2, <3>3 DEF Committed
  <2>6. QED  BY <1>0, <1>1, <2>3, <2>5
<1>3. CASE Reset
  <2>1. db' = [db EXCEPT !.rev = db.rev + 1] /\ db.rev < MaxRevision
    BY <1>3 DEF Reset, Commit
  <2>2. db.rev + 1 \in Revisions
    BY <1>0, <2>1, ReadCacheAssumption DEF Revisions
  <2>3. /\ DbOK' /\ db'.rev = db.rev + 1 /\ db'.fp = db.fp /\ db'.deleted = db.deleted
        /\ db'.last = db.last
    BY <2>1, <2>2 DEF DbOK
  <2>4. Committed \subseteq Committed'
    BY <1>0, <2>3 DEF Committed
  <2>5. QED  BY <1>0, <1>1, <2>3, <2>4
<1>4. CASE ChangeVisibility
  <2>1. db' = [db EXCEPT !.fp = db.fp + 1] /\ db.fp < MaxVisibility
    BY <1>4 DEF ChangeVisibility, Commit
  <2>2. db.fp + 1 \in Visibilities
    BY <2>1, ReadCacheAssumption DEF Visibilities, DbOK
  <2>3. /\ DbOK' /\ db'.rev = db.rev /\ db'.fp = db.fp + 1 /\ db'.deleted = db.deleted
        /\ db'.last = db.last
    BY <2>1, <2>2 DEF DbOK
  <2>4. Committed = Committed'
    BY <2>3 DEF Committed
  <2>5. QED  BY <1>0, <1>1, <2>3, <2>4
<1>5. CASE Delete
  <2>1. db' = [db EXCEPT !.deleted = TRUE]
    BY <1>5 DEF Delete, Commit
  <2>2. /\ DbOK' /\ db'.rev = db.rev /\ db'.fp = db.fp /\ db'.deleted
        /\ db'.last = db.last
    BY <2>1 DEF DbOK
  <2>3. Committed = Committed'
    BY <2>2 DEF Committed
  <2>4. QED  BY <1>0, <1>1, <2>2, <2>3
<1>6. QED  BY <1>2, <1>3, <1>4, <1>5 DEF Commits

\* What fits goes on to fit when more is committed.
LEMMA FitsGrows ==
  ASSUME NEW c, NEW W, NEW V, Fits(c, W), W \subseteq V
  PROVE  Fits(c, V)
BY DEF Fits, EntryOK, CallsOK, Seen

\* A query that comes back has seen what is committed by now.
LEMMA Replying ==
  ASSUME DbOK, Fits(cache, Committed), Replies
  PROVE  /\ Fits(cache', Committed)
         /\ cache'.entry = cache.entry /\ cache'.readers = cache.readers
         /\ Replied(cache.identity, cache'.identity)
         /\ Replied(cache.refresh, cache'.refresh)
         /\ Replied(cache.calibration, cache'.calibration)
         /\ Replied(cache.hydration, cache'.hydration)
         /\ UNCHANGED <<db, past, heard>> /\ answer'.kind # "page"
<1>1. cache \in Caches /\ Authority \in Authorities /\ Seen(Authority, Committed)
  BY DatabaseFacts DEF Fits
<1>2. /\ cache.identity \in CallRecords /\ cache.refresh \in CallRecords
      /\ cache.calibration \in CallRecords /\ cache.hydration \in Hydrations
  BY <1>1 DEF Caches
<1>3. UNCHANGED <<db, past, heard>> /\ answer'.kind # "page"
  BY DEF Replies, AnswerIdentity, AnswerRefresh, AnswerHydration, AnswerCalibration, Told,
         NoAnswer
<1>4. \A k \in CallRecords : k.phase = "asked" =>
        Answered(k) \in CallRecords /\ Replied(k, Answered(k))
  BY <1>1 DEF Answered, CallRecords, CallPhases, Replied
<1>5. \A k \in Hydrations : k.phase = "asked" =>
        /\ Answered(k) \in Hydrations /\ Replied(k, Answered(k))
        /\ Answered(k).base = k.base /\ Answered(k).target = k.target
        /\ Answered(k).after = k.after /\ Answered(k).phase = "answered"
  BY <1>1 DEF Answered, Hydrations, HydrationPhases, Replied
<1>6. /\ cache' \in Caches
      /\ cache'.entry = cache.entry /\ cache'.readers = cache.readers
      /\ Replied(cache.identity, cache'.identity)
      /\ Replied(cache.refresh, cache'.refresh)
      /\ Replied(cache.calibration, cache'.calibration)
      /\ \/ cache'.hydration = cache.hydration
         \/ cache.hydration.phase = "asked" /\ cache'.hydration = Answered(cache.hydration)
  <2>1. CASE AnswerIdentity
    <3>1. /\ cache' = [cache EXCEPT !.identity = Answered(cache.identity)]
          /\ cache.identity.phase = "asked"
      BY <2>1 DEF AnswerIdentity, Told
    <3>2. QED  BY <1>1, <1>2, <1>4, <3>1 DEF Caches, Replied, SameCall
  <2>2. CASE AnswerRefresh
    <3>1. /\ cache' = [cache EXCEPT !.refresh = Answered(cache.refresh)]
          /\ cache.refresh.phase = "asked"
      BY <2>2 DEF AnswerRefresh, Told
    <3>2. QED  BY <1>1, <1>2, <1>4, <3>1 DEF Caches, Replied, SameCall
  <2>3. CASE AnswerCalibration
    <3>1. /\ cache' = [cache EXCEPT !.calibration = Answered(cache.calibration)]
          /\ cache.calibration.phase = "asked"
      BY <2>3 DEF AnswerCalibration, Told
    <3>2. QED  BY <1>1, <1>2, <1>4, <3>1 DEF Caches, Replied, SameCall
  <2>4. CASE AnswerHydration
    <3>1. /\ cache' = [cache EXCEPT !.hydration = Answered(cache.hydration)]
          /\ cache.hydration.phase = "asked"
      BY <2>4 DEF AnswerHydration, Told
    <3>2. QED  BY <1>1, <1>2, <1>5, <3>1 DEF Caches, Replied, SameCall
  <2>5. QED  BY <2>1, <2>2, <2>3, <2>4 DEF Replies
<1>7. Replied(cache.hydration, cache'.hydration)
  BY <1>2, <1>5, <1>6 DEF Replied, SameCall
<1>8. EntryOK(cache'.entry, Committed)
  BY <1>6 DEF Fits
<1>9. CallsOK(cache', Committed)
  BY <1>1, <1>6, <1>7 DEF Fits, CallsOK, Replied, SameCall, Exists
<1>10. HydrationOK(cache'.hydration, cache'.entry)
  BY <1>2, <1>5, <1>6 DEF Fits, HydrationOK
<1>11. WaitingOK(cache')
  BY <1>6, <1>7 DEF Fits, WaitingOK, Replied, SameCall, Exists
<1>12. QED  BY <1>3, <1>6, <1>7, <1>8, <1>9, <1>10, <1>11 DEF Fits

\* The first authority makes the entry, when nothing has been heard of it.
LEMMA IdentityLoads ==
  ASSUME NEW W \in SUBSET StreamMarks, Fits(cache, W), FinishIdentity
  PROVE  /\ Fits(cache', W)
         /\ \/ Keeps(cache, cache')
            \/ /\ cache.identity.phase = "answered" /\ cache.identity.seen # Gone
               /\ ~Exists(cache) /\ Exists(cache')
               /\ cache'.entry.mark = cache.identity.seen.mark
               /\ cache'.entry.fp = cache.identity.seen.fp
               /\ cache'.entry.age = cache.identity.age
               /\ cache'.entry.pending = NoWatermark
               /\ cache'.identity = NoCall /\ cache'.refresh = cache.refresh
               /\ cache'.calibration = cache.calibration
               /\ cache'.hydration = cache.hydration
               /\ \A r \in Readers : \/ cache'.readers[r] = cache.readers[r]
                                     \/ cache'.readers[r].await = "identity"
<1>. DEFINE call == cache.identity
<1>1. /\ call.phase = "answered" /\ cache \in Caches /\ ~Exists(cache)
      /\ call \in CallRecords /\ cache.readers \in [Readers -> Callers]
      /\ cache.hydration \in Hydrations
      /\ cache.hydration.target \in Nat /\ cache.hydration.after \in Nat
  BY MarkFacts DEF FinishIdentity, Fits, CallsOK, Caches
<1>2. CASE cache' = IdentityRefused
  BY <1>2, KeepsIdentityRefused DEF IdentityRefused
<1>3. CASE /\ call.seen # Gone
           /\ cache' = [cache EXCEPT
                !.identity = NoCall,
                !.entry = [NoEntry EXCEPT !.mark = call.seen.mark, !.fp = call.seen.fp,
                                          !.age = call.age],
                !.readers = Woken(@, {"identity"})]
  <2>. DEFINE entry == [NoEntry EXCEPT !.mark = call.seen.mark, !.fp = call.seen.fp,
                                       !.age = call.age]
  <2>1. /\ call.seen.mark \in W /\ call.seen.mark # NoWatermark
        /\ call.seen.mark \in Marks /\ call.seen.mark.id \in Nat
    BY <1>3, MarksAreWatermarks DEF Fits, CallsOK, Seen
  <2>2. /\ entry \in Entries
        /\ entry.mark = call.seen.mark /\ entry.fp = call.seen.fp /\ entry.age = call.age
        /\ entry.pending = NoWatermark /\ entry.snap = NoSnapshot
    BY <1>1, <2>1, CacheConstants DEF NoEntry, Entries, CallRecords, Authorities
  <2>. HIDE DEF entry
  <2>3. Woken(cache.readers, {"identity"}) \in [Readers -> Callers]
    BY <1>1, WokenFacts
  <2>4. /\ cache' \in Caches
        /\ cache'.entry = entry /\ cache'.identity = NoCall
        /\ cache'.refresh = cache.refresh /\ cache'.calibration = cache.calibration
        /\ cache'.hydration = cache.hydration
        /\ cache'.readers = Woken(cache.readers, {"identity"})
    <3>1. cache' = [cache EXCEPT !.identity = NoCall, !.entry = entry,
                                 !.readers = Woken(cache.readers, {"identity"})]
      BY <1>3 DEF entry
    <3>2. QED  BY <1>1, <2>2, <2>3, <3>1, CacheConstants DEF Caches
  <2>5. \A r \in Readers :
          \/ cache'.readers[r] = cache.readers[r] /\ cache.readers[r].await \notin {"identity"}
          \/ cache'.readers[r].await = "identity" /\ cache'.readers[r].resumed
    BY <1>1, <2>4, WokenFacts
  <2>6. Exists(cache')
    BY <2>1, <2>2, <2>4 DEF Exists
  <2>7. EntryOK(cache'.entry, W)
    BY <2>1, <2>2, <2>4 DEF EntryOK
  <2>8. CallsOK(cache', W)
    BY <1>1, <2>4, <2>6, CacheConstants DEF Fits, CallsOK, Seen
  <2>9. HydrationOK(cache'.hydration, cache'.entry)
    <3>1. cache.entry.mark.id = 0 /\ cache.hydration.phase = "none"
      BY <1>1 DEF Exists, NoWatermark, Fits, HydrationOK
    <3>2. cache.hydration.target <= cache'.entry.mark.id
          /\ cache.hydration.after <= cache'.entry.mark.id
      BY <1>1, <2>1, <2>2, <2>4, <3>1 DEF Fits, HydrationOK
    <3>3. QED  BY <2>4, <3>1, <3>2 DEF Fits, HydrationOK
  <2>10. WaitingOK(cache')
    BY <2>4, <2>5, <2>6 DEF Fits, WaitingOK
  <2>11. QED  BY <1>1, <1>3, <2>2, <2>4, <2>5, <2>6, <2>7, <2>8, <2>9, <2>10 DEF Fits
<1>4. QED  BY <1>2, <1>3 DEF FinishIdentity, Told

\* Time passes for the calls and the authority, and for nothing else.
LEMMA Ticking ==
  ASSUME NEW W, Fits(cache, W), Tick
  PROVE  /\ Fits(cache', W)
         /\ cache'.entry.mark = cache.entry.mark /\ cache'.entry.fp = cache.entry.fp
         /\ cache'.entry.pending = cache.entry.pending
         /\ cache'.entry.age = IF Exists(cache) /\ cache.entry.age < Expired
                               THEN cache.entry.age + 1 ELSE cache.entry.age
         /\ cache'.identity = Older(cache.identity)
         /\ cache'.refresh = Older(cache.refresh)
         /\ cache'.calibration = Older(cache.calibration)
         /\ cache'.hydration = Older(cache.hydration)
         /\ cache'.readers = cache.readers
         /\ UNCHANGED <<db, heard>> /\ answer'.kind # "page"
<1>. DEFINE age == IF Exists(cache) /\ cache.entry.age < Expired
                   THEN cache.entry.age + 1 ELSE cache.entry.age
<1>1. /\ cache \in Caches /\ cache.entry \in Entries
      /\ cache.identity \in CallRecords /\ cache.refresh \in CallRecords
      /\ cache.calibration \in CallRecords /\ cache.hydration \in Hydrations
  BY DEF Fits, Caches
<1>2. age \in Ages
  BY <1>1, ReadCacheAssumption DEF Entries, Ages, Expired
<1>3. \A k \in CallRecords :
        /\ Older(k) \in CallRecords
        /\ Older(k).phase = k.phase /\ Older(k).seen = k.seen
  BY ReadCacheAssumption DEF Older, CallRecords, Ages, Expired
<1>4. \A k \in Hydrations :
        /\ Older(k) \in Hydrations
        /\ Older(k).phase = k.phase /\ Older(k).seen = k.seen /\ Older(k).base = k.base
        /\ Older(k).target = k.target /\ Older(k).after = k.after
        /\ k.phase = "none" => Older(k).age = k.age
  BY ReadCacheAssumption DEF Older, Hydrations, Ages, Expired
<1>. HIDE DEF age
<1>5. cache' = [cache EXCEPT !.identity = Older(cache.identity),
                  !.refresh = Older(cache.refresh), !.hydration = Older(cache.hydration),
                  !.calibration = Older(cache.calibration), !.entry.age = age]
      /\ UNCHANGED <<db, heard>> /\ answer'.kind # "page"
  BY DEF Tick, age, NoAnswer
<1>6. cache'.entry = [cache.entry EXCEPT !.age = age]
      /\ cache'.identity = Older(cache.identity) /\ cache'.refresh = Older(cache.refresh)
      /\ cache'.calibration = Older(cache.calibration)
      /\ cache'.hydration = Older(cache.hydration) /\ cache'.readers = cache.readers
  BY <1>1, <1>5 DEF Caches
<1>7. cache' \in Caches
  BY <1>1, <1>2, <1>3, <1>4, <1>5 DEF Caches, Entries
<1>8. /\ cache'.entry.mark = cache.entry.mark /\ cache'.entry.fp = cache.entry.fp
      /\ cache'.entry.pending = cache.entry.pending /\ cache'.entry.snap = cache.entry.snap
      /\ cache'.entry.age = age
  BY <1>1, <1>6 DEF Entries
<1>9. EntryOK(cache'.entry, W) /\ (Exists(cache') <=> Exists(cache))
  BY <1>8 DEF Fits, EntryOK, Exists
<1>10. CallsOK(cache', W)
  BY <1>1, <1>3, <1>4, <1>6, <1>9 DEF Fits, CallsOK
<1>11. HydrationOK(cache'.hydration, cache'.entry)
  BY <1>1, <1>4, <1>6, <1>8 DEF Fits, HydrationOK
<1>12. WaitingOK(cache')
  BY <1>1, <1>3, <1>4, <1>6, <1>9 DEF Fits, WaitingOK
<1>13. QED  BY <1>5, <1>6, <1>7, <1>8, <1>9, <1>10, <1>11, <1>12 DEF Fits, age

----------------------------------------------------------------------------
(* What a step leaves of what was heard and of the lease. *)

\* What the entry was told before a step is still covered after it.
LEMMA HeardKept ==
  ASSUME NEW c \in Caches, NEW d \in Caches, NEW w, HeardOK(c, w), Proceeds(c, d),
         (\A r \in Readers : ~c.readers[r].resumed) \/ (Keeps(c, d) /\ d.entry = c.entry)
  PROVE  HeardOK(d, w)
<1>1. /\ w \in Marks /\ (~Exists(d) => w = NoWatermark) /\ Covers(d.entry, w)
  BY DEF HeardOK, Proceeds, Continues
<1>2. ASSUME NEW r \in Readers, d.readers[r].resumed, d.readers[r].await = "refresh",
             d.readers[r].n # EagerPoint
      PROVE  d.entry.pending = NoWatermark
  <2>1. CASE NoneResumed(c, d)
    BY <1>2, <2>1 DEF NoneResumed, HeardOK
  <2>2. CASE ~NoneResumed(c, d)
    BY <2>2 DEF Proceeds, Keeps
  <2>3. QED  BY <2>1, <2>2
<1>3. QED  BY <1>1, <1>2 DEF HeardOK

\* The entry covers what it was just told and what it had been told before.
LEMMA HeardMore ==
  ASSUME NEW c \in Caches, NEW d \in Caches, NEW w, NEW v \in Marks,
         HeardOK(c, w), Keeps(c, d), Exists(c), \A r \in Readers : ~c.readers[r].resumed,
         Covers(d.entry, v)
  PROVE  HeardOK(d, Latest(w, v))
<1>1. HeardOK(d, w) /\ Exists(d)
  BY HeardKept, KeepsProceeds DEF Keeps, Continues
<1>2. w \in [rev : Nat, id : Nat] /\ v \in [rev : Nat, id : Nat] /\ w \in Marks
  BY ReadCacheAssumption DEF HeardOK, Marks, Ids
<1>3. Latest(w, v) \in {w, v}
  BY <1>2, LatestFacts
<1>4. QED  BY <1>1, <1>2, <1>3 DEF HeardOK

\* The watermark order is transitive.
LEMMA NotNewerIsTransitive ==
  ASSUME NEW u \in [rev : Nat, id : Nat], NEW v \in [rev : Nat, id : Nat],
         NEW w \in [rev : Nat, id : Nat], ~Newer(u, v), ~Newer(v, w)
  PROVE  ~Newer(u, w)
BY DEF Newer

\* What covers includes, when it is of a later mark and freeze boundary.
LEMMA IncludesMore ==
  ASSUME NEW p \in [0 .. Lease -> Authorities], NEW a \in Authorities, NEW b \in Entries,
         NEW age, Includes(p, a, age), ~Newer(a.mark, b.mark), a.fp <= b.fp
  PROVE  Includes(p, b, age)
<1>1. SUFFICES ASSUME NEW t \in 0 .. Lease, t >= age
               PROVE  ~Newer(p[t].mark, b.mark) /\ p[t].fp <= b.fp
  BY DEF Includes
<1>2. /\ p[t].mark \in [rev : Nat, id : Nat] /\ a.mark \in [rev : Nat, id : Nat]
      /\ b.mark \in [rev : Nat, id : Nat]
      /\ p[t].fp \in Nat /\ a.fp \in Nat /\ b.fp \in Nat
  <2>1. \A seen \in Authorities : seen.mark \in Marks /\ seen.fp \in Nat
    BY ReadCacheAssumption DEF Authorities
  <2>2. b.mark \in Marks /\ b.fp \in Nat
    BY ReadCacheAssumption DEF Entries
  <2>3. Marks \subseteq [rev : Nat, id : Nat]
    BY ReadCacheAssumption DEF Marks, Ids
  <2>4. p[t] \in Authorities
    BY <1>1
  <2>. HIDE DEF Authorities, Entries, Marks
  <2>5. QED  BY <2>1, <2>2, <2>3, <2>4
<1>3. ~Newer(p[t].mark, a.mark) /\ p[t].fp <= a.fp
  BY <1>1 DEF Includes
<1>4. QED  BY <1>2, <1>3, NotNewerIsTransitive

\* The authority of the entry, and that of calls under way, stays within its time.
LEMMA LeaseKept ==
  ASSUME NEW c \in Caches, NEW d \in Caches, NEW p \in [0 .. Lease -> Authorities],
         LeaseOK(c, p), Proceeds(c, d),
         (\A r \in Readers : ~c.readers[r].resumed) \/ (Keeps(c, d) /\ d.entry = c.entry)
  PROVE  LeaseOK(d, p)
<1>0. /\ c.entry \in Entries /\ d.entry \in Entries
      /\ c.identity \in CallRecords /\ c.refresh \in CallRecords
      /\ c.calibration \in CallRecords /\ c.hydration \in Hydrations
      /\ Deadline <= Lease /\ Deadline \in Nat /\ Lease \in Nat
  BY ReadCacheAssumption DEF Caches
<1>1. CallsInTime(d, p)
  <2>1. /\ CallKept(c.identity, d.identity) /\ CallKept(c.refresh, d.refresh)
        /\ CallKept(c.calibration, d.calibration) /\ CallKept(c.hydration, d.hydration)
    BY DEF Proceeds, Continues
  <2>2. CallsInTime(c, p)
    BY DEF LeaseOK
  <2>3. QED  BY <1>0, <2>1, <2>2 DEF CallsInTime, CallKept
<1>2. ASSUME Answers(c, d)
      PROVE  Includes(p, d.entry, d.entry.age) /\ d.entry.age <= Lease
  <2>1. PICK call \in {c.refresh, c.calibration, c.hydration} :
          /\ call.phase \in {"answered", "rebuild"} /\ call.seen # Gone
          /\ d.entry.age = call.age
          /\ ~Newer(call.seen.mark, d.entry.mark) /\ call.seen.fp <= d.entry.fp
    BY <1>2 DEF Answers
  <2>2. /\ Includes(p, call.seen, call.age) /\ call.age <= Deadline
    BY <2>1 DEF LeaseOK, CallsInTime
  <2>3. call.seen \in Authorities /\ call.age \in Nat
    BY <1>0, <2>1, ReadCacheAssumption DEF CallRecords, Hydrations, Ages, Expired
  <2>4. QED  BY <1>0, <2>1, <2>2, <2>3, IncludesMore
<1>3. ASSUME Exists(d)
      PROVE  Includes(p, d.entry, d.entry.age)
  <2>1. CASE AgeKept(c.entry, d.entry)
    <3>1. Exists(c) /\ ~Newer(c.entry.mark, d.entry.mark)
      BY <1>3 DEF Proceeds, Continues
    <3>2. Includes(p, c.entry, c.entry.age)
      BY <3>1 DEF LeaseOK
    <3>3. CASE d.entry.age = Expired
      BY <1>0, <3>3 DEF Includes, Expired
    <3>4. CASE d.entry.age = c.entry.age /\ d.entry.fp = c.entry.fp
      <4>1. [mark |-> c.entry.mark, fp |-> c.entry.fp] \in Authorities
            /\ c.entry.fp \in Nat
        BY <1>0, ReadCacheAssumption DEF Entries, Authorities
      <4>2. Includes(p, [mark |-> c.entry.mark, fp |-> c.entry.fp], d.entry.age)
        BY <3>2, <3>4 DEF Includes
      <4>3. QED  BY <1>0, <3>1, <3>4, <4>1, <4>2, IncludesMore
    <3>5. QED  BY <2>1, <3>3, <3>4 DEF AgeKept
  <2>2. CASE Answers(c, d)
    BY <1>2, <2>2
  <2>3. QED  BY <2>1, <2>2 DEF Proceeds
<1>4. ASSUME NEW r \in Readers, d.readers[r].resumed,
             d.readers[r].await \in {"refresh", "hydration"}
      PROVE  d.entry.age <= Lease
  <2>1. CASE NoneResumed(c, d)
    BY <1>4, <2>1 DEF NoneResumed, LeaseOK
  <2>2. CASE ~NoneResumed(c, d)
    BY <1>2, <2>2 DEF Proceeds, Keeps
  <2>3. QED  BY <2>1, <2>2
<1>5. QED  BY <1>1, <1>3, <1>4 DEF LeaseOK

\* What was committed when the recent ticks began still is.
LEMMA PastKept ==
  ASSUME DbOK, PastOK, past' = past, Committed \subseteq Committed',
         db.fp <= db'.fp, DbOK', db.deleted => db'.deleted
  PROVE  PastOK'
<1>1. /\ db.fp \in Nat /\ db'.fp \in Nat
      /\ \A t \in 0 .. Lease : past[t].fp \in Nat
  BY ReadCacheAssumption DEF DbOK, PastOK, Authorities, Visibilities
<1>2. QED  BY <1>1 DEF PastOK

\* A tick adds what is committed now to the recent past.
LEMMA PastMoves ==
  ASSUME DbOK, PastOK, Tick
  PROVE  PastOK'
<1>1. /\ Authority \in Authorities /\ Seen(Authority, Committed)
      /\ Authority # Gone => Authority.fp = db.fp
      /\ (Authority = Gone) => db.deleted
      /\ Gone.mark = NoWatermark /\ Gone.fp = 0
  BY DatabaseFacts DEF Gone
<1>2. /\ past' = [t \in 0 .. Lease |-> IF t = 0 THEN Authority ELSE past[t - 1]]
      /\ db' = db /\ Committed' = Committed
  BY DEF Tick, Committed
<1>3. \A t \in 0 .. Lease : t # 0 => t - 1 \in 0 .. Lease
  BY ReadCacheAssumption
<1>4. /\ Authority.mark \in {NoWatermark} \cup Committed /\ Authority.fp <= db.fp
  BY <1>1, ReadCacheAssumption DEF Seen, DbOK, Visibilities
<1>5. QED  BY <1>1, <1>2, <1>3, <1>4 DEF PastOK

----------------------------------------------------------------------------
(* The theorems. *)

\* An empty cache fits.
LEMMA FitsAtFirst ==
  ASSUME Init
  PROVE  FitsInv
<1>1. DbOK /\ ~db.deleted
  BY ReadCacheAssumption DEF Init, DbOK, Revisions, Ids, Visibilities
<1>2. PastOK
  <2>1. /\ Authority \in Authorities /\ Seen(Authority, Committed) /\ Authority # Gone
        /\ Authority.fp = db.fp /\ db.fp \in Nat
    BY <1>1, DatabaseFacts DEF Init
  <2>2. past = [t \in 0 .. Lease |-> Authority]
    BY DEF Init
  <2>3. QED  BY <2>1, <2>2 DEF PastOK, Seen
<1>3. /\ cache.entry = NoEntry /\ cache.identity = NoCall /\ cache.refresh = NoCall
      /\ cache.hydration = NoHydration /\ cache.calibration = NoCall
      /\ cache.readers = [r \in Readers |-> Idle]
  BY DEF Init
<1>4. cache \in Caches
  <2>1. NoEntry \in Entries
    BY CacheConstants, ReadCacheAssumption DEF NoEntry, Entries
  <2>2. QED  BY <2>1, CacheConstants DEF Init, Caches
<1>5. NoEntry.mark = NoWatermark /\ NoEntry.snap = NoSnapshot /\ NoEntry.pending = NoWatermark
      /\ NoEntry.mark.id = 0
  BY DEF NoEntry, NoWatermark
<1>6. Fits(cache, Committed)
  BY <1>3, <1>4, <1>5, CacheConstants
     DEF Fits, EntryOK, CallsOK, Seen, HydrationOK, WaitingOK, Exists
<1>7. QED  BY <1>1, <1>2, <1>6 DEF FitsInv

\* Every step of a caller, of the database or of the cache keeps what fits together.
LEMMA FitsStep ==
  ASSUME FitsInv, [Next]_vars
  PROVE  FitsInv' /\ ~Newer(cache.entry.mark, cache'.entry.mark)
<1>1. /\ DbOK /\ PastOK /\ Fits(cache, Committed) /\ Committed \in SUBSET StreamMarks
      /\ cache \in Caches /\ cache.entry.mark \in [rev : Nat, id : Nat]
  BY DatabaseFacts, MarkFacts DEF FitsInv, Fits
<1>2. ASSUME UNCHANGED <<db, past>>, Fits(cache', Committed), Continues(cache, cache')
      PROVE  FitsInv' /\ ~Newer(cache.entry.mark, cache'.entry.mark)
  <2>1. Committed' = Committed
    BY <1>2 DEF Committed
  <2>2. QED  BY <1>1, <1>2, <2>1 DEF FitsInv, DbOK, PastOK, Continues
<1>3. CASE UNCHANGED vars
  <2>1. Keeps(cache, cache')
    BY <1>1, <1>3, KeepsIsReflexive DEF vars
  <2>2. QED  BY <1>1, <1>2, <1>3, <2>1 DEF vars, Keeps
<1>4. CASE \E r \in Readers : Resume(r)
  <2>1. PICK r \in Readers : Resume(r)
    BY <1>4
  <2>2. Fits(cache', Committed) /\ Keeps(cache, cache')
    BY <1>1, <2>1, Resumes
  <2>3. UNCHANGED <<db, past>>
    BY <2>1 DEF Resume
  <2>4. QED  BY <1>2, <2>2, <2>3 DEF Keeps
<1>5. CASE Handled
  <2>1. UNCHANGED <<db, past>>
    BY <1>5 DEF Handled, CooldownOver, Evict, Mismatch, HearDelete, HearVisibility,
         FailIdentity, FailRefresh, FinishRefresh, StartHydration, RefuseHydration,
         FailHydration, FinishRange, FinishRebuild, FailDetached, DetachedOver,
         FinishHydration, ShortOfMemory, BeginCalibration, Calibrate, FailCalibration, Told
  <2>2. Fits(cache', Committed) /\ Proceeds(cache, cache')
    BY <1>1, <1>5, HandledSteps
  <2>3. QED  BY <1>2, <2>1, <2>2 DEF Proceeds
<1>6. CASE Commits
  <2>1. /\ DbOK' /\ Committed \subseteq Committed'
        /\ db.fp <= db'.fp /\ (db.deleted => db'.deleted)
        /\ UNCHANGED <<cache, past>>
    BY <1>1, <1>6, DatabaseGrows
  <2>2. PastOK'
    BY <1>1, <2>1, PastKept
  <2>3. Fits(cache, Committed')
    BY <1>1, <2>1, FitsGrows
  <2>4. Fits(cache', Committed')
    BY <2>1, <2>3
  <2>5. ~Newer(cache.entry.mark, cache'.entry.mark)
    BY <1>1, <2>1 DEF Newer
  <2>6. QED  BY <2>1, <2>2, <2>4, <2>5 DEF FitsInv
<1>7. CASE Tick
  <2>1. /\ Fits(cache', Committed) /\ db' = db
        /\ cache'.entry.mark = cache.entry.mark
    BY <1>1, <1>7, Ticking
  <2>2. PastOK' /\ Committed' = Committed /\ DbOK'
    BY <1>1, <1>7, <2>1, PastMoves DEF Committed, DbOK
  <2>3. ~Newer(cache.entry.mark, cache'.entry.mark)
    BY <1>1, <2>1 DEF Newer
  <2>4. QED  BY <2>1, <2>2, <2>3 DEF FitsInv
<1>8. CASE Replies
  <2>1. /\ Fits(cache', Committed) /\ cache'.entry = cache.entry /\ UNCHANGED <<db, past>>
    BY <1>1, <1>8, Replying
  <2>2. Committed' = Committed /\ DbOK' /\ PastOK'
    BY <1>1, <2>1 DEF Committed, DbOK, PastOK
  <2>3. ~Newer(cache.entry.mark, cache'.entry.mark)
    BY <1>1, <2>1 DEF Newer
  <2>4. QED  BY <2>1, <2>2, <2>3 DEF FitsInv
<1>9. CASE FinishIdentity
  <2>1. UNCHANGED <<db, past>>
    BY <1>9 DEF FinishIdentity, Told
  <2>2. Committed' = Committed /\ DbOK' /\ PastOK'
    BY <1>1, <2>1 DEF Committed, DbOK, PastOK
  <2>3. Fits(cache', Committed) /\ (Keeps(cache, cache') \/ ~Exists(cache))
    BY <1>1, <1>9, IdentityLoads
  <2>4. ~Newer(cache.entry.mark, cache'.entry.mark)
    <3>1. cache'.entry.mark \in [rev : Nat, id : Nat]
      BY <2>3, MarkFacts DEF Fits
    <3>2. CASE ~Exists(cache)
      BY <3>1, <3>2 DEF Exists, Newer, NoWatermark
    <3>3. QED  BY <2>3, <3>2 DEF Keeps, Continues
  <2>5. QED  BY <2>2, <2>3, <2>4 DEF FitsInv
<1>10. CASE \E w \in Committed : HearWatermark(w)
  <2>1. PICK w \in Committed : HearWatermark(w)
    BY <1>10
  <2>2. Exists(cache) /\ cache' = ObserveWatermark(cache, w) /\ UNCHANGED <<db, past>>
    BY <2>1 DEF HearWatermark, Live
  <2>3. QED  BY <1>1, <1>2, <2>2, KeepsObserveWatermark DEF Keeps
<1>11. CASE \E w \in Committed, first \in Ids \ {0},
               outcome \in {"extended", "dropped", "deferred"} : HearAppend(w, first, outcome)
  <2>1. PICK w \in Committed, first \in Ids \ {0},
               outcome \in {"extended", "dropped", "deferred"} : HearAppend(w, first, outcome)
    BY <1>11
  <2>2. /\ Exists(cache) /\ cache' = ObserveAppend(cache, w, first, outcome)
        /\ UNCHANGED <<db, past>>
    BY <2>1 DEF HearAppend, Live
  <2>3. QED  BY <1>1, <1>2, <2>2, KeepsObserveAppend DEF Keeps
<1>12. CASE \E r \in Readers, w \in Committed : Get(r, w) \/ EagerFill(r, w)
  <2>1. PICK r \in Readers, w \in Committed : Get(r, w) \/ EagerFill(r, w)
    BY <1>12
  <2>2. UNCHANGED <<db, past>>
    BY <2>1 DEF Get, EagerFill
  <2>3. Fits(cache', Committed) /\ Keeps(cache, cache')
    BY <1>1, <2>1, Gets, FillsEagerly
  <2>4. QED  BY <1>2, <2>2, <2>3 DEF Keeps
<1>13. QED
  BY <1>3, <1>4, <1>5, <1>6, <1>7, <1>8, <1>9, <1>10, <1>11, <1>12, NextSteps

\* The inductive invariant: entry, snapshot, calls under way and waiting callers of
\* the read cache fit each other, for every number of callers and every bound.
THEOREM CacheIsFit == Spec => []FitsInv
<1>1. Init => FitsInv
  BY FitsAtFirst
<1>2. FitsInv /\ [Next]_vars => FitsInv'
  BY FitsStep
<1>3. QED  BY <1>1, <1>2, PTL DEF Spec

\* However appends, resets, refreshes and hydrations overlap, the snapshot is of
\* the entry's revision and freeze boundary, not ahead of its target, and the
\* target is not ahead of the database.
THEOREM SnapshotFits == Spec => []SnapshotFitsEntry
<1>1. FitsInv => SnapshotFitsEntry
  <2>1. SUFFICES ASSUME FitsInv
                 PROVE  SnapshotFitsEntry
    OBVIOUS
  <2>2. /\ cache \in Caches /\ DbOK /\ PastOK /\ EntryOK(cache.entry, Committed)
    BY <2>1 DEF FitsInv, Fits
  <2>3. \A k \in Callers :
          k \in [await : {"none", "identity", "refresh", "hydration"}, n : Nat,
                 resumed : BOOLEAN, req : Marks]
    BY DEF Callers, Awaits
  <2>4. cache.readers \in
          [Readers -> [await : {"none", "identity", "refresh", "hydration"}, n : Nat,
                       resumed : BOOLEAN, req : Marks]]
    BY <2>2, <2>3 DEF Caches
  <2>5. TypeOK
    BY <2>2, <2>4
       DEF TypeOK, Caches, DbOK, PastOK, Entries, CallRecords, CallPhases, Hydrations,
           HydrationPhases
  <2>6. QED  BY <2>2, <2>5 DEF SnapshotFitsEntry, EntryOK, Exists
<1>2. QED  BY <1>1, CacheIsFit, PTL

\* What the entry takes for the end of the stream never moves backwards.
THEOREM TargetIsMonotone == Spec => TargetMonotone
<1>1. FitsInv /\ [Next]_vars => [~Newer(cache.entry.mark, cache'.entry.mark)]_vars
  BY FitsStep
<1>2. QED  BY <1>1, CacheIsFit, PTL DEF Spec, TargetMonotone

\* What a page holds, by the steps that answer one.
LEMMA PageSteps ==
  ASSUME FitsInv, [Next]_vars, answer'.kind = "page", ~(UNCHANGED vars)
  PROVE  /\ UNCHANGED <<past, heard>> /\ Exists(cache) /\ SnapshotReady(cache.entry)
         /\ answer'.mark = cache.entry.mark /\ answer'.fp = cache.entry.fp
         /\ \/ cache.entry.pending = NoWatermark /\ cache.entry.age <= Lease
            \/ \E r \in Readers :
                 /\ cache.readers[r].resumed
                 /\ \/ /\ cache.entry.pending = NoWatermark
                       /\ cache.readers[r].await = "hydration"
                    \/ /\ cache.readers[r].await = "refresh"
                       /\ cache.readers[r].n # EagerPoint
<1>1. /\ DbOK /\ Fits(cache, Committed) /\ Committed \in SUBSET StreamMarks
      /\ cache \in Caches /\ cache.entry \in Entries
      /\ EntryOK(cache.entry, Committed)
  BY DatabaseFacts, MarkFacts DEF FitsInv, Fits
<1>2. SnapshotReady(cache.entry) =>
        /\ Exists(cache)
        /\ cache.entry.snap.mark = cache.entry.mark /\ cache.entry.snap.fp = cache.entry.fp
  <2>1. cache.entry.snap.mark \in Marks /\ cache.entry.mark \in Marks
    BY <1>1 DEF Entries, Authorities
  <2>2. QED  BY <1>1, <2>1 DEF SnapshotReady, EntryOK, Exists, Marks
<1>3. CASE \E r \in Readers : Resume(r)
  <2>1. PICK r \in Readers : Resume(r)
    BY <1>3
  <2>2. UNCHANGED <<past, heard>> /\ cache.readers[r].resumed
    BY <2>1 DEF Resume
  <2>3. /\ SnapshotReady(cache.entry)
        /\ \/ cache.entry.pending = NoWatermark /\ cache.entry.age <= Lease
           \/ cache.entry.pending = NoWatermark /\ cache.readers[r].await = "hydration"
           \/ cache.readers[r].await = "refresh" /\ cache.readers[r].n # EagerPoint
        /\ answer'.mark = cache.entry.snap.mark /\ answer'.fp = cache.entry.snap.fp
    BY <1>1, <2>1, Resumes
  <2>4. QED  BY <1>2, <2>2, <2>3
<1>4. CASE \E r \in Readers, w \in Committed : Get(r, w)
  <2>1. PICK r \in Readers, w \in Committed : Get(r, w)
    BY <1>4
  <2>2. UNCHANGED <<past, heard>>
    BY <2>1 DEF Get
  <2>3. QED  BY <1>1, <1>2, <2>1, <2>2, Gets
<1>5. CASE \E r \in Readers, w \in Committed : EagerFill(r, w)
  BY <1>1, <1>5, FillsEagerly
<1>6. CASE Handled \/ Tick \/ FinishIdentity
  <2>1. ASSUME \/ CooldownOver \/ Evict \/ Mismatch \/ HearDelete
               \/ \E fp \in Visibilities : HearVisibility(fp)
               \/ FailIdentity \/ FailRefresh \/ FinishRefresh \/ Tick \/ FinishIdentity
        PROVE  answer' = NoAnswer
    BY <2>1 DEF CooldownOver, Evict, Mismatch, HearDelete, HearVisibility, FailIdentity,
         FailRefresh, FinishRefresh, Told, Tick, FinishIdentity
  <2>2. ASSUME \/ StartHydration \/ RefuseHydration \/ FailHydration \/ FinishRange
               \/ FinishRebuild \/ FailDetached \/ DetachedOver
               \/ \E b \in BOOLEAN : FinishHydration(b) \/ ShortOfMemory(b)
        PROVE  answer' = NoAnswer
    BY <2>2 DEF StartHydration, RefuseHydration, FailHydration, FinishRange,
         FinishRebuild, FailDetached, DetachedOver, FinishHydration, ShortOfMemory, Told
  <2>3. ASSUME BeginCalibration \/ Calibrate \/ FailCalibration
        PROVE  answer' = NoAnswer
    BY <2>3 DEF BeginCalibration, Calibrate, FailCalibration, Told
  <2>4. answer' = NoAnswer
    BY <1>6, <2>1, <2>2, <2>3 DEF Handled
  <2>5. answer'.kind = "none"
    BY <2>4 DEF NoAnswer
  <2>6. QED  BY <2>5
<1>7. CASE Commits \/ Replies
  BY <1>1, <1>7, DatabaseGrows, Replying
<1>8. CASE \/ \E w \in Committed : HearWatermark(w)
           \/ \E w \in Committed, first \in Ids \ {0},
                 outcome \in {"extended", "dropped", "deferred"} :
                HearAppend(w, first, outcome)
  BY <1>8 DEF HearWatermark, HearAppend, NoAnswer
<1>9. QED  BY <1>3, <1>4, <1>5, <1>6, <1>7, <1>8, NextSteps

\* The watermarks that the entry was told of stay covered.
LEMMA HeardStep ==
  ASSUME FitsInv, FitsInv', HeardOK(cache, heard), [Next]_vars
  PROVE  HeardOK(cache', heard')
<1>1. /\ DbOK /\ Fits(cache, Committed) /\ Committed \in SUBSET StreamMarks
      /\ cache \in Caches /\ cache' \in Caches
  BY DatabaseFacts DEF FitsInv, Fits
<1>2. CASE UNCHANGED vars
  BY <1>2 DEF vars
<1>3. CASE \E r \in Readers : Resume(r)
  <2>1. PICK r \in Readers : Resume(r)
    BY <1>3
  <2>2. Keeps(cache, cache') /\ cache'.entry = cache.entry /\ heard' = heard
    BY <1>1, <2>1, Resumes DEF Resume
  <2>3. QED  BY <1>1, <2>2, HeardKept, KeepsProceeds
<1>4. CASE Quiet /\ Handled
  <2>1. heard' = heard
    BY <1>4 DEF Handled, CooldownOver, Evict, Mismatch, HearDelete, HearVisibility,
         FailIdentity, FailRefresh, FinishRefresh, StartHydration, RefuseHydration,
         FailHydration, FinishRange, FinishRebuild, FailDetached, DetachedOver,
         FinishHydration, ShortOfMemory, BeginCalibration, Calibrate, FailCalibration, Told
  <2>2. Proceeds(cache, cache')
    BY <1>1, <1>4, HandledSteps
  <2>3. QED  BY <1>1, <1>4, <2>1, <2>2, HeardKept DEF Quiet
<1>5. CASE Commits
  BY <1>1, <1>5, DatabaseGrows
<1>6. CASE Tick \/ Replies
  <2>1. /\ cache'.entry.mark = cache.entry.mark /\ cache'.entry.pending = cache.entry.pending
        /\ cache'.readers = cache.readers /\ heard' = heard
    BY <1>1, <1>6, Ticking, Replying
  <2>2. QED  BY <2>1 DEF HeardOK, Exists, Covers
<1>7. CASE Quiet /\ FinishIdentity
  <2>1. heard' = heard
    BY <1>7 DEF FinishIdentity, Told
  <2>2. CASE Keeps(cache, cache')
    BY <1>1, <1>7, <2>1, <2>2, HeardKept, KeepsProceeds DEF Quiet
  <2>3. CASE ~Keeps(cache, cache')
    <3>1. /\ ~Exists(cache) /\ Exists(cache')
          /\ \A r \in Readers : \/ cache'.readers[r] = cache.readers[r]
                                \/ cache'.readers[r].await = "identity"
      BY <1>1, <1>7, <2>3, IdentityLoads
    <3>2. heard' = NoWatermark /\ heard' \in Marks
      BY <2>1, <3>1 DEF HeardOK
    <3>3. cache'.entry.mark \in [rev : Nat, id : Nat]
      BY <1>1, MarkFacts
    <3>4. Covers(cache'.entry, heard')
      BY <3>2, <3>3 DEF Covers, Newer, NoWatermark
    <3>5. QED  BY <1>7, <3>1, <3>2, <3>4 DEF HeardOK, Quiet
  <2>4. QED  BY <2>2, <2>3
<1>8. CASE Quiet /\ \E w \in Committed : HearWatermark(w)
  <2>1. PICK w \in Committed : HearWatermark(w)
    BY <1>8
  <2>2. /\ Exists(cache) /\ cache' = ObserveWatermark(cache, w)
        /\ heard' = Latest(heard, w) /\ w \in Marks
    BY <1>1, <2>1, MarksAreWatermarks DEF HearWatermark, Hear, Live
  <2>3. Keeps(cache, cache') /\ Covers(cache'.entry, w)
    BY <1>1, <2>2, KeepsObserveWatermark
  <2>4. QED  BY <1>1, <1>8, <2>2, <2>3, HeardMore DEF Quiet
<1>9. CASE /\ Quiet
           /\ \E w \in Committed, first \in Ids \ {0},
                 outcome \in {"extended", "dropped", "deferred"} :
                HearAppend(w, first, outcome)
  <2>1. PICK w \in Committed, first \in Ids \ {0},
               outcome \in {"extended", "dropped", "deferred"} : HearAppend(w, first, outcome)
    BY <1>9
  <2>2. /\ Exists(cache) /\ cache' = ObserveAppend(cache, w, first, outcome)
        /\ heard' = Latest(heard, w) /\ w \in Marks
    BY <1>1, <2>1, MarksAreWatermarks DEF HearAppend, Hear, Live
  <2>3. Keeps(cache, cache') /\ Covers(cache'.entry, w)
    BY <1>1, <2>2, KeepsObserveAppend
  <2>4. QED  BY <1>1, <1>9, <2>2, <2>3, HeardMore DEF Quiet
<1>10. CASE Quiet /\ \E r \in Readers, w \in Committed : Get(r, w)
  <2>1. PICK r \in Readers, w \in Committed : Get(r, w)
    BY <1>10
  <2>2. Keeps(cache, cache') /\ heard' = heard
    BY <1>1, <2>1, Gets DEF Get
  <2>3. QED  BY <1>1, <1>10, <2>2, HeardKept, KeepsProceeds DEF Quiet
<1>11. CASE Quiet /\ \E r \in Readers, w \in Committed : EagerFill(r, w)
  <2>1. PICK r \in Readers, w \in Committed : EagerFill(r, w)
    BY <1>11
  <2>2. /\ Exists(cache) /\ heard' = Latest(heard, w) /\ w \in Marks
    BY <1>1, <2>1, MarksAreWatermarks DEF EagerFill, Hear, Live
  <2>3. Keeps(cache, cache') /\ Covers(cache'.entry, w)
    BY <1>1, <2>1, FillsEagerly
  <2>4. QED  BY <1>1, <1>11, <2>2, <2>3, HeardMore DEF Quiet
<1>12. QED
  BY <1>2, <1>3, <1>4, <1>5, <1>6, <1>7, <1>8, <1>9, <1>10, <1>11, NextSteps

\* A page has every watermark that the entry had been told of, whether it was told
\* by an append, a notification or an eager fill, and however many awaits the GET
\* has passed.
THEOREM PagesCoverHeard == Spec => []PageCoversHeard
<1>1. Init => HeardInv
  <2>1. SUFFICES ASSUME Init
                 PROVE  HeardInv
    OBVIOUS
  <2>2. /\ cache.entry = NoEntry /\ heard = NoWatermark /\ answer = NoAnswer
        /\ cache.readers = [r \in Readers |-> Idle]
    BY <2>1 DEF Init
  <2>3. ~Newer(NoWatermark, NoEntry.mark)
    BY DEF Newer, NoEntry, NoWatermark
  <2>4. QED
    BY <2>2, <2>3, CacheConstants DEF HeardInv, HeardOK, PageCoversHeard, Covers, NoAnswer
<1>2. FitsInv /\ FitsInv' /\ HeardInv /\ [Next]_vars => HeardInv'
  <2>1. SUFFICES ASSUME FitsInv, FitsInv', HeardInv, [Next]_vars
                 PROVE  HeardInv'
    OBVIOUS
  <2>2. HeardOK(cache', heard')
    BY <2>1, HeardStep DEF HeardInv
  <2>3. CASE UNCHANGED vars
    BY <2>1, <2>3 DEF vars, HeardInv, HeardOK, PageCoversHeard, Exists, Covers
  <2>4. CASE ~(UNCHANGED vars) /\ answer'.kind = "page"
    <3>1. /\ heard' = heard /\ answer'.mark = cache.entry.mark
          /\ cache.entry.pending = NoWatermark
      BY <2>1, <2>4, PageSteps DEF HeardInv, HeardOK
    <3>2. /\ heard \in [rev : Nat, id : Nat] /\ cache.entry.mark \in [rev : Nat, id : Nat]
          /\ Covers(cache.entry, heard)
      BY <2>1, MarkFacts, ReadCacheAssumption
         DEF HeardInv, HeardOK, FitsInv, Fits, Marks, Ids
    <3>3. ~Newer(heard, cache.entry.mark)
      BY <3>1, <3>2 DEF Covers, Newer, NoWatermark
    <3>4. QED  BY <2>2, <3>1, <3>3 DEF HeardInv, PageCoversHeard
  <2>5. CASE answer'.kind # "page"
    BY <2>2, <2>5 DEF HeardInv, PageCoversHeard
  <2>6. QED  BY <2>3, <2>4, <2>5
<1>3. HeardInv => PageCoversHeard
  BY DEF HeardInv
<1>4. QED  BY <1>1, <1>2, <1>3, CacheIsFit, PTL DEF Spec

\* Time passes, and a lease or a deadline with it.
LEMMA LeaseTicks ==
  ASSUME SlowRebuild = FALSE, FitsInv, FitsInv', LeaseOK(cache, past), Quiet, Tick
  PROVE  LeaseOK(cache', past')
<1>1. /\ Fits(cache, Committed) /\ cache \in Caches /\ cache' \in Caches
      /\ Deadline \in Nat /\ Lease \in Nat /\ Deadline <= Lease
      /\ cache.entry \in Entries
      /\ cache.identity \in CallRecords /\ cache.refresh \in CallRecords
      /\ cache.calibration \in CallRecords /\ cache.hydration \in Hydrations
  BY ReadCacheAssumption DEF FitsInv, Fits, Caches
<1>2. /\ cache'.entry.mark = cache.entry.mark /\ cache'.entry.fp = cache.entry.fp
      /\ cache'.entry.age = IF Exists(cache) /\ cache.entry.age < Expired
                            THEN cache.entry.age + 1 ELSE cache.entry.age
      /\ cache'.identity = Older(cache.identity) /\ cache'.refresh = Older(cache.refresh)
      /\ cache'.calibration = Older(cache.calibration)
      /\ cache'.hydration = Older(cache.hydration) /\ cache'.readers = cache.readers
  BY <1>1, Ticking
<1>3. past' = [t \in 0 .. Lease |-> IF t = 0 THEN Authority ELSE past[t - 1]]
  BY DEF Tick
<1>4. \A t \in 0 .. Lease : t # 0 => t - 1 \in 0 .. Lease /\ past'[t] = past[t - 1]
  BY <1>1, <1>3
<1>5. ASSUME NEW seen, NEW age \in Nat, Includes(past, seen, age)
      PROVE  Includes(past', seen, age + 1)
  <2>1. SUFFICES ASSUME NEW t \in 0 .. Lease, t >= age + 1
                 PROVE  /\ past'[t] # Gone
                        /\ ~Newer(past'[t].mark, seen.mark) /\ past'[t].fp <= seen.fp
    BY DEF Includes
  <2>2. t # 0 /\ t - 1 >= age
    BY <1>5, <2>1
  <2>3. QED  BY <1>4, <1>5, <2>1, <2>2 DEF Includes
<1>6. Exists(cache') => Includes(past', cache'.entry, cache'.entry.age)
  <2>1. SUFFICES ASSUME Exists(cache)
                 PROVE  Includes(past', cache'.entry, cache'.entry.age)
    BY <1>2 DEF Exists
  <2>2. Includes(past, cache.entry, cache.entry.age) /\ cache.entry.age \in 0 .. Expired
    BY <1>1, <2>1 DEF LeaseOK, Entries, Ages
  <2>3. CASE cache.entry.age < Expired
    <3>1. cache'.entry.age = cache.entry.age + 1 /\ cache.entry.age \in Nat
      BY <1>1, <1>2, <2>1, <2>2, <2>3 DEF Expired
    <3>2. Includes(past', cache.entry, cache.entry.age + 1)
      BY <1>5, <2>2, <3>1
    <3>3. QED  BY <1>2, <3>1, <3>2 DEF Includes
  <2>4. CASE ~(cache.entry.age < Expired)
    <3>1. cache'.entry.age = Expired
      BY <1>1, <1>2, <2>2, <2>4 DEF Expired
    <3>2. QED  BY <1>1, <3>1 DEF Includes, Expired
  <2>5. QED  BY <2>3, <2>4
<1>7. ASSUME NEW call \in {cache.identity, cache.refresh, cache.calibration, cache.hydration}
      PROVE  /\ Older(call).phase # "none" => Older(call).age <= Deadline
             /\ Older(call).phase \in {"answered", "rebuild"} /\ Older(call).seen # Gone =>
                  Includes(past', Older(call).seen, Older(call).age)
  <2>1. /\ call.age \in 0 .. Expired
        /\ Older(call).phase = call.phase /\ Older(call).seen = call.seen
        /\ Older(call).age = IF call.phase \in {"asked", "answered", "rebuild"}
                                /\ call.age < Expired
                             THEN call.age + 1 ELSE call.age
    BY <1>1, <1>7 DEF Older, CallRecords, Hydrations, Ages
  <2>2. /\ call.phase # "none" => call.age <= Deadline
        /\ call.phase \in {"answered", "rebuild"} /\ call.seen # Gone =>
             Includes(past, call.seen, call.age)
    BY <1>7 DEF LeaseOK, CallsInTime
  <2>3. call.phase \in {"asked", "answered", "rebuild"} => call.age < Deadline
    <3>1. Within(call)
      BY <1>7 DEF Tick
    <3>2. call.phase = "rebuild" => call = cache.hydration
      BY <1>1, <1>7 DEF CallRecords, CallPhases
    <3>3. call.phase = "rebuild" => call.age < Deadline
      BY <3>2 DEF Tick
    <3>4. QED  BY <3>1, <3>3 DEF Within
  <2>4. /\ call.phase # "none" => Older(call).age <= Deadline
        /\ call.phase \in {"answered", "rebuild"} => Older(call).age = call.age + 1
        /\ call.age \in Nat
    BY <1>1, <2>1, <2>2, <2>3 DEF Expired
  <2>5. QED  BY <1>5, <2>1, <2>2, <2>4
<1>8. CallsInTime(cache', past')
  BY <1>2, <1>7 DEF CallsInTime
<1>9. \A r \in Readers : ~cache'.readers[r].resumed
  BY <1>2 DEF Quiet
<1>10. QED  BY <1>6, <1>8, <1>9 DEF LeaseOK

\* An authority that was just read has all that the recent past had.
LEMMA LeaseReplies ==
  ASSUME FitsInv, FitsInv', LeaseOK(cache, past), Replies
  PROVE  LeaseOK(cache', past')
<1>1. /\ cache'.entry = cache.entry /\ cache'.readers = cache.readers /\ past' = past
      /\ Replied(cache.identity, cache'.identity) /\ Replied(cache.refresh, cache'.refresh)
      /\ Replied(cache.calibration, cache'.calibration)
      /\ Replied(cache.hydration, cache'.hydration)
  BY Replying DEF FitsInv
<1>2. Authority # Gone => \A age \in Nat : Includes(past, Authority, age)
  <2>1. SUFFICES ASSUME Authority # Gone, NEW t \in 0 .. Lease
                 PROVE  /\ past[t] # Gone /\ ~Newer(past[t].mark, Authority.mark)
                        /\ past[t].fp <= Authority.fp
    BY DEF Includes
  <2>2. /\ ~db.deleted /\ Authority.fp = db.fp
        /\ \A w \in Committed : ~Newer(w, Authority.mark)
        /\ Authority.mark \in [rev : Nat, id : Nat]
    <3>1. Authority.mark \in Marks
      BY DatabaseFacts DEF FitsInv, Authorities
    <3>2. QED  BY <2>1, <3>1, DatabaseFacts, ReadCacheAssumption DEF FitsInv, Marks, Ids
  <2>3. /\ past[t] = Gone => db.deleted
        /\ past[t].mark \in {NoWatermark} \cup Committed
        /\ past[t].fp <= db.fp
    BY <2>1 DEF FitsInv, PastOK
  <2>4. ~Newer(NoWatermark, Authority.mark)
    BY <2>2 DEF Newer, NoWatermark
  <2>5. QED  BY <2>2, <2>3, <2>4
<1>3. /\ cache.identity \in CallRecords /\ cache.refresh \in CallRecords
      /\ cache.calibration \in CallRecords /\ cache.hydration \in Hydrations
      /\ \A k \in CallRecords \cup Hydrations : k.age \in Nat
  BY ReadCacheAssumption DEF FitsInv, Fits, Caches, CallRecords, Hydrations, Ages, Expired
<1>4. CallsInTime(cache', past)
  BY <1>1, <1>2, <1>3 DEF LeaseOK, CallsInTime, Replied, SameCall
<1>5. QED  BY <1>1, <1>4 DEF LeaseOK, Exists

\* Every step keeps the authority within its lease.
LEMMA LeaseStep ==
  ASSUME SlowRebuild = FALSE, FitsInv, FitsInv', LeaseOK(cache, past), [Next]_vars
  PROVE  LeaseOK(cache', past')
<1>1. /\ DbOK /\ Fits(cache, Committed) /\ Committed \in SUBSET StreamMarks
      /\ cache \in Caches /\ cache' \in Caches /\ past \in [0 .. Lease -> Authorities]
  BY DatabaseFacts DEF FitsInv, Fits, PastOK
<1>2. CASE UNCHANGED vars
  BY <1>2 DEF vars
<1>3. CASE \E r \in Readers : Resume(r)
  <2>1. PICK r \in Readers : Resume(r)
    BY <1>3
  <2>2. Keeps(cache, cache') /\ cache'.entry = cache.entry /\ past' = past
    BY <1>1, <2>1, Resumes DEF Resume
  <2>3. QED  BY <1>1, <2>2, LeaseKept, KeepsProceeds
<1>4. CASE Quiet /\ Handled
  <2>1. past' = past
    BY <1>4 DEF Handled, CooldownOver, Evict, Mismatch, HearDelete, HearVisibility,
         FailIdentity, FailRefresh, FinishRefresh, StartHydration, RefuseHydration,
         FailHydration, FinishRange, FinishRebuild, FailDetached, DetachedOver,
         FinishHydration, ShortOfMemory, BeginCalibration, Calibrate, FailCalibration, Told
  <2>2. Proceeds(cache, cache')
    BY <1>1, <1>4, HandledSteps
  <2>3. QED  BY <1>1, <1>4, <2>1, <2>2, LeaseKept DEF Quiet
<1>5. CASE Commits
  BY <1>1, <1>5, DatabaseGrows
<1>6. CASE Quiet /\ Tick
  BY <1>6, LeaseTicks
<1>7. CASE Replies
  BY <1>7, LeaseReplies
<1>8. CASE Quiet /\ FinishIdentity
  <2>1. past' = past
    BY <1>8 DEF FinishIdentity, Told
  <2>2. CASE Keeps(cache, cache')
    BY <1>1, <1>8, <2>1, <2>2, LeaseKept, KeepsProceeds DEF Quiet
  <2>3. CASE ~Keeps(cache, cache')
    <3>1. /\ cache.identity.phase = "answered" /\ cache.identity.seen # Gone
          /\ cache'.entry.mark = cache.identity.seen.mark
          /\ cache'.entry.fp = cache.identity.seen.fp
          /\ cache'.entry.age = cache.identity.age
          /\ cache'.identity = NoCall /\ cache'.refresh = cache.refresh
          /\ cache'.calibration = cache.calibration
          /\ cache'.hydration = cache.hydration
          /\ \A r \in Readers : \/ cache'.readers[r] = cache.readers[r]
                                \/ cache'.readers[r].await = "identity"
      BY <1>1, <1>8, <2>3, IdentityLoads
    <3>2. Includes(past, cache.identity.seen, cache.identity.age)
      BY <3>1 DEF LeaseOK, CallsInTime
    <3>3. Includes(past, cache'.entry, cache'.entry.age)
      BY <3>1, <3>2 DEF Includes
    <3>4. CallsInTime(cache', past)
      BY <3>1, CacheConstants DEF LeaseOK, CallsInTime
    <3>5. QED  BY <1>8, <2>1, <3>1, <3>3, <3>4 DEF LeaseOK, Quiet
  <2>4. QED  BY <2>2, <2>3
<1>9. CASE /\ Quiet
           /\ \/ \E w \in Committed : HearWatermark(w)
              \/ \E w \in Committed, first \in Ids \ {0},
                    outcome \in {"extended", "dropped", "deferred"} :
                   HearAppend(w, first, outcome)
              \/ \E r \in Readers, w \in Committed : Get(r, w) \/ EagerFill(r, w)
  <2>1. past' = past
    BY <1>9 DEF HearWatermark, HearAppend, Get, EagerFill
  <2>2. Keeps(cache, cache')
    <3>1. CASE \E w \in Committed : HearWatermark(w)
      BY <1>1, <3>1, KeepsObserveWatermark DEF HearWatermark, Live
    <3>2. CASE \E w \in Committed, first \in Ids \ {0},
                  outcome \in {"extended", "dropped", "deferred"} :
                 HearAppend(w, first, outcome)
      BY <1>1, <3>2, KeepsObserveAppend DEF HearAppend, Live
    <3>3. CASE \E r \in Readers, w \in Committed : Get(r, w) \/ EagerFill(r, w)
      BY <1>1, <3>3, Gets, FillsEagerly
    <3>4. QED  BY <1>9, <3>1, <3>2, <3>3
  <2>3. QED  BY <1>1, <1>9, <2>1, <2>2, LeaseKept, KeepsProceeds DEF Quiet
<1>10. QED
  BY <1>2, <1>3, <1>4, <1>5, <1>6, <1>7, <1>8, <1>9, NextSteps

\* A page has everything that was committed a lease ago, if no rebuild outlasts the
\* deadline of a query; that a slow one breaks it is shown by a run.
THEOREM PagesWithinLease ==
  ASSUME SlowRebuild = FALSE
  PROVE  Spec => []PageWithinLease
<1>1. Init => LeaseInv
  <2>1. SUFFICES ASSUME Init
                 PROVE  LeaseInv
    OBVIOUS
  <2>2. /\ cache.entry = NoEntry /\ cache.identity = NoCall /\ cache.refresh = NoCall
        /\ cache.calibration = NoCall /\ cache.hydration = NoHydration
        /\ cache.readers = [r \in Readers |-> Idle] /\ answer = NoAnswer
    BY <2>1 DEF Init
  <2>3. ~Exists(cache)
    BY <2>2 DEF Exists, NoEntry
  <2>4. QED
    BY <2>2, <2>3, CacheConstants
       DEF LeaseInv, LeaseOK, CallsInTime, PageWithinLease, NoAnswer
<1>2. FitsInv /\ FitsInv' /\ LeaseInv /\ [Next]_vars => LeaseInv'
  <2>1. SUFFICES ASSUME FitsInv, FitsInv', LeaseInv, [Next]_vars
                 PROVE  LeaseInv'
    OBVIOUS
  <2>2. LeaseOK(cache', past')
    BY <2>1, LeaseStep DEF LeaseInv
  <2>3. CASE UNCHANGED vars
    BY <2>1, <2>2, <2>3 DEF vars, LeaseInv, PageWithinLease
  <2>4. CASE ~(UNCHANGED vars) /\ answer'.kind = "page"
    <3>1. /\ past' = past /\ Exists(cache)
          /\ answer'.mark = cache.entry.mark /\ answer'.fp = cache.entry.fp
          /\ cache.entry.age <= Lease
      BY <2>1, <2>4, PageSteps DEF LeaseInv, LeaseOK
    <3>2. Includes(past, cache.entry, cache.entry.age) /\ Lease \in 0 .. Lease
          /\ cache.entry.age \in Nat /\ Lease >= cache.entry.age
      BY <2>1, <3>1, MarkFacts, ReadCacheAssumption
         DEF LeaseInv, LeaseOK, FitsInv, Fits, Entries, Ages, Expired
    <3>3. past[Lease].fp \in Nat /\ cache.entry.fp \in Nat
      BY <2>1, <3>2, MarkFacts, ReadCacheAssumption
         DEF FitsInv, PastOK, Fits, Authorities, Entries
    <3>4. QED
      BY <2>2, <3>1, <3>2, <3>3 DEF LeaseInv, PageWithinLease, Includes
  <2>5. CASE answer'.kind # "page"
    BY <2>2, <2>5 DEF LeaseInv, PageWithinLease
  <2>6. QED  BY <2>3, <2>4, <2>5
<1>3. LeaseInv => PageWithinLease
  BY DEF LeaseInv
<1>4. QED  BY <1>1, <1>2, <1>3, CacheIsFit, PTL DEF Spec

\* A caller that waits, waits for a call that is under way: no step drops a call
\* without waking or refusing those who wait for it. That the call ends is left to
\* the model checker.
THEOREM NobodyWaitsForNothing ==
  Spec => [](\A r \in Readers : cache.readers[r] # Idle /\ ~cache.readers[r].resumed =>
               \/ cache.readers[r].await = "identity" /\ cache.identity.phase # "none"
               \/ cache.readers[r].await = "refresh" /\ cache.refresh.phase # "none"
               \/ cache.readers[r].await = "hydration" /\ cache.hydration.phase # "none")
<1>1. FitsInv => \A r \in Readers : cache.readers[r] # Idle /\ ~cache.readers[r].resumed =>
        \/ cache.readers[r].await = "identity" /\ cache.identity.phase # "none"
        \/ cache.readers[r].await = "refresh" /\ cache.refresh.phase # "none"
        \/ cache.readers[r].await = "hydration" /\ cache.hydration.phase # "none"
  <2>1. SUFFICES ASSUME FitsInv, NEW r \in Readers, cache.readers[r] # Idle,
                        ~cache.readers[r].resumed
                 PROVE  \/ /\ cache.readers[r].await = "identity"
                           /\ cache.identity.phase # "none"
                        \/ /\ cache.readers[r].await = "refresh"
                           /\ cache.refresh.phase # "none"
                        \/ /\ cache.readers[r].await = "hydration"
                           /\ cache.hydration.phase # "none"
    OBVIOUS
  <2>2. cache.readers[r] \in Callers /\ WaitingOK(cache)
    BY <2>1, MarkFacts DEF FitsInv, Fits
  <2>3. QED  BY <2>1, <2>2 DEF Callers, Awaits, WaitingOK
<1>2. QED  BY <1>1, CacheIsFit, PTL
============================================================================
