---------------------------- MODULE CacheBudget ----------------------------
(***************************************************************************)
(* The memory that the read cache keeps account of                         *)
(* (contest-event-read-cache.ts): snapshots that share parts with the ones *)
(* they extend, answers that pin a snapshot while it is written out, and   *)
(* hydrations that reserve memory before they allocate it.                 *)
(*                                                                         *)
(* A snapshot is the set of its memory parts, and every part is one unit.  *)
(* How large pages and builds will be is estimated before; the estimates   *)
(* are taken to be upper bounds, within which anything may come.  Which    *)
(* snapshots are old and which the oldest is left open.  Each step runs    *)
(* between two awaits.  A hydration whose token is no longer the entry's   *)
(* is detached: it can only fail, but holds its reservation until it does. *)
(***************************************************************************)
EXTENDS Integers, FiniteSets, FiniteSetsExt

CONSTANTS
  Contests, Flights, Responses,
  NoFlight,
  MaxBytes, MaxEntryBytes,  \* the budgets of the process and of a contest
  MaxPage,                  \* bound on the rows of one page
  MaxFresh                  \* bound on the parts that a build or append allocates

ASSUME CacheBudgetAssumption ==
  /\ IsFiniteSet(Contests) /\ IsFiniteSet(Flights) /\ IsFiniteSet(Responses)
  /\ NoFlight \notin Flights
  /\ MaxBytes \in Nat /\ MaxEntryBytes \in 1 .. MaxBytes
  /\ MaxPage \in Nat \ {0}
  /\ MaxFresh \in Nat \ {0}

VARIABLES
  ledger,     \* snapshots and what is accounted for, see below
  pins,       \* pinsBySnapshot: a function whose domain are the pinned snapshots
  responses,  \* per answer being written out, the snapshot it was cut from
  entry,      \* per contest: hydration, oversize and whether it may be read at all
  flight,     \* the hydrations
  overrun     \* history: whether a build did not fit what was reserved for it

budgetVars == <<ledger, pins, responses, entry, flight, overrun>>

\* As many parts as can be in use when a build begins, and those it adds.
Parts == 1 .. MaxBytes + MaxFresh

NoParts == {}

NoResponse == [contest |-> NoFlight, parts |-> NoParts]

\* behind: the snapshot is behind the target.  refs: snapshotMemoryParts.
EmptyLedger ==
  [snapshot |-> [c \in Contests |-> NoParts],
   behind |-> [c \in Contests |-> FALSE],
   retired |-> {},
   refs |-> [p \in Parts |-> [resident |-> 0, retired |-> 0]],
   total |-> 0,
   byContest |-> [c \in Contests |-> 0]]

IdleFlight ==
  [phase |-> "idle", contest |-> NoFlight, base |-> NoParts, reserved |-> 0,
   buffered |-> 0, page |-> 0, rebuilding |-> FALSE, overtaken |-> FALSE]

BudgetInit ==
  /\ ledger = EmptyLedger
  /\ pins = [s \in {} |-> 0]
  /\ responses = [r \in Responses |-> NoResponse]
  /\ entry = [c \in Contests |->
                [hydration |-> NoFlight, oversize |-> FALSE, usable |-> TRUE]]
  /\ flight = [f \in Flights |-> IdleFlight]
  /\ overrun = FALSE

----------------------------------------------------------------------------
(* Keeping account.  l is a ledger, c a contest, s a snapshot. *)

PinCount(s) == IF s \in DOMAIN pins THEN pins[s] ELSE 0

Charge(l, c, bytes) ==
  [l EXCEPT !.total = Max({0, @ + bytes}),
            !.byContest = [@ EXCEPT ![c] = Max({0, l.byContest[c] + bytes})]]

IsAccounted(ref) == ref.resident > 0 \/ ref.retired > 0

AccountedIn(refs, s) == {p \in s : IsAccounted(refs[p])}

\* s is owned so many times more as resident and as retired.
Owned(refs, s, resident, retired) ==
  [p \in Parts |->
     IF p \in s
     THEN [resident |-> refs[p].resident + resident, retired |-> refs[p].retired + retired]
     ELSE refs[p]]

UpdateMemory(l, c, s, resident, retired) ==
  LET after == Owned(l.refs, s, resident, retired)
  IN  Charge([l EXCEPT !.refs = after], c,
             Cardinality(AccountedIn(after, s)) - Cardinality(AccountedIn(l.refs, s)))

Additional(l, s) == Cardinality(s \ AccountedIn(l.refs, s))

WithSnapshot(l, c, s) ==
  [l EXCEPT !.snapshot = [@ EXCEPT ![c] = s], !.behind = [@ EXCEPT ![c] = FALSE]]

\* Wrong: what is pinned is forgotten with the entry's snapshot.
DroppedUnretired(l, c) ==
  IF l.snapshot[c] = NoParts THEN l
  ELSE UpdateMemory(WithSnapshot(l, c, NoParts), c, l.snapshot[c], -1, 0)

Dropped(l, c) ==
  LET s == l.snapshot[c]
      gone == WithSnapshot(l, c, NoParts)
      kept == IF PinCount(s) > 0 /\ s \notin l.retired
              THEN UpdateMemory([gone EXCEPT !.retired = @ \cup {s}], c, s, 0, 1)
              ELSE gone
  IN  IF s = NoParts THEN l ELSE UpdateMemory(kept, c, s, -1, 0)

\* One after the other.
DroppedAll(l, C) ==
  LET order == CHOOSE o \in [1 .. Cardinality(C) -> C] :
                 \A c \in C : \E i \in 1 .. Cardinality(C) : o[i] = c
      left[n \in 0 .. Cardinality(C)] == IF n = 0 THEN l ELSE Dropped(left[n - 1], order[n])
  IN  left[Cardinality(C)]

Evictable(l) ==
  {c \in Contests : /\ l.snapshot[c] # NoParts
                    /\ entry[c].hydration = NoFlight
                    /\ PinCount(l.snapshot[c]) = 0}

\* The ledgers evictUntilFits may leave: first those that were idle for long go,
\* whoever they are; then the oldest of the others, one by one, while it does not fit.
RoomFor(l, bytes, c) ==
  LET Fits(C) == DroppedAll(l, C).total + bytes <= MaxBytes
  IN  {DroppedAll(l, C) : C \in
         {C \in SUBSET Evictable(l) :
            \E idle \in SUBSET C :
              /\ c \notin C \ idle
              /\ C # idle => \E last \in C \ idle : ~Fits(C \ {last})
              /\ Fits(C) \/ Evictable(l) \ {c} \subseteq C}}

\* Whether so much more is granted, and the ledger then.  Evictions stay.
Grants(l, c, bytes) ==
  IF bytes > 0 /\ l.byContest[c] + bytes > MaxEntryBytes
  THEN {[ok |-> FALSE, ledger |-> l]}
  ELSE {[ok |-> room.total + bytes <= MaxBytes,
         ledger |-> IF room.total + bytes <= MaxBytes
                    THEN Charge(room, c, bytes) ELSE room] :
          room \in RoomFor(l, bytes, c)}

\* Wrong: the rows are taken to be gone by the time the snapshot is built.
BuildNeedsAlone(buffered, bound) == Max({buffered, bound})

\* What a build or append needs: the rows stay in memory while it runs.
BuildNeeds(buffered, bound) == buffered + bound

\* Resizing a reservation: nothing is asked for when it shrinks.
Resized(l, c, from, to) ==
  IF to <= from THEN {[ok |-> TRUE, ledger |-> Charge(l, c, to - from)]}
  ELSE Grants(l, c, to - from)

Refusal(l) == [ok |-> FALSE, oversize |-> FALSE, ledger |-> l]

Installed(l, c, s) ==
  UpdateMemory(WithSnapshot(l, c, s), c, s, 1, 0)

\* What becomes of the old snapshot (dropped) and of the new one.
PublishOver(l, dropped, c, s) ==
  IF Cardinality(s) > MaxEntryBytes
  THEN {[ok |-> FALSE, oversize |-> TRUE, ledger |-> l]}
  ELSE IF dropped.byContest[c] + Additional(dropped, s) > MaxEntryBytes
  THEN {Refusal(dropped)}
  ELSE {IF room.total + Additional(dropped, s) > MaxBytes THEN Refusal(room)
        ELSE [ok |-> TRUE, oversize |-> FALSE, ledger |-> Installed(room, c, s)] :
          room \in RoomFor(dropped, Additional(dropped, s), c)}

PublishSnapshot(l, c, s) == PublishOver(l, Dropped(l, c), c, s)

\* The mark of an oversize contest after that.
OversizeAfter(c, end) == ~end.ok /\ (entry[c].oversize \/ end.oversize)

\* What an append or a build may yield: fresh parts, and some of the base's, though
\* never the part that is the base itself.
FreshParts(l, n) ==
  LET used == UNION ({l.snapshot[c] : c \in Contests} \cup l.retired
                     \cup {responses[r].parts : r \in Responses})
  IN  CHOOSE new \in SUBSET (Parts \ used) :
        /\ Cardinality(new) = n
        /\ \A p \in new, q \in Parts \ (used \cup new) : p < q

Extensions(l, base, bound) ==
  {kept \cup FreshParts(l, n) : kept \in SUBSET base \ {base}, n \in 1 .. bound}

Builds(l, bound) == {FreshParts(l, n) : n \in 1 .. bound}

----------------------------------------------------------------------------
(* Hydrations. *)

Underway(c, fl) == {f \in Flights : fl[f].phase # "idle" /\ fl[f].contest = c}

\* A new token: the hydrations of the contest are detached.  One that is still
\* queued will make no query.
Detached(c, fl) ==
  [f \in Flights |->
     IF f \in Underway(c, fl)
     THEN [IdleFlight EXCEPT !.phase = IF fl[f].phase \in {"queued", "cancelled"}
                                       THEN "cancelled" ELSE "detached",
                             !.contest = c, !.reserved = fl[f].reserved]
     ELSE fl[f]]

Released(l, f) == Charge(l, flight[f].contest, -flight[f].reserved)

Ended(f, fl) == [fl EXCEPT ![f] = IdleFlight]

LeaveEntry(f) ==
  [entry EXCEPT ![flight[f].contest] =
                  IF @.hydration = f THEN [@ EXCEPT !.hydration = NoFlight] ELSE @]

\* The ways in which a hydration ends without a snapshot; freed is the ledger without
\* its reservation.  Unavailable: nothing else changes.
Unavailable(f, freed) ==
  /\ ledger' = freed
  /\ flight' = Ended(f, flight)
  /\ entry' = LeaveEntry(f)
  /\ UNCHANGED <<pins, responses, overrun>>

\* throwBuilderCapacityFailure.
CapacityFails(f, freed, desired) ==
  LET c == flight[f].contest
  IN  /\ ledger' = freed
      /\ flight' = Ended(f, flight)
      /\ entry' = [LeaveEntry(f) EXCEPT ![c] = [@ EXCEPT !.oversize = desired > MaxEntryBytes]]
      /\ UNCHANGED <<pins, responses, overrun>>

\* Any other failure closes the entry as it is by then, whoever's hydration it was.
FailClosedBy(f, freed) ==
  LET c == flight[f].contest
  IN  /\ ledger' = Dropped(freed, c)
      /\ flight' = Detached(c, Ended(f, flight))
      /\ entry' = [entry EXCEPT ![c] = [@ EXCEPT !.hydration = NoFlight]]
      /\ UNCHANGED <<pins, responses>>

\* A call that begins takes the first name that is free.
IsFree(name, called, idle) ==
  called[name] = idle /\ name = CHOOSE n \in DOMAIN called : called[n] = idle

StartHydration(f, c) ==
  /\ IsFree(f, flight, IdleFlight)
  /\ entry[c] = [hydration |-> NoFlight, oversize |-> FALSE, usable |-> TRUE]
  /\ ledger.snapshot[c] = NoParts \/ ledger.behind[c]
  /\ flight' = [flight EXCEPT ![f] = [@ EXCEPT !.phase = "queued", !.contest = c]]
  /\ entry' = [entry EXCEPT ![c] = [@ EXCEPT !.hydration = f]]
  /\ UNCHANGED <<ledger, pins, responses, overrun>>

\* The bulkhead is full, or is disposed, or its queue's timer is faster; or the
\* token has changed when the turn comes.
LeaveQueue(f) ==
  /\ flight[f].phase \in {"queued", "cancelled"}
  /\ Unavailable(f, Released(ledger, f))

\* hydrateAttempt until its first query, with ledger l: a snapshot that an append
\* of at least bound could not extend anyway is not kept as the base.
Attempt(f, l) ==
  LET c == flight[f].contest
      base == l.snapshot[c]
  IN  \E bound \in 1 .. MaxFresh, empty \in BOOLEAN :
        LET tight == /\ base # NoParts /\ PinCount(base) = 0
                     /\ l.byContest[c] + bound > MaxEntryBytes
            start == IF tight THEN Dropped(l, c) ELSE l
        IN  /\ bound <= Max({1, Cardinality(base)})
            /\ empty => start.snapshot[c] = NoParts
            /\ \E room \in RoomFor(start, 0, c) :
                 /\ ledger' = room
                 /\ flight' =
                      [flight EXCEPT ![f] =
                        [IdleFlight EXCEPT
                           !.phase = IF empty THEN "authority" ELSE "estimating",
                           !.contest = c, !.base = room.snapshot[c]]]
            /\ UNCHANGED <<pins, responses, entry, overrun>>

BeginHydration(f) == flight[f].phase = "queued" /\ Attempt(f, ledger)

\* A second attempt begins, or the first was the last.
Retry(f, freed) == Attempt(f, freed) \/ Unavailable(f, freed)

\* The size of the next page is known, and is reserved before the page is read.
EstimatePage(f) ==
  LET c == flight[f].contest
      from == flight[f].reserved
  IN  /\ flight[f].phase = "estimating"
      /\ \E page \in 1 .. MaxPage :
           LET desired == flight[f].buffered + page
           IN  \E grant \in IF desired <= from THEN {[ok |-> TRUE, ledger |-> ledger]}
                            ELSE Grants(ledger, c, desired - from) :
                 IF grant.ok
                 THEN /\ ledger' = grant.ledger
                      /\ flight' = [flight EXCEPT ![f] =
                                      [@ EXCEPT !.phase = "reading", !.page = page,
                                                !.reserved = Max({from, desired})]]
                      /\ UNCHANGED <<pins, responses, entry, overrun>>
                 ELSE CapacityFails(f, Released(grant.ledger, f), desired)

\* The end of an attempt that has built s.
Install(f, l, s, buffered, reserved) ==
  LET c == flight[f].contest
      desired == buffered + Additional(l, s)
      freed == Charge(l, c, -reserved)
  IN  IF desired > reserved
      THEN /\ overrun' = TRUE
           /\ FailClosedBy(f, freed)
      ELSE IF flight[f].overtaken
      THEN Retry(f, freed)
      ELSE \E end \in PublishSnapshot(freed, c, s) :
             /\ ledger' = end.ledger
             /\ flight' = Ended(f, flight)
             /\ entry' = [LeaveEntry(f) EXCEPT ![c] =
                            [@ EXCEPT !.oversize = OversizeAfter(c, end)]]
             /\ overrun' = (overrun \/ ~end.ok)
             /\ UNCHANGED <<pins, responses>>

\* A snapshot built from all events.
BuildAll(f, l, buffered, reserved) ==
  \E bound \in 1 .. MaxFresh :
    LET c == flight[f].contest
        enough == Max({reserved, BuildNeeds(buffered, bound)})
    IN  \E grant \in Resized(l, c, reserved, enough) :
          IF grant.ok
          THEN \E s \in Builds(grant.ledger, bound) :
                 Install(f, grant.ledger, s, buffered, enough)
          ELSE CapacityFails(f, Charge(grant.ledger, c, -reserved),
                             BuildNeeds(buffered, bound))

\* Rows that are none too many.  The last of a rebuild are followed by the build.
ReadPage(f) ==
  LET c == flight[f].contest
  IN  /\ flight[f].phase = "reading"
      /\ \E bytes \in 1 .. flight[f].page, more \in BOOLEAN :
           LET buffered == flight[f].buffered + bytes
               l == Charge(ledger, c, buffered - flight[f].reserved)
           IN  IF more \/ ~flight[f].rebuilding
               THEN /\ ledger' = l
                    /\ flight' = [flight EXCEPT ![f] =
                                    [@ EXCEPT !.phase = IF more THEN "estimating"
                                                        ELSE "authority",
                                              !.buffered = buffered, !.reserved = buffered,
                                              !.page = 0]]
                    /\ UNCHANGED <<pins, responses, entry, overrun>>
               ELSE BuildAll(f, l, buffered, buffered)

\* The authority has events beyond those that were read.
FollowTarget(f) ==
  /\ flight[f].phase = "authority"
  /\ flight' = [flight EXCEPT ![f] = [@ EXCEPT !.phase = "estimating"]]
  /\ UNCHANGED <<ledger, pins, responses, entry, overrun>>

\* Nothing has changed: what was read is the target.
MaterializeSnapshot(f) ==
  LET c == flight[f].contest
      base == flight[f].base
      buffered == flight[f].buffered
  IN  /\ flight[f].phase = "authority"
      /\ IF base = NoParts THEN BuildAll(f, ledger, buffered, flight[f].reserved)
         ELSE \E bound \in 1 .. MaxFresh :
                \E grant \in Resized(ledger, c, flight[f].reserved, BuildNeeds(buffered, bound)) :
                  IF ~grant.ok
                  THEN IF PinCount(base) = 0 THEN Retry(f, Dropped(Released(grant.ledger, f), c))
                       ELSE CapacityFails(f, Released(grant.ledger, f), bound)
                  ELSE \/ \E s \in Extensions(grant.ledger, base, bound) :
                            Install(f, grant.ledger, s, buffered, BuildNeeds(buffered, bound))
                       \/ /\ ledger' = grant.ledger
                          /\ flight' = [flight EXCEPT ![f] =
                                          [@ EXCEPT !.phase = "estimating", !.rebuilding = TRUE,
                                                    !.reserved = BuildNeeds(buffered, bound)]]
                          /\ UNCHANGED <<pins, responses, entry, overrun>>

\* The rows have a gap or are not as many as estimated, the authority has changed or
\* keeps moving; or the hydration finds that it is detached.
HydrationUnavailable(f) ==
  /\ flight[f].phase \in {"reading", "authority", "detached"}
  /\ Unavailable(f, Released(ledger, f))

\* A query fails, or a row cannot be decoded.
HydrationFails(f) ==
  /\ flight[f].phase \in {"estimating", "reading", "authority", "detached"}
  /\ FailClosedBy(f, Released(ledger, f))
  /\ UNCHANGED overrun

\* The authority that was read supersedes the entry, or the contest is gone.
AuthorityDiffers(f, gone) ==
  LET c == flight[f].contest
  IN  /\ flight[f].phase = "authority"
      /\ ledger' = Dropped(Released(ledger, f), c)
      /\ flight' = Detached(c, Ended(f, flight))
      /\ entry' = [entry EXCEPT ![c] = [@ EXCEPT !.hydration = NoFlight, !.usable = ~gone]]
      /\ UNCHANGED <<pins, responses, overrun>>

----------------------------------------------------------------------------
(* What happens to the entries meanwhile. *)

\* The snapshot, if there is one, is behind the target.
Behind(l, c) == [l EXCEPT !.behind = [@ EXCEPT ![c] = l.snapshot[c] # NoParts]]

\* A watermark, or an append that cannot be written through.
ObserveTarget(c) ==
  /\ entry[c].usable
  /\ ledger' = Behind(ledger, c)
  /\ flight' = [f \in Flights |->
                  IF f \in Underway(c, flight)
                  THEN [flight[f] EXCEPT !.overtaken = (@ \/ flight[f].rebuilding)]
                  ELSE flight[f]]
  /\ UNCHANGED <<pins, responses, entry, overrun>>

\* An append that follows on the snapshot: reserved, built and published in one step.
\* When it is not, the snapshot is behind; it may even have gone as long idle.
ObserveCommittedAppend(c) ==
  LET base == ledger.snapshot[c]
  IN  /\ entry[c].usable /\ entry[c].hydration = NoFlight
      /\ base # NoParts /\ ~ledger.behind[c]
      /\ \E buffered \in 1 .. MaxPage, bound \in 1 .. MaxFresh :
           \E grant \in Grants(ledger, c, BuildNeeds(buffered, bound)) :
             LET freed == Charge(grant.ledger, c, -BuildNeeds(buffered, bound))
             IN  IF ~grant.ok
                 THEN ledger' = Behind(grant.ledger, c) /\ UNCHANGED <<entry, overrun>>
                 ELSE IF grant.ledger.snapshot[c] = NoParts
                 THEN ledger' = freed /\ UNCHANGED <<entry, overrun>>
                 ELSE \/ ledger' = Dropped(freed, c) /\ UNCHANGED <<entry, overrun>>
                      \/ \E s \in Extensions(freed, base, bound) :
                           \E end \in PublishSnapshot(freed, c, s) :
                             /\ ledger' = IF end.ok THEN end.ledger ELSE Behind(end.ledger, c)
                             /\ entry' = [entry EXCEPT ![c] =
                                            [@ EXCEPT !.oversize = OversizeAfter(c, end)]]
                             /\ overrun' = (overrun \/ ~end.ok)
      /\ UNCHANGED <<pins, responses, flight>>

\* invalidate, supersedeEntry and failClosed; some clear the mark of an oversize contest.
InvalidateEntry(c) ==
  /\ entry[c].usable
  /\ ledger' = Dropped(ledger, c)
  /\ flight' = Detached(c, flight)
  /\ \E oversize \in {entry[c].oversize, FALSE} :
       entry' = [entry EXCEPT ![c] = [@ EXCEPT !.hydration = NoFlight, !.oversize = oversize]]
  /\ UNCHANGED <<pins, responses, overrun>>

\* A contest is deleted or disabled, or with all contests the cache is.
CloseEntries(C) ==
  /\ \E c \in C : entry[c].usable
  /\ ledger' = DroppedAll(ledger, C)
  /\ flight' = [f \in Flights |->
                  IF flight[f].contest \in C THEN Detached(flight[f].contest, flight)[f]
                  ELSE flight[f]]
  /\ entry' = [c \in Contests |->
                 IF c \in C THEN [entry[c] EXCEPT !.hydration = NoFlight, !.usable = FALSE]
                 ELSE entry[c]]
  /\ UNCHANGED <<pins, responses, overrun>>

\* An answer in JSON is cut from the snapshot, which stays until it is written out.
PinSnapshot(r, c) ==
  LET s == ledger.snapshot[c]
  IN  /\ IsFree(r, responses, NoResponse)
      /\ entry[c].usable /\ ~entry[c].oversize
      /\ s # NoParts /\ ~ledger.behind[c]
      /\ responses' = [responses EXCEPT ![r] = [contest |-> c, parts |-> s]]
      /\ pins' = [t \in DOMAIN pins \cup {s} |-> IF t = s THEN PinCount(s) + 1 ELSE pins[t]]
      /\ UNCHANGED <<ledger, entry, flight, overrun>>

ReleaseSnapshot(r) ==
  LET s == responses[r].parts
      last == PinCount(s) <= 1
  IN  /\ responses[r] # NoResponse
      /\ responses' = [responses EXCEPT ![r] = NoResponse]
      /\ pins' = IF last THEN [t \in DOMAIN pins \ {s} |-> pins[t]]
                 ELSE [pins EXCEPT ![s] = @ - 1]
      /\ ledger' = IF last /\ s \in ledger.retired
                   THEN UpdateMemory([ledger EXCEPT !.retired = @ \ {s}],
                                     responses[r].contest, s, 0, -1)
                   ELSE ledger
      /\ UNCHANGED <<entry, flight, overrun>>

BudgetNext ==
  \/ \E f \in Flights, c \in Contests : StartHydration(f, c)
  \/ \E f \in Flights : LeaveQueue(f)
  \/ \E f \in Flights : BeginHydration(f)
  \/ \E f \in Flights : EstimatePage(f)
  \/ \E f \in Flights : ReadPage(f)
  \/ \E f \in Flights : FollowTarget(f)
  \/ \E f \in Flights : MaterializeSnapshot(f)
  \/ \E f \in Flights : HydrationUnavailable(f)
  \/ \E f \in Flights : HydrationFails(f)
  \/ \E f \in Flights, gone \in BOOLEAN : AuthorityDiffers(f, gone)
  \/ \E c \in Contests : ObserveTarget(c)
  \/ \E c \in Contests : ObserveCommittedAppend(c)
  \/ \E c \in Contests : InvalidateEntry(c)
  \/ \E c \in Contests : CloseEntries({c})
  \/ CloseEntries(Contests)
  \/ \E r \in Responses, c \in Contests : PinSnapshot(r, c)
  \/ \E r \in Responses : ReleaseSnapshot(r)

BudgetSpec == BudgetInit /\ [][BudgetNext]_budgetVars
=============================================================================
