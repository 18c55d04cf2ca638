---------------------------- MODULE SseHubProps ----------------------------
(***************************************************************************)
(* What the hub owes the connections it holds.                             *)
(***************************************************************************)
EXTENDS SseHub

\* Type invariant.
TypeOK ==
  /\ scheduled \in BOOLEAN
  /\ client \in [Clients -> Client]
  /\ fan \in FanoutState
  /\ cycle \in FanoutCycle
  /\ draining \in BOOLEAN
  /\ owed \in [Clients -> MaybeWatermark]
  /\ announced \subseteq Watermarks

AtLeast(w, v) == ~Newer(v, w)

\* The shards of the running cycle that are still to be flushed hold c.
StillToVisit(c) ==
  /\ cycle.on
  /\ \E i \in cycle.index .. NumShards - 1 :
       c \in cycle.members[(cycle.first + i) % NumShards]

\* Some path on which c will still be told w or something newer.
Covered(c, w) ==
  \/ AtLeast(Latest(client[c].lastSent, client[c].pending), w)
  \/ client[c].paused /\ AtLeast(fan.accepted, w)
  \/ AtLeast(fan.queued, w)
  \/ StillToVisit(c) /\ AtLeast(cycle.watermark, w)

\* Nothing is forgotten: what was announced while a connection was open has been
\* written to it, is pending, or is on a path that will still reach it, although
\* queueFanout drops what it thinks is old, a cycle only visits the connections
\* it found when it started, and a blocked connection keeps one watermark only.
NothingForgotten ==
  \A c \in Open(client) : Covered(c, owed[c])

\* Work is never left without a timer: a queued watermark or a running cycle
\* always has exactly the timer that will take it up.
WorkHasTimer ==
  /\ fan.timer = "start" <=> (fan.queued # NoWatermark /\ ~cycle.on)
  /\ fan.timer = "flush" <=> cycle.on

\* The fan-out state lives exactly as long as the contest has connections here,
\* so a contest nobody watches leaves nothing behind.
FanoutLifetime == fan.on <=> (scheduled /\ Open(client) # {})

\* A watermark waits only on a connection that cannot be written to now, and
\* only if it is news to it; nobody else would ever send it.
PendingHasWaker ==
  \A c \in Clients : client[c].pending # NoWatermark =>
    /\ client[c].phase = "open"
    /\ client[c].paused \/ client[c].blocked
    /\ Newer(client[c].pending, client[c].lastSent)

\* A connection that is not activated yet has been told nothing.
PausedIsSilent == \A c \in Clients : client[c].paused => client[c].lastSent = NoWatermark

\* What waits is taken up: a queued watermark by its timer, a pending one by its
\* connection's drain, what comes before its activation by that, and nothing waits in a
\* hub that nobody watches.
WaitingEnds == WorkHasTimer /\ FanoutLifetime /\ PendingHasWaker /\ PausedIsSilent

\* The hub implements the feed its subscribers rely on: see WatermarkFeed.
Feed == INSTANCE WatermarkFeed WITH
  state <- [c \in Clients |-> client[c].phase],
  told <- [c \in Clients |-> client[c].lastSent]

FeedSpec == Feed!Spec
============================================================================
