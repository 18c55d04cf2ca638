--------------------------- MODULE LiveViewProps ---------------------------
(***************************************************************************)
(* What the page shows, however frames, ticks, resets and sessions         *)
(* interleave.                                                             *)
(***************************************************************************)
EXTENDS LiveView

ViewBoards ==
  [generation : 0 .. MaxSessions, rev : 0 .. MaxResets + 1, applied : 0 .. MaxApplied]

\* Type invariant.
ViewTypeOK ==
  /\ page.key \in Keys \cup {NoKey} /\ page.data \in Keys \cup {NoKey}
  /\ live.generation \in 0 .. MaxSessions /\ live.consumer \in {"none", "initial", "live"}
  /\ BoardOf(live) \in ViewBoards /\ screen.board \in ViewBoards
  /\ publication.frame \in {NoFrame} \cup 0 .. MaxSessions
  /\ Range(panel) \cup Range(delivered) \cup Range(publication.items) \subseteq ViewBoards
  /\ \A t \in Range(ticks) : t.kind \in {"push", "reset"} /\ Range(t.items) \subseteq ViewBoards

\* The rows after the callbacks of ts have run, one after the other.
AfterTicks(rows, ts, generation) ==
  LET after[n \in 0 .. Len(ts)] ==
        IF n = 0 THEN rows ELSE AfterTick(after[n - 1], ts[n], generation)
  IN  after[Len(ts)]

PanelAfter == AfterTicks(panel, ticks, live.generation)

Current(board) == board.generation = live.generation /\ board.rev = live.rev

\* Nothing of an earlier session or revision is on the screen or will get there.
NothingStale ==
  page.key # NoKey =>
    /\ screen.board # NoBoard => Current(screen.board)
    /\ publication.board # NoBoard => Current(publication.board)
    /\ \A item \in Range(PanelAfter) \cup Range(publication.items) : Current(item)

\* Once the route and its data are followed, the board is of the contest they name.
OwnContest ==
  page.key # NoKey /\ signature = page /\ screen.board # NoBoard =>
    page.data = page.key /\ live.uk = page.key

\* The newest board is shown or has a frame, and every row of the revision is on the
\* panel or on its way to it, once and in order.
NothingWithheld ==
  live.consumer = "live" /\ ~screen.failed =>
    /\ \/ screen.board = BoardOf(live)
       \/ publication.frame = live.generation /\ publication.board = BoardOf(live)
    /\ publication.items # <<>> => publication.frame = live.generation
    /\ scrolling => PanelAfter \o publication.items = delivered

\* The screen follows the stream (queueLivePublication, onReset, stopLiveSession):
\* boards and rows of an earlier session or revision never appear although frames and
\* ticks outlive them, and none of the current revision is left out.
ScreenFollowsStream == NothingStale /\ OwnContest /\ NothingWithheld
============================================================================
