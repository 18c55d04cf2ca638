----------------------------- MODULE LiveView ------------------------------
(***************************************************************************)
(* The live page (live.view.vue): which session runs for the route and the *)
(* loaded data, and how what the consumer delivers gets to the screen.     *)
(* Boards are published once per animation frame, rows that scroll by are  *)
(* pushed to the mounted panel in a later tick, and a reset, a failure or  *)
(* another session may come in between.                                    *)
(*                                                                         *)
(* Vue renders before a tick runs, so the panel is mounted exactly while   *)
(* its condition in the template holds.  A board is the number of events   *)
(* applied to a revision of a session.  LiveConsumer says which events.    *)
(***************************************************************************)
EXTENDS Integers, Sequences, SequencesExt

CONSTANTS
  Keys,        \* contests that a route may name
  NoKey,       \* no route (the page is left), or no data
  MaxSessions, \* bounds: sessions,
  MaxResets,   \* revisions of one session,
  MaxApplied   \* and events of one revision

ASSUME ViewAssumption ==
  /\ NoKey \notin Keys
  /\ MaxSessions \in Nat /\ MaxResets \in Nat /\ MaxApplied \in Nat

VARIABLES
  scrolling,   \* enabledScrollSolution; changing it reloads the page
  page,        \* liveKey, and livePageData's requestedUk
  signature,   \* currentLiveSignature
  live,        \* the session: its generation and contest, the consumer's phase and what
               \* the projector holds
  screen,      \* clientRanklist and clientErrorKind
  publication, \* pendingLiveRanklist, pendingScrollItems and livePublishFrame with the
               \* generation its callback has captured
  ticks,       \* callbacks of $nextTick that have not run, in order
  panel,       \* the rows that were pushed to the mounted ScrollSolution since its reset
  delivered    \* history: the rows of the current revision

viewVars ==
  <<scrolling, page, signature, live, screen, publication, ticks, panel, delivered>>

NoBoard == [generation |-> 0, rev |-> 0, applied |-> 0]
BoardOf(l) == [generation |-> l.generation, rev |-> l.rev, applied |-> l.applied]

NoFrame == -1
NoPublication == [board |-> NoBoard, items |-> <<>>, frame |-> NoFrame]

Blank == [board |-> NoBoard, failed |-> FALSE]

\* The template's condition for ScrollSolution.
Mounted(p, s) == p.key # NoKey /\ scrolling /\ s.board # NoBoard /\ ~s.failed

\* What a render leaves on the panel: nothing when it is unmounted.
Render(p, s, items) ==
  /\ page' = p
  /\ screen' = s
  /\ panel' = IF Mounted(p, s) THEN items ELSE <<>>

----------------------------------------------------------------------------
\* Wrong: what waits to be published is kept.
KeepPending == publication

\* clearPendingLivePublication.
ClearPending == NoPublication

\* stopLiveSession; whether a projector and a consumer follow is the caller's choice.
NextSession(uk, consumer) ==
  /\ live.generation < MaxSessions
  /\ live' = [generation |-> live.generation + 1, uk |-> uk, consumer |-> consumer,
              rev |-> 1, applied |-> 0]
  /\ publication' = ClearPending
  /\ delivered' = <<>>
  /\ UNCHANGED ticks

\* Route and data change when the framework says so.
ChangePage(p) ==
  /\ page.key # NoKey /\ p.key # NoKey /\ p # page
  /\ Render(p, screen, panel)
  /\ UNCHANGED <<scrolling, signature, live, publication, ticks, delivered>>

\* syncLiveState, after mounting and after each update.
SyncLiveState ==
  /\ page.key # NoKey
  /\ signature # page
  /\ signature' = page
  /\ \/ /\ page.data # page.key
        /\ NextSession(NoKey, "none")
        /\ Render(page, Blank, <<>>)
     \/ /\ page.data = page.key
        /\ NextSession(page.key, "initial")
        /\ Render(page, Blank, <<>>)
     \/ \* The projector's constructor throws.
        /\ page.data = page.key
        /\ NextSession(NoKey, "none")
        /\ Render(page, [Blank EXCEPT !.failed = TRUE], <<>>)
  /\ UNCHANGED scrolling

\* beforeUnmount.
LeavePage ==
  /\ page.key # NoKey
  /\ NextSession(NoKey, "none")
  /\ Render([key |-> NoKey, data |-> NoKey], screen, <<>>)
  /\ UNCHANGED <<scrolling, signature>>

----------------------------------------------------------------------------
(* The consumer's callbacks: it is silent once its session is stopped. *)

\* onInitialEvents with a batch that is not the last one, which nothing shows.
InitialBatch ==
  /\ live.consumer = "initial" /\ live.applied < MaxApplied
  /\ live' = [live EXCEPT !.applied = @ + 1]
  /\ UNCHANGED <<scrolling, page, signature, screen, publication, ticks, panel, delivered>>

\* onInitialEvents with the last one.
FinishInitialEvents ==
  /\ live.consumer = "initial"
  /\ live' = [live EXCEPT !.consumer = "live"]
  /\ Render(page, [screen EXCEPT !.board = BoardOf(live)], panel)
  /\ UNCHANGED <<scrolling, signature, publication, ticks, delivered>>

\* Wrong: a batch takes the place of the rows before it.
QueuedOver(p, board, items) ==
  [board |-> board, items |-> IF scrolling /\ items # <<>> THEN items ELSE p.items,
   frame |-> IF p.frame = NoFrame THEN live.generation ELSE p.frame]

\* queueLivePublication.
Queued(p, board, items) ==
  [board |-> board, items |-> IF scrolling THEN p.items \o items ELSE p.items,
   frame |-> IF p.frame = NoFrame THEN live.generation ELSE p.frame]

\* onEvents: the new board, and a row that scrolls by if the event makes one.
DeliverLive(rolls) ==
  /\ live.consumer = "live" /\ live.applied < MaxApplied
  /\ live' = [live EXCEPT !.applied = @ + 1]
  /\ LET items == IF rolls THEN <<BoardOf(live')>> ELSE <<>>
     IN  /\ publication' = Queued(publication, BoardOf(live'), items)
         /\ delivered' = delivered \o items
  /\ UNCHANGED <<scrolling, page, signature, screen, ticks, panel>>

\* onReset: an empty board at once, an empty panel in the next tick.
DeliverReset ==
  /\ live.consumer # "none" /\ live.rev <= MaxResets
  /\ live' = [live EXCEPT !.consumer = "initial", !.rev = @ + 1, !.applied = 0]
  /\ publication' = ClearPending
  /\ Render(page, [screen EXCEPT !.board = BoardOf(live')], panel)
  /\ ticks' = Append(ticks, [kind |-> "reset", generation |-> live.generation, items |-> <<>>])
  /\ delivered' = <<>>
  /\ UNCHANGED <<scrolling, signature>>

\* handleFatalError of the current session.
HandleFatalError ==
  /\ publication' = ClearPending
  /\ Render(page, [board |-> NoBoard, failed |-> TRUE], <<>>)

\* onFatal, after which the consumer stops itself.
DeliverFatal ==
  /\ live.consumer # "none"
  /\ HandleFatalError
  /\ live' = [live EXCEPT !.consumer = "none"]
  /\ UNCHANGED <<scrolling, signature, ticks, delivered>>

----------------------------------------------------------------------------
(* The browser's callbacks. *)

IsSessionCurrent(generation) == generation = live.generation

\* The frame of queueLivePublication.
PublishFrame ==
  /\ publication.frame # NoFrame
  /\ LET p == publication
     IN  IF ~IsSessionCurrent(p.frame)
           THEN /\ publication' = [p EXCEPT !.frame = NoFrame]
                /\ UNCHANGED <<page, screen, panel, ticks>>
           ELSE /\ publication' = NoPublication
                /\ Render(page, [screen EXCEPT !.board = IF p.board = NoBoard THEN @ ELSE p.board],
                          panel)
                /\ ticks' = IF p.items = <<>> THEN ticks
                            ELSE Append(ticks, [kind |-> "push", generation |-> p.frame,
                                                items |-> p.items])
  /\ UNCHANGED <<scrolling, signature, live, delivered>>

\* What a callback of $nextTick makes of the panel's rows.
AfterTick(rows, t, generation) ==
  IF t.generation # generation THEN rows
  ELSE IF t.kind = "push" THEN rows \o t.items
  ELSE <<>>

\* The next callback runs.
RunTick ==
  /\ ticks # <<>>
  /\ Render(page, screen, AfterTick(panel, Head(ticks), live.generation))
  /\ ticks' = Tail(ticks)
  /\ UNCHANGED <<scrolling, signature, live, publication, delivered>>

\* It throws: the page shows the error, and the consumer is not told.
TickThrows ==
  /\ ticks # <<>>
  /\ IsSessionCurrent(Head(ticks).generation)
  /\ HandleFatalError
  /\ ticks' = Tail(ticks)
  /\ UNCHANGED <<scrolling, signature, live, delivered>>

----------------------------------------------------------------------------
ViewInit ==
  /\ scrolling \in BOOLEAN
  /\ page \in [key : Keys, data : Keys \cup {NoKey}]
  /\ signature = [key |-> NoKey, data |-> NoKey]
  /\ live = [generation |-> 0, uk |-> NoKey, consumer |-> "none", rev |-> 1, applied |-> 0]
  /\ screen = Blank
  /\ publication = NoPublication
  /\ ticks = <<>> /\ panel = <<>> /\ delivered = <<>>

ViewNext ==
  \/ \E p \in [key : Keys, data : Keys \cup {NoKey}] : ChangePage(p)
  \/ SyncLiveState \/ LeavePage
  \/ InitialBatch \/ FinishInitialEvents \/ DeliverReset \/ DeliverFatal
  \/ \E rolls \in BOOLEAN : DeliverLive(rolls)
  \/ PublishFrame \/ RunTick \/ TickThrows

ViewSpec == ViewInit /\ [][ViewNext]_viewVars
============================================================================
