---------------------------- MODULE ScrollQueue ----------------------------
(***************************************************************************)
(* The solutions that scroll by beside a live ranklist                     *)
(* (scroll-solution-state.ts, driven by ScrollSolution.vue and             *)
(* live.view.vue): first blood is shown at once, everything else waits in  *)
(* a queue that a timer empties one by one, and what is shown goes when    *)
(* its own timer fires or when newer items need its place.                 *)
(*                                                                         *)
(* Rows are numbered as they are pushed.  Delays are left out: a timer     *)
(* that is set may fire at any time.                                       *)
(***************************************************************************)
EXTENDS Integers, Sequences, SequencesExt

CONSTANTS
  MaxRows,    \* bound on the rows pushed
  PopLimits,  \* places on the screen, which change with its height
  CompactAt   \* consumed rows after which the queue's array is compacted

ASSUME ScrollAssumption ==
  /\ MaxRows \in Nat
  /\ PopLimits \subseteq Nat \ {0} /\ PopLimits # {}
  /\ CompactAt \in Nat

VARIABLES
  lane,        \* the fields queue, queueHead, running and queueTimer
  visible,     \* visibleItems: [key, row]
  dismissals,  \* the keys of dismissalTimerByKey
  nextKey,
  timers,      \* the browser: dismissal timers that are set, by key
  laneTimers,  \* the browser: how many timers of the queue are set
  pushed,      \* history: the rows pushed so far
  gone         \* history: the rows that were shown, or cleared by a reset

scrollVars ==
  <<lane, visible, dismissals, nextKey, timers, laneTimers, pushed, gone>>

EmptyLane(running) == [queue |-> <<>>, head |-> 0, running |-> running, timer |-> FALSE]

Pending(l) == SubSeq(l.queue, l.head + 1, Len(l.queue))

KeysOf(items) == {items[i].key : i \in DOMAIN items}

----------------------------------------------------------------------------
\* scheduleQueue, with the browser's timers before it.
ScheduleQueue(l, set) ==
  IF l.running /\ ~l.timer /\ Pending(l) # <<>>
  THEN lane' = [l EXCEPT !.timer = TRUE] /\ laneTimers' = set + 1
  ELSE lane' = l /\ laneTimers' = set

Screen == [items |-> visible, set |-> timers, byKey |-> dismissals, key |-> nextKey]

\* Wrong: items that lose their place keep their timers.
DroppedNone(screen, kept) == {}

\* The items that lose their place, whose timers are cleared.
Dropped(screen, kept) == KeysOf(screen.items) \ KeysOf(kept)

\* pop, on a screen with room for limit items.
Popped(screen, row, limit) ==
  LET items == Append(screen.items, [key |-> screen.key, row |-> row])
      kept == SubSeq(items, 1 + (IF Len(items) > limit THEN Len(items) - limit ELSE 0),
                     Len(items))
      dropped == Dropped(screen, kept)
  IN  [items |-> kept,
       set |-> (screen.set \ dropped) \cup {screen.key},
       byKey |-> (screen.byKey \ dropped) \cup {screen.key},
       key |-> screen.key + 1]

ShowScreen(screen) ==
  /\ visible' = screen.items
  /\ timers' = screen.set
  /\ dismissals' = screen.byKey
  /\ nextKey' = screen.key

\* A row goes to the end of the queue, which starts over when it is consumed.
Enqueued(l, row) ==
  LET consumed == l.head = Len(l.queue)
  IN  [l EXCEPT !.queue = Append(IF consumed THEN <<>> ELSE @, row),
                !.head = IF consumed THEN 0 ELSE @]

\* A row is pushed: first blood is shown at once.
PushRow(s, row, first, limit) ==
  IF first THEN [s EXCEPT !.screen = Popped(@, row, limit)]
  ELSE [s EXCEPT !.lane = Enqueued(@, row)]

\* All rows are; the ones in firsts are first blood.
AfterRows(count, firsts, limit) ==
  LET after[n \in 0 .. count] ==
        IF n = 0 THEN [lane |-> lane, screen |-> Screen]
        ELSE PushRow(after[n - 1], pushed + n, pushed + n \in firsts, limit)
  IN  after[count]

\* pushSolutions.
PushSolutions(count, firsts, limit) ==
  /\ lane.running
  /\ pushed + count <= MaxRows
  /\ LET after == AfterRows(count, firsts, limit)
     IN  /\ ShowScreen(after.screen)
         /\ ScheduleQueue(after.lane, laneTimers)
  /\ pushed' = pushed + count
  /\ gone' = gone \cup firsts

\* compactQueue.
Compacted(l) ==
  IF l.head = Len(l.queue) \/ (l.head >= CompactAt /\ 2 * l.head >= Len(l.queue))
    THEN [l EXCEPT !.queue = Pending(l), !.head = 0] ELSE l

\* Wrong: the next timer is left to the next push.
RescheduleNot(l, set) == lane' = l /\ laneTimers' = set

Reschedule(l, set) == ScheduleQueue(l, set)

\* popFromQueue; a queue that is not running has nothing pending.
PopFromQueue(limit) ==
  /\ laneTimers > 0
  /\ LET fired == [lane EXCEPT !.timer = FALSE]
     IN  IF ~lane.running \/ Pending(lane) = <<>>
         THEN /\ Reschedule(fired, laneTimers - 1)
              /\ UNCHANGED <<visible, dismissals, nextKey, timers, gone>>
         ELSE /\ ShowScreen(Popped(Screen, Head(Pending(lane)), limit))
              /\ Reschedule(Compacted([fired EXCEPT !.head = @ + 1]), laneTimers - 1)
              /\ gone' = gone \cup {Head(Pending(lane))}
  /\ UNCHANGED pushed

\* The items but the one with key.
Undismissed(items, key) ==
  LET kept[n \in 0 .. Len(items)] ==
        IF n = 0 THEN <<>>
        ELSE IF items[n].key = key THEN kept[n - 1]
        ELSE Append(kept[n - 1], items[n])
  IN  kept[Len(items)]

\* The dismissal timer of an item fires.
Dismiss(key) ==
  /\ key \in timers
  /\ timers' = timers \ {key}
  /\ dismissals' = dismissals \ {key}
  /\ visible' = Undismissed(visible, key)
  /\ UNCHANGED <<lane, nextKey, laneTimers, pushed, gone>>

\* clearTimers, and nothing is shown or pending any more.
Cleared(running) ==
  /\ timers' = timers \ dismissals
  /\ laneTimers' = IF lane.timer THEN laneTimers - 1 ELSE laneTimers
  /\ dismissals' = {}
  /\ visible' = <<>>
  /\ lane' = EmptyLane(running)
  /\ gone' = 1 .. pushed
  /\ UNCHANGED <<nextKey, pushed>>

\* The consumer starts another revision, or the view another session.
ResetSolutions == lane.running /\ Cleared(TRUE)

\* ScrollSolution is mounted, and unmounted.
StartScrolling ==
  /\ ~lane.running
  /\ ScheduleQueue([lane EXCEPT !.running = TRUE], laneTimers)
  /\ UNCHANGED <<visible, dismissals, nextKey, timers, pushed, gone>>

StopScrolling == lane.running /\ Cleared(FALSE)

----------------------------------------------------------------------------
ScrollInit ==
  /\ lane = EmptyLane(FALSE)
  /\ visible = <<>>
  /\ dismissals = {} /\ timers = {}
  /\ nextKey = 1
  /\ laneTimers = 0
  /\ pushed = 0
  /\ gone = {}

ScrollNext ==
  \/ \E count \in 1 .. MaxRows - pushed, limit \in PopLimits :
       \E firsts \in SUBSET (pushed + 1 .. pushed + count) :
         PushSolutions(count, firsts, limit)
  \/ \E limit \in PopLimits : PopFromQueue(limit)
  \/ \E key \in timers : Dismiss(key)
  \/ ResetSolutions \/ StartScrolling \/ StopScrolling

ScrollSpec == ScrollInit /\ [][ScrollNext]_scrollVars
============================================================================
