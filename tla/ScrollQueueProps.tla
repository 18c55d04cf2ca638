-------------------------- MODULE ScrollQueueProps -------------------------
(***************************************************************************)
(* What holds of the solutions that scroll by.                             *)
(***************************************************************************)
EXTENDS ScrollQueue

\* Type invariant.
ScrollTypeOK ==
  /\ lane.head \in 0 .. Len(lane.queue)
  /\ lane.running \in BOOLEAN /\ lane.timer \in BOOLEAN
  /\ \A i \in DOMAIN lane.queue : lane.queue[i] \in 1 .. pushed
  /\ \A i \in DOMAIN visible : visible[i].row \in 1 .. pushed
  /\ dismissals \subseteq 1 .. nextKey - 1
  /\ nextKey \in 1 .. MaxRows + 1
  /\ laneTimers \in Nat
  /\ pushed \in 0 .. MaxRows

\* Every item on the screen has the one timer that will take it away, whatever it was
\* pushed out by and however often everything was cleared, and no timer is left of an
\* item that is gone; the queue is emptied by exactly one timer as long as it has
\* something; and what is pending is exactly what was pushed and not shown, in the
\* order it was pushed, wherever the array was compacted.
NothingSticks ==
  /\ timers = KeysOf(visible) /\ dismissals = timers
  /\ \A i, j \in DOMAIN visible : i < j => visible[i].key < visible[j].key
  /\ \A limit \in PopLimits : (\A other \in PopLimits : other <= limit) => Len(visible) <= limit
  /\ laneTimers = (IF lane.running /\ Pending(lane) # <<>> THEN 1 ELSE 0)
  /\ ToSet(Pending(lane)) = (1 .. pushed) \ gone
  /\ \A i, j \in DOMAIN Pending(lane) : i < j => Pending(lane)[i] < Pending(lane)[j]

\* Timers that are set fire.
ScrollFairness ==
  /\ WF_scrollVars(\E limit \in PopLimits : PopFromQueue(limit))
  /\ \A key \in 1 .. MaxRows : WF_scrollVars(Dismiss(key))

ScrollFairSpec == ScrollSpec /\ ScrollFairness

\* Everything scrolls by: what was pushed is shown, unless it is cleared, and what is
\* shown leaves the screen.
EverythingScrollsBy ==
  /\ \A row \in 1 .. MaxRows : row <= pushed ~> row \in gone
  /\ \A key \in 1 .. MaxRows : key \in KeysOf(visible) ~> key \notin KeysOf(visible)
============================================================================
