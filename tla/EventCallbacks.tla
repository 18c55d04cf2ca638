-------------------------- MODULE EventCallbacks ---------------------------
(***************************************************************************)
(* What a session of ContestEventConsumer promises the view that gives it  *)
(* callbacks, whatever pages, notifications, retries and late answers lie  *)
(* behind: the events of one revision from its first, in order and each    *)
(* once; first those that were there at the beginning, all of them before  *)
(* any other; nothing after a reset but what belongs to the new revision;  *)
(* and nothing at all once the session is over.                            *)
(***************************************************************************)
EXTENDS Integers, Sequences

CONSTANTS MaxRevision, MaxEventId  \* bounds on the stream explored

VARIABLES
  phase,     \* "silent" before the first callback, "initial" while the events
             \* that were there are given, "live", or "over"
  revision,  \* of the events that are given
  boundary,  \* how many of them are given as initial events
  given      \* the events since the last reset; the view's board is made of them

callbackVars == <<phase, revision, boundary, given>>

Batch(count) ==
  [n \in 1 .. count |-> [rev |-> revision, id |-> Len(given) + n]]

\* Without events to begin with, the initial events are complete at once.
Opened(count) == IF count = 0 THEN {"initial", "live"} ELSE {"initial"}

Opens(rev, count) ==
  /\ phase' \in Opened(count)
  /\ revision' = rev
  /\ boundary' = count
  /\ given' = << >>

\* The session has learnt what there is.
Begin(rev, count) ==
  /\ phase = "silent"
  /\ Opens(rev, count)

Gives(count) ==
  /\ given' = given \o Batch(count)
  /\ UNCHANGED <<revision, boundary>>

\* onInitialEvents with more to come.
OnInitialEvents(count) ==
  /\ phase = "initial"
  /\ Len(given) + count < boundary
  /\ Gives(count)
  /\ UNCHANGED phase

\* onInitialEvents with the last of them, or with none.
OnInitialEventsComplete(count) ==
  /\ phase = "initial"
  /\ Len(given) + count = boundary
  /\ Gives(count)
  /\ phase' = "live"

\* onEvents.
OnEvents(count) ==
  /\ phase = "live"
  /\ Gives(count)
  /\ UNCHANGED phase

\* onReset: everything is given again from the first event.
OnReset(rev, count) ==
  /\ phase \in {"initial", "live"}
  /\ rev >= revision
  /\ Opens(rev, count)

\* onFatal, or stop.
End ==
  /\ phase # "over"
  /\ phase' = "over" /\ revision' = 0 /\ boundary' = 0 /\ given' = << >>

Init == phase = "silent" /\ revision = 0 /\ boundary = 0 /\ given = << >>

Next ==
  \/ \E rev \in 1 .. MaxRevision, count \in 0 .. MaxEventId :
       Begin(rev, count) \/ OnReset(rev, count)
  \/ \E count \in 1 .. MaxEventId : OnInitialEvents(count) \/ OnEvents(count)
  \/ \E count \in 0 .. MaxEventId : OnInitialEventsComplete(count)
  \/ End

Spec == Init /\ [][Next]_callbackVars
============================================================================
