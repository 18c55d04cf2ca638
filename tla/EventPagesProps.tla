-------------------------- MODULE EventPagesProps --------------------------
(***************************************************************************)
(* What the two ways to select a page promise.                             *)
(***************************************************************************)
EXTENDS EventPages

CONSTANT Limits  \* page sizes asked for

ASSUME LimitsAssumption == Limits \subseteq Nat \ {0}

\* Type invariant of the log and the snapshot.
PagesTypeOK ==
  /\ Len(events) <= MaxEvents
  /\ snapshot # <<>> =>
       /\ snapshot.last \in 0 .. Len(events)
       /\ Len(snapshot.chunks) = ChunksUpTo(snapshot.last)
       /\ \A s \in Solutions : snapshot.pending[s] \subseteq 1 .. snapshot.last

\* However the snapshot came about, built at once or extended batch by batch across
\* the borders of chunks, a page from it is the page that the service selects from
\* the log as far as the snapshot goes: no event lost or shown twice at a border, the
\* same superseded progress left out, the same cursor to go on from.
PagesAgree ==
  snapshot # <<>> =>
    \A after \in 0 .. snapshot.last, limit \in Limits, compact \in BOOLEAN :
      SnapshotPage(after, limit, compact)
        = ServicePage(after, limit, compact, snapshot.last)

\* The events of a page that it leaves out, those that the freeze hides apart.
LeftOut(page, after) ==
  {id \in after + 1 .. page.checkpoint : VisibleForFreeze(id)} \ page.shown

\* A reader who goes on from each page's cursor misses nothing and is given nothing
\* twice, also when events come in between and the next page reaches further: a page
\* says that there is more exactly when it ends before its fence, and then it has moved
\* on; and it leaves out only progress that a result within its fence supersedes, which
\* this page shows, or the next, or one that is still to come.
ReadersMissNothing ==
  \A compact \in BOOLEAN, limit \in Limits, later \in 0 .. Len(events) :
    \A fence \in 0 .. later : \A after \in 0 .. fence :
      LET page == ServicePage(after, limit, compact, fence)
          following == ServicePage(page.checkpoint, limit, compact, later)
      IN  /\ page.hasMore <=> page.checkpoint < fence
          /\ page.hasMore => after < page.checkpoint
          /\ page.shown \cap following.shown = {}
          /\ \A id \in LeftOut(page, after) : \E result \in id + 1 .. fence :
               /\ compact /\ events[id].type = "progress"
               /\ events[result] = [type |-> "result", solution |-> events[id].solution]
               /\ \/ result \in page.shown \cup following.shown
                  \/ result > following.checkpoint
============================================================================
