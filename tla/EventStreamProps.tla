------------------------- MODULE EventStreamProps -------------------------
(***************************************************************************)
(* What the event log owes its producers and its readers.                  *)
(***************************************************************************)
EXTENDS EventStream

\* Type invariant.
TypeOK ==
  /\ contest \in Contest
  /\ stream \in Stream
  /\ rows \subseteq Row
  /\ acked \subseteq [rev : Nat \ {0}, event : ProducerEvent]
  /\ writers \subseteq Producers

\* Every revision, the archived ones too, holds each of the ids 1 .. n exactly
\* once for some n: whatever mix of duplicates, overlaps and late batches was
\* submitted, no hole and no second row for an id was ever committed.
LogContiguous ==
  /\ \A r, q \in rows : (r.rev = q.rev /\ r.id = q.id) => r = q
  /\ \A r \in rows : \A n \in 1 .. r.id :
       \E q \in rows : q.rev = r.rev /\ q.id = n

\* The watermark of the stream row, which is all that notifications and caches
\* ever see, is exactly the last id of the current revision's log.
WatermarkIsLogEnd ==
  /\ \A r \in rows : r.rev <= stream.rev
  /\ \A r \in CurrentRows : r.id <= stream.last
  /\ stream.last > 0 => \E r \in CurrentRows : r.id = stream.last

\* The log is whole, in every revision and up to exactly what is announced of it.
LogIsWhole == LogContiguous /\ WatermarkIsLogEnd

\* Whatever an append response acknowledged, as accepted or as duplicate, is in
\* the log with the payload the producer sent, for ever.
AckDurable ==
  \A a \in acked : \E r \in rows :
    r.rev = a.rev /\ r.id = a.event.id /\ SamePayload(r, a.event)

\* A stored progress, settle or change carries the submit time of a NEW of its
\* solution that precedes it in its own revision; the freeze filter looks at
\* nothing else.
SubmitTimeResolved ==
  \A r \in rows : NeedsSubmitTime(r) =>
    \E q \in rows :
      /\ q.type = "NEW"
      /\ q.sol = r.sol
      /\ q.rev = r.rev
      /\ q.id < r.id
      /\ q.submit = r.submit

\* Between two moments at which the lock was free, all insertions are by one
\* producer, the lock's holder.
SingleWriter == \A p \in writers : p = stream.producer

\* A finalized stream that has events was complete when it was sealed: every
\* solution of its current revision ends in a final verdict.
SealedIsJudged ==
  (contest.status = "Finalized" /\ stream.last > 0) =>
    \A r \in CurrentRows : r.type = "NEW" =>
      \E q \in CurrentRows :
        /\ q.type \in Settling /\ q.judged /\ q.sol = r.sol /\ q.id > r.id
        /\ \A x \in CurrentRows : x.sol = r.sol => x.id <= q.id

\* The log is append-only: a committed row is never changed or removed, not by
\* a reset either, and new rows lie beyond the watermark of the current revision.
AppendOnly ==
  /\ rows \subseteq rows'
  /\ \A r \in rows' \ rows : r.rev = stream.rev /\ r.id > stream.last

\* The (revision, last id) pair that is announced after each commit only grows: within
\* a revision, or to the next one, which begins without events and is never skipped.
WatermarkMonotone ==
  \/ stream'.rev = stream.rev + 1 /\ stream'.last = 0
  \/ stream'.rev = stream.rev /\ stream'.last >= stream.last

\* After finalization neither the log nor the watermark changes again, and the
\* contest stays finalized, so the published archive stays the whole story.
SealedByFinalize ==
  contest.status = "Finalized" =>
    /\ contest'.status = "Finalized"
    /\ rows' = rows
    /\ stream'.rev = stream.rev
    /\ stream'.last = stream.last

\* No step rewrites history: whatever is appended, reset, corrected, finalized or
\* deleted in any order, all three of the above.
HistoryStands == [][AppendOnly /\ WatermarkMonotone /\ SealedByFinalize]_vars
============================================================================
