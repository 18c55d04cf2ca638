---------------------------- MODULE BoardProps -----------------------------
(***************************************************************************)
(* What holds of the projected board, however the events came in batches.  *)
(***************************************************************************)
EXTENDS Board

AcceptedFor(p) ==
  {s \in 1 .. projection.known : Submissions[s].problem = p /\ projection.result[s] = "AC"}

\* Type invariant of the projection and of what is published.
BoardTypeOK ==
  /\ projection.known \in 0 .. Len(Submissions)
  /\ projection.result \in [SolutionIds -> {"none", "?", "AC", "RJ"}]
  /\ touched \subseteq Users
  /\ \A u \in Users : rows[u] \subseteq SolutionIds \X {"?", "AC", "RJ"}
  /\ marked \in [Problems -> SolutionIds \cup {0}]

\* Nothing gets lost between the batches: once the board is published every row is
\* the one that would be built from all events at once; exactly the earliest accepted
\* solution of a problem is shown as its first blood, after every way to be overtaken,
\* taken back and judged again; and what scrolls by as first blood is first blood on
\* the board that is shown with it.
BoardIsProjection ==
  following =>
    /\ \A u \in Users : rows[u] = RowOf(projection, u)
    /\ \A p \in Problems :
         IF AcceptedFor(p) = {} THEN marked[p] = 0
         ELSE /\ marked[p] \in AcceptedFor(p)
              /\ \A s \in AcceptedFor(p) \ {marked[p]} : Precedes(marked[p], s)
    /\ \A s \in rolled : marked[Submissions[s].problem] = s
============================================================================
