------------------------------- MODULE Board -------------------------------
(***************************************************************************)
(* The ranklist as it is projected from events (live-ranklist-projector.ts): *)
(* results by solution, rows that are rebuilt only for the users a batch   *)
(* has touched, and for every problem a binary heap of its accepted        *)
(* solutions, with the place of each in it, whose top is first blood.      *)
(*                                                                         *)
(* A row is the set of judged solutions it was built from: scores, statuses *)
(* and the order of rows are computed from it by a library.  A solution's  *)
(* id is the place of its NEW event; user, problem and time of submission  *)
(* come with it.  Every result but AC, "?" and the unjudged is "RJ".       *)
(***************************************************************************)
EXTENDS Integers, Sequences

CONSTANTS
  Problems, Users,
  Submissions,   \* solutions, by id: [user, problem, time]
  FreezeTime,    \* submissions from then on are frozen
  Results,       \* of SETTLE and CHANGE; "none" for the unjudged
  MaxBatch       \* bound on the events of a batch

ASSUME BoardAssumption ==
  /\ Submissions \in Seq([user : Users, problem : Problems, time : Nat])
  /\ FreezeTime \in Nat /\ MaxBatch \in Nat
  /\ Results \subseteq {"AC", "RJ", "?", "none"}

VARIABLES
  projection,  \* the projector's maps
  touched,     \* users touched by what was ingested before the first publication
  rows,        \* rows as published, by user
  marked,      \* the solution shown as first blood in them, by problem; 0: none
  rolled,      \* the solutions announced as first blood with the last live batch
  following    \* whether the initial events are all there

boardVars == <<projection, touched, rows, marked, rolled, following>>

SolutionIds == DOMAIN Submissions

BlankProjection ==
  [known |-> 0,
   result |-> [s \in SolutionIds |-> "none"],
   frozen |-> [s \in SolutionIds |-> FALSE],
   heap |-> [p \in Problems |-> <<>>],
   place |-> [s \in SolutionIds |-> 0],
   first |-> [p \in Problems |-> 0]]

\* compareStoredSolutions: by time of submission, then by event id.
Precedes(s, t) ==
  \/ Submissions[s].time < Submissions[t].time
  \/ Submissions[s].time = Submissions[t].time /\ s < t

----------------------------------------------------------------------------
(* The heaps.  h is a heap with the places of its solutions and the place  *)
(* at which a loop is.  Places count from 1, 0 means none.                 *)

\* swapAcceptedSolutions; the loop goes on at the other place.
Swapped(h, other) ==
  LET s == h.heap[h.at]
      t == h.heap[other]
  IN  [heap |-> [h.heap EXCEPT ![h.at] = t, ![other] = s],
       place |-> [h.place EXCEPT ![s] = other, ![t] = h.at],
       at |-> other]

\* One turn of siftAcceptedSolutionUp and of siftAcceptedSolutionDown.
Rise(h) ==
  IF h.at > 1 /\ Precedes(h.heap[h.at], h.heap[h.at \div 2])
  THEN Swapped(h, h.at \div 2) ELSE h

Sink(h) ==
  LET left == 2 * h.at
      child == IF left + 1 <= Len(h.heap) /\ Precedes(h.heap[left + 1], h.heap[left])
               THEN left + 1 ELSE left
  IN  IF left <= Len(h.heap) /\ Precedes(h.heap[child], h.heap[h.at])
      THEN Swapped(h, child) ELSE h

\* The loops, which take fewer turns than there are places; what is settled stays.
SiftUp(h) ==
  LET turn[n \in 0 .. Len(h.heap)] == IF n = 0 THEN h ELSE Rise(turn[n - 1])
  IN  turn[Len(h.heap)]

SiftDown(h) ==
  LET turn[n \in 0 .. Len(h.heap)] == IF n = 0 THEN h ELSE Sink(turn[n - 1])
  IN  turn[Len(h.heap)]

AddAccepted(h, s) ==
  LET end == Len(h.heap) + 1
  IN  SiftUp([heap |-> Append(h.heap, s), place |-> [h.place EXCEPT ![s] = end], at |-> end])

\* Wrong: the solution that takes the place of the removed one can only sink.
SettledDown(h) == SiftDown(h)

Settled(h) ==
  IF h.at > 1 /\ Precedes(h.heap[h.at], h.heap[h.at \div 2]) THEN SiftUp(h) ELSE SiftDown(h)

\* The last solution of the heap takes the place of the removed one.
RemoveAccepted(h, s) ==
  LET i == h.place[s]
      last == h.heap[Len(h.heap)]
      shorter == SubSeq(h.heap, 1, Len(h.heap) - 1)
      gone == [h.place EXCEPT ![s] = 0]
  IN  IF i > Len(shorter) THEN [heap |-> shorter, place |-> gone, at |-> i]
      ELSE Settled([heap |-> [shorter EXCEPT ![i] = last],
                    place |-> [gone EXCEPT ![last] = i], at |-> i])

\* updateAcceptedIndex, for a solution that gets another result.
UpdateAcceptedIndex(b, s, result) ==
  LET p == Submissions[s].problem
      old == [heap |-> b.heap[p], place |-> b.place, at |-> 0]
      new == IF b.result[s] = "AC" /\ result # "AC" THEN RemoveAccepted(old, s)
             ELSE IF b.result[s] # "AC" /\ result = "AC" THEN AddAccepted(old, s)
             ELSE old
  IN  [known |-> b.known,
       result |-> [b.result EXCEPT ![s] = result],
       frozen |-> b.frozen,
       heap |-> [b.heap EXCEPT ![p] = new.heap],
       place |-> new.place,
       first |-> [b.first EXCEPT ![p] = IF new.heap = <<>> THEN 0 ELSE new.heap[1]]]

----------------------------------------------------------------------------
(* Events. *)

Events ==
  [type : {"new"}, solution : SolutionIds]
  \cup [type : {"settle"}, solution : SolutionIds, result : Results]

\* The NEW of a solution is taken once, in the order of the log.
New(b, s) ==
  LET frozen == Submissions[s].time >= FreezeTime
  IN  [b EXCEPT !.known = s,
                !.frozen = [@ EXCEPT ![s] = frozen],
                !.result = [@ EXCEPT ![s] = IF frozen THEN "?" ELSE "none"]]

\* SETTLE and CHANGE: without a result a frozen solution stays "?".
Settle(b, s, result) ==
  LET projected == IF result = "none" /\ b.frozen[s] THEN "?" ELSE result
      frozen == result = "?" \/ (result = "none" /\ b.frozen[s])
  IN  [UpdateAcceptedIndex(b, s, projected) EXCEPT !.frozen = [@ EXCEPT ![s] = frozen]]

\* consume, one event; what nobody has heard of, or has heard before, is ignored.
Consume1(c, e) ==
  LET b == c.projection
      user == Submissions[e.solution].user
      new == New(b, e.solution)
  IN  IF e.type = "new" /\ e.solution > b.known
      THEN [projection |-> new,
            touched |-> c.touched \cup (IF new.frozen[e.solution] THEN {user} ELSE {}),
            drafts |-> c.drafts]
      ELSE IF e.type = "settle" /\ e.solution <= b.known
      THEN [projection |-> Settle(b, e.solution, e.result),
            touched |-> c.touched \cup {user},
            drafts |-> c.drafts \cup (IF e.result = "AC" THEN {e.solution} ELSE {})]
      ELSE c

Consumed1(b, users, batch) ==
  LET read[i \in 0 .. Len(batch)] ==
        IF i = 0 THEN [projection |-> b, touched |-> users, drafts |-> {}]
        ELSE Consume1(read[i - 1], batch[i])
  IN  read[Len(batch)]

LastKnown(ids) == CHOOSE id \in ids : \A other \in ids : other <= id

\* No solution is passed over; one may come again, or before its NEW.
Batches ==
  {batch \in UNION {[1 .. n -> Events] : n \in 1 .. MaxBatch} :
     \A i \in DOMAIN batch :
       LET news == {k \in 1 .. i - 1 : batch[k].type = "new"}
       IN  batch[i].solution
             <= 1 + LastKnown({projection.known} \cup {batch[j].solution : j \in news})}

----------------------------------------------------------------------------
(* Publication. *)

RowOf(b, user) ==
  {<<s, b.result[s]>> : s \in {t \in 1 .. b.known :
                                 Submissions[t].user = user /\ b.result[t] # "none"}}

\* rebuildUsers.
RebuildUsers(b, users) ==
  [u \in Users |-> IF u \in users THEN RowOf(b, u) ELSE rows[u]]

\* applyFirstBlood: the first accepted solution of that problem in the row of the
\* user whose solution is first.
ApplyFirstBlood(b, newRows) ==
  [p \in Problems |->
     IF b.first[p] = 0 THEN 0
     ELSE LET row == newRows[Submissions[b.first[p]].user]
              accepted == {s \in SolutionIds : <<s, "AC">> \in row
                                               /\ Submissions[s].problem = p}
          IN  IF accepted = {} THEN 0
              ELSE CHOOSE s \in accepted : \A t \in accepted \ {s} : Precedes(s, t)]

Published(b, users) ==
  LET newRows == RebuildUsers(b, users)
  IN  /\ rows' = newRows
      /\ marked' = IF users = {} THEN marked ELSE ApplyFirstBlood(b, newRows)

\* createRollingItems: of the accepted solutions of a batch those that are first
\* blood when the whole batch is applied.
DisplayedFirstBlood(b, drafts) ==
  {s \in drafts : b.first[Submissions[s].problem] = s}

----------------------------------------------------------------------------
IngestInitial(batch) ==
  /\ ~following
  /\ LET c == Consumed1(projection, touched, batch)
     IN  projection' = c.projection /\ touched' = c.touched
  /\ UNCHANGED <<rows, marked, rolled, following>>

FinishInitial ==
  /\ ~following
  /\ Published(projection, touched)
  /\ touched' = {}
  /\ following' = TRUE
  /\ UNCHANGED <<projection, rolled>>

ApplyLive(batch) ==
  /\ following
  /\ LET c == Consumed1(projection, {}, batch)
     IN  /\ projection' = c.projection
         /\ Published(c.projection, c.touched)
         /\ rolled' = DisplayedFirstBlood(c.projection, c.drafts)
  /\ UNCHANGED <<touched, following>>

\* Another revision of the stream begins.
ResetBoard ==
  /\ projection' = BlankProjection
  /\ touched' = {}
  /\ rows' = [u \in Users |-> {}]
  /\ marked' = [p \in Problems |-> 0]
  /\ rolled' = {}
  /\ following' = FALSE

BoardInit ==
  /\ projection = BlankProjection
  /\ touched = {}
  /\ rows = [u \in Users |-> {}]
  /\ marked = [p \in Problems |-> 0]
  /\ rolled = {}
  /\ following = FALSE

BoardNext ==
  \/ \E batch \in Batches : IngestInitial(batch) \/ ApplyLive(batch)
  \/ FinishInitial \/ ResetBoard

BoardSpec == BoardInit /\ [][BoardNext]_boardVars
============================================================================
