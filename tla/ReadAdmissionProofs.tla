------------------------ MODULE ReadAdmissionProofs ------------------------
(***************************************************************************)
(* The bulkhead's slots add up and no connection is shared or goes back    *)
(* into the pool unsafe, for any number of reads, slots, places in the     *)
(* queue, connections and attempts.  The bulkhead and the operations meet  *)
(* in Answer only, so SlotInv is proved for it apart from the rest.  A     *)
(* connection in use has a read that is still at it (Attended), so that    *)
(* none is lost to the pool.                                               *)
(*                                                                         *)
(* Then the pages that reads select, from the log or from the cache: they  *)
(* are the same, because a snapshot is a function of the log, whatever     *)
(* chunks it was built from (SnapshotOf).  Events pass by in a recursion;  *)
(* what it has read after each of them is known (Reading), and two         *)
(* functions that agree on every step are equal.  From the rows it follows *)
(* what a page may leave out, which a reader who asks on does not miss.    *)
(*                                                                         *)
(* Last the memory of the cache.  A ledger is right about so many units    *)
(* owed to hydrations (Books); each operation on a ledger has a lemma that *)
(* says how what is held and what is counted change together, and the      *)
(* handlers are put together from those (Keeping, At).                     *)
(***************************************************************************)
EXTENDS
  ReadAdmissionProps, EventPagesProps, CacheBudgetProps, FiniteSetTheorems, SequenceTheorems,
  WellFoundedInduction, TLAPS

Active == {r \in Reads : caller[r] = "active"}

Queued == {r \in Reads : caller[r] = "queued"}

\* The queue holds each read that is queued, once.
QueueInv ==
  /\ waiting \in Seq(Reads)
  /\ \A i \in 1 .. Len(waiting) : waiting[i] \in Queued
  /\ \A i, j \in 1 .. Len(waiting) : waiting[i] = waiting[j] => i = j
  /\ \A r \in Queued : \E i \in 1 .. Len(waiting) : waiting[i] = r
  /\ Len(waiting) = Cardinality(Queued)

\* The slots are those of the reads that are active, and full while one is queued.
SlotInv ==
  /\ caller \in [Reads -> {"idle", "queued", "active"} \cup Answers]
  /\ disposed \in BOOLEAN
  /\ QueueInv
  /\ busy = Cardinality(Active)
  /\ busy \in 0 .. Concurrency
  /\ waiting # <<>> => busy = Concurrency /\ ~disposed

\* How the phase of an operation goes with what its caller sees.
PhaseInv ==
  /\ operation \in [Reads -> {"none", "pause", "acquire"} \cup Statements]
  /\ tries \in [Reads -> 0 .. MaximumAttempts]
  /\ \A r \in Reads :
       /\ caller[r] \in {"idle", "queued"} => operation[r] = "none" /\ tries[r] = 0
       /\ operation[r] \in Statements \cup {"pause"} => caller[r] = "active"
       /\ operation[r] = "pause" => tries[r] < MaximumAttempts
       /\ operation[r] \in {"start", "commit"} => r \in Transactional
       /\ operation[r] = "rollback" => r \in Transactional

\* How the phase of an operation goes with its connection.
HoldsInPhase(r) ==
  /\ operation[r] \in {"none", "pause"} => held[r] = NoConnection
  /\ operation[r] = "acquire" =>
       held[r] \in Connections /\ pool[held[r]] \in {"connecting", "session"}
  /\ operation[r] \in {"start", "query", "commit"} => held[r] \in Connections
  /\ (operation[r] \in Statements /\ held[r] # NoConnection) => pool[held[r]] = "used"

\* Everybody's does, and nobody shares one.
HoldInv ==
  /\ held \in [Reads -> Connections \cup {NoConnection}]
  /\ pool \in [Connections -> {"closed", "free", "connecting", "session", "used"}]
  /\ \A r \in Reads : HoldsInPhase(r)
  /\ \A r, q \in Reads : (held[r] = held[q] /\ held[r] # NoConnection) => r = q

\* A transaction is open only where the read that opened it still holds it.
DirtyInv ==
  /\ dirty \subseteq Connections
  /\ \A c \in dirty :
       \E r \in Transactional : held[r] = c /\ operation[r] \in Statements

ReadInv == SlotInv /\ PhaseInv /\ HoldInv /\ DirtyInv

----------------------------------------------------------------------------
(* The bulkhead. *)

\* What is counted is finite.
LEMMA CountsAreFinite == IsFiniteSet(Active) /\ IsFiniteSet(Queued)
  BY FS_Subset, ReadAdmissionAssumption DEF Active, Queued

\* A task that finds a free slot takes it.
LEMMA StartKeepsSlots ==
  ASSUME SlotInv, NEW r \in Reads, StartTask(r)
  PROVE  SlotInv'
<1>1. /\ Active' = Active \cup {r} /\ r \notin Active
      /\ Queued' = Queued
  BY DEF StartTask, Active, Queued, SlotInv
<1>2. Cardinality(Active') = Cardinality(Active) + 1
  BY <1>1, CountsAreFinite, FS_AddElement
<1>3. waiting = <<>> /\ waiting' = <<>>
  BY ReadAdmissionAssumption DEF StartTask, SlotInv
<1>4. QueueInv'
  BY <1>1, <1>3 DEF QueueInv, SlotInv
<1>5. QED
  BY <1>2, <1>3, <1>4, ReadAdmissionAssumption DEF StartTask, SlotInv

\* A task that finds none, but a place in the queue, takes that.
LEMMA QueueKeepsSlots ==
  ASSUME SlotInv, NEW r \in Reads, QueueTask(r)
  PROVE  SlotInv'
<1>1. /\ Active' = Active
      /\ Queued' = Queued \cup {r} /\ r \notin Queued
  BY DEF QueueTask, Active, Queued, SlotInv
<1>2. Cardinality(Queued') = Cardinality(Queued) + 1
  BY <1>1, CountsAreFinite, FS_AddElement
<1>3. /\ waiting \in Seq(Reads) /\ waiting' = Append(waiting, r)
      /\ waiting' \in Seq(Reads)
      /\ Len(waiting') = Len(waiting) + 1
      /\ \A i \in 1 .. Len(waiting) : waiting'[i] = waiting[i]
      /\ waiting'[Len(waiting) + 1] = r
  BY DEF QueueTask, SlotInv, QueueInv
<1>4. QueueInv'
  <2>1. Len(waiting) \in Nat
    BY <1>3
  <2>2. \A i \in 1 .. Len(waiting) : waiting[i] # r
    BY <1>1 DEF SlotInv, QueueInv
  <2>3. \A i \in 1 .. Len(waiting') : waiting'[i] \in Queued'
    BY <1>1, <1>3, <2>1 DEF SlotInv, QueueInv
  <2>4. \A i, j \in 1 .. Len(waiting') : waiting'[i] = waiting'[j] => i = j
    BY <1>3, <2>1, <2>2 DEF SlotInv, QueueInv
  <2>5. \A q \in Queued' : \E i \in 1 .. Len(waiting') : waiting'[i] = q
    BY <1>1, <1>3, <2>1 DEF SlotInv, QueueInv
  <2>6. QED  BY <1>2, <1>3, <2>3, <2>4, <2>5 DEF SlotInv, QueueInv
<1>5. QED
  BY <1>1, <1>4, ReadAdmissionAssumption DEF QueueTask, SlotInv

\* The timer of a queued task takes it out of the queue, wherever it stands.
LEMMA TimeoutKeepsSlots ==
  ASSUME SlotInv, NEW r \in Reads, QueueTimeout(r)
  PROVE  SlotInv'
<1>1. /\ Active' = Active
      /\ Queued' = Queued \ {r} /\ r \in Queued
  BY DEF QueueTimeout, Active, Queued, SlotInv, Answers
<1>2. Cardinality(Queued') = Cardinality(Queued) - 1
  BY <1>1, CountsAreFinite, FS_RemoveElement
<1>3. PICK i \in 1 .. Len(waiting) : waiting[i] = r /\ waiting' = Without(i)
  BY DEF QueueTimeout
<1>4. /\ waiting \in Seq(Reads) /\ Len(waiting) \in Nat /\ Len(waiting) > 0
      /\ waiting' \in Seq(Reads)
      /\ Len(waiting') = Len(waiting) - 1
      /\ \A j \in 1 .. Len(waiting') :
           waiting'[j] = IF j < i THEN waiting[j] ELSE waiting[j + 1]
  BY <1>3 DEF SlotInv, QueueInv, Without
<1>5. QueueInv'
  <2>1. \A j \in 1 .. Len(waiting') : waiting'[j] \in Queued'
    BY <1>1, <1>3, <1>4 DEF SlotInv, QueueInv
  <2>2. \A j, k \in 1 .. Len(waiting') : waiting'[j] = waiting'[k] => j = k
    BY <1>3, <1>4 DEF SlotInv, QueueInv
  <2>3. ASSUME NEW q \in Queued'
        PROVE  \E j \in 1 .. Len(waiting') : waiting'[j] = q
    <3>1. PICK k \in 1 .. Len(waiting) : waiting[k] = q
      BY <1>1 DEF SlotInv, QueueInv
    <3>2. k # i
      BY <1>1, <1>3, <3>1
    <3>3. CASE k < i
      <4>1. k \in 1 .. Len(waiting') /\ waiting'[k] = q
        BY <1>3, <1>4, <3>1, <3>3
      <4>2. QED  BY <4>1
    <3>4. CASE k > i
      <4>1. k - 1 \in 1 .. Len(waiting') /\ waiting'[k - 1] = q
        BY <1>3, <1>4, <3>1, <3>4
      <4>2. QED  BY <4>1
    <3>5. QED  BY <1>3, <3>1, <3>2, <3>3, <3>4
  <2>4. QED  BY <1>2, <1>4, <2>1, <2>2, <2>3 DEF SlotInv, QueueInv
<1>6. waiting' # <<>> => waiting # <<>>
  BY <1>4
<1>7. QED
  BY <1>1, <1>5, <1>6 DEF QueueTimeout, SlotInv, Answers

\* A task that is refused, and the end of the bulkhead.
LEMMA RefusalKeepsSlots ==
  ASSUME SlotInv, DisposeBulkhead \/ \E r \in Reads : RefuseTask(r)
  PROVE  SlotInv'
<1>1. CASE \E r \in Reads : RefuseTask(r)
  <2>1. Active' = Active /\ Queued' = Queued
    BY <1>1 DEF RefuseTask, Active, Queued, SlotInv, Answers
  <2>2. QED  BY <1>1, <2>1 DEF RefuseTask, SlotInv, QueueInv, Answers
<1>2. CASE DisposeBulkhead
  <2>1. Active' = Active /\ Queued' = {}
    BY <1>2 DEF DisposeBulkhead, Active, Queued, SlotInv, Answers
  <2>2. waiting' = <<>> /\ Cardinality(Queued') = 0
    BY <1>2, <2>1, FS_EmptySet DEF DisposeBulkhead
  <2>3. QueueInv'
    BY <2>1, <2>2 DEF QueueInv
  <2>4. QED  BY <1>2, <2>1, <2>2, <2>3 DEF DisposeBulkhead, SlotInv, Answers
<1>3. QED  BY <1>1, <1>2

\* When a task has ended, the first of the queue has its slot.
LEMMA AnswerKeepsSlots ==
  ASSUME SlotInv, NEW r \in Reads, caller[r] = "active",
         NEW answer \in Answers, NEW phase, Answer(r, answer, phase)
  PROVE  SlotInv'
<1>. DEFINE first == waiting[1]
<1>1. r \in Active /\ r \notin Queued
  BY DEF Active, Queued
<1>2. Cardinality(Active \ {r}) = Cardinality(Active) - 1
  BY <1>1, CountsAreFinite, FS_RemoveElement
<1>3. busy \in 1 .. Concurrency
  BY <1>1, <1>2, CountsAreFinite, FS_CardinalityType, FS_RemoveElement,
     ReadAdmissionAssumption DEF SlotInv
<1>4. CASE waiting = <<>>
  <2>1. Drained = 0
    BY <1>4 DEF Drained
  <2>2. /\ waiting' = <<>> /\ busy' = busy - 1
        /\ caller' = [q \in Reads |-> IF q = r THEN answer ELSE caller[q]]
    <3>1. {waiting[i] : i \in 1 .. Drained} = {}
      <4>1. 1 .. Drained = {}
        BY <2>1
      <4>2. QED  BY <4>1
    <3>2. caller' = [q \in Reads |-> IF q = r THEN answer ELSE caller[q]]
      BY <3>1, Zenon DEF Answer
    <3>3. waiting' = SubSeq(<<>>, 1, 0)
      BY <1>4, <2>1 DEF Answer
    <3>4. waiting' = <<>>
      BY <3>3
    <3>5. busy' = busy - 1
      BY <1>3, <2>1 DEF Answer
    <3>6. QED  BY <3>2, <3>4, <3>5
  <2>3. Active' = Active \ {r} /\ Queued' = Queued
    BY <1>1, <2>2 DEF Active, Queued, SlotInv, Answers
  <2>4. QueueInv'
    BY <1>4, <2>2, <2>3 DEF SlotInv, QueueInv
  <2>5. QED
    BY <1>2, <1>3, <2>2, <2>3, <2>4, ReadAdmissionAssumption
       DEF Answer, SlotInv, Answers
<1>5. CASE waiting # <<>>
  <2>1. /\ waiting \in Seq(Reads) /\ Len(waiting) \in Nat /\ Len(waiting) > 0
        /\ busy = Concurrency /\ ~disposed
    BY <1>5 DEF SlotInv, QueueInv
  <2>2. Drained = 1
    BY <1>3, <1>5, <2>1, ReadAdmissionAssumption DEF Drained
  <2>3. first \in Queued /\ first # r /\ first \in Reads
    BY <1>1, <2>1 DEF SlotInv, QueueInv, Queued
  <2>4. /\ waiting' = SubSeq(waiting, 2, Len(waiting)) /\ busy' = busy
        /\ caller' = [q \in Reads |-> IF q = r THEN answer
                                     ELSE IF q = first THEN "active"
                                     ELSE caller[q]]
    <3>1. {waiting[i] : i \in 1 .. Drained} = {first}
      <4>1. 1 .. Drained = {1}
        BY <2>2
      <4>2. QED  BY <4>1
    <3>2. caller' = [q \in Reads |-> IF q = r THEN answer
                                   ELSE IF q \in {first} THEN "active"
                                   ELSE caller[q]]
      BY <3>1, Zenon DEF Answer
    <3>3. caller' = [q \in Reads |-> IF q = r THEN answer
                                   ELSE IF q = first THEN "active"
                                   ELSE caller[q]]
      BY <3>2
    <3>4. waiting' = SubSeq(waiting, 2, Len(waiting))
      BY <2>2 DEF Answer
    <3>5. busy' = busy
      BY <1>3, <2>2 DEF Answer
    <3>6. QED  BY <3>3, <3>4, <3>5
  <2>5. /\ waiting' \in Seq(Reads) /\ Len(waiting') = Len(waiting) - 1
        /\ \A i \in 1 .. Len(waiting') : waiting'[i] = waiting[i + 1]
    <3>1. \A i \in 2 .. Len(waiting) : waiting[i] \in Reads
      BY <2>1
    <3>2. /\ SubSeq(waiting, 2, Len(waiting)) \in Seq(Reads)
          /\ Len(SubSeq(waiting, 2, Len(waiting))) = Len(waiting) - 1
          /\ \A i \in 1 .. Len(waiting) - 2 + 1 :
               SubSeq(waiting, 2, Len(waiting))[i] = waiting[2 + i - 1]
      <4>1. Len(SubSeq(waiting, 2, Len(waiting))) =
              IF 2 <= Len(waiting) THEN Len(waiting) - 2 + 1 ELSE 0
        BY <2>1, <3>1, SubSeqProperties
      <4>2. (IF 2 <= Len(waiting) THEN Len(waiting) - 2 + 1 ELSE 0) = Len(waiting) - 1
        <5>. DEFINE n == Len(waiting)
        <5>1. n \in Nat /\ n > 0
          BY <2>1
        <5>. HIDE DEF n
        <5>2. (IF 2 <= n THEN n - 2 + 1 ELSE 0) = n - 1
          BY <5>1
        <5>3. QED  BY <5>2 DEF n
      <4>3. QED  BY <2>1, <3>1, <4>1, <4>2, SubSeqProperties
    <3>3. waiting' \in Seq(Reads) /\ Len(waiting') = Len(waiting) - 1
      BY <2>4, <3>2, Zenon
    <3>4. ASSUME NEW i \in 1 .. Len(waiting')
          PROVE  waiting'[i] = waiting[i + 1]
      <4>1. i \in 1 .. Len(waiting) - 2 + 1 /\ 2 + i - 1 = i + 1
        BY <2>1, <3>3
      <4>2. QED  BY <2>4, <3>2, <4>1, Zenon
    <3>5. QED  BY <3>3, <3>4
  <2>6. /\ Active' = (Active \ {r}) \cup {first} /\ first \notin Active \ {r}
        /\ Queued' = Queued \ {first}
    BY <1>1, <2>3, <2>4 DEF Active, Queued, SlotInv, Answers
  <2>7. Cardinality(Active') = Cardinality(Active)
    <3>1. IsFiniteSet(Active \ {r})
      BY CountsAreFinite, FS_RemoveElement
    <3>2. Cardinality(Active') = Cardinality(Active \ {r}) + 1
      BY <2>6, <3>1, FS_AddElement
    <3>3. QED  BY <1>2, <3>2, CountsAreFinite, FS_CardinalityType
  <2>8. Cardinality(Queued') = Cardinality(Queued) - 1
    BY <2>3, <2>6, CountsAreFinite, FS_RemoveElement
  <2>9. QueueInv'
    <3>1. \A i \in 1 .. Len(waiting') : waiting'[i] \in Queued'
      BY <2>1, <2>5, <2>6 DEF SlotInv, QueueInv
    <3>2. \A i, j \in 1 .. Len(waiting') : waiting'[i] = waiting'[j] => i = j
      BY <2>1, <2>5 DEF SlotInv, QueueInv
    <3>3. ASSUME NEW q \in Queued'
          PROVE  \E i \in 1 .. Len(waiting') : waiting'[i] = q
      <4>1. PICK k \in 1 .. Len(waiting) : waiting[k] = q
        BY <2>6 DEF SlotInv, QueueInv
      <4>2. k # 1
        BY <2>6, <4>1
      <4>3. k - 1 \in 1 .. Len(waiting') /\ waiting'[k - 1] = q
        BY <2>1, <2>5, <4>1, <4>2
      <4>4. QED  BY <4>3
    <3>4. QED  BY <2>5, <2>8, <3>1, <3>2, <3>3 DEF SlotInv, QueueInv
  <2>10. caller' \in [Reads -> {"idle", "queued", "active"} \cup Answers]
    BY <2>3, <2>4 DEF SlotInv
  <2>11. QED
    BY <2>1, <2>4, <2>7, <2>9, <2>10, ReadAdmissionAssumption DEF Answer, SlotInv
<1>6. QED  BY <1>4, <1>5

----------------------------------------------------------------------------
(* The operations.  To all of them but one, the end of an operation is the *)
(* start of what was queued.                                               *)

Closed(r, phase) ==
  /\ operation' \in [Reads -> {"none", "pause", "acquire"} \cup Statements]
  /\ operation'[r] = phase /\ caller'[r] \in Answers
  /\ tries' = tries
  /\ \A q \in Reads \ {r} :
       \/ caller'[q] = caller[q] /\ operation'[q] = operation[q]
       \/ caller[q] = "queued" /\ caller'[q] = "active" /\ operation'[q] = "pause"

\* What an answer does, the operation going on or not.
LEMMA AnswerEnds ==
  ASSUME ReadInv, NEW r \in Reads, NEW answer \in Answers,
         NEW phase \in {"none", "acquire"}, Answer(r, answer, phase)
  PROVE  Closed(r, phase)
<1>. DEFINE started == {waiting[i] : i \in 1 .. Drained}
<1>1. started \subseteq Queued
  <2>1. Drained \in {0, 1} /\ (Drained = 1 => waiting # <<>>)
    BY DEF Drained
  <2>2. 1 .. Drained \subseteq 1 .. Len(waiting)
    BY <2>1 DEF ReadInv, SlotInv, QueueInv
  <2>3. QED  BY <2>2 DEF ReadInv, SlotInv, QueueInv
<1>2. /\ caller' = [q \in Reads |-> IF q = r THEN answer
                                  ELSE IF q \in started THEN "active"
                                  ELSE caller[q]]
      /\ operation' = [q \in Reads |-> IF q = r THEN phase
                                     ELSE IF q \in started THEN "pause"
                                     ELSE operation[q]]
      /\ tries' = tries
  BY Zenon DEF Answer
<1>. HIDE DEF started
<1>3. QED
  BY <1>1, <1>2 DEF Closed, Queued, ReadInv, PhaseInv

\* What the end of an operation does, its caller waiting for it or not.
LEMMA EndEnds ==
  ASSUME ReadInv, NEW r \in Reads, NEW answer \in Answers,
         operation[r] # "none", End(r, answer)
  PROVE  Closed(r, "none") /\ SlotInv'
<1>1. CASE Expired(r)
  <2>1. caller[r] \in Answers
    BY <1>1 DEF Expired, ReadInv, SlotInv, PhaseInv
  <2>2. /\ operation' = [operation EXCEPT ![r] = "none"]
        /\ UNCHANGED <<caller, busy, waiting, disposed, tries>>
    BY <1>1 DEF End, GoOn
  <2>3. Closed(r, "none")
    BY <2>1, <2>2 DEF Closed, ReadInv, PhaseInv
  <2>4. SlotInv'
    BY <2>2 DEF ReadInv, SlotInv, QueueInv, Active, Queued
  <2>5. QED  BY <2>3, <2>4
<1>2. CASE ~Expired(r)
  <2>1. Answer(r, answer, "none") /\ caller[r] = "active"
    BY <1>2 DEF End, Expired
  <2>2. QED  BY <2>1, AnswerEnds, AnswerKeepsSlots DEF ReadInv
<1>3. QED  BY <1>1, <1>2

\* Where somebody's operation ends, or goes on for nobody, the phases stay in order.
LEMMA EndedKeepsPhases ==
  ASSUME ReadInv, NEW r \in Reads, NEW phase \in {"none", "acquire"}, Closed(r, phase)
  PROVE  PhaseInv'
<1>1. tries' = tries /\ tries \in [Reads -> 0 .. MaximumAttempts]
  BY DEF Closed, ReadInv, PhaseInv
<1>2. ASSUME NEW q \in Reads, q # r
      PROVE  /\ caller'[q] \in {"idle", "queued"} =>
                  operation'[q] = "none" /\ tries'[q] = 0
             /\ operation'[q] \in Statements \cup {"pause"} => caller'[q] = "active"
             /\ operation'[q] = "pause" => tries'[q] < MaximumAttempts
             /\ operation'[q] \in {"start", "commit"} => q \in Transactional
             /\ operation'[q] = "rollback" => q \in Transactional
  <2>1. CASE caller'[q] = caller[q] /\ operation'[q] = operation[q]
    BY <1>1, <2>1 DEF ReadInv, PhaseInv
  <2>2. CASE caller[q] = "queued" /\ caller'[q] = "active" /\ operation'[q] = "pause"
    BY <1>1, <2>2, ReadAdmissionAssumption DEF ReadInv, PhaseInv
  <2>3. QED  BY <1>2, <2>1, <2>2 DEF Closed
<1>3. QED
  BY <1>1, <1>2 DEF Closed, PhaseInv, Answers, Statements

\* An operation that is over has let its connection go, whatever became of that.
LEMMA EndedLetsGo ==
  ASSUME ReadInv, NEW r \in Reads, Closed(r, "none"),
         held' = [held EXCEPT ![r] = NoConnection],
         pool' \in [Connections -> {"closed", "free", "connecting", "session", "used"}],
         \A c \in Connections : c # held[r] => pool'[c] = pool[c],
         dirty' \subseteq dirty \ {held[r]}
  PROVE  HoldInv' /\ DirtyInv'
<1>1. held' \in [Reads -> Connections \cup {NoConnection}] /\ held'[r] = NoConnection
  BY DEF ReadInv, HoldInv
<1>2. ASSUME NEW q \in Reads, q # r
      PROVE  /\ held'[q] = held[q]
             /\ operation'[q] = operation[q]
                  \/ (operation'[q] = "pause" /\ operation[q] = "none")
  BY <1>2 DEF Closed, ReadInv, HoldInv, PhaseInv
<1>3. ASSUME NEW q \in Reads, q # r, held[q] # NoConnection
      PROVE  pool'[held[q]] = pool[held[q]]
  BY <1>3 DEF ReadInv, HoldInv
<1>4. ASSUME NEW q \in Reads
      PROVE  HoldsInPhase(q)'
  <2>1. CASE q = r
    BY <1>1, <2>1 DEF Closed, Statements, HoldsInPhase
  <2>2. CASE q # r
    BY <1>2, <1>3, <2>2, ReadAdmissionAssumption
       DEF ReadInv, HoldInv, HoldsInPhase, Statements
  <2>3. QED  BY <2>1, <2>2
<1>5. \A p, q \in Reads : (held'[p] = held'[q] /\ held'[p] # NoConnection) => p = q
  BY <1>1, <1>2 DEF ReadInv, HoldInv
<1>6. HoldInv'
  BY <1>1, <1>4, <1>5 DEF HoldInv
<1>7. ASSUME NEW c \in dirty'
      PROVE  \E q \in Transactional : held'[q] = c /\ operation'[q] \in Statements
  <2>1. PICK q \in Transactional : held[q] = c /\ operation[q] \in Statements
    BY DEF ReadInv, DirtyInv
  <2>2. q \in Reads /\ q # r
    BY <2>1, ReadAdmissionAssumption
  <2>3. QED  BY <1>2, <2>1, <2>2 DEF Statements
<1>8. QED  BY <1>6, <1>7 DEF ReadInv, DirtyInv

\* The connection of a read without a transaction of its own is not dirty.
LEMMA DirtyIsTransactional ==
  ASSUME ReadInv, NEW r \in Reads,
         operation[r] \notin Statements \/ r \notin Transactional
  PROVE  held[r] \notin dirty
  BY ReadAdmissionAssumption DEF ReadInv, DirtyInv, HoldInv

----------------------------------------------------------------------------
(* One lemma for each group of actions. *)

\* Tasks that arrive and tasks that leave the queue concern no connection.
LEMMA TaskSteps ==
  ASSUME ReadInv, NEW r \in Reads,
         StartTask(r) \/ QueueTask(r) \/ RefuseTask(r) \/ QueueTimeout(r)
  PROVE  ReadInv'
<1>1. SlotInv'
  BY StartKeepsSlots, QueueKeepsSlots, RefusalKeepsSlots, TimeoutKeepsSlots DEF ReadInv
<1>. USE ReadAdmissionAssumption
     DEF ReadInv, PhaseInv, HoldInv, HoldsInPhase, DirtyInv, Statements, Answers
<1>2. CASE StartTask(r)
  <2>1. operation[r] = "none" /\ tries[r] = 0
    BY <1>2 DEF StartTask
  <2>2. PhaseInv'
    BY <1>2, <2>1 DEF StartTask, GoOn, SlotInv
  <2>3. HoldInv' /\ DirtyInv'
    BY <1>2, <2>1 DEF StartTask, GoOn
  <2>4. QED  BY <1>1, <2>2, <2>3
<1>3. CASE QueueTask(r)
  BY <1>1, <1>3 DEF QueueTask, SlotInv
<1>4. CASE RefuseTask(r)
  BY <1>1, <1>4 DEF RefuseTask, SlotInv
<1>5. CASE QueueTimeout(r)
  BY <1>1, <1>5 DEF QueueTimeout, SlotInv
<1>6. QED  BY <1>2, <1>3, <1>4, <1>5

\* Nor does the end of the bulkhead.
LEMMA DisposeStep ==
  ASSUME ReadInv, DisposeBulkhead
  PROVE  ReadInv'
<1>1. SlotInv'
  BY RefusalKeepsSlots DEF ReadInv
<1>2. QED
  BY <1>1, ReadAdmissionAssumption
     DEF ReadInv, PhaseInv, HoldInv, HoldsInPhase, DirtyInv, SlotInv, DisposeBulkhead,
         Statements, Answers

\* What the bulkhead does not see.
LEMMA SlotsAreKept ==
  ASSUME SlotInv, UNCHANGED <<caller, busy, waiting, disposed>>
  PROVE  SlotInv'
  BY DEF SlotInv, QueueInv, Active, Queued

\* Acquisition, attempt by attempt.
LEMMA AcquireSteps ==
  ASSUME ReadInv, NEW r \in Reads,
         (\E c \in Connections : Acquire(r, c)) \/ PoolExhausted(r)
  PROVE  ReadInv'
<1>1. CASE \E c \in Connections : Acquire(r, c)
  <2>1. PICK c \in Connections : Acquire(r, c)
    BY <1>1
  <2>2. SlotInv'
    BY <2>1, SlotsAreKept DEF Acquire, ReadInv
  <2>3. /\ operation[r] = "pause" /\ caller[r] = "active" /\ tries[r] < MaximumAttempts
        /\ pool[c] \in {"free", "closed"}
        /\ pool' \in [Connections -> {"closed", "free", "connecting", "session", "used"}]
        /\ pool'[c] \in {"connecting", "session"}
        /\ \A d \in Connections \ {c} : pool'[d] = pool[d]
        /\ operation' = [operation EXCEPT ![r] = "acquire"]
        /\ held' = [held EXCEPT ![r] = c] /\ held[r] = NoConnection
        /\ tries' = [tries EXCEPT ![r] = @ + 1]
        /\ UNCHANGED <<caller, dirty>>
    BY <2>1 DEF Acquire, GoOn, ReadInv, PhaseInv, HoldInv, HoldsInPhase
  <2>4. \A q \in Reads : held[q] # c
    <3>1. ASSUME NEW q \in Reads, held[q] = c
          PROVE  FALSE
      <4>1. operation[q] \in {"acquire"} \cup Statements
        BY <3>1, ReadAdmissionAssumption DEF ReadInv, PhaseInv, HoldInv, HoldsInPhase
      <4>2. pool[c] \in {"connecting", "session", "used"}
        BY <3>1, <4>1, ReadAdmissionAssumption DEF ReadInv, HoldInv, HoldsInPhase
      <4>3. QED  BY <2>3, <4>2
    <3>2. QED  BY <3>1
  <2>5. PhaseInv'
    BY <2>3, ReadAdmissionAssumption DEF ReadInv, PhaseInv, Statements
  <2>6. HoldInv'
    <3>1. /\ held' \in [Reads -> Connections \cup {NoConnection}]
          /\ held'[r] = c /\ operation'[r] = "acquire"
          /\ \A q \in Reads \ {r} : held'[q] = held[q] /\ operation'[q] = operation[q]
      BY <2>3 DEF ReadInv, HoldInv, PhaseInv
    <3>2. ASSUME NEW q \in Reads, held[q] # NoConnection
          PROVE  pool'[held[q]] = pool[held[q]]
      BY <2>3, <2>4, <3>2 DEF ReadInv, HoldInv
    <3>3. ASSUME NEW q \in Reads
          PROVE  HoldsInPhase(q)'
      <4>1. CASE q = r
        BY <2>3, <3>1, <4>1 DEF HoldsInPhase, Statements
      <4>2. CASE q # r
        BY <3>1, <3>2, <4>2, ReadAdmissionAssumption
           DEF ReadInv, HoldInv, HoldsInPhase, Statements
      <4>3. QED  BY <4>1, <4>2
    <3>4. \A p, q \in Reads : (held'[p] = held'[q] /\ held'[p] # NoConnection) => p = q
      BY <2>4, <3>1 DEF ReadInv, HoldInv
    <3>5. QED  BY <2>3, <3>1, <3>3, <3>4 DEF HoldInv
  <2>7. DirtyInv'
    BY <2>3, ReadAdmissionAssumption DEF ReadInv, DirtyInv, Statements
  <2>8. QED  BY <2>2, <2>5, <2>6, <2>7 DEF ReadInv
<1>2. CASE PoolExhausted(r)
  <2>1. operation[r] = "pause" /\ caller[r] = "active" /\ held[r] = NoConnection
    BY <1>2 DEF PoolExhausted, ReadInv, PhaseInv, HoldInv, HoldsInPhase
  <2>2. CASE tries[r] + 1 < MaximumAttempts
    <3>1. /\ tries' = [tries EXCEPT ![r] = @ + 1]
          /\ UNCHANGED <<caller, busy, waiting, disposed, operation, held, pool, dirty>>
      BY <1>2, <2>2 DEF PoolExhausted
    <3>2. SlotInv'
      BY <3>1, SlotsAreKept DEF ReadInv
    <3>3. PhaseInv'
      BY <2>1, <2>2, <3>1, ReadAdmissionAssumption DEF ReadInv, PhaseInv, Statements
    <3>4. HoldInv' /\ DirtyInv'
      BY <3>1 DEF ReadInv, HoldInv, HoldsInPhase, DirtyInv
    <3>5. QED  BY <3>2, <3>3, <3>4 DEF ReadInv
  <2>3. CASE ~(tries[r] + 1 < MaximumAttempts)
    <3>1. Answer(r, "failed", "none") /\ UNCHANGED <<held, pool, dirty>>
      BY <1>2, <2>3 DEF PoolExhausted
    <3>2. "failed" \in Answers
      BY DEF Answers
    <3>3. SlotInv'
      BY <2>1, <3>1, <3>2, AnswerKeepsSlots DEF ReadInv
    <3>4. Closed(r, "none")
      BY <3>1, <3>2, AnswerEnds
    <3>5. PhaseInv'
      BY <3>4, EndedKeepsPhases
    <3>6. held' = [held EXCEPT ![r] = NoConnection] /\ dirty' \subseteq dirty \ {held[r]}
      BY <2>1, <3>1, ReadAdmissionAssumption DEF ReadInv, HoldInv, DirtyInv
    <3>7. /\ pool' \in [Connections -> {"closed", "free", "connecting", "session", "used"}]
          /\ \A c \in Connections : c # held[r] => pool'[c] = pool[c]
      BY <3>1 DEF ReadInv, HoldInv
    <3>8. HoldInv' /\ DirtyInv'
      BY <3>4, <3>6, <3>7, EndedLetsGo
    <3>9. QED  BY <3>3, <3>5, <3>8 DEF ReadInv
  <2>4. QED  BY <2>2, <2>3
<1>3. QED  BY <1>1, <1>2

\* An operation that ends and lets its connection go.
LEMMA ReleaseStep ==
  ASSUME ReadInv, NEW r \in Reads, NEW answer \in Answers,
         operation[r] # "none", End(r, answer),
         held' = [held EXCEPT ![r] = NoConnection],
         pool' \in [Connections -> {"closed", "free", "connecting", "session", "used"}],
         \A c \in Connections : c # held[r] => pool'[c] = pool[c],
         dirty' \subseteq dirty \ {held[r]}
  PROVE  ReadInv'
<1>1. Closed(r, "none") /\ SlotInv'
  BY EndEnds
<1>2. PhaseInv'
  BY <1>1, EndedKeepsPhases
<1>3. HoldInv' /\ DirtyInv'
  BY <1>1, EndedLetsGo
<1>4. QED  BY <1>1, <1>2, <1>3 DEF ReadInv

\* The connector: a session prepared, or an acquisition that fails.
LEMMA ConnectorSteps ==
  ASSUME ReadInv, NEW r \in Reads, ConnectorGivesUp(r) \/ SessionReady(r)
  PROVE  ReadInv'
<1>1. /\ operation[r] = "acquire" /\ held[r] \in Connections /\ "failed" \in Answers
      /\ held[r] \notin dirty /\ dirty = dirty \ {held[r]}
  <2>1. operation[r] = "acquire"
    BY DEF ConnectorGivesUp, SessionReady
  <2>2. held[r] \notin dirty
    BY <2>1, DirtyIsTransactional DEF Statements
  <2>3. QED  BY <2>1, <2>2 DEF ReadInv, HoldInv, HoldsInPhase, Answers
<1>2. CASE ConnectorGivesUp(r)
  <2>1. /\ pool' \in [Connections -> {"closed", "free", "connecting", "session", "used"}]
        /\ \A c \in Connections : c # held[r] => pool'[c] = pool[c]
    BY <1>1, <1>2 DEF ConnectorGivesUp, ReadInv, HoldInv
  <2>2. /\ held' = [held EXCEPT ![r] = NoConnection] /\ End(r, "failed")
        /\ dirty' \subseteq dirty \ {held[r]}
    BY <1>1, <1>2 DEF ConnectorGivesUp, AcquisitionFailed
  <2>3. QED  BY <1>1, <2>1, <2>2, ReleaseStep
<1>3. CASE SessionReady(r) /\ Expired(r)
  <2>1. /\ pool' \in [Connections -> {"closed", "free", "connecting", "session", "used"}]
        /\ \A c \in Connections : c # held[r] => pool'[c] = pool[c]
    BY <1>1, <1>3 DEF SessionReady, Destroyed, ReadInv, HoldInv
  <2>2. /\ held' = [held EXCEPT ![r] = NoConnection] /\ End(r, "failed")
        /\ dirty' \subseteq dirty \ {held[r]}
    BY <1>1, <1>3 DEF SessionReady, Destroyed
  <2>3. QED  BY <1>1, <2>1, <2>2, ReleaseStep
<1>4. CASE SessionReady(r) /\ ~Expired(r)
  <2>1. /\ caller[r] = "active"
        /\ pool' = [pool EXCEPT ![held[r]] = "used"]
        /\ operation' = [operation EXCEPT ![r] =
                           IF r \in Transactional THEN "start" ELSE "query"]
        /\ UNCHANGED <<caller, busy, waiting, disposed, tries, held, dirty>>
    BY <1>4 DEF SessionReady, Expired, GoOn
  <2>2. SlotInv'
    BY <2>1, SlotsAreKept DEF ReadInv
  <2>3. PhaseInv'
    BY <2>1 DEF ReadInv, PhaseInv, Statements
  <2>4. HoldInv'
    <3>1. /\ pool' \in [Connections -> {"closed", "free", "connecting", "session", "used"}]
          /\ pool'[held[r]] = "used"
          /\ \A c \in Connections : c # held[r] => pool'[c] = pool[c]
          /\ operation'[r] \in {"start", "query"}
          /\ \A q \in Reads : q # r => operation'[q] = operation[q]
      BY <1>1, <2>1 DEF ReadInv, HoldInv, PhaseInv
    <3>2. ASSUME NEW q \in Reads
          PROVE  HoldsInPhase(q)'
      <4>1. CASE q = r
        BY <1>1, <2>1, <3>1, <4>1 DEF HoldsInPhase
      <4>2. CASE q # r
        <5>1. held[q] # held[r]
          BY <1>1, <4>2, ReadAdmissionAssumption DEF ReadInv, HoldInv
        <5>2. QED
          BY <2>1, <3>1, <4>2, <5>1, ReadAdmissionAssumption
             DEF ReadInv, HoldInv, HoldsInPhase
      <4>3. QED  BY <4>1, <4>2
    <3>3. QED  BY <2>1, <3>1, <3>2 DEF ReadInv, HoldInv
  <2>5. DirtyInv'
    BY <1>1, <2>1, ReadAdmissionAssumption
       DEF ReadInv, DirtyInv, HoldInv, HoldsInPhase, Statements
  <2>6. QED  BY <2>2, <2>3, <2>4, <2>5 DEF ReadInv
<1>5. QED  BY <1>2, <1>3, <1>4

\* mysql2: a connection that is established, or is not.
LEMMA ConnectionSteps ==
  ASSUME ReadInv, NEW c \in Connections, Connected(c) \/ ConnectFails(c)
  PROVE  ReadInv'
<1>1. ASSUME NEW r \in Reads, held[r] = c
      PROVE  operation[r] = "acquire"
  <2>1. pool[c] = "connecting"
    BY DEF Connected, ConnectFails
  <2>2. QED
    BY <1>1, <2>1, ReadAdmissionAssumption
       DEF ReadInv, PhaseInv, HoldInv, HoldsInPhase, Statements
<1>2. c \notin dirty
  BY <1>1, ReadAdmissionAssumption DEF ReadInv, DirtyInv, Statements
<1>3. CASE Connected(c)
  <2>1. SlotInv'
    BY <1>3, SlotsAreKept DEF Connected, ReadInv
  <2>2. PhaseInv' /\ DirtyInv'
    BY <1>3 DEF Connected, ReadInv, PhaseInv, DirtyInv
  <2>3. HoldInv'
    <3>1. /\ pool' \in [Connections -> {"closed", "free", "connecting", "session", "used"}]
          /\ \A d \in Connections : d # c => pool'[d] = pool[d]
          /\ (\E r \in Reads : held[r] = c) => pool'[c] = "session"
          /\ UNCHANGED <<operation, held>>
      BY <1>3 DEF Connected, ReadInv, HoldInv
    <3>2. ASSUME NEW q \in Reads
          PROVE  HoldsInPhase(q)'
      <4>1. CASE held[q] = c
        BY <1>1, <3>1, <4>1 DEF HoldsInPhase, Statements
      <4>2. CASE held[q] # c
        BY <3>1, <4>2, ReadAdmissionAssumption
           DEF ReadInv, HoldInv, HoldsInPhase, Statements
      <4>3. QED  BY <4>1, <4>2
    <3>3. QED  BY <3>1, <3>2 DEF ReadInv, HoldInv
  <2>4. QED  BY <2>1, <2>2, <2>3 DEF ReadInv
<1>4. CASE ConnectFails(c) /\ \E r \in Reads : held[r] = c /\ AcquisitionFailed(r)
  <2>1. PICK r \in Reads : held[r] = c /\ AcquisitionFailed(r)
    BY <1>4
  <2>2. /\ pool' \in [Connections -> {"closed", "free", "connecting", "session", "used"}]
        /\ \A d \in Connections : d # held[r] => pool'[d] = pool[d]
    BY <1>4, <2>1 DEF ConnectFails, ReadInv, HoldInv
  <2>3. /\ held' = [held EXCEPT ![r] = NoConnection] /\ End(r, "failed")
        /\ dirty' \subseteq dirty \ {held[r]} /\ "failed" \in Answers
    BY <1>2, <1>4, <2>1 DEF ConnectFails, AcquisitionFailed, Answers
  <2>4. QED  BY <1>1, <2>1, <2>2, <2>3, ReleaseStep
<1>5. CASE ConnectFails(c) /\ \A r \in Reads : held[r] # c
  <2>1. /\ pool' = [pool EXCEPT ![c] = "closed"]
        /\ UNCHANGED <<caller, busy, waiting, disposed, operation, tries, held, dirty>>
    BY <1>5 DEF ConnectFails
  <2>2. SlotInv'
    BY <2>1, SlotsAreKept DEF ReadInv
  <2>3. PhaseInv' /\ DirtyInv'
    BY <2>1 DEF ReadInv, PhaseInv, DirtyInv
  <2>4. HoldInv'
    BY <1>5, <2>1, ReadAdmissionAssumption DEF ReadInv, HoldInv, HoldsInPhase, Statements
  <2>5. QED  BY <2>2, <2>3, <2>4 DEF ReadInv
<1>6. QED  BY <1>3, <1>4, <1>5 DEF ConnectFails

\* The statements of a read that go well.
LEMMA StatementSteps ==
  ASSUME ReadInv, NEW r \in Reads, StatementDone(r)
  PROVE  ReadInv'
<1>1. /\ operation[r] \in Statements /\ held[r] \in Connections
      /\ caller[r] = "active" /\ {"served", "failed"} \subseteq Answers
  BY DEF StatementDone, ReadInv, PhaseInv, HoldInv, Statements, Answers
<1>2. CASE /\ operation[r] = "start" \/ (operation[r] = "query" /\ r \in Transactional)
           /\ GoOn(r, IF operation[r] = "start" THEN "query" ELSE "commit")
           /\ dirty' = Executed(r)
           /\ UNCHANGED <<caller, busy, waiting, disposed, tries, held, pool>>
  <2>1. SlotInv'
    BY <1>2, SlotsAreKept DEF ReadInv
  <2>2. /\ operation' \in [Reads -> {"none", "pause", "acquire"} \cup Statements]
        /\ operation'[r] \in {"query", "commit"}
        /\ operation'[r] = "commit" => r \in Transactional
        /\ \A q \in Reads : q # r => operation'[q] = operation[q]
    BY <1>2 DEF GoOn, ReadInv, PhaseInv, Statements
  <2>3. PhaseInv'
    BY <1>1, <1>2, <2>2 DEF ReadInv, PhaseInv, Statements
  <2>4. HoldInv'
    <3>1. ASSUME NEW q \in Reads
          PROVE  HoldsInPhase(q)'
      BY <1>1, <1>2, <2>2 DEF ReadInv, HoldInv, HoldsInPhase, Statements
    <3>2. QED  BY <1>2, <3>1 DEF ReadInv, HoldInv
  <2>5. DirtyInv'
    <3>1. dirty' \subseteq dirty \cup {held[r]}
      BY <1>2 DEF Executed
    <3>2. r \in Transactional /\ held'[r] = held[r] /\ operation'[r] \in Statements
      BY <1>2, <2>2 DEF ReadInv, PhaseInv, Statements
    <3>3. ASSUME NEW q \in Transactional, operation[q] \in Statements
          PROVE  held'[q] = held[q] /\ operation'[q] \in Statements
      BY <1>2, <2>2, <3>3, ReadAdmissionAssumption DEF Statements
    <3>4. QED  BY <1>1, <3>1, <3>2, <3>3 DEF ReadInv, DirtyInv
  <2>6. QED  BY <2>1, <2>3, <2>4, <2>5 DEF ReadInv
<1>3. ASSUME pool' = [pool EXCEPT ![held[r]] = "free"], dirty' = Executed(r),
             NEW answer \in Answers, EndRead(r, answer),
             \/ operation[r] \in {"commit", "rollback"}
             \/ operation[r] = "query" /\ r \notin Transactional
      PROVE  ReadInv'
  <2>1. dirty' \subseteq dirty \ {held[r]}
    BY <1>3, DirtyIsTransactional DEF Executed
  <2>2. /\ pool' \in [Connections -> {"closed", "free", "connecting", "session", "used"}]
        /\ \A c \in Connections : c # held[r] => pool'[c] = pool[c]
    BY <1>3 DEF ReadInv, HoldInv
  <2>3. QED  BY <1>1, <1>3, <2>1, <2>2, ReleaseStep DEF EndRead, Statements
<1>4. QED  BY <1>1, <1>2, <1>3 DEF StatementDone

\* An error in a statement, and a rollback that is not proven.
LEMMA FailureSteps ==
  ASSUME ReadInv, NEW r \in Reads, StatementFails(r) \/ RollbackUnproven(r)
  PROVE  ReadInv'
<1>1. /\ operation[r] \in Statements /\ caller[r] = "active" /\ "failed" \in Answers
      /\ operation[r] # "rollback" => held[r] \in Connections
  BY DEF StatementFails, RollbackUnproven, ReadInv, PhaseInv, HoldInv, HoldsInPhase,
         Statements, Answers
<1>2. ASSUME Destroyed(held[r]) \/ (ReleasedConnection(held[r]) /\ r \notin Transactional),
             EndRead(r, "failed")
      PROVE  ReadInv'
  <2>1. dirty' \subseteq dirty \ {held[r]}
    BY <1>2, DirtyIsTransactional DEF Destroyed, ReleasedConnection
  <2>2. /\ pool' \in [Connections -> {"closed", "free", "connecting", "session", "used"}]
        /\ \A c \in Connections : c # held[r] => pool'[c] = pool[c]
    BY <1>2 DEF Destroyed, ReleasedConnection, ReadInv, HoldInv
  <2>3. QED  BY <1>1, <1>2, <2>1, <2>2, ReleaseStep DEF EndRead, Statements
<1>3. CASE RollbackUnproven(r)
  BY <1>2, <1>3 DEF RollbackUnproven, Unproven
<1>4. CASE StatementFails(r) /\ r \notin Transactional
  BY <1>2, <1>4 DEF StatementFails
<1>5. CASE StatementFails(r) /\ r \in Transactional
  <2>1. PICK lost, executed \in BOOLEAN :
          /\ IF lost THEN Destroyed(held[r])
             ELSE dirty' = (IF executed THEN Executed(r) ELSE dirty) /\ UNCHANGED pool
          /\ held' = IF lost THEN [held EXCEPT ![r] = NoConnection] ELSE held
          /\ GoOn(r, "rollback")
          /\ UNCHANGED <<caller, busy, waiting, disposed, tries>>
    BY <1>5 DEF StatementFails
  <2>2. held[r] \in Connections /\ pool[held[r]] = "used"
    BY <1>1, <1>5, ReadAdmissionAssumption
       DEF StatementFails, ReadInv, HoldInv, HoldsInPhase, Statements
  <2>3. /\ operation' \in [Reads -> {"none", "pause", "acquire"} \cup Statements]
        /\ operation'[r] = "rollback"
        /\ \A q \in Reads : q # r => operation'[q] = operation[q]
    BY <2>1 DEF GoOn, ReadInv, PhaseInv, Statements
  <2>4. /\ held' \in [Reads -> Connections \cup {NoConnection}]
        /\ pool' \in [Connections -> {"closed", "free", "connecting", "session", "used"}]
        /\ \A c \in Connections : c # held[r] => pool'[c] = pool[c]
        /\ \A q \in Reads : q # r => held'[q] = held[q]
        /\ \/ held'[r] = NoConnection /\ dirty' = dirty \ {held[r]}
           \/ held'[r] = held[r] /\ pool' = pool /\ dirty' \subseteq dirty \cup {held[r]}
    BY <2>1, <2>2, ReadAdmissionAssumption
       DEF Destroyed, Executed, ReadInv, HoldInv
  <2>5. SlotInv'
    BY <2>1, SlotsAreKept DEF ReadInv
  <2>6. PhaseInv'
    BY <1>1, <1>5, <2>1, <2>3 DEF ReadInv, PhaseInv, Statements
  <2>7. HoldInv'
    <3>1. ASSUME NEW q \in Reads
          PROVE  HoldsInPhase(q)'
      <4>1. CASE q = r
        BY <2>2, <2>3, <2>4, <4>1 DEF HoldsInPhase, Statements
      <4>2. CASE q # r
        <5>1. held[q] # held[r]
          BY <2>2, <4>2, ReadAdmissionAssumption DEF ReadInv, HoldInv
        <5>2. QED
          BY <2>3, <2>4, <4>2, <5>1, ReadAdmissionAssumption
             DEF ReadInv, HoldInv, HoldsInPhase, Statements
      <4>3. QED  BY <4>1, <4>2
    <3>2. \A p, q \in Reads : (held'[p] = held'[q] /\ held'[p] # NoConnection) => p = q
      BY <2>4 DEF ReadInv, HoldInv
    <3>3. QED  BY <2>4, <3>1, <3>2 DEF HoldInv
  <2>8. DirtyInv'
    <3>1. dirty' \subseteq Connections
      BY <2>2, <2>4 DEF ReadInv, DirtyInv
    <3>2. ASSUME NEW c \in dirty'
          PROVE  \E q \in Transactional : held'[q] = c /\ operation'[q] \in Statements
      <4>1. CASE c = held[r]
        <5>1. held'[r] = c /\ operation'[r] \in Statements
          BY <2>3, <2>4, <3>2, <4>1 DEF Statements
        <5>2. QED  BY <1>5, <5>1
      <4>2. CASE c # held[r]
        <5>1. c \in dirty
          BY <2>4, <3>2, <4>2
        <5>2. PICK q \in Transactional : held[q] = c /\ operation[q] \in Statements
          BY <5>1 DEF ReadInv, DirtyInv
        <5>3. QED  BY <2>3, <2>4, <4>2, <5>2, ReadAdmissionAssumption
      <4>3. QED  BY <4>1, <4>2
    <3>3. QED  BY <3>1, <3>2 DEF DirtyInv
  <2>9. QED  BY <2>5, <2>6, <2>7, <2>8 DEF ReadInv
<1>6. QED  BY <1>3, <1>4, <1>5

\* The deadline, in whatever phase it finds the read.
LEMMA ExpireStep ==
  ASSUME ReadInv, NEW r \in Reads, Expire(r)
  PROVE  ReadInv'
<1>1. caller[r] = "active" /\ "failed" \in Answers
  BY DEF Expire, MayExpire, Answers
<1>2. CASE operation[r] = "acquire"
  <2>1. Answer(r, "failed", "acquire") /\ UNCHANGED <<held, pool, dirty>>
    BY <1>2 DEF Expire
  <2>2. Closed(r, "acquire") /\ SlotInv'
    BY <1>1, <2>1, AnswerEnds, AnswerKeepsSlots DEF ReadInv
  <2>3. PhaseInv'
    BY <2>2, EndedKeepsPhases
  <2>4. ASSUME NEW q \in Reads
        PROVE  \/ operation'[q] = operation[q]
               \/ operation[q] = "none" /\ operation'[q] = "pause"
    BY <1>2, <2>2 DEF Closed, ReadInv, PhaseInv
  <2>5. HoldInv'
    <3>1. ASSUME NEW q \in Reads
          PROVE  HoldsInPhase(q)'
      BY <2>1, <2>4 DEF ReadInv, HoldInv, HoldsInPhase, Statements
    <3>2. QED  BY <2>1, <3>1 DEF ReadInv, HoldInv
  <2>6. DirtyInv'
    BY <2>1, <2>4, ReadAdmissionAssumption DEF ReadInv, DirtyInv, Statements
  <2>7. QED  BY <2>2, <2>3, <2>5, <2>6 DEF ReadInv
<1>3. CASE operation[r] # "acquire"
  <2>1. /\ Answer(r, "failed", "none") /\ Destroyed(held[r])
        /\ held' = [held EXCEPT ![r] = NoConnection]
    BY <1>3 DEF Expire
  <2>2. Closed(r, "none") /\ SlotInv'
    BY <1>1, <2>1, AnswerEnds, AnswerKeepsSlots DEF ReadInv
  <2>3. PhaseInv'
    BY <2>2, EndedKeepsPhases
  <2>4. /\ pool' \in [Connections -> {"closed", "free", "connecting", "session", "used"}]
        /\ \A c \in Connections : c # held[r] => pool'[c] = pool[c]
        /\ dirty' = dirty \ {held[r]}
    BY <2>1 DEF Destroyed, ReadInv, HoldInv
  <2>5. HoldInv' /\ DirtyInv'
    BY <2>1, <2>2, <2>4, EndedLetsGo
  <2>6. QED  BY <2>2, <2>3, <2>5 DEF ReadInv
<1>4. QED  BY <1>2, <1>3

----------------------------------------------------------------------------
(* The theorems. *)

\* The invariant is inductive.
THEOREM ReadInductive == ReadSpec => []ReadInv
<1>1. ReadInit => ReadInv
  <2>. SUFFICES ASSUME ReadInit PROVE ReadInv
    OBVIOUS
  <2>1. Active = {} /\ Queued = {}
    BY DEF ReadInit, Active, Queued
  <2>2. Cardinality(Active) = 0 /\ Cardinality(Queued) = 0
    BY <2>1, FS_EmptySet
  <2>3. QueueInv
    BY <2>1, <2>2 DEF ReadInit, QueueInv
  <2>4. SlotInv
    <3>1. caller \in [Reads -> {"idle", "queued", "active"} \cup Answers]
      BY DEF ReadInit
    <3>2. 0 \in 0 .. Concurrency
      BY ReadAdmissionAssumption
    <3>3. busy = 0 /\ disposed = FALSE /\ waiting = <<>>
      BY DEF ReadInit
    <3>4. QED  BY <2>2, <2>3, <3>1, <3>2, <3>3, Zenon DEF SlotInv
  <2>5. PhaseInv /\ HoldInv /\ DirtyInv
    BY ReadAdmissionAssumption
       DEF ReadInit, PhaseInv, HoldInv, HoldsInPhase, DirtyInv, Statements
  <2>6. QED  BY <2>4, <2>5 DEF ReadInv
<1>2. ReadInv /\ [ReadNext]_readVars => ReadInv'
  <2>. SUFFICES ASSUME ReadInv, [ReadNext]_readVars PROVE ReadInv'
    OBVIOUS
  <2>1. CASE ReadNext
    BY <2>1, TaskSteps, AcquireSteps, ConnectorSteps, StatementSteps, FailureSteps,
       ExpireStep, ConnectionSteps, DisposeStep DEF ReadNext
  <2>2. CASE UNCHANGED readVars
    <3>1. SlotInv'
      BY <2>2, SlotsAreKept DEF readVars, ReadInv
    <3>2. PhaseInv' /\ HoldInv' /\ DirtyInv'
      BY <2>2 DEF readVars, ReadInv, PhaseInv, HoldInv, HoldsInPhase, DirtyInv
    <3>3. QED  BY <3>1, <3>2 DEF ReadInv
  <2>3. QED  BY <2>1, <2>2
<1>3. QED  BY <1>1, <1>2, PTL DEF ReadSpec

\* No connection is out of the pool for nobody.
Attended ==
  \A c \in Connections : pool[c] \in {"session", "used"} => \E r \in Reads : held[r] = c

\* A connection that is let go is in the pool, gone, or not established yet.
LEMMA LetGoOfOne ==
  ASSUME ReadInv, Attended, NEW r \in Reads,
         held' = [held EXCEPT ![r] = NoConnection],
         \A c \in Connections : c # held[r] => pool'[c] = pool[c],
         held[r] \in Connections => pool'[held[r]] \in {"closed", "free", "connecting"}
  PROVE  Attended'
<1>1. \A q \in Reads : q # r => held'[q] = held[q]
  BY DEF ReadInv, HoldInv
<1>2. ASSUME NEW c \in Connections, pool'[c] \in {"session", "used"}
      PROVE  \E q \in Reads : held'[q] = c
  <2>1. c # held[r]
    BY <1>2
  <2>2. PICK q \in Reads : held[q] = c
    BY <1>2, <2>1 DEF Attended
  <2>3. QED  BY <1>1, <2>1, <2>2
<1>3. QED  BY <1>2 DEF Attended

\* Whichever gives up first, the connector, a statement or the deadline.
LEMMA NoneIsLost ==
  ASSUME ReadInv, Attended, [ReadNext]_readVars
  PROVE  Attended'
<1>1. ASSUME UNCHANGED <<held, pool>>
      PROVE  Attended'
  BY <1>1 DEF Attended
<1>2. ASSUME NEW r \in Reads, held' = [held EXCEPT ![r] = NoConnection],
             Destroyed(held[r]) \/ ReleasedConnection(held[r])
      PROVE  Attended'
  <2>1. /\ \A c \in Connections : c # held[r] => pool'[c] = pool[c]
        /\ held[r] \in Connections => pool'[held[r]] \in {"closed", "free", "connecting"}
    BY <1>2, ReadAdmissionAssumption DEF Destroyed, ReleasedConnection, ReadInv, HoldInv
  <2>2. QED  BY <1>2, <2>1, LetGoOfOne
<1>3. ASSUME NEW r \in Reads, NEW c \in Connections, Acquire(r, c)
      PROVE  Attended'
  <2>1. /\ held' = [held EXCEPT ![r] = c] /\ held[r] = NoConnection
        /\ \A d \in Connections : d # c => pool'[d] = pool[d]
    BY <1>3 DEF Acquire, ReadInv, HoldInv, HoldsInPhase
  <2>2. held'[r] = c /\ \A q \in Reads : q # r => held'[q] = held[q]
    BY <2>1 DEF ReadInv, HoldInv
  <2>3. ASSUME NEW d \in Connections, pool'[d] \in {"session", "used"}
        PROVE  \E q \in Reads : held'[q] = d
    <3>1. CASE d = c
      BY <2>2, <3>1
    <3>2. CASE d # c
      <4>1. PICK q \in Reads : held[q] = d
        BY <2>1, <2>3, <3>2 DEF Attended
      <4>2. q # r
        BY <2>1, <4>1, ReadAdmissionAssumption
      <4>3. QED  BY <2>2, <4>1, <4>2
    <3>3. QED  BY <3>1, <3>2
  <2>4. QED  BY <2>3 DEF Attended
<1>4. ASSUME NEW r \in Reads, PoolExhausted(r)
      PROVE  Attended'
  BY <1>1, <1>4 DEF PoolExhausted
<1>5. ASSUME NEW r \in Reads, ConnectorGivesUp(r)
      PROVE  Attended'
  <2>1. /\ held[r] \in Connections /\ pool[held[r]] \in {"connecting", "session"}
        /\ held' = [held EXCEPT ![r] = NoConnection]
        /\ pool' = [pool EXCEPT ![held[r]] = IF @ = "session" THEN "closed" ELSE @]
    BY <1>5 DEF ConnectorGivesUp, AcquisitionFailed, ReadInv, HoldInv, HoldsInPhase
  <2>2. /\ \A c \in Connections : c # held[r] => pool'[c] = pool[c]
        /\ pool'[held[r]] \in {"closed", "free", "connecting"}
    BY <2>1 DEF ReadInv, HoldInv
  <2>3. QED  BY <2>1, <2>2, LetGoOfOne
<1>6. ASSUME NEW r \in Reads, SessionReady(r)
      PROVE  Attended'
  <2>1. CASE Expired(r)
    BY <1>2, <1>6, <2>1 DEF SessionReady
  <2>2. CASE ~Expired(r)
    <3>1. held' = held /\ \A c \in Connections : c # held[r] => pool'[c] = pool[c]
      BY <1>6, <2>2 DEF SessionReady, ReadInv, HoldInv
    <3>2. QED  BY <3>1 DEF Attended
  <2>3. QED  BY <2>1, <2>2
<1>7. ASSUME NEW r \in Reads, StatementDone(r)
      PROVE  Attended'
  <2>1. CASE UNCHANGED <<held, pool>>
    BY <1>1, <2>1
  <2>2. CASE /\ pool' = [pool EXCEPT ![held[r]] = "free"]
             /\ held' = [held EXCEPT ![r] = NoConnection]
    <3>1. /\ \A c \in Connections : c # held[r] => pool'[c] = pool[c]
          /\ held[r] \in Connections => pool'[held[r]] \in {"closed", "free", "connecting"}
      BY <2>2 DEF ReadInv, HoldInv
    <3>2. QED  BY <2>2, <3>1, LetGoOfOne
  <2>3. QED  BY <1>7, <2>1, <2>2 DEF StatementDone, EndRead
<1>8. ASSUME NEW r \in Reads, StatementFails(r)
      PROVE  Attended'
  <2>1. \/ UNCHANGED <<held, pool>>
        \/ /\ held' = [held EXCEPT ![r] = NoConnection]
           /\ Destroyed(held[r]) \/ ReleasedConnection(held[r])
    BY <1>8 DEF StatementFails, EndRead
  <2>2. QED  BY <1>1, <1>2, <2>1
<1>9. ASSUME NEW r \in Reads, RollbackUnproven(r)
      PROVE  Attended'
  BY <1>2, <1>9 DEF RollbackUnproven, Unproven, EndRead
<1>10. ASSUME NEW r \in Reads, Expire(r)
       PROVE  Attended'
  <2>1. CASE operation[r] = "acquire"
    BY <1>1, <1>10, <2>1 DEF Expire
  <2>2. CASE operation[r] # "acquire"
    BY <1>2, <1>10, <2>2 DEF Expire
  <2>3. QED  BY <2>1, <2>2
<1>11. ASSUME NEW c \in Connections, Connected(c)
       PROVE  Attended'
  <2>1. /\ held' = held /\ \A d \in Connections : d # c => pool'[d] = pool[d]
        /\ pool'[c] = "session" => \E r \in Reads : held[r] = c
        /\ pool'[c] \in {"session", "closed"}
    BY <1>11 DEF Connected, ReadInv, HoldInv
  <2>2. QED  BY <2>1 DEF Attended
<1>12. ASSUME NEW c \in Connections, ConnectFails(c)
       PROVE  Attended'
  <2>1. /\ pool'[c] = "closed" /\ \A d \in Connections : d # c => pool'[d] = pool[d]
    BY <1>12 DEF ConnectFails, ReadInv, HoldInv
  <2>2. CASE \E r \in Reads : held[r] = c /\ AcquisitionFailed(r)
    <3>1. PICK r \in Reads : held[r] = c /\ AcquisitionFailed(r)
      BY <2>2
    <3>2. QED  BY <2>1, <3>1, LetGoOfOne DEF AcquisitionFailed
  <2>3. CASE held' = held
    BY <2>1, <2>3 DEF Attended
  <2>4. QED  BY <1>12, <2>2, <2>3 DEF ConnectFails
<1>13. CASE \/ \E r \in Reads : \/ StartTask(r) \/ QueueTask(r) \/ RefuseTask(r)
                               \/ QueueTimeout(r)
            \/ DisposeBulkhead \/ UNCHANGED readVars
  BY <1>1, <1>13 DEF StartTask, QueueTask, RefuseTask, QueueTimeout, DisposeBulkhead, readVars
<1>14. QED
  BY <1>3, <1>4, <1>5, <1>6, <1>7, <1>8, <1>9, <1>10, <1>11, <1>12, <1>13 DEF ReadNext

\* It holds always.
LEMMA AlwaysAttended == ReadSpec => []Attended
<1>1. ReadInit => Attended
  BY DEF ReadInit, Attended
<1>2. QED  BY <1>1, NoneIsLost, ReadInductive, PTL DEF ReadSpec

\* Every variable keeps to its type.
THEOREM ReadTypeCorrect == ReadSpec => []ReadTypeOK
<1>1. ReadInv => ReadTypeOK
  BY DEF ReadInv, SlotInv, QueueInv, PhaseInv, HoldInv, DirtyInv, ReadTypeOK
<1>2. QED  BY <1>1, ReadInductive, PTL

\* The bulkhead's slots add up, and nobody is left in the queue beside a free one
\* (contest-event-read-bulkhead.ts run, start, drain, dispose).
THEOREM SlotsAlwaysAddUp == ReadSpec => []SlotsAddUp
<1>1. ReadInv => SlotsAddUp
  BY DEF ReadInv, SlotInv, QueueInv, SlotsAddUp, Active, Queued
<1>2. QED  BY <1>1, ReadInductive, PTL

\* No connection is shared, lost, or back in the pool with a transaction left open,
\* whatever fails and whenever the deadline strikes
\* (contest-event-read-db-deadline.ts runTypeOrmReadWithDeadline).
THEOREM ConnectionsStaySafe == ReadSpec => []ConnectionsAreSafe
<1>1. ASSUME ReadInv, Attended
      PROVE  ConnectionsAreSafe
  <2>1. ASSUME NEW r \in Reads, held[r] # NoConnection
        PROVE  pool[held[r]] \notin {"free", "closed"}
    BY <1>1, <2>1 DEF ReadInv, PhaseInv, HoldInv, HoldsInPhase, Statements
  <2>2. ASSUME NEW c \in Connections, c \in dirty
        PROVE  pool[c] # "free"
    BY <1>1, <2>1, <2>2, ReadAdmissionAssumption DEF ReadInv, DirtyInv
  <2>3. \A r \in Reads : caller[r] \in Answers => operation[r] \in {"none", "acquire"}
    BY <1>1 DEF ReadInv, PhaseInv, Answers
  <2>4. QED  BY <1>1, <2>1, <2>2, <2>3 DEF ReadInv, HoldInv, Attended, ConnectionsAreSafe
<1>2. QED  BY <1>1, ReadInductive, AlwaysAttended, PTL

----------------------------------------------------------------------------
(* The pages that reads select. *)

\* Every non-empty set of naturals has a least element.
LEMMA LeastElement ==
  ASSUME NEW S \in SUBSET Nat, S # {}
  PROVE  \E x \in S : \A y \in S : x <= y
<1>1. PICK x \in S : \A y \in S : ~ (<<y, x>> \in OpToRel(<, Nat))
  <2>. HIDE DEF OpToRel
  <2>1. IsWellFoundedOn(OpToRel(<, Nat), Nat)
    BY NatLessThanWellFounded
  <2>2. QED  BY <2>1, WFMin
<1>2. \A y \in S : ~ (y < x)
  <2>. TAKE y \in S
  <2>1. y < x => <<y, x>> \in OpToRel(<, Nat)
    BY DEF OpToRel
  <2>2. QED  BY <1>1, <2>1
<1>3. QED  BY <1>2

----------------------------------------------------------------------------
(* Chunks. *)

\* What a quotient is.
LEMMA Quotient ==
  ASSUME NEW i \in Nat, NEW c \in Nat \ {0}
  PROVE  /\ i \div c \in Nat
         /\ (i \div c) * c <= i /\ i < (i \div c) * c + c
OBVIOUS

\* Multiples are apart.
LEMMA Multiples ==
  ASSUME NEW c \in Nat \ {0}, NEW j \in Int, NEW k \in Int, j < k
  PROVE  j * c + c <= k * c
<1>1. PICK d \in Nat : k = j + 1 + d
  <2>1. k - j - 1 \in Nat /\ k = j + 1 + (k - j - 1)
    OBVIOUS
  <2>2. QED  BY <2>1
<1>2. k * c = j * c + c + d * c
  BY <1>1
<1>3. d * c \in Nat
  OBVIOUS
<1>4. QED  BY <1>2, <1>3

\* Chunks are as long as they should be, one behind the other.
LEMMA ChunksApart ==
  /\ ChunkEventCount \in Nat \ {0}
  /\ \A k \in Nat \ {0} : FirstOf(k) \in Nat \ {0}
  /\ \A j, k \in Nat \ {0} : j < k => FirstOf(j) + ChunkEventCount <= FirstOf(k)
<1>. DEFINE c == ChunkEventCount
<1>1. c \in Nat \ {0}
  BY EventPagesAssumption
<1>2. ASSUME NEW k \in Nat \ {0}
      PROVE  FirstOf(k) \in Nat \ {0}
  <2>1. (k - 1) * c \in Nat
    BY <1>1
  <2>2. QED  BY <2>1 DEF FirstOf
<1>3. ASSUME NEW j \in Nat \ {0}, NEW k \in Nat \ {0}, j < k
      PROVE  FirstOf(j) + c <= FirstOf(k)
  <2>1. (j - 1) * c + c <= (k - 1) * c
    BY <1>1, <1>3, Multiples
  <2>2. (j - 1) * c \in Int /\ (k - 1) * c \in Int
    BY <1>1
  <2>3. QED  BY <1>1, <2>1, <2>2 DEF FirstOf
<1>4. QED  BY <1>1, <1>2, <1>3

\* Which chunk an event is in, which chunks there are, and which are whole.
LEMMA ChunkFacts ==
  ASSUME NEW k \in Nat \ {0}
  PROVE  /\ \A id \in Nat \ {0} :
              /\ ChunkOf(id) \in Nat \ {0}
              /\ k = ChunkOf(id) <=> FirstOf(k) <= id /\ id < FirstOf(k) + ChunkEventCount
         /\ \A n \in Nat :
              /\ ChunksUpTo(n) \in Nat
              /\ k <= ChunksUpTo(n) <=> FirstOf(k) <= n
              /\ n \div ChunkEventCount \in Nat
              /\ k <= n \div ChunkEventCount <=> FirstOf(k) + ChunkEventCount <= n + 1
<1>. DEFINE c == ChunkEventCount
<1>1. /\ c \in Nat \ {0}
      /\ \A j \in Nat \ {0} : FirstOf(j) \in Nat \ {0}
      /\ \A i, j \in Nat \ {0} : i < j => FirstOf(i) + c <= FirstOf(j)
  BY ChunksApart
<1>2. ASSUME NEW q \in Nat
      PROVE  FirstOf(q + 1) = q * c + 1
  BY DEF FirstOf
<1>3. ASSUME NEW id \in Nat \ {0}
      PROVE  /\ ChunkOf(id) \in Nat \ {0}
             /\ k = ChunkOf(id) <=> FirstOf(k) <= id /\ id < FirstOf(k) + c
  <2>. DEFINE q == (id - 1) \div c
  <2>1. q \in Nat /\ q * c <= id - 1 /\ id - 1 < q * c + c
    BY <1>1, Quotient
  <2>2. ChunkOf(id) = q + 1
    BY DEF ChunkOf
  <2>. HIDE DEF q
  <2>3. FirstOf(q + 1) = q * c + 1 /\ q * c \in Nat
    <3>1. FirstOf(q + 1) = q * c + 1
      BY <1>2, <2>1
    <3>2. q * c \in Nat
      BY <1>1, <2>1
    <3>3. QED  BY <3>1, <3>2
  <2>4. FirstOf(q + 1) <= id /\ id < FirstOf(q + 1) + c
    BY <1>1, <2>1, <2>3
  <2>5. k < q + 1 => FirstOf(k) + c <= FirstOf(q + 1)
    BY <1>1, <2>1
  <2>6. k > q + 1 => FirstOf(q + 1) + c <= FirstOf(k)
    BY <1>1, <2>1
  <2>7. FirstOf(k) \in Nat /\ FirstOf(q + 1) \in Nat
    BY <1>1, <2>1
  <2>8. QED  BY <1>1, <2>1, <2>2, <2>4, <2>5, <2>6, <2>7
<1>4. ASSUME NEW n \in Nat
      PROVE  /\ n \div c \in Nat
             /\ k <= n \div c <=> FirstOf(k) + c <= n + 1
  <2>. DEFINE q == n \div c
  <2>1. q \in Nat /\ q * c <= n /\ n < q * c + c
    BY <1>1, Quotient
  <2>. HIDE DEF q
  <2>2. FirstOf(q + 1) = q * c + 1 /\ q * c \in Nat
    <3>1. FirstOf(q + 1) = q * c + 1
      BY <1>2, <2>1
    <3>2. q * c \in Nat
      BY <1>1, <2>1
    <3>3. QED  BY <3>1, <3>2
  <2>3. k < q + 1 => FirstOf(k) + c <= FirstOf(q + 1)
    BY <1>1, <2>1
  <2>4. k > q => FirstOf(q + 1) <= FirstOf(k)
    <3>1. CASE k = q + 1
      BY <1>1, <3>1
    <3>2. CASE k > q + 1
      BY <1>1, <2>1, <3>2
    <3>3. QED  BY <2>1, <3>1, <3>2
  <2>5. FirstOf(k) \in Nat /\ FirstOf(q + 1) \in Nat
    BY <1>1, <2>1
  <2>6. k <= q <=> FirstOf(k) + c <= n + 1
    BY <1>1, <2>1, <2>2, <2>3, <2>4, <2>5
  <2>7. QED  BY <2>1, <2>6 DEF q
<1>5. ASSUME NEW n \in Nat
      PROVE  /\ ChunksUpTo(n) \in Nat
             /\ k <= ChunksUpTo(n) <=> FirstOf(k) <= n
  <2>1. n + c - 1 \in Nat /\ ChunksUpTo(n) = (n + c - 1) \div c
    BY <1>1 DEF ChunksUpTo
  <2>2. /\ (n + c - 1) \div c \in Nat
        /\ k <= (n + c - 1) \div c <=> FirstOf(k) + c <= n + c - 1 + 1
    <3>. DEFINE m == n + c - 1
    <3>1. m \in Nat
      BY <1>1
    <3>. HIDE DEF m
    <3>2. m \div c \in Nat /\ (k <= m \div c <=> FirstOf(k) + c <= m + 1)
      BY <1>4, <3>1
    <3>3. QED  BY <3>2 DEF m
  <2>3. FirstOf(k) \in Nat
    BY <1>1
  <2>4. QED  BY <1>1, <2>1, <2>2, <2>3
<1>6. QED  BY <1>3, <1>4, <1>5

----------------------------------------------------------------------------
(* What a snapshot has to be. *)

Event ==
  [type : {"new", "progress", "result", "config"}, solution : Solutions \cup {"none"}]

Result(s) == [type |-> "result", solution |-> s]

\* The log: only config changes have no solution.
EventsOK ==
  /\ events \in Seq(Event)
  /\ Len(events) <= MaxEvents
  /\ \A id \in 1 .. Len(events) :
       events[id].type # "config" => events[id].solution \in Solutions

\* Of the first n events: those that are shown, the progress that a later result
\* supersedes, and by solution the progress that none has superseded yet.
Shown(n) == {id \in 1 .. n : VisibleForFreeze(id)}

ShownProgress(n) == {id \in Shown(n) : events[id].type = "progress"}

IsSettled(s, after, n) == \E id \in after + 1 .. n : events[id] = Result(s)

Superseded(n) == {id \in ShownProgress(n) : IsSettled(events[id].solution, id, n)}

Unsettled(n) ==
  [s \in Solutions |-> {id \in ShownProgress(n) :
                          events[id].solution = s /\ ~IsSettled(s, id, n)}]

\* The snapshot of the first n events.
SnapshotOf(n) ==
  [last |-> n,
   chunks |-> [k \in 1 .. ChunksUpTo(n) |->
                 BuildChunk(k, n, Shown(n), Shown(n) \ Superseded(n))],
   pending |-> Unsettled(n)]

\* The inductive invariant: however a snapshot came about, it is a function of the log.
PagesInv ==
  /\ EventsOK
  /\ snapshot # <<>> => \E n \in 0 .. Len(events) : snapshot = SnapshotOf(n)

----------------------------------------------------------------------------
(* Events that pass by. *)

\* What has been read when events from first on have been consumed up to n.
ChunksOf(ids) == {ChunkOf(i) : i \in ids}

Reading(first, n) ==
  [removed |-> Superseded(n) \ Superseded(first - 1),
   touched |-> ChunksOf(Superseded(n) \ Superseded(first - 1)),
   pending |-> Unsettled(n)]

\* One more event.
LEMMA OneMore ==
  ASSUME EventsOK, NEW id \in 1 .. Len(events)
  PROVE  /\ Shown(id) = Shown(id - 1) \cup (IF VisibleForFreeze(id) THEN {id} ELSE {})
         /\ \A s \in Solutions, i \in 1 .. id - 1 :
              IsSettled(s, i, id) <=> IsSettled(s, i, id - 1) \/ events[id] = Result(s)
         /\ \A s \in Solutions : ~IsSettled(s, id, id)
<1>1. 1 .. id = (1 .. id - 1) \cup {id}
  OBVIOUS
<1>2. Shown(id) = Shown(id - 1) \cup (IF VisibleForFreeze(id) THEN {id} ELSE {})
  BY <1>1 DEF Shown
<1>3. ASSUME NEW s \in Solutions, NEW i \in 1 .. id - 1
      PROVE  IsSettled(s, i, id) <=> IsSettled(s, i, id - 1) \/ events[id] = Result(s)
  <2>1. i + 1 .. id = (i + 1 .. id - 1) \cup {id}
    OBVIOUS
  <2>2. QED  BY <2>1 DEF IsSettled
<1>4. id + 1 .. id = {}
  OBVIOUS
<1>5. QED  BY <1>2, <1>3, <1>4 DEF IsSettled

\* The record fields of an event.
LEMMA EventFacts ==
  ASSUME EventsOK, NEW id \in 1 .. Len(events)
  PROVE  /\ events[id].type \in {"new", "progress", "result", "config"}
         /\ events[id].type # "config" => events[id].solution \in Solutions
         /\ \A s \in Solutions :
              events[id] = Result(s) <=> events[id].type = "result" /\ events[id].solution = s
<1>1. events[id] \in Event
  BY DEF EventsOK
<1>2. QED  BY <1>1 DEF EventsOK, Event, Result

\* An event that is not shown, or is neither progress nor a result, changes nothing.
LEMMA PassesBy ==
  ASSUME EventsOK, NEW id \in 1 .. Len(events),
         ~(VisibleForFreeze(id) /\ events[id].type \in {"progress", "result"})
  PROVE  Superseded(id) = Superseded(id - 1) /\ Unsettled(id) = Unsettled(id - 1)
<1>1. ShownProgress(id) = ShownProgress(id - 1)
  BY OneMore DEF ShownProgress
<1>2. ASSUME NEW i \in ShownProgress(id - 1), NEW s \in Solutions, events[i].solution = s
      PROVE  IsSettled(s, i, id) <=> IsSettled(s, i, id - 1)
  <2>1. /\ i \in 1 .. id - 1 /\ i \in 1 .. Len(events)
        /\ VisibleForFreeze(i) /\ events[i].type = "progress"
    BY DEF ShownProgress, Shown, EventsOK
  <2>2. s \notin FrozenSolutions
    BY <1>2, <2>1 DEF VisibleForFreeze
  <2>3. events[id] # Result(s)
    BY <2>2, EventFacts DEF VisibleForFreeze
  <2>4. QED  BY <2>1, <2>3, OneMore
<1>3. \A i \in ShownProgress(id - 1) : events[i].solution \in Solutions
  BY EventFacts DEF ShownProgress, Shown, EventsOK
<1>4. Superseded(id) = Superseded(id - 1)
  BY <1>1, <1>2, <1>3 DEF Superseded
<1>5. Unsettled(id) = Unsettled(id - 1)
  BY <1>1, <1>2, <1>3 DEF Unsettled
<1>6. QED  BY <1>4, <1>5

\* Progress that is shown supersedes nothing.
LEMMA ProgressPasses ==
  ASSUME EventsOK, NEW id \in 1 .. Len(events),
         VisibleForFreeze(id), events[id].type = "progress"
  PROVE  /\ Superseded(id) = Superseded(id - 1)
         /\ Unsettled(id) = [Unsettled(id - 1) EXCEPT ![events[id].solution] = @ \cup {id}]
<1>. DEFINE sol == events[id].solution
<1>1. ShownProgress(id) = ShownProgress(id - 1) \cup {id} /\ id \notin ShownProgress(id - 1)
  BY OneMore DEF ShownProgress, Shown
<1>2. \A i \in ShownProgress(id - 1) : events[i].solution \in Solutions /\ i \in 1 .. id - 1
  BY EventFacts DEF ShownProgress, Shown, EventsOK
<1>3. \A s \in Solutions : events[id] # Result(s)
  BY EventFacts
<1>4. \A i \in ShownProgress(id - 1), s \in Solutions :
        IsSettled(s, i, id) <=> IsSettled(s, i, id - 1)
  BY <1>2, <1>3, OneMore
<1>5. sol \in Solutions /\ ~IsSettled(sol, id, id)
  BY EventFacts, OneMore
<1>6. Superseded(id) = Superseded(id - 1)
  BY <1>1, <1>2, <1>4, <1>5 DEF Superseded
<1>7. ASSUME NEW s \in Solutions
      PROVE  Unsettled(id)[s] = [Unsettled(id - 1) EXCEPT ![sol] = @ \cup {id}][s]
  BY <1>1, <1>2, <1>4, <1>5 DEF Unsettled
<1>8. QED  BY <1>6, <1>7 DEF Unsettled

\* A result that is shown supersedes what is pending of its solution.
LEMMA ResultPasses ==
  ASSUME EventsOK, NEW id \in 1 .. Len(events),
         VisibleForFreeze(id), events[id].type = "result"
  PROVE  /\ Superseded(id) = Superseded(id - 1) \cup Unsettled(id - 1)[events[id].solution]
         /\ Unsettled(id) = [Unsettled(id - 1) EXCEPT ![events[id].solution] = {}]
<1>. DEFINE sol == events[id].solution
<1>1. ShownProgress(id) = ShownProgress(id - 1)
  BY OneMore DEF ShownProgress
<1>2. \A i \in ShownProgress(id - 1) : events[i].solution \in Solutions /\ i \in 1 .. id - 1
  BY EventFacts DEF ShownProgress, Shown, EventsOK
<1>3. sol \in Solutions /\ \A s \in Solutions : events[id] = Result(s) <=> s = sol
  BY EventFacts
<1>4. \A i \in ShownProgress(id - 1), s \in Solutions :
        IsSettled(s, i, id) <=> IsSettled(s, i, id - 1) \/ s = sol
  BY <1>2, <1>3, OneMore
<1>5. Superseded(id) = Superseded(id - 1) \cup Unsettled(id - 1)[sol]
  BY <1>1, <1>2, <1>3, <1>4 DEF Superseded, Unsettled
<1>6. ASSUME NEW s \in Solutions
      PROVE  Unsettled(id)[s] = [Unsettled(id - 1) EXCEPT ![sol] = {}][s]
  BY <1>1, <1>2, <1>3, <1>4 DEF Unsettled
<1>7. QED  BY <1>5, <1>6 DEF Unsettled

\* One event more is read.
LEMMA ConsumeReads ==
  ASSUME EventsOK, NEW first \in Nat \ {0}, NEW id \in 1 .. Len(events), first <= id
  PROVE  Consume(Reading(first, id - 1), id) = Reading(first, id)
<1>. DEFINE sol == events[id].solution
            before == Superseded(first - 1)
            removed == Superseded(id - 1) \ before
            open == Unsettled(id - 1)
            read == [removed |-> removed, touched |-> ChunksOf(removed), pending |-> open]
<1>1. Reading(first, id - 1) = read
  BY DEF Reading
<1>2. Reading(first, id) = [removed |-> Superseded(id) \ before,
                            touched |-> ChunksOf(Superseded(id) \ before),
                            pending |-> Unsettled(id)]
  BY DEF Reading
<1>3. sol \in Solutions => open[sol] \cap before = {}
  <2>. SUFFICES ASSUME sol \in Solutions, NEW i \in open[sol], i \in before
                PROVE  FALSE
    OBVIOUS
  <2>1. events[i].solution = sol /\ ~IsSettled(sol, i, id - 1)
    BY DEF Unsettled
  <2>2. i \in 1 .. first - 1 /\ IsSettled(sol, i, first - 1)
    BY <2>1 DEF Superseded, ShownProgress, Shown
  <2>3. i + 1 .. first - 1 \subseteq i + 1 .. id - 1
    BY <2>2
  <2>4. QED  BY <2>1, <2>2, <2>3 DEF IsSettled
<1>. DEFINE Consumes(superseded, later) ==
              Consume(read, id) = [removed |-> removed \cup superseded,
                                   touched |-> ChunksOf(removed) \cup ChunksOf(superseded),
                                   pending |-> later]
<1>4. ASSUME NEW superseded, NEW later, Consumes(superseded, later),
             Superseded(id) \ before = removed \cup superseded, Unsettled(id) = later
      PROVE  Consume(read, id) = Reading(first, id)
  <2>1. ChunksOf(removed \cup superseded) = ChunksOf(removed) \cup ChunksOf(superseded)
    BY DEF ChunksOf
  <2>. HIDE DEF removed, before, read
  <2>2. QED  BY <1>2, <1>4, <2>1
<1>5. CASE VisibleForFreeze(id) /\ events[id].type = "progress"
  <2>1. /\ Superseded(id) = Superseded(id - 1)
        /\ Unsettled(id) = [open EXCEPT ![sol] = @ \cup {id}]
    BY <1>5, ProgressPasses
  <2>2. Consumes({}, [open EXCEPT ![sol] = @ \cup {id}])
    BY <1>5 DEF Consume, ChunksOf
  <2>. HIDE DEF open, before, sol, Consumes
  <2>3. QED  BY <1>1, <1>4, <2>1, <2>2
<1>6. CASE VisibleForFreeze(id) /\ events[id].type = "result"
  <2>1. /\ Superseded(id) = Superseded(id - 1) \cup open[sol]
        /\ Unsettled(id) = [open EXCEPT ![sol] = {}]
    BY <1>6, ResultPasses
  <2>2. Consumes(open[sol], [open EXCEPT ![sol] = {}])
    BY <1>6 DEF Consume, ChunksOf
  <2>3. sol \in Solutions
    BY <1>6, EventFacts
  <2>. HIDE DEF open, before, sol, Consumes
  <2>4. Superseded(id) \ before = removed \cup open[sol]
    BY <1>3, <2>1, <2>3
  <2>5. QED  BY <1>1, <1>4, <2>1, <2>2, <2>4
<1>7. CASE ~(VisibleForFreeze(id) /\ events[id].type \in {"progress", "result"})
  <2>1. Superseded(id) = Superseded(id - 1) /\ Unsettled(id) = open
    BY <1>7, PassesBy
  <2>2. Consumes({}, open)
    BY <1>7 DEF Consume, ChunksOf
  <2>. HIDE DEF open, before, sol, Consumes
  <2>3. QED  BY <1>1, <1>4, <2>1, <2>2
<1>8. QED  BY <1>5, <1>6, <1>7

\* What a build or an append reads.
LEMMA ConsumedFacts ==
  ASSUME EventsOK, NEW first \in Nat \ {0}, NEW last \in 0 .. Len(events), first <= last + 1
  PROVE  Consumed(Unsettled(first - 1), first, last) = Reading(first, last)
<1>. DEFINE D == first - 1 .. last
            none == [removed |-> {}, touched |-> {}, pending |-> Unsettled(first - 1)]
            Q(f) == f = [id \in D |-> IF id < first THEN none ELSE Consume(f[id - 1], id)]
            g == [id \in D |-> Reading(first, id)]
            f == CHOOSE x : Q(x)
<1>1. Len(events) \in Nat /\ last \in Nat /\ first - 1 \in D /\ last \in D
  BY DEF EventsOK
<1>2. Reading(first, first - 1) = none
  BY DEF Reading, ChunksOf
<1>3. \A id \in D : id >= first => id - 1 \in D /\ id \in 1 .. Len(events)
  BY <1>1
<1>4. \A id \in D : id >= first => Consume(Reading(first, id - 1), id) = Reading(first, id)
  BY <1>3, ConsumeReads
<1>5. Consumed(Unsettled(first - 1), first, last) = f[last]
  BY DEF Consumed
<1>. HIDE DEF none
<1>6. Q(g)
  <2>1. \A id \in D : id >= first => Consume(g[id - 1], id) = g[id]
    BY <1>3, <1>4
  <2>2. \A id \in D : id < first => g[id] = none
    BY <1>1, <1>2
  <2>3. \A id \in D : g[id] = IF id < first THEN none ELSE Consume(g[id - 1], id)
    BY <1>1, <2>1, <2>2
  <2>4. QED  BY <2>3
<1>. HIDE DEF g, Q
<1>7. Q(f)
  BY <1>6
<1>8. \A id \in D : f[id] = IF id < first THEN none ELSE Consume(f[id - 1], id)
  BY <1>7 DEF Q
<1>9. \A id \in D : g[id] = IF id < first THEN none ELSE Consume(g[id - 1], id)
  BY <1>6 DEF Q
<1>. HIDE DEF f
<1>10. \A id \in D : f[id] = g[id]
  <2>. DEFINE U == {id \in D : f[id] # g[id]}
  <2>1. SUFFICES ASSUME U # {}
                 PROVE  FALSE
    OBVIOUS
  <2>2. U \in SUBSET Nat
    BY <1>1
  <2>3. PICK x \in U : \A y \in U : x <= y
    <3>. HIDE DEF U
    <3>1. QED  BY <2>1, <2>2, LeastElement
  <2>4. x \in D /\ x \in Int
    BY <1>1
  <2>5. CASE x < first
    BY <1>8, <1>9, <2>4, <2>5
  <2>6. CASE x >= first
    <3>1. x - 1 \in D /\ x - 1 \notin U
      BY <1>3, <2>3, <2>4, <2>6
    <3>2. f[x - 1] = g[x - 1]
      BY <3>1
    <3>3. ~(x < first)
      BY <2>4, <2>6
    <3>4. f[x] = Consume(f[x - 1], x) /\ g[x] = Consume(g[x - 1], x)
      BY <1>8, <1>9, <2>4, <3>3
    <3>5. QED  BY <3>2, <3>4
  <2>7. QED  BY <2>4, <2>5, <2>6
<1>11. g[last] = Reading(first, last)
  BY <1>1 DEF g
<1>12. QED  BY <1>1, <1>5, <1>10, <1>11

----------------------------------------------------------------------------
(* Snapshots. *)

\* The slots of the events of ids in chunk k, of n events.
Slots(k, n, ids) ==
  {slot \in 0 .. ChunkEventCount - 1 : FirstOf(k) + slot <= n /\ FirstOf(k) + slot \in ids}

\* A chunk is its slots.
LEMMA ChunkIsSlots ==
  \A k, n, full, compact :
    BuildChunk(k, n, full, compact)
      = [full |-> Slots(k, n, full), compact |-> Slots(k, n, compact)]
BY DEF BuildChunk, Slots

\* More events leave shown what was shown, and superseded what was superseded.
LEMMA ShownGrows ==
  ASSUME NEW m \in Nat, NEW n \in Nat, m <= n
  PROVE  /\ \A id \in 1 .. m : id \in Shown(n) <=> id \in Shown(m)
         /\ Superseded(m) \subseteq Superseded(n)
         /\ Superseded(m) \subseteq 1 .. m
<1>1. \A id \in 1 .. m : id \in Shown(n) <=> id \in Shown(m)
  BY DEF Shown
<1>2. \A id \in ShownProgress(m) : id \in 1 .. m /\ id \in ShownProgress(n)
  BY DEF ShownProgress, Shown
<1>3. ASSUME NEW id \in Superseded(m)
      PROVE  id \in Superseded(n)
  <2>1. id \in 1 .. m /\ id \in ShownProgress(n) /\ IsSettled(events[id].solution, id, m)
    BY <1>2 DEF Superseded
  <2>2. id + 1 .. m \subseteq id + 1 .. n
    BY <2>1
  <2>3. QED  BY <2>1, <2>2 DEF Superseded, IsSettled
<1>4. QED  BY <1>1, <1>2, <1>3 DEF Superseded

\* A whole chunk only loses what is superseded.
LEMMA WholeChunk ==
  ASSUME NEW m \in Nat, NEW n \in Nat, m <= n, NEW k \in Nat \ {0},
         FirstOf(k) + ChunkEventCount <= m + 1
  PROVE  FilterChunk(k, BuildChunk(k, m, Shown(m), Shown(m) \ Superseded(m)),
                     Superseded(n) \ Superseded(m))
           = BuildChunk(k, n, Shown(n), Shown(n) \ Superseded(n))
<1>1. ChunkEventCount \in Nat \ {0} /\ FirstOf(k) \in Nat \ {0}
  BY ChunksApart
<1>2. \A slot \in 0 .. ChunkEventCount - 1 :
        FirstOf(k) + slot \in 1 .. m /\ FirstOf(k) + slot <= m /\ FirstOf(k) + slot <= n
  BY <1>1
<1>3. Slots(k, m, Shown(m)) = Slots(k, n, Shown(n))
  BY <1>2, ShownGrows DEF Slots
<1>4. {slot \in Slots(k, m, Shown(m) \ Superseded(m)) :
         FirstOf(k) + slot \notin Superseded(n) \ Superseded(m)}
        = Slots(k, n, Shown(n) \ Superseded(n))
  BY <1>2, ShownGrows DEF Slots
<1>5. QED  BY <1>3, <1>4, ChunkIsSlots DEF FilterChunk

\* A chunk behind the whole ones is built from those of its events that the last chunk has
\* already, and the new ones.
LEMMA BuiltChunk ==
  ASSUME NEW m \in Nat, NEW n \in Nat, m <= n, NEW k \in Nat \ {0}, NEW w \in Nat \ {0},
         w <= k, m + 1 < FirstOf(w) + ChunkEventCount,
         NEW full, full = IdsOf(w, Slots(w, m, Shown(m)))
                            \cup {id \in m + 1 .. n : VisibleForFreeze(id)},
         NEW compact, compact = (IdsOf(w, Slots(w, m, Shown(m) \ Superseded(m)))
                                  \cup {id \in m + 1 .. n : VisibleForFreeze(id)})
                                \ (Superseded(n) \ Superseded(m))
  PROVE  BuildChunk(k, n, full, compact) = BuildChunk(k, n, Shown(n), Shown(n) \ Superseded(n))
<1>1. /\ ChunkEventCount \in Nat \ {0} /\ FirstOf(k) \in Nat \ {0} /\ FirstOf(w) \in Nat \ {0}
      /\ FirstOf(w) <= FirstOf(k)
  <2>1. CASE w = k
    BY <2>1, ChunksApart
  <2>2. CASE w < k
    BY <2>2, ChunksApart
  <2>3. QED  BY <2>1, <2>2
<1>2. ASSUME NEW id \in 1 .. n, FirstOf(k) <= id, NEW ids \in SUBSET (1 .. m)
      PROVE  id \in IdsOf(w, Slots(w, m, ids)) <=> id \in ids
  <2>1. ASSUME id \in ids
        PROVE  id \in IdsOf(w, Slots(w, m, ids))
    <3>1. /\ id - FirstOf(w) \in 0 .. ChunkEventCount - 1 /\ FirstOf(w) + (id - FirstOf(w)) = id
          /\ id <= m
      BY <1>1, <1>2, <2>1
    <3>2. id - FirstOf(w) \in Slots(w, m, ids)
      BY <2>1, <3>1 DEF Slots
    <3>3. QED  BY <3>1, <3>2 DEF IdsOf
  <2>2. QED  BY <2>1 DEF IdsOf, Slots
<1>3. /\ Shown(m) \in SUBSET (1 .. m) /\ Shown(m) \ Superseded(m) \in SUBSET (1 .. m)
      /\ Superseded(m) \subseteq 1 .. m /\ Superseded(m) \subseteq Superseded(n)
      /\ \A id \in 1 .. m : id \in Shown(n) <=> id \in Shown(m)
  BY ShownGrows DEF Shown
<1>4. ASSUME NEW id \in 1 .. n, FirstOf(k) <= id
      PROVE  /\ id \in full <=> id \in Shown(n)
             /\ id \in compact <=> id \in Shown(n) \ Superseded(n)
  <2>1. /\ id \in IdsOf(w, Slots(w, m, Shown(m))) <=> id \in Shown(m)
        /\ id \in IdsOf(w, Slots(w, m, Shown(m) \ Superseded(m)))
             <=> id \in Shown(m) \ Superseded(m)
    BY <1>2, <1>3, <1>4
  <2>2. CASE id <= m
    <3>1. id \in 1 .. m /\ id \notin m + 1 .. n
      BY <2>2
    <3>2. QED  BY <1>3, <2>1, <3>1
  <2>3. CASE id > m
    <3>1. id \notin 1 .. m /\ id \in m + 1 .. n
      BY <2>3
    <3>2. id \in Shown(n) <=> VisibleForFreeze(id)
      BY DEF Shown
    <3>3. id \notin Shown(m) /\ id \notin Superseded(m)
      BY <1>3, <3>1
    <3>4. QED  BY <2>1, <3>1, <3>2, <3>3
  <2>4. QED  BY <2>2, <2>3
<1>5. \A slot \in 0 .. ChunkEventCount - 1 :
        FirstOf(k) + slot <= n
          => FirstOf(k) + slot \in 1 .. n /\ FirstOf(k) <= FirstOf(k) + slot
  BY <1>1
<1>6. Slots(k, n, full) = Slots(k, n, Shown(n))
  BY <1>4, <1>5 DEF Slots
<1>7. Slots(k, n, compact) = Slots(k, n, Shown(n) \ Superseded(n))
  BY <1>4, <1>5 DEF Slots
<1>8. QED  BY <1>6, <1>7, ChunkIsSlots

\* The snapshot that is built at once.
LEMMA BuildFacts ==
  ASSUME EventsOK, NEW n \in 0 .. Len(events)
  PROVE  Build(n) = SnapshotOf(n)
<1>1. Unsettled(0) = [s \in Solutions |-> {}] /\ Superseded(0) = {}
  BY DEF Unsettled, Superseded, ShownProgress, Shown
<1>2. 1 - 1 = 0 /\ n \in Nat /\ 1 <= n + 1
  BY DEF EventsOK
<1>3. Consumed(Unsettled(0), 1, n) = Reading(1, n)
  BY <1>2, ConsumedFacts
<1>4. Consumed([s \in Solutions |-> {}], 1, n) = Reading(1, n)
  BY <1>1, <1>3
<1>5. Reading(1, n).removed = Superseded(n) /\ Reading(1, n).pending = Unsettled(n)
  BY <1>1, <1>2 DEF Reading
<1>6. {id \in 1 .. n : VisibleForFreeze(id)} = Shown(n)
  BY DEF Shown
<1>7. QED  BY <1>4, <1>5, <1>6 DEF Build, SnapshotOf

\* The snapshot that is extended.
LEMMA RebuildFacts ==
  ASSUME EventsOK, NEW m \in 0 .. Len(events), NEW n \in m + 1 .. Len(events),
         snapshot = SnapshotOf(m)
  PROVE  RebuildAppendedChunks(n, Superseded(n) \ Superseded(m)) = SnapshotOf(n).chunks
<1>. DEFINE removed == Superseded(n) \ Superseded(m)
            w == m \div ChunkEventCount
            Chunk(k) == BuildChunk(k, m, Shown(m), Shown(m) \ Superseded(m))
            tail == IF w < Len(snapshot.chunks) THEN snapshot.chunks[w + 1]
                    ELSE [full |-> {}, compact |-> {}]
            new == {id \in m + 1 .. n : VisibleForFreeze(id)}
            full == IdsOf(w + 1, tail.full) \cup new
            compact == (IdsOf(w + 1, tail.compact) \cup new) \ removed
<1>1. /\ m \in Nat /\ n \in Nat /\ m <= n /\ Len(events) \in Nat
      /\ ChunkEventCount \in Nat \ {0}
      /\ ChunksUpTo(m) \in Nat /\ ChunksUpTo(n) \in Nat /\ w \in Nat /\ w + 1 \in Nat \ {0}
  <2>1. 1 \in Nat \ {0}
    OBVIOUS
  <2>2. Len(events) \in Nat
    BY DEF EventsOK
  <2>3. m \in Nat /\ n \in Nat /\ m <= n
    BY <2>2
  <2>4. ChunksUpTo(m) \in Nat /\ ChunksUpTo(n) \in Nat /\ w \in Nat
    BY <2>1, <2>3, ChunkFacts
  <2>. HIDE DEF w
  <2>5. QED  BY <2>2, <2>3, <2>4, ChunksApart
<1>2. /\ snapshot.last = m
      /\ snapshot.chunks = [k \in 1 .. ChunksUpTo(m) |-> Chunk(k)]
      /\ SnapshotOf(n).chunks
           = [k \in 1 .. ChunksUpTo(n) |-> BuildChunk(k, n, Shown(n), Shown(n) \ Superseded(n))]
  BY DEF SnapshotOf
<1>3. Len(snapshot.chunks) = ChunksUpTo(m)
  BY <1>1, <1>2
<1>4. RebuildAppendedChunks(n, removed)
        = [k \in 1 .. ChunksUpTo(n) |->
             IF k <= w THEN FilterChunk(k, snapshot.chunks[k], removed)
             ELSE BuildChunk(k, n, full, compact)]
  BY <1>2 DEF RebuildAppendedChunks
<1>5. \A k \in Nat \ {0} :
        /\ k <= ChunksUpTo(m) <=> FirstOf(k) <= m
        /\ k <= w <=> FirstOf(k) + ChunkEventCount <= m + 1
        /\ FirstOf(k) \in Nat
  BY <1>1, ChunkFacts, ChunksApart
<1>. HIDE DEF w
<1>6. ASSUME NEW k \in Nat \ {0}, k <= w
      PROVE  FilterChunk(k, snapshot.chunks[k], removed)
               = BuildChunk(k, n, Shown(n), Shown(n) \ Superseded(n))
  <2>1. FirstOf(k) + ChunkEventCount <= m + 1
    BY <1>5, <1>6
  <2>2. FirstOf(k) <= m
    BY <1>1, <1>5, <2>1
  <2>3. k \in 1 .. ChunksUpTo(m)
    BY <1>1, <1>5, <2>2
  <2>4. snapshot.chunks[k] = Chunk(k)
    BY <1>2, <2>3
  <2>5. QED  BY <1>1, <2>1, <2>4, WholeChunk
<1>7. /\ tail.full = Slots(w + 1, m, Shown(m))
      /\ tail.compact = Slots(w + 1, m, Shown(m) \ Superseded(m))
  <2>1. CASE w + 1 <= ChunksUpTo(m)
    <3>1. w < Len(snapshot.chunks) /\ w + 1 \in 1 .. ChunksUpTo(m)
      BY <1>1, <1>3, <2>1
    <3>2. tail = Chunk(w + 1)
      BY <1>2, <3>1
    <3>. HIDE DEF tail
    <3>3. QED  BY <3>2, ChunkIsSlots
  <2>2. CASE ~(w + 1 <= ChunksUpTo(m))
    <3>1. tail = [full |-> {}, compact |-> {}]
      BY <1>1, <1>3, <2>2
    <3>2. FirstOf(w + 1) > m
      BY <1>1, <1>5, <2>2
    <3>3. \A ids : Slots(w + 1, m, ids) = {}
      BY <1>1, <1>5, <3>2 DEF Slots
    <3>. HIDE DEF tail
    <3>4. QED  BY <3>1, <3>3
  <2>3. QED  BY <2>1, <2>2
<1>8. m + 1 < FirstOf(w + 1) + ChunkEventCount
  BY <1>1, <1>5
<1>9. ASSUME NEW k \in Nat \ {0}, ~(k <= w)
      PROVE  BuildChunk(k, n, full, compact)
               = BuildChunk(k, n, Shown(n), Shown(n) \ Superseded(n))
  <2>1. w + 1 <= k
    BY <1>1, <1>9
  <2>2. /\ full = IdsOf(w + 1, Slots(w + 1, m, Shown(m))) \cup new
        /\ compact = (IdsOf(w + 1, Slots(w + 1, m, Shown(m) \ Superseded(m))) \cup new)
                     \ removed
    BY <1>7
  <2>. HIDE DEF full, compact
  <2>3. QED  BY <1>1, <1>8, <2>1, <2>2, BuiltChunk
<1>. HIDE DEF full, compact, removed, Chunk
<1>10. \A k \in 1 .. ChunksUpTo(n) : k \in Nat \ {0}
  BY <1>1
<1>11. QED  BY <1>2, <1>4, <1>6, <1>9, <1>10 DEF removed

\* An event more is no concern of a snapshot.
LEMMA SnapshotKeeps ==
  ASSUME EventsOK, NEW e \in Event, events' = Append(events, e), NEW n \in 0 .. Len(events)
  PROVE  SnapshotOf(n)' = SnapshotOf(n)
<1>1. \A id \in 1 .. n : events'[id] = events[id]
  BY DEF EventsOK
<1>2. \A id \in 1 .. n : VisibleForFreeze(id)' <=> VisibleForFreeze(id)
  BY <1>1 DEF VisibleForFreeze
<1>3. Shown(n)' = Shown(n)
  BY <1>2 DEF Shown
<1>4. ShownProgress(n)' = ShownProgress(n)
  BY <1>1, <1>3 DEF ShownProgress, Shown
<1>5. \A s, id : id \in 1 .. n => (IsSettled(s, id, n)' <=> IsSettled(s, id, n))
  BY <1>1 DEF IsSettled, Result
<1>6. \A id \in ShownProgress(n) : id \in 1 .. n /\ events'[id] = events[id]
  BY <1>1 DEF ShownProgress, Shown
<1>7. Superseded(n)' = Superseded(n)
  BY <1>4, <1>5, <1>6 DEF Superseded
<1>8. Unsettled(n)' = Unsettled(n)
  BY <1>4, <1>5, <1>6 DEF Unsettled
<1>9. QED  BY <1>3, <1>7, <1>8 DEF SnapshotOf, BuildChunk

LEMMA PagesStart == PagesInit => PagesInv
BY EventPagesAssumption DEF PagesInit, PagesInv, EventsOK

LEMMA AppendEventStep ==
  ASSUME PagesInv, NEW e \in NewEvent \cup LaterEvents, AppendEvent(e)
  PROVE  PagesInv'
<1>1. EventsOK /\ Len(events) \in Nat /\ DOMAIN events = 1 .. Len(events)
  BY DEF PagesInv, EventsOK
<1>2. e \in Event /\ (e.type # "config" => e.solution \in Solutions)
  <2>1. CASE e \in NewEvent
    BY <2>1 DEF NewEvent, Event
  <2>2. CASE e \in LaterEvents
    <3>1. \A i \in DOMAIN events : events[i].type = "new" => events[i].solution \in Solutions
      BY <1>1 DEF EventsOK
    <3>2. QED  BY <2>2, <3>1 DEF LaterEvents, Event
  <2>3. QED  BY <2>1, <2>2
<1>3. /\ events' = Append(events, e) /\ Len(events) < MaxEvents /\ UNCHANGED snapshot
      /\ Len(events') = Len(events) + 1
  BY <1>1 DEF AppendEvent, EventsOK
<1>4. EventsOK'
  <2>1. events' \in Seq(Event) /\ Len(events') <= MaxEvents
    BY <1>1, <1>2, <1>3, EventPagesAssumption DEF EventsOK
  <2>2. ASSUME NEW id \in 1 .. Len(events')
        PROVE  events'[id].type # "config" => events'[id].solution \in Solutions
    <3>1. CASE id = Len(events) + 1
      BY <1>1, <1>2, <1>3, <3>1 DEF EventsOK
    <3>2. CASE id # Len(events) + 1
      BY <1>1, <1>2, <1>3, <3>2 DEF EventsOK
    <3>3. QED  BY <3>1, <3>2
  <2>3. QED  BY <2>1, <2>2 DEF EventsOK
<1>5. snapshot # <<>> => \E n \in 0 .. Len(events') : snapshot = SnapshotOf(n)'
  BY <1>1, <1>2, <1>3, SnapshotKeeps DEF PagesInv
<1>6. QED  BY <1>3, <1>4, <1>5 DEF PagesInv

\* The snapshot changes, the log does not.
LEMMA LogStays ==
  ASSUME UNCHANGED events
  PROVE  (EventsOK' <=> EventsOK) /\ \A n : SnapshotOf(n)' = SnapshotOf(n)
BY DEF EventsOK, SnapshotOf, BuildChunk, Superseded, Unsettled, ShownProgress, Shown,
       IsSettled, VisibleForFreeze

LEMMA AppendCommittedStep ==
  ASSUME PagesInv, NEW last \in 1 .. Len(events), NEW hydration \in BOOLEAN,
         AppendCommitted(last, hydration)
  PROVE  PagesInv'
<1>1. EventsOK /\ Len(events) \in Nat /\ UNCHANGED events /\ snapshot # <<>>
  BY DEF PagesInv, EventsOK, AppendCommitted
<1>2. PICK m \in 0 .. Len(events) : snapshot = SnapshotOf(m)
  BY <1>1 DEF PagesInv
<1>3. snapshot.last = m /\ snapshot.pending = Unsettled(m) /\ last \in m + 1 .. Len(events)
  BY <1>2 DEF SnapshotOf, AppendCommitted
<1>. DEFINE read == Consumed(snapshot.pending, snapshot.last + 1, last)
<1>4. /\ read.removed = Superseded(last) \ Superseded(m)
      /\ read.pending = Unsettled(last)
  <2>1. m + 1 \in Nat \ {0} /\ m + 1 - 1 = m /\ m + 1 <= last + 1 /\ last \in 0 .. Len(events)
    BY <1>1, <1>3
  <2>2. Consumed(Unsettled(m + 1 - 1), m + 1, last) = Reading(m + 1, last)
    BY <1>1, <2>1, ConsumedFacts
  <2>3. read = Reading(m + 1, last)
    BY <1>3, <2>1, <2>2
  <2>. HIDE DEF read
  <2>4. QED  BY <2>1, <2>3 DEF Reading
<1>5. [last |-> last, chunks |-> RebuildAppendedChunks(last, read.removed),
       pending |-> read.pending] = SnapshotOf(last)
  <2>1. RebuildAppendedChunks(last, Superseded(last) \ Superseded(m)) = SnapshotOf(last).chunks
    BY <1>1, <1>2, <1>3, RebuildFacts
  <2>2. SnapshotOf(last) = [last |-> last, chunks |-> SnapshotOf(last).chunks,
                            pending |-> Unsettled(last)]
    BY DEF SnapshotOf
  <2>. HIDE DEF read
  <2>3. QED  BY <1>4, <2>1, <2>2
<1>6. Build(last) = SnapshotOf(last)
  BY <1>1, BuildFacts
<1>7. snapshot' = SnapshotOf(last) \/ snapshot' = <<>>
  BY <1>5, <1>6 DEF AppendCommitted
<1>8. last \in 0 .. Len(events)
  BY <1>1
<1>9. QED  BY <1>1, <1>7, <1>8, LogStays DEF PagesInv

LEMMA PagesKept == PagesInv /\ [PagesNext]_pagesVars => PagesInv'
<1>. SUFFICES ASSUME PagesInv, [PagesNext]_pagesVars
              PROVE  PagesInv'
  OBVIOUS
<1>1. EventsOK /\ Len(events) \in 0 .. Len(events)
  BY DEF PagesInv, EventsOK
<1>2. ASSUME NEW e \in NewEvent \cup LaterEvents, AppendEvent(e)
      PROVE  PagesInv'
  BY <1>2, AppendEventStep
<1>3. CASE BuildSnapshot
  <2>1. UNCHANGED events /\ snapshot' = SnapshotOf(Len(events))
    BY <1>1, <1>3, BuildFacts DEF BuildSnapshot
  <2>2. QED  BY <1>1, <2>1, LogStays DEF PagesInv
<1>4. ASSUME NEW last \in 1 .. Len(events), NEW hydration \in BOOLEAN,
             AppendCommitted(last, hydration)
      PROVE  PagesInv'
  BY <1>4, AppendCommittedStep
<1>5. CASE DropSnapshot
  BY <1>1, <1>5, LogStays DEF DropSnapshot, PagesInv
<1>6. CASE UNCHANGED pagesVars
  <2>1. UNCHANGED <<events, snapshot>>
    BY <1>6 DEF pagesVars
  <2>2. QED  BY <2>1, LogStays DEF PagesInv
<1>7. QED  BY <1>2, <1>3, <1>4, <1>5, <1>6 DEF PagesNext

LEMMA PagesInductive == PagesSpec => []PagesInv
BY PagesStart, PagesKept, PTL DEF PagesSpec

\* Type correctness of log and snapshot.
THEOREM PagesTypeCorrect == PagesSpec => []PagesTypeOK
<1>1. PagesInv => PagesTypeOK
  <2>. SUFFICES ASSUME PagesInv
                PROVE  PagesTypeOK
    OBVIOUS
  <2>1. EventsOK /\ Len(events) \in Nat
    BY DEF PagesInv, EventsOK
  <2>2. ASSUME NEW n \in 0 .. Len(events), snapshot = SnapshotOf(n)
        PROVE  /\ snapshot.last \in 0 .. Len(events)
               /\ Len(snapshot.chunks) = ChunksUpTo(snapshot.last)
               /\ \A s \in Solutions : snapshot.pending[s] \subseteq 1 .. snapshot.last
    <3>1. ChunksUpTo(n) \in Nat
      <4>1. 1 \in Nat \ {0} /\ n \in Nat
        BY <2>1
      <4>2. QED  BY <4>1, ChunkFacts
    <3>2. snapshot.last = n /\ Len(snapshot.chunks) = ChunksUpTo(n)
      BY <2>2, <3>1 DEF SnapshotOf
    <3>3. snapshot.pending = Unsettled(n)
      BY <2>2 DEF SnapshotOf
    <3>4. QED  BY <3>2, <3>3 DEF Unsettled, ShownProgress, Shown
  <2>3. QED  BY <2>1, <2>2 DEF PagesInv, PagesTypeOK, EventsOK
<1>2. QED  BY <1>1, PagesInductive, PTL

----------------------------------------------------------------------------
(* What a page shows. *)

\* The events of a page, of n, behind after: the cursor to go on from, and what follows.
Reach(after, limit, n) == IF after + limit < n THEN after + limit ELSE n

\* What a page of n events shows.
LEMMA ServicePageIs ==
  ASSUME EventsOK, NEW n \in 0 .. Len(events), NEW after \in 0 .. n, NEW limit \in Nat,
         NEW compact \in BOOLEAN
  PROVE  LET reach == Reach(after, limit, n)
             ids == IF compact THEN Shown(n) \ Superseded(n) ELSE Shown(n)
         IN  ServicePage(after, limit, compact, n)
               = [shown |-> {id \in ids : after < id /\ id <= reach},
                  checkpoint |-> reach, hasMore |-> reach < n]
<1>. DEFINE reach == Reach(after, limit, n)
            ids == IF compact THEN Shown(n) \ Superseded(n) ELSE Shown(n)
            rows == {id \in after + 1 .. n : id <= after + limit + 1}
            page == {id \in rows : id <= after + limit}
            shown == {id \in page : /\ VisibleForFreeze(id)
                                    /\ compact => ShownCompact(id, after, n)}
            checkpoint == IF page = {} THEN after
                          ELSE CHOOSE id \in page : \A other \in page : other <= id
<1>1. /\ n \in Nat /\ after \in Nat /\ Len(events) \in Nat
      /\ reach \in Nat /\ after <= reach /\ reach <= n /\ reach <= after + limit
      /\ reach < n => reach = after + limit
  BY DEF EventsOK, Reach
<1>2. page = after + 1 .. reach
  BY <1>1 DEF Reach
<1>3. checkpoint = reach
  <2>1. CASE reach = after
    <3>1. page = {}
      BY <1>1, <1>2, <2>1
    <3>2. QED  BY <2>1, <3>1
  <2>2. CASE reach # after
    <3>1. reach \in page /\ \A other \in page : other <= reach
      BY <1>1, <1>2, <2>2
    <3>2. \A id \in page : id \in Int
      BY <1>1, <1>2
    <3>3. checkpoint = CHOOSE id \in page : \A other \in page : other <= id
      BY <3>1
    <3>. HIDE DEF page, reach, checkpoint
    <3>4. checkpoint \in page /\ \A other \in page : other <= checkpoint
      BY <3>1, <3>3
    <3>5. QED  BY <1>1, <3>1, <3>2, <3>4
  <2>3. QED  BY <2>1, <2>2
<1>4. Cardinality(rows) > limit <=> reach < n
  <2>. DEFINE m == IF after + limit + 1 < n THEN after + limit + 1 ELSE n
  <2>1. m \in Nat /\ after <= m /\ (m - after > limit <=> reach < n)
    BY <1>1 DEF Reach
  <2>2. rows = after + 1 .. m
    BY <1>1
  <2>. HIDE DEF m
  <2>3. Cardinality(after + 1 .. m) = m - after
    <3>1. Cardinality(after + 1 .. m) = IF after + 1 > m THEN 0 ELSE m - (after + 1) + 1
      BY <1>1, <2>1, FS_Interval
    <3>2. QED  BY <1>1, <2>1, <3>1
  <2>4. QED  BY <2>1, <2>2, <2>3
<1>5. ASSUME NEW id \in page, VisibleForFreeze(id)
      PROVE  ShownCompact(id, after, n) <=> id \notin Superseded(n)
  <2>. DEFINE results == {i \in after + 1 .. n : events[i] = Result(events[id].solution)}
  <2>1. id \in after + 1 .. n /\ id \in 1 .. Len(events) /\ id \in Nat
    BY <1>1, <1>2
  <2>2. id \in Superseded(n) <=> /\ events[id].type = "progress"
                                 /\ \E i \in id + 1 .. n : i \in results
    BY <1>1, <1>5, <2>1 DEF Superseded, ShownProgress, Shown, IsSettled
  <2>3. SettledEventId(events[id].solution, after, n)
          = IF results = {} THEN 0
            ELSE CHOOSE i \in results : \A other \in results : other <= i
    BY DEF SettledEventId, Result
  <2>4. CASE events[id].type = "progress"
    <3>1. id \notin results
      BY <2>1, <2>4, EventFacts DEF Result
    <3>2. CASE results = {}
      <4>1. SettledEventId(events[id].solution, after, n) = 0
        BY <2>3, <3>2
      <4>2. QED  BY <2>1, <2>2, <3>2, <4>1 DEF ShownCompact
    <3>3. CASE results # {}
      <4>1. PICK top \in results : \A other \in results : other <= top
        <5>. DEFINE below == {n - i : i \in results}
        <5>1. below \in SUBSET Nat /\ below # {}
          BY <1>1, <3>3
        <5>. HIDE DEF below
        <5>2. PICK x \in below : \A y \in below : x <= y
          BY <5>1, LeastElement
        <5>. USE DEF below
        <5>3. PICK top \in results : x = n - top
          OBVIOUS
        <5>4. \A other \in results : n - top <= n - other
          BY <5>2, <5>3
        <5>5. QED  BY <1>1, <5>3, <5>4
      <4>2. \A i \in results : i \in Nat
        BY <1>1
      <4>. HIDE DEF results
      <4>3. SettledEventId(events[id].solution, after, n) = top
        BY <2>3, <3>3, <4>1, <4>2
      <4>4. top <= id <=> \A i \in results : i <= id
        BY <2>1, <4>1, <4>2
      <4>5. (\A i \in results : i <= id) <=> ~ \E i \in id + 1 .. n : i \in results
        BY <1>1, <2>1, <4>2 DEF results
      <4>6. QED  BY <2>2, <2>4, <4>3, <4>4, <4>5 DEF ShownCompact
    <3>4. QED  BY <3>2, <3>3
  <2>5. CASE events[id].type # "progress"
    BY <2>2, <2>5 DEF ShownCompact
  <2>6. QED  BY <2>4, <2>5
<1>6. \A id \in Nat : id \in page <=> after < id /\ id <= reach
  BY <1>1, <1>2
<1>7. page \subseteq 1 .. n /\ ids \subseteq Shown(n) /\ Shown(n) \subseteq 1 .. n
  BY <1>1, <1>2 DEF Shown
<1>8. shown = {id \in ids : after < id /\ id <= reach}
  <2>1. ASSUME NEW id \in page
        PROVE  id \in shown <=> id \in ids
    <3>1. id \in Shown(n) <=> VisibleForFreeze(id)
      BY <1>7 DEF Shown
    <3>. HIDE DEF page
    <3>2. QED  BY <1>5, <3>1
  <2>2. shown \subseteq page /\ ids \subseteq Nat /\ page \subseteq Nat
    BY <1>1, <1>7
  <2>. HIDE DEF page, ids, shown, reach
  <2>3. QED  BY <1>6, <2>1, <2>2
<1>9. ServicePage(after, limit, compact, n)
        = [shown |-> shown, checkpoint |-> checkpoint, hasMore |-> Cardinality(rows) > limit]
  BY DEF ServicePage
<1>10. (Cardinality(rows) > limit) = (reach < n)
  BY <1>4
<1>. HIDE DEF shown, checkpoint, rows, reach, ids
<1>11. ServicePage(after, limit, compact, n)
         = [shown |-> {id \in ids : after < id /\ id <= reach},
            checkpoint |-> reach, hasMore |-> reach < n]
  BY <1>3, <1>8, <1>9, <1>10
<1>12. QED  BY <1>11 DEF reach, ids

\* And what a page of the snapshot shows.
LEMMA SnapshotPageIs ==
  ASSUME EventsOK, NEW n \in 0 .. Len(events), snapshot = SnapshotOf(n),
         NEW after \in 0 .. n, NEW limit \in Nat, NEW compact \in BOOLEAN
  PROVE  LET reach == Reach(after, limit, n)
             ids == IF compact THEN Shown(n) \ Superseded(n) ELSE Shown(n)
         IN  SnapshotPage(after, limit, compact)
               = [shown |-> {id \in ids : after < id /\ id <= reach},
                  checkpoint |-> reach, hasMore |-> reach < n]
<1>. DEFINE reach == Reach(after, limit, n)
            ids == IF compact THEN Shown(n) \ Superseded(n) ELSE Shown(n)
            chunks == IF reach > after THEN ChunkOf(after + 1) .. ChunkOf(reach) ELSE {}
            slots(k) == IF compact THEN snapshot.chunks[k].compact ELSE snapshot.chunks[k].full
            found == UNION {IdsOf(k, slots(k)) : k \in chunks}
<1>1. /\ n \in Nat /\ after \in Nat /\ Len(events) \in Nat
      /\ reach \in Nat /\ after <= reach /\ reach <= n
  BY DEF EventsOK, Reach
<1>2. ids \subseteq 1 .. n
  BY DEF Shown
<1>3. snapshot.last = n /\ ChunksUpTo(n) \in Nat
  <2>1. 1 \in Nat \ {0}
    OBVIOUS
  <2>2. QED  BY <1>1, <2>1, ChunkFacts DEF SnapshotOf
<1>4. ASSUME NEW k \in 1 .. ChunksUpTo(n)
      PROVE  slots(k) = Slots(k, n, ids)
  <2>1. snapshot.chunks[k] = BuildChunk(k, n, Shown(n), Shown(n) \ Superseded(n))
    BY <1>4 DEF SnapshotOf
  <2>2. QED  BY <2>1, ChunkIsSlots
<1>. HIDE DEF ids, slots
<1>5. ASSUME NEW k \in Nat \ {0}, NEW i \in Nat \ {0}, i <= reach
      PROVE  k <= ChunkOf(i) => k \in 1 .. ChunksUpTo(n)
  <2>1. ChunkOf(i) \in Nat \ {0} /\ FirstOf(ChunkOf(i)) <= i
    <3>1. ChunkOf(i) \in Nat \ {0}
      BY ChunkFacts
    <3>2. QED  BY <3>1, ChunkFacts
  <2>2. ChunkOf(i) <= ChunksUpTo(n)
    <3>1. FirstOf(ChunkOf(i)) \in Nat
      BY <2>1, ChunksApart
    <3>. HIDE DEF reach
    <3>2. FirstOf(ChunkOf(i)) <= n
      BY <1>1, <1>5, <2>1, <3>1
    <3>3. QED  BY <1>1, <2>1, <3>2, ChunkFacts
  <2>3. QED  BY <1>3, <2>1, <2>2
<1>6. ASSUME NEW id \in found
      PROVE  id \in ids
  <2>1. PICK k \in chunks : id \in IdsOf(k, slots(k))
    <3>. HIDE DEF chunks
    <3>1. QED  BY <1>6
  <2>2. /\ reach \in Nat \ {0} /\ after + 1 \in Nat \ {0}
        /\ ChunkOf(after + 1) \in Nat \ {0} /\ ChunkOf(reach) \in Nat \ {0}
        /\ k \in ChunkOf(after + 1) .. ChunkOf(reach)
    <3>1. reach > after
      BY <2>1
    <3>2. reach \in Nat \ {0} /\ after + 1 \in Nat \ {0} /\ 1 \in Nat \ {0}
      BY <1>1, <3>1
    <3>3. ChunkOf(after + 1) \in Nat \ {0} /\ ChunkOf(reach) \in Nat \ {0}
      BY <3>2, ChunkFacts
    <3>4. QED  BY <2>1, <3>1, <3>2, <3>3
  <2>3. k \in Nat \ {0} /\ k <= ChunkOf(reach)
    BY <2>2
  <2>4. k \in 1 .. ChunksUpTo(n)
    BY <1>1, <1>5, <2>2, <2>3
  <2>5. QED  BY <1>4, <2>1, <2>4 DEF IdsOf, Slots
<1>7. ASSUME NEW id \in ids, after < id, id <= reach
      PROVE  id \in found
  <2>1. id \in Nat \ {0} /\ id <= n /\ id \in Nat
    BY <1>2
  <2>. DEFINE k == ChunkOf(id)
  <2>2. /\ k \in Nat \ {0} /\ FirstOf(k) <= id /\ id < FirstOf(k) + ChunkEventCount
    <3>1. k \in Nat \ {0}
      BY <2>1, ChunkFacts
    <3>2. QED  BY <2>1, <3>1, ChunkFacts
  <2>3. k \in 1 .. ChunksUpTo(n)
    BY <1>5, <1>7, <2>1, <2>2
  <2>4. /\ ChunkEventCount \in Nat \ {0} /\ FirstOf(k) \in Nat \ {0}
        /\ after + 1 \in Nat \ {0} /\ reach \in Nat \ {0} /\ reach > after
    BY <1>1, <1>7, <2>1, <2>2, ChunksApart
  <2>5. /\ ChunkOf(after + 1) <= k /\ k <= ChunkOf(reach)
        /\ ChunkOf(after + 1) \in Int /\ ChunkOf(reach) \in Int
    <3>1. ASSUME NEW i \in Nat \ {0}, NEW j \in Nat \ {0}, i <= j
          PROVE  /\ ChunkOf(i) <= ChunkOf(j)
                 /\ ChunkOf(i) \in Nat \ {0} /\ ChunkOf(j) \in Nat \ {0}
      <4>1. ChunkOf(i) \in Nat \ {0} /\ ChunkOf(j) \in Nat \ {0}
        BY ChunkFacts
      <4>2. FirstOf(ChunkOf(i)) <= i /\ j < FirstOf(ChunkOf(j)) + ChunkEventCount
        BY <4>1, ChunkFacts
      <4>3. ChunkOf(j) < ChunkOf(i)
              => FirstOf(ChunkOf(j)) + ChunkEventCount <= FirstOf(ChunkOf(i))
        BY <4>1, ChunksApart
      <4>4. /\ FirstOf(ChunkOf(i)) \in Nat /\ FirstOf(ChunkOf(j)) \in Nat
            /\ ChunkEventCount \in Nat
        BY <4>1, ChunksApart
      <4>5. QED  BY <3>1, <4>1, <4>2, <4>3, <4>4
    <3>2. after + 1 <= id
      BY <1>1, <1>7, <2>1
    <3>3. QED  BY <1>7, <2>1, <2>4, <3>1, <3>2
  <2>. HIDE DEF k
  <2>6. k \in chunks
    BY <2>2, <2>4, <2>5
  <2>7. /\ id - FirstOf(k) \in 0 .. ChunkEventCount - 1
        /\ FirstOf(k) + (id - FirstOf(k)) = id
    BY <2>1, <2>2, <2>4
  <2>8. id - FirstOf(k) \in slots(k)
    BY <1>4, <2>1, <2>3, <2>7 DEF Slots
  <2>9. id \in IdsOf(k, slots(k))
    BY <2>7, <2>8 DEF IdsOf
  <2>. HIDE DEF chunks
  <2>10. QED  BY <2>6, <2>9
<1>8. {id \in found : after < id /\ id <= reach} = {id \in ids : after < id /\ id <= reach}
  <2>. HIDE DEF found
  <2>1. QED  BY <1>6, <1>7
<1>9. SnapshotPage(after, limit, compact)
        = [shown |-> {id \in found : after < id /\ id <= reach},
           checkpoint |-> reach, hasMore |-> reach < n]
  BY <1>3 DEF SnapshotPage, slots, Reach
<1>. HIDE DEF found, reach
<1>10. SnapshotPage(after, limit, compact)
         = [shown |-> {id \in ids : after < id /\ id <= reach},
            checkpoint |-> reach, hasMore |-> reach < n]
  BY <1>8, <1>9
<1>11. QED  BY <1>10 DEF reach, ids

\* A page from the cache is the page that the service selects from the log, however the
\* snapshot was built and extended.
THEOREM CachePagesAgree == PagesSpec => []PagesAgree
<1>1. PagesInv => PagesAgree
  <2>. SUFFICES ASSUME PagesInv, snapshot # <<>>,
                       NEW after \in 0 .. snapshot.last, NEW limit \in Limits,
                       NEW compact \in BOOLEAN
                PROVE  SnapshotPage(after, limit, compact)
                         = ServicePage(after, limit, compact, snapshot.last)
    BY DEF PagesAgree
  <2>1. PICK n \in 0 .. Len(events) : snapshot = SnapshotOf(n)
    BY DEF PagesInv
  <2>2. EventsOK /\ snapshot.last = n /\ limit \in Nat
    BY <2>1, LimitsAssumption DEF PagesInv, SnapshotOf
  <2>3. after \in 0 .. n
    BY <2>2
  <2>. DEFINE ids == IF compact THEN Shown(n) \ Superseded(n) ELSE Shown(n)
              agreed == [shown |-> {id \in ids : after < id /\ id <= Reach(after, limit, n)},
                         checkpoint |-> Reach(after, limit, n),
                         hasMore |-> Reach(after, limit, n) < n]
  <2>4. SnapshotPage(after, limit, compact) = agreed
    BY <2>1, <2>2, <2>3, SnapshotPageIs
  <2>5. ServicePage(after, limit, compact, n) = agreed
    BY <2>1, <2>2, <2>3, ServicePageIs
  <2>. HIDE DEF agreed
  <2>6. QED  BY <2>2, <2>4, <2>5
<1>2. QED  BY <1>1, PagesInductive, PTL

\* A result is never superseded, and visible with the progress it supersedes.
LEMMA ResultsAreShown ==
  ASSUME EventsOK, NEW n \in 0 .. Len(events), NEW id \in 1 .. n, NEW result \in 1 .. n,
         VisibleForFreeze(id), events[id].type = "progress",
         events[result] = Result(events[id].solution)
  PROVE  result \in Shown(n) \ Superseded(n)
<1>1. events[result].type = "result" /\ events[result].solution = events[id].solution
  BY DEF Result
<1>2. VisibleForFreeze(result)
  BY <1>1 DEF VisibleForFreeze
<1>3. QED  BY <1>1, <1>2 DEF Shown, Superseded, ShownProgress

\* A reader who follows the pages misses nothing but progress that a result has
\* superseded, which it is given, and is given nothing twice, wherever the log had grown
\* to when each page was read (contest-event-stream.service: getClientEventsAtFence,
\* contest-event-codec: compactSettledProgressEvents).
THEOREM ReadersAreGivenAll == PagesSpec => []ReadersMissNothing
<1>1. PagesInv => ReadersMissNothing
  <2>. SUFFICES ASSUME PagesInv, NEW compact \in BOOLEAN, NEW limit \in Limits,
                       NEW later \in 0 .. Len(events), NEW fence \in 0 .. later,
                       NEW after \in 0 .. fence
                PROVE  LET page == ServicePage(after, limit, compact, fence)
                           following == ServicePage(page.checkpoint, limit, compact, later)
                       IN  /\ page.hasMore <=> page.checkpoint < fence
                           /\ page.hasMore => after < page.checkpoint
                           /\ page.shown \cap following.shown = {}
                           /\ \A id \in LeftOut(page, after) : \E result \in id + 1 .. fence :
                                /\ compact /\ events[id].type = "progress"
                                /\ events[result]
                                     = [type |-> "result", solution |-> events[id].solution]
                                /\ \/ result \in page.shown \cup following.shown
                                   \/ result > following.checkpoint
    BY DEF ReadersMissNothing
  <2>. DEFINE page == ServicePage(after, limit, compact, fence)
              reach == Reach(after, limit, fence)
              following == ServicePage(reach, limit, compact, later)
              further == Reach(reach, limit, later)
              Ids(n) == IF compact THEN Shown(n) \ Superseded(n) ELSE Shown(n)
  <2>1. /\ EventsOK /\ Len(events) \in Nat /\ limit \in Nat \ {0}
        /\ later \in Nat /\ fence \in Nat /\ after \in Nat
        /\ fence \in 0 .. Len(events)
    BY LimitsAssumption DEF PagesInv, EventsOK
  <2>2. /\ reach \in 0 .. fence /\ reach \in 0 .. later /\ after <= reach
        /\ reach < fence => after < reach
    BY <2>1 DEF Reach
  <2>3. page = [shown |-> {id \in Ids(fence) : after < id /\ id <= reach},
                checkpoint |-> reach, hasMore |-> reach < fence]
    BY <2>1, ServicePageIs
  <2>. HIDE DEF reach
  <2>4. following = [shown |-> {id \in Ids(later) : reach < id /\ id <= further},
                     checkpoint |-> further, hasMore |-> further < later]
    BY <2>1, <2>2, ServicePageIs
  <2>. HIDE DEF further, page, following
  <2>5. /\ page.shown = {id \in Ids(fence) : after < id /\ id <= reach}
        /\ page.checkpoint = reach /\ page.hasMore = (reach < fence)
        /\ following.shown = {id \in Ids(later) : reach < id /\ id <= further}
        /\ following.checkpoint = further
    BY <2>3, <2>4
  <2>6. Ids(fence) \subseteq 1 .. fence /\ Ids(later) \subseteq 1 .. later
    BY DEF Shown
  <2>7. page.shown \cap following.shown = {}
    <3>. HIDE DEF Ids
    <3>1. \A id \in page.shown : id \in Nat /\ id <= reach
      BY <2>1, <2>5, <2>6
    <3>2. \A id \in following.shown : id \in Nat /\ reach < id
      BY <2>1, <2>5, <2>6
    <3>3. QED  BY <2>2, <3>1, <3>2
  <2>8. ASSUME NEW id \in LeftOut(page, after)
        PROVE  \E result \in id + 1 .. fence :
                 /\ compact /\ events[id].type = "progress"
                 /\ events[result] = [type |-> "result", solution |-> events[id].solution]
                 /\ \/ result \in page.shown \cup following.shown
                    \/ result > following.checkpoint
    <3>1. /\ id \in after + 1 .. reach /\ VisibleForFreeze(id) /\ id \notin page.shown
          /\ id \in 1 .. fence /\ id \in Nat
      BY <2>1, <2>2, <2>5 DEF LeftOut
    <3>2. id \in Shown(fence) /\ id \notin Ids(fence)
      <4>1. id \in Shown(fence)
        BY <3>1 DEF Shown
      <4>. HIDE DEF Ids
      <4>2. id \notin Ids(fence)
        BY <2>1, <2>2, <2>5, <3>1
      <4>3. QED  BY <4>1, <4>2
    <3>3. compact /\ id \in Superseded(fence)
      BY <3>2
    <3>4. /\ events[id].type = "progress"
          /\ \E result \in id + 1 .. fence : events[result] = Result(events[id].solution)
      BY <3>3 DEF Superseded, ShownProgress, IsSettled
    <3>5. PICK result \in id + 1 .. fence : events[result] = Result(events[id].solution)
      BY <3>4
    <3>6. /\ result \in 1 .. fence /\ result \in 1 .. later /\ result \in Nat
          /\ id \in 1 .. later /\ after < result
      BY <2>1, <3>1
    <3>7. result \in Ids(fence) /\ result \in Ids(later)
      BY <2>1, <3>1, <3>3, <3>4, <3>5, <3>6, ResultsAreShown
    <3>. HIDE DEF Ids
    <3>8. \/ result \in page.shown \cup following.shown
          \/ result > following.checkpoint
      <4>1. further \in Nat
        BY <2>1, <2>2 DEF further, Reach
      <4>2. QED  BY <2>2, <2>5, <3>6, <3>7, <4>1
    <3>9. QED  BY <3>3, <3>4, <3>5, <3>8 DEF Result
  <2>9. /\ page.hasMore <=> page.checkpoint < fence
        /\ page.hasMore => after < page.checkpoint
    BY <2>2, <2>5
  <2>10. following = ServicePage(page.checkpoint, limit, compact, later)
    BY <2>5 DEF following
  <2>11. QED  BY <2>7, <2>8, <2>9, <2>10 DEF page
<1>2. QED  BY <1>1, PagesInductive, PTL

\* Induction up to N, for a set that stands for the claim.
LEMMA UpTo ==
  ASSUME NEW N \in Nat, NEW T, 0 \in T, \A n \in 0 .. N : n < N /\ n \in T => n + 1 \in T
  PROVE  \A n \in 0 .. N : n \in T
<1>. DEFINE U == {n \in 0 .. N : n \notin T}
<1>1. SUFFICES ASSUME U # {}
               PROVE  FALSE
  OBVIOUS
<1>2. U \in SUBSET Nat
  OBVIOUS
<1>3. PICK x \in U : \A y \in U : x <= y
  <2>. HIDE DEF U
  <2>1. QED  BY <1>1, <1>2, LeastElement
<1>4. x # 0 /\ x - 1 \in 0 .. N /\ x - 1 \in T
  BY <1>3
<1>5. QED  BY <1>3, <1>4

\* The values that a recursion takes, step by step.
Unrolled(X, first, next, N) ==
  CHOOSE f \in [0 .. N -> X] : f[0] = first /\ \A n \in 1 .. N : f[n] = next[n][f[n - 1]]

\* A recursion over 1 .. N has such values.
LEMMA Recursion ==
  ASSUME NEW N \in Nat, NEW X, NEW first \in X, NEW next \in [1 .. N -> [X -> X]]
  PROVE  LET f == Unrolled(X, first, next, N)
         IN  /\ f \in [0 .. N -> X]
             /\ f[0] = first
             /\ \A n \in 1 .. N : f[n] = next[n][f[n - 1]]
<1>. DEFINE Runs(f, m) ==
       /\ f[0] = first
       /\ \A n \in 1 .. m : f[n] = next[n][f[n - 1]]
<1>. DEFINE T == {m \in 0 .. N : \E f \in [0 .. N -> X] : Runs(f, m)}
<1>1. 0 \in T
  <2>1. [n \in 0 .. N |-> first] \in [0 .. N -> X]
    OBVIOUS
  <2>2. Runs([n \in 0 .. N |-> first], 0)
    OBVIOUS
  <2>. HIDE DEF Runs
  <2>3. 0 \in 0 .. N
    OBVIOUS
  <2>4. QED  BY <2>1, <2>2, <2>3
<1>2. ASSUME NEW m \in 0 .. N, m < N, m \in T
      PROVE  m + 1 \in T
  <2>1. PICK f \in [0 .. N -> X] : Runs(f, m)
    BY <1>2
  <2>. DEFINE v == next[m + 1][f[m]]
              g == [f EXCEPT ![m + 1] = v]
  <2>2. v \in X /\ m + 1 \in 1 .. N
    BY <2>1, <1>2
  <2>. HIDE DEF v
  <2>3. g \in [0 .. N -> X] /\ g[0] = first /\ g[m + 1] = v
    BY <2>1, <2>2
  <2>4. \A n \in 0 .. m : g[n] = f[n]
    BY <2>2
  <2>. HIDE DEF g
  <2>5. g[m + 1] = next[m + 1][g[m]]
    BY <2>3, <2>4 DEF v
  <2>6. \A n \in 1 .. m : g[n] = next[n][g[n - 1]]
    BY <2>1, <2>4
  <2>7. Runs(g, m + 1)
    BY <2>3, <2>5, <2>6
  <2>8. m + 1 \in 0 .. N
    BY <2>2
  <2>. HIDE DEF Runs
  <2>9. QED  BY <2>3, <2>7, <2>8
<1>3. \A m \in 0 .. N : m \in T
  <2>. HIDE DEF T
  <2>1. QED  BY <1>1, <1>2, UpTo
<1>4. N \in T
  <2>. HIDE DEF T
  <2>1. QED  BY <1>3
<1>5. \E f \in [0 .. N -> X] : Runs(f, N)
  BY <1>4
<1>6. QED  BY <1>5 DEF Unrolled

----------------------------------------------------------------------------
(* The memory of the cache. *)

FlightPhases ==
  {"idle", "queued", "cancelled", "detached", "estimating", "reading", "authority"}

\* Those of a hydration whose token is the entry's.
CountingPhases == {"queued", "estimating", "reading", "authority"}

FlightRecords ==
  [phase : FlightPhases, contest : Contests \cup {NoFlight}, base : SUBSET Parts,
   reserved : Nat, buffered : Nat, page : Nat, rebuilding : BOOLEAN, overtaken : BOOLEAN]

Ledgers ==
  [snapshot : [Contests -> SUBSET Parts], behind : [Contests -> BOOLEAN],
   retired : SUBSET SUBSET Parts, refs : [Parts -> [resident : Nat, retired : Nat]],
   total : Nat, byContest : [Contests -> Nat]]

PinnedFor(c) == UNION {responses[r].parts : r \in {q \in Responses : responses[q].contest = c}}

\* What memory holds for a contest, and in all.
HeldFor(l, c) == l.snapshot[c] \cup PinnedFor(c)

HeldBy(l) == UNION {HeldFor(l, c) : c \in Contests}

\* An answer is cut from the snapshot or from one that is retired, and contests share
\* nothing.
SharesOK(l) ==
  /\ \A r \in Responses :
       responses[r] # NoResponse =>
         /\ responses[r].contest \in Contests /\ responses[r].parts # NoParts
         /\ \/ responses[r].parts = l.snapshot[responses[r].contest]
            \/ responses[r].parts \in l.retired
  /\ \A s \in l.retired : s # NoParts /\ \E r \in Responses : responses[r].parts = s
  /\ \A c, d \in Contests : c # d => HeldFor(l, c) \cap HeldFor(l, d) = {}

\* Each part is referenced once by the snapshots and once by each retired one.
Resides(l, p) == \E c \in Contests : p \in l.snapshot[c]

RetiredWith(l, p) == {s \in l.retired : p \in s}

RefsOK(l) ==
  \A p \in Parts :
    /\ l.refs[p].resident = IF Resides(l, p) THEN 1 ELSE 0
    /\ l.refs[p].retired = Cardinality(RetiredWith(l, p))

\* The ledger is right when owed units are reserved, by[c] of them for contest c.
Books(l, owed, by) ==
  /\ l \in Ledgers /\ SharesOK(l) /\ RefsOK(l)
  /\ owed \in Nat /\ by \in [Contests -> Nat]
  /\ l.total = Cardinality(HeldBy(l)) + owed
  /\ \A c \in Contests : l.byContest[c] = Cardinality(HeldFor(l, c)) + by[c]

Within(l) ==
  l.total <= MaxBytes /\ \A c \in Contests : l.byContest[c] <= MaxEntryBytes

ResponsesOK ==
  responses \in [Responses -> [contest : Contests \cup {NoFlight}, parts : SUBSET Parts]]

PinsOK ==
  /\ ResponsesOK
  /\ pins = [s \in Answering |-> Cardinality({r \in Responses : responses[r].parts = s})]

----------------------------------------------------------------------------
(* Sets of parts. *)

\* The greater of two numbers.
LEMMA GreaterOfTwo ==
  ASSUME NEW a \in Int, NEW b \in Int
  PROVE  Max({a, b}) = IF a >= b THEN a ELSE b
<1>. DEFINE m == IF a >= b THEN a ELSE b
<1>1. m \in {a, b} /\ \A y \in {a, b} : m >= y
  OBVIOUS
<1>2. \A x \in {a, b} : (\A y \in {a, b} : x >= y) => x = m
  OBVIOUS
<1>. HIDE DEF m
<1>3. Max({a, b}) = m
  BY <1>1, <1>2 DEF Max
<1>4. QED  BY <1>3 DEF m

\* Parts are finite sets.
LEMMA PartsAreFinite ==
  /\ IsFiniteSet(Parts) /\ Cardinality(Parts) = MaxBytes + MaxFresh
  /\ \A s \in SUBSET Parts : IsFiniteSet(s) /\ Cardinality(s) \in Nat
<1>1. IsFiniteSet(Parts) /\ Cardinality(Parts) = MaxBytes + MaxFresh
  BY FS_Interval, CacheBudgetAssumption DEF Parts
<1>2. ASSUME NEW s \in SUBSET Parts
      PROVE  IsFiniteSet(s) /\ Cardinality(s) \in Nat
  BY <1>1, FS_Subset, FS_CardinalityType
<1>3. QED  BY <1>1, <1>2

\* Retired snapshots are finitely many.
LEMMA RetiredAreFinite ==
  \A R \in SUBSET SUBSET Parts : IsFiniteSet(R) /\ Cardinality(R) \in Nat
<1>1. IsFiniteSet(SUBSET Parts)
  BY PartsAreFinite, FS_SUBSET
<1>2. ASSUME NEW R \in SUBSET SUBSET Parts
      PROVE  IsFiniteSet(R) /\ Cardinality(R) \in Nat
  BY <1>1, FS_Subset, FS_CardinalityType
<1>3. QED  BY <1>2

\* Sets that differ only within s differ in size as they do within s.
LEMMA DifferWithin ==
  ASSUME NEW A \in SUBSET Parts, NEW B \in SUBSET Parts, NEW s, A \ s = B \ s
  PROVE  /\ Cardinality(B \cap s) \in Nat /\ Cardinality(A \cap s) \in Nat
         /\ Cardinality(B) - Cardinality(A) = Cardinality(B \cap s) - Cardinality(A \cap s)
<1>1. IsFiniteSet(A) /\ IsFiniteSet(B) /\ Cardinality(A) \in Nat /\ Cardinality(B) \in Nat
  BY PartsAreFinite
<1>2. Cardinality(A \ s) = Cardinality(A) - Cardinality(A \cap s)
  BY <1>1, FS_Difference
<1>3. Cardinality(B \ s) = Cardinality(B) - Cardinality(B \cap s)
  BY <1>1, FS_Difference
<1>4. Cardinality(A \cap s) \in Nat /\ Cardinality(B \cap s) \in Nat
  BY PartsAreFinite
<1>5. Cardinality(A \ s) = Cardinality(B \ s)
  OBVIOUS
<1>6. QED  BY <1>1, <1>2, <1>3, <1>4, <1>5

\* A subset is no larger.
LEMMA NoLarger ==
  ASSUME NEW B \in SUBSET Parts, NEW A \in SUBSET B
  PROVE  Cardinality(A) \in Nat /\ Cardinality(B) \in Nat /\ Cardinality(A) <= Cardinality(B)
<1>1. IsFiniteSet(B)
  BY PartsAreFinite
<1>2. Cardinality(A) <= Cardinality(B)
  BY <1>1, FS_Subset
<1>3. QED  BY <1>2, PartsAreFinite

\* A union is no larger than both together.
LEMMA UnionNoLarger ==
  ASSUME NEW A \in SUBSET Parts, NEW B \in SUBSET Parts
  PROVE  /\ Cardinality(A \cup B) \in Nat /\ Cardinality(A) \in Nat /\ Cardinality(B) \in Nat
         /\ Cardinality(A \cup B) <= Cardinality(A) + Cardinality(B)
<1>1. /\ IsFiniteSet(A) /\ IsFiniteSet(B)
      /\ Cardinality(A) \in Nat /\ Cardinality(B) \in Nat
      /\ Cardinality(A \cap B) \in Nat /\ Cardinality(A \cup B) \in Nat
  BY PartsAreFinite
<1>2. Cardinality(A \cup B) = Cardinality(A) + Cardinality(B) - Cardinality(A \cap B)
  BY <1>1, FS_Union
<1>3. QED  BY <1>1, <1>2

----------------------------------------------------------------------------
(* Ledgers. *)

\* What is held is sets of parts.
LEMMA HeldParts ==
  ASSUME ResponsesOK, NEW l \in Ledgers
  PROVE  /\ \A c \in Contests : /\ PinnedFor(c) \in SUBSET Parts
                                /\ HeldFor(l, c) \in SUBSET Parts
                                /\ HeldFor(l, c) \subseteq HeldBy(l)
                                /\ l.snapshot[c] \subseteq HeldFor(l, c)
                                /\ l.snapshot[c] \in SUBSET Parts
         /\ HeldBy(l) \in SUBSET Parts
<1>1. ASSUME NEW c \in Contests
      PROVE  /\ PinnedFor(c) \in SUBSET Parts
             /\ HeldFor(l, c) \in SUBSET Parts
             /\ HeldFor(l, c) \subseteq HeldBy(l)
             /\ l.snapshot[c] \subseteq HeldFor(l, c)
             /\ l.snapshot[c] \in SUBSET Parts
  <2>1. l.snapshot[c] \in SUBSET Parts
    BY DEF Ledgers
  <2>2. PinnedFor(c) \in SUBSET Parts
    BY DEF PinnedFor, ResponsesOK
  <2>3. QED  BY <2>1, <2>2 DEF HeldFor, HeldBy
<1>2. HeldBy(l) \in SUBSET Parts
  BY <1>1 DEF HeldBy
<1>3. QED  BY <1>1, <1>2

\* A retired snapshot is what an answer of one contest needs.
LEMMA RetiredIsPinned ==
  ASSUME NEW l, SharesOK(l), NEW s \in l.retired
  PROVE  \E c \in Contests : s \subseteq PinnedFor(c)
<1>1. PICK r \in Responses : responses[r].parts = s
  BY DEF SharesOK
<1>2. s # NoParts
  BY DEF SharesOK
<1>3. responses[r] # NoResponse
  BY <1>1, <1>2 DEF NoResponse
<1>4. responses[r].contest \in Contests
  BY <1>3 DEF SharesOK
<1>5. QED  BY <1>1, <1>4 DEF PinnedFor

\* What an answer needs is in the snapshot or in a retired one.
LEMMA PinnedIsKept ==
  ASSUME NEW l, SharesOK(l), NEW c \in Contests, NEW p \in PinnedFor(c)
  PROVE  p \in l.snapshot[c] \/ \E s \in l.retired : p \in s
<1>1. PICK r \in Responses : responses[r].contest = c /\ p \in responses[r].parts
  BY DEF PinnedFor
<1>2. responses[r] # NoResponse
  BY <1>1 DEF NoResponse, NoParts
<1>3. QED  BY <1>1, <1>2 DEF SharesOK

\* Some retired snapshot has a part when as many as none do not.
LEMMA RetiredCounts ==
  ASSUME NEW l \in Ledgers, NEW p
  PROVE  /\ Cardinality(RetiredWith(l, p)) \in Nat
         /\ Cardinality(RetiredWith(l, p)) > 0 <=> \E s \in l.retired : p \in s
<1>1. RetiredWith(l, p) \in SUBSET SUBSET Parts
  BY DEF RetiredWith, Ledgers
<1>2. IsFiniteSet(RetiredWith(l, p)) /\ Cardinality(RetiredWith(l, p)) \in Nat
  BY <1>1, RetiredAreFinite
<1>3. Cardinality(RetiredWith(l, p)) = 0 <=> RetiredWith(l, p) = {}
  BY <1>2, FS_EmptySet
<1>4. RetiredWith(l, p) = {} <=> ~ \E s \in l.retired : p \in s
  BY DEF RetiredWith
<1>5. QED  BY <1>2, <1>3, <1>4

\* The parts that are referenced are those that are held.
LEMMA AccountedIsHeld ==
  ASSUME ResponsesOK, NEW l \in Ledgers, SharesOK(l), RefsOK(l)
  PROVE  /\ \A p \in Parts : IsAccounted(l.refs[p]) <=> p \in HeldBy(l)
         /\ \A s \in SUBSET Parts : AccountedIn(l.refs, s) = HeldBy(l) \cap s
<1>1. ASSUME NEW p \in Parts
      PROVE  IsAccounted(l.refs[p]) <=> p \in HeldBy(l)
  <2>1. IsAccounted(l.refs[p]) <=> Resides(l, p) \/ \E s \in l.retired : p \in s
    BY RetiredCounts DEF RefsOK, IsAccounted
  <2>2. Resides(l, p) => p \in HeldBy(l)
    BY DEF Resides, HeldBy, HeldFor
  <2>3. (\E s \in l.retired : p \in s) => p \in HeldBy(l)
    BY RetiredIsPinned DEF HeldBy, HeldFor
  <2>4. p \in HeldBy(l) => Resides(l, p) \/ \E s \in l.retired : p \in s
    BY PinnedIsKept DEF Resides, HeldBy, HeldFor
  <2>5. QED  BY <2>1, <2>2, <2>3, <2>4
<1>2. QED  BY <1>1 DEF AccountedIn

\* Of the parts that a contest might hold, those are held that it holds.
LEMMA OthersHoldOthers ==
  ASSUME NEW l, SharesOK(l), NEW c \in Contests, NEW s,
         \A d \in Contests \ {c} : s \cap HeldFor(l, d) = {}
  PROVE  HeldBy(l) \cap s = HeldFor(l, c) \cap s
BY DEF HeldBy

\* Charging a ledger.
LEMMA ChargeIs ==
  ASSUME NEW l \in Ledgers, NEW c \in Contests, NEW bytes \in Int,
         l.total + bytes >= 0, l.byContest[c] + bytes >= 0
  PROVE  LET m == Charge(l, c, bytes)
         IN  /\ m \in Ledgers
             /\ m.snapshot = l.snapshot /\ m.behind = l.behind /\ m.retired = l.retired
             /\ m.refs = l.refs
             /\ m.total = l.total + bytes
             /\ m.byContest = [l.byContest EXCEPT ![c] = @ + bytes]
<1>1. l.total \in Nat /\ l.byContest \in [Contests -> Nat] /\ l.byContest[c] \in Nat
  BY DEF Ledgers
<1>2. Max({0, l.total + bytes}) = l.total + bytes
  BY <1>1, GreaterOfTwo
<1>3. Max({0, l.byContest[c] + bytes}) = l.byContest[c] + bytes
  BY <1>1, GreaterOfTwo
<1>. DEFINE m == Charge(l, c, bytes)
<1>4. m = [l EXCEPT !.total = l.total + bytes,
                    !.byContest = [l.byContest EXCEPT ![c] = l.byContest[c] + bytes]]
  BY <1>2, <1>3 DEF Charge
<1>. HIDE DEF m
<1>5. l.total + bytes \in Nat
      /\ [l.byContest EXCEPT ![c] = l.byContest[c] + bytes] \in [Contests -> Nat]
  BY <1>1
<1>6. /\ m \in Ledgers
      /\ m.snapshot = l.snapshot /\ m.behind = l.behind /\ m.retired = l.retired
      /\ m.refs = l.refs
      /\ m.total = l.total + bytes
      /\ m.byContest = [l.byContest EXCEPT ![c] = @ + bytes]
  BY <1>4, <1>5 DEF Ledgers
<1>7. QED  BY <1>6 DEF m

\* Changing references: what a ledger is charged is what the parts that are referenced
\* have become more.
LEMMA MemoryIs ==
  ASSUME NEW l \in Ledgers, NEW c \in Contests, NEW s \in SUBSET Parts,
         NEW resident \in Int, NEW retired \in Int, NEW bytes \in Int,
         NEW after \in [Parts -> [resident : Nat, retired : Nat]],
         after = Owned(l.refs, s, resident, retired),
         bytes = Cardinality(AccountedIn(after, s)) - Cardinality(AccountedIn(l.refs, s)),
         l.total + bytes >= 0, l.byContest[c] + bytes >= 0
  PROVE  LET m == UpdateMemory(l, c, s, resident, retired)
         IN  /\ m \in Ledgers
             /\ m.snapshot = l.snapshot /\ m.behind = l.behind /\ m.retired = l.retired
             /\ m.refs = after
             /\ m.total = l.total + bytes
             /\ m.byContest = [l.byContest EXCEPT ![c] = @ + bytes]
<1>. DEFINE k == [l EXCEPT !.refs = after]
            m == UpdateMemory(l, c, s, resident, retired)
<1>1. m = Charge(k, c, bytes)
  BY DEF UpdateMemory
<1>2. /\ k \in Ledgers /\ k.snapshot = l.snapshot /\ k.behind = l.behind
      /\ k.retired = l.retired /\ k.refs = after
      /\ k.total = l.total /\ k.byContest = l.byContest
  BY DEF Ledgers
<1>. HIDE DEF k, m
<1>3. QED  BY <1>1, <1>2, ChargeIs DEF m

\* Charging a ledger for what is reserved.
LEMMA ChargeKeeps ==
  ASSUME ResponsesOK, NEW l, NEW owed, NEW by, Books(l, owed, by), NEW c \in Contests,
         NEW bytes \in Int, owed + bytes >= 0, by[c] + bytes >= 0
  PROVE  LET m == Charge(l, c, bytes)
         IN  /\ Books(m, owed + bytes, [by EXCEPT ![c] = @ + bytes])
             /\ m.snapshot = l.snapshot /\ m.behind = l.behind /\ m.retired = l.retired
             /\ m.refs = l.refs
             /\ m.total = l.total + bytes
             /\ m.byContest = [l.byContest EXCEPT ![c] = @ + bytes]
<1>. DEFINE m == Charge(l, c, bytes)
            by1 == [by EXCEPT ![c] = @ + bytes]
<1>1. l \in Ledgers /\ owed \in Nat /\ by \in [Contests -> Nat]
  BY DEF Books
<1>2. /\ Cardinality(HeldBy(l)) \in Nat
      /\ \A d \in Contests : Cardinality(HeldFor(l, d)) \in Nat
  BY <1>1, HeldParts, PartsAreFinite
<1>3. l.total + bytes >= 0 /\ l.byContest[c] + bytes >= 0
  BY <1>1, <1>2 DEF Books
<1>4. /\ m \in Ledgers
      /\ m.snapshot = l.snapshot /\ m.behind = l.behind /\ m.retired = l.retired
      /\ m.refs = l.refs
      /\ m.total = l.total + bytes
      /\ m.byContest = [l.byContest EXCEPT ![c] = @ + bytes]
  BY <1>1, <1>3, ChargeIs
<1>5. owed + bytes \in Nat /\ by1 \in [Contests -> Nat]
  BY <1>1
<1>. HIDE DEF m
<1>6. /\ \A d \in Contests : HeldFor(m, d) = HeldFor(l, d)
      /\ HeldBy(m) = HeldBy(l)
  BY <1>4 DEF HeldFor, HeldBy
<1>7. SharesOK(m)
  BY <1>4, <1>6 DEF SharesOK, Books
<1>8. RefsOK(m)
  BY <1>4 DEF RefsOK, Resides, RetiredWith, Books
<1>9. m.total = Cardinality(HeldBy(m)) + (owed + bytes)
  BY <1>1, <1>2, <1>4, <1>6 DEF Books
<1>10. ASSUME NEW d \in Contests
       PROVE  m.byContest[d] = Cardinality(HeldFor(m, d)) + by1[d]
  <2>1. l.byContest[d] = Cardinality(HeldFor(l, d)) + by[d] /\ l.byContest \in [Contests -> Nat]
    BY <1>1 DEF Books, Ledgers
  <2>2. QED  BY <1>1, <1>2, <1>4, <1>6, <2>1
<1>11. Books(m, owed + bytes, by1)
  BY <1>4, <1>5, <1>7, <1>8, <1>9, <1>10 DEF Books
<1>12. QED  BY <1>4, <1>11 DEF m

\* When the parts of one contest change, and its counter and the total do by as much.
LEMMA Balance ==
  ASSUME ResponsesOK, NEW l, NEW owed, NEW by, Books(l, owed, by),
         NEW m \in Ledgers, SharesOK(m), RefsOK(m), NEW c \in Contests,
         \A d \in Contests \ {c} : m.snapshot[d] = l.snapshot[d],
         NEW bytes \in Int,
         bytes = Cardinality(HeldFor(m, c)) - Cardinality(HeldFor(l, c)),
         m.total = l.total + bytes,
         m.byContest = [l.byContest EXCEPT ![c] = @ + bytes]
  PROVE  Books(m, owed, by)
<1>1. /\ l \in Ledgers /\ owed \in Nat /\ by \in [Contests -> Nat]
      /\ l.byContest \in [Contests -> Nat] /\ l.total \in Nat
  BY DEF Books, Ledgers
<1>2. \A d \in Contests \ {c} : HeldFor(m, d) = HeldFor(l, d)
  BY DEF HeldFor
<1>. DEFINE s == HeldFor(l, c) \cup HeldFor(m, c)
<1>3. HeldBy(l) \ s = HeldBy(m) \ s
  BY <1>2 DEF HeldBy
<1>4. \A d \in Contests \ {c} : s \cap HeldFor(l, d) = {} /\ s \cap HeldFor(m, d) = {}
  BY <1>2 DEF Books, SharesOK
<1>5. HeldBy(l) \cap s = HeldFor(l, c) /\ HeldBy(m) \cap s = HeldFor(m, c)
  <2>1. HeldBy(l) \cap s = HeldFor(l, c) \cap s
    BY <1>4, OthersHoldOthers DEF Books
  <2>2. HeldBy(m) \cap s = HeldFor(m, c) \cap s
    BY <1>4, OthersHoldOthers
  <2>3. QED  BY <2>1, <2>2
<1>6. HeldBy(l) \in SUBSET Parts /\ HeldBy(m) \in SUBSET Parts
  BY <1>1, HeldParts
<1>7. /\ Cardinality(HeldBy(l)) \in Nat /\ Cardinality(HeldBy(m)) \in Nat
      /\ \A d \in Contests : Cardinality(HeldFor(l, d)) \in Nat
      /\ \A d \in Contests : Cardinality(HeldFor(m, d)) \in Nat
  BY <1>1, <1>6, HeldParts, PartsAreFinite
<1>8. Cardinality(HeldBy(m)) - Cardinality(HeldBy(l)) = bytes
  <2>. DEFINE before == HeldBy(l)
              after == HeldBy(m)
  <2>1. after \in SUBSET Parts /\ before \in SUBSET Parts /\ before \ s = after \ s
    BY <1>3, <1>6
  <2>. HIDE DEF s, before, after
  <2>2. Cardinality(after) - Cardinality(before)
          = Cardinality(after \cap s) - Cardinality(before \cap s)
    BY ONLY <2>1, DifferWithin
  <2>3. QED  BY <1>5, <2>2 DEF before, after
<1>9. m.total = Cardinality(HeldBy(m)) + owed
  BY <1>1, <1>7, <1>8 DEF Books
<1>10. ASSUME NEW d \in Contests
       PROVE  m.byContest[d] = Cardinality(HeldFor(m, d)) + by[d]
  <2>1. l.byContest[d] = Cardinality(HeldFor(l, d)) + by[d]
    BY DEF Books
  <2>2. CASE d = c
    BY <1>1, <1>7, <2>1, <2>2
  <2>3. CASE d # c
    BY <1>1, <1>2, <2>1, <2>3
  <2>4. QED  BY <2>2, <2>3
<1>11. QED  BY <1>1, <1>9, <1>10 DEF Books

\* The snapshot of c gives way to s, and with it behind.
LEMMA WithSnapshotIs ==
  ASSUME NEW l \in Ledgers, NEW c \in Contests, NEW s \in SUBSET Parts
  PROVE  LET m == WithSnapshot(l, c, s)
         IN  /\ m \in Ledgers
             /\ m.snapshot = [l.snapshot EXCEPT ![c] = s]
             /\ m.behind = [l.behind EXCEPT ![c] = FALSE]
             /\ m.retired = l.retired /\ m.refs = l.refs
             /\ m.total = l.total /\ m.byContest = l.byContest
<1>1. /\ [l.snapshot EXCEPT ![c] = s] \in [Contests -> SUBSET Parts]
      /\ [l.behind EXCEPT ![c] = FALSE] \in [Contests -> BOOLEAN]
  BY DEF Ledgers
<1>2. QED  BY <1>1 DEF WithSnapshot, Ledgers

\* What is pinned is what an answer needs.
LEMMA PinnedIsAnswering ==
  ASSUME PinsOK, NEW s, s # NoParts
  PROVE  /\ PinCount(s) > 0 <=> \E r \in Responses : responses[r].parts = s
         /\ PinCount(s) = Cardinality({r \in Responses : responses[r].parts = s})
         /\ PinCount(s) \in Nat
<1>. DEFINE Q == {r \in Responses : responses[r].parts = s}
<1>1. IsFiniteSet(Q) /\ Cardinality(Q) \in Nat
  BY CacheBudgetAssumption, FS_Subset, FS_CardinalityType
<1>2. Cardinality(Q) = 0 <=> Q = {}
  BY <1>1, FS_EmptySet
<1>3. s \in DOMAIN pins <=> Q # {}
  BY DEF PinsOK, Answering
<1>4. s \in DOMAIN pins => pins[s] = Cardinality(Q)
  BY DEF PinsOK
<1>. HIDE DEF Q
<1>5. PinCount(s) = Cardinality(Q)
  BY <1>2, <1>3, <1>4 DEF PinCount
<1>6. Q # {} <=> \E r \in Responses : responses[r].parts = s
  BY DEF Q
<1>7. PinCount(s) = Cardinality({r \in Responses : responses[r].parts = s})
  BY <1>5 DEF Q
<1>8. QED  BY <1>1, <1>2, <1>5, <1>6, <1>7

\* The references after a snapshot of c is retired while it is pinned.
RetiredAfter(l, c) ==
  IF PinCount(l.snapshot[c]) > 0 THEN l.retired \cup {l.snapshot[c]} ELSE l.retired

\* The ledger when c's snapshot is no more the entry's, but still referenced as if.
Retiring(l, c) ==
  IF PinCount(l.snapshot[c]) > 0 /\ l.snapshot[c] \notin l.retired
  THEN UpdateMemory([WithSnapshot(l, c, NoParts) EXCEPT !.retired = @ \cup {l.snapshot[c]}],
                    c, l.snapshot[c], 0, 1)
  ELSE WithSnapshot(l, c, NoParts)

\* A snapshot that retires is referenced once more, and the ledger charged nothing.
LEMMA Retires ==
  ASSUME PinsOK, NEW l, NEW owed, NEW by, Books(l, owed, by), NEW c \in Contests,
         l.snapshot[c] # NoParts
  PROVE  LET m == Retiring(l, c)
         IN  /\ m \in Ledgers
             /\ m.snapshot = [l.snapshot EXCEPT ![c] = NoParts]
             /\ m.retired = RetiredAfter(l, c)
             /\ m.total = l.total /\ m.byContest = l.byContest
             /\ \A p \in Parts : /\ m.refs[p].resident = l.refs[p].resident
                                 /\ m.refs[p].retired = Cardinality(RetiredWith(m, p))
<1>. DEFINE s == l.snapshot[c]
            gone == WithSnapshot(l, c, NoParts)
            k == [gone EXCEPT !.retired = @ \cup {s}]
            after == Owned(l.refs, s, 0, 1)
<1>1. l \in Ledgers /\ s \in SUBSET Parts /\ NoParts \in SUBSET Parts
  BY DEF Books, Ledgers, NoParts
<1>2. /\ gone \in Ledgers
      /\ gone.snapshot = [l.snapshot EXCEPT ![c] = NoParts]
      /\ gone.retired = l.retired /\ gone.refs = l.refs
      /\ gone.total = l.total /\ gone.byContest = l.byContest
  BY <1>1, WithSnapshotIs
<1>3. \A p \in Parts : l.refs[p].retired = Cardinality(RetiredWith(l, p))
  BY DEF Books, RefsOK
<1>4. CASE PinCount(s) > 0 /\ s \notin l.retired
  <2>. HIDE DEF gone
  <2>1. /\ k \in Ledgers
        /\ k.snapshot = gone.snapshot
        /\ k.retired = l.retired \cup {s} /\ k.refs = l.refs
        /\ k.total = l.total /\ k.byContest = l.byContest
    BY <1>1, <1>2 DEF Ledgers
  <2>. HIDE DEF k
  <2>2. l.refs \in [Parts -> [resident : Nat, retired : Nat]]
    BY <1>1 DEF Ledgers
  <2>3. /\ after \in [Parts -> [resident : Nat, retired : Nat]]
        /\ \A p \in Parts :
             /\ after[p].resident = l.refs[p].resident
             /\ after[p].retired = l.refs[p].retired + (IF p \in s THEN 1 ELSE 0)
    BY <2>2 DEF Owned
  <2>4. \A p \in s : l.refs[p].resident = 1
    BY <1>1 DEF Books, RefsOK, Resides
  <2>5. AccountedIn(after, s) = s /\ AccountedIn(l.refs, s) = s
    BY <1>1, <2>3, <2>4 DEF AccountedIn, IsAccounted
  <2>. HIDE DEF after
  <2>6. l.total \in Nat /\ l.byContest[c] \in Nat /\ Cardinality(s) \in Nat
    BY <1>1, PartsAreFinite DEF Ledgers
  <2>. DEFINE m == UpdateMemory(k, c, s, 0, 1)
  <2>7. /\ m \in Ledgers
        /\ m.snapshot = k.snapshot /\ m.retired = k.retired
        /\ m.refs = after
        /\ m.total = k.total + 0
        /\ m.byContest = [k.byContest EXCEPT ![c] = @ + 0]
    <3>1. after = Owned(k.refs, s, 0, 1)
      BY <2>1 DEF after
    <3>2. 0 = Cardinality(AccountedIn(after, s)) - Cardinality(AccountedIn(k.refs, s))
      BY <2>1, <2>5, <2>6
    <3>3. k.total + 0 >= 0 /\ k.byContest[c] + 0 >= 0
      BY <2>1, <2>6
    <3>. HIDE DEF s
    <3>4. QED  BY <1>1, <2>1, <2>3, <3>1, <3>2, <3>3, MemoryIs
  <2>. HIDE DEF m
  <2>8. m.total = l.total /\ m.byContest = l.byContest
    BY <1>1, <2>1, <2>7 DEF Ledgers
  <2>9. ASSUME NEW p \in Parts
        PROVE  m.refs[p].retired = Cardinality(RetiredWith(m, p))
    <3>1. RetiredWith(m, p) = IF p \in s THEN RetiredWith(l, p) \cup {s}
                              ELSE RetiredWith(l, p)
      BY <2>1, <2>7 DEF RetiredWith
    <3>2. s \notin RetiredWith(l, p)
      BY <1>4 DEF RetiredWith
    <3>3. RetiredWith(l, p) \in SUBSET SUBSET Parts
      BY <1>1 DEF RetiredWith, Ledgers
    <3>4. IsFiniteSet(RetiredWith(l, p))
      BY <3>3, RetiredAreFinite
    <3>5. Cardinality(RetiredWith(l, p) \cup {s}) = Cardinality(RetiredWith(l, p)) + 1
      BY <3>2, <3>4, FS_AddElement
    <3>6. Cardinality(RetiredWith(l, p)) \in Nat
      BY <1>1, RetiredCounts
    <3>7. CASE p \in s
      BY <1>3, <2>3, <2>7, <3>1, <3>5, <3>7
    <3>8. CASE p \notin s
      BY <1>3, <2>3, <2>7, <3>1, <3>6, <3>8
    <3>9. QED  BY <3>7, <3>8
  <2>10. RetiredAfter(l, c) = l.retired \cup {s}
    BY <1>4 DEF RetiredAfter
  <2>11. QED
    BY <1>2, <1>4, <2>1, <2>3, <2>7, <2>8, <2>9, <2>10 DEF gone, k, m, Retiring
<1>5. CASE ~(PinCount(s) > 0 /\ s \notin l.retired)
  <2>1. RetiredAfter(l, c) = l.retired
    BY <1>5 DEF RetiredAfter
  <2>. HIDE DEF gone
  <2>2. \A p \in Parts : RetiredWith(gone, p) = RetiredWith(l, p)
    BY <1>2 DEF RetiredWith
  <2>3. \A p \in Parts : gone.refs[p].retired = Cardinality(RetiredWith(gone, p))
    BY <1>2, <1>3, <2>2
  <2>4. QED  BY <1>2, <1>5, <2>1, <2>3 DEF gone, Retiring
<1>6. QED  BY <1>4, <1>5

\* Without its snapshot, a contest holds what its answers need, and that is the snapshot
\* or a retired one.
LEMMA RetiredHold ==
  ASSUME PinsOK, NEW l, NEW owed, NEW by, Books(l, owed, by), NEW c \in Contests,
         l.snapshot[c] # NoParts
  PROVE  /\ \A p \in l.snapshot[c] :
              p \in PinnedFor(c) <=> \E t \in RetiredAfter(l, c) : p \in t
         /\ \A t \in RetiredAfter(l, c) :
              t # NoParts /\ \E r \in Responses : responses[r].parts = t
<1>. DEFINE s == l.snapshot[c]
<1>1. SharesOK(l)
  BY DEF Books
<1>2. \A t \in RetiredAfter(l, c) : t # NoParts /\ \E r \in Responses : responses[r].parts = t
  BY <1>1, PinnedIsAnswering DEF RetiredAfter, SharesOK
<1>3. ASSUME NEW p \in s, p \in PinnedFor(c)
      PROVE  \E t \in RetiredAfter(l, c) : p \in t
  <2>1. PICK r \in Responses : responses[r].contest = c /\ p \in responses[r].parts
    BY <1>3 DEF PinnedFor
  <2>2. responses[r] # NoResponse
    BY <2>1 DEF NoResponse, NoParts
  <2>3. responses[r].parts = s \/ responses[r].parts \in l.retired
    BY <1>1, <2>1, <2>2 DEF SharesOK
  <2>4. responses[r].parts = s => PinCount(s) > 0
    BY PinnedIsAnswering
  <2>5. responses[r].parts \in RetiredAfter(l, c)
    BY <2>3, <2>4 DEF RetiredAfter
  <2>6. QED  BY <2>1, <2>5
<1>4. ASSUME NEW p \in s, NEW t \in RetiredAfter(l, c), p \in t
      PROVE  p \in PinnedFor(c)
  <2>1. t # NoParts /\ \E r \in Responses : responses[r].parts = t
    BY <1>2
  <2>2. PICK r \in Responses : responses[r].parts = t
    BY <2>1
  <2>3. responses[r] # NoResponse
    BY <2>1, <2>2 DEF NoResponse
  <2>4. responses[r].contest \in Contests
    BY <1>1, <2>3 DEF SharesOK
  <2>5. p \in PinnedFor(responses[r].contest)
    BY <1>4, <2>2 DEF PinnedFor
  <2>6. p \in HeldFor(l, responses[r].contest) /\ p \in HeldFor(l, c)
    BY <2>5 DEF HeldFor
  <2>7. responses[r].contest = c
    BY <1>1, <2>4, <2>6 DEF SharesOK
  <2>8. QED  BY <2>5, <2>7
<1>5. QED  BY <1>2, <1>3, <1>4

\* The answers that need parts of c's snapshot still find them.
LEMMA SharesAfterDrop ==
  ASSUME PinsOK, NEW l, NEW owed, NEW by, Books(l, owed, by), NEW c \in Contests,
         l.snapshot[c] # NoParts,
         NEW m \in Ledgers, m.snapshot = [l.snapshot EXCEPT ![c] = NoParts],
         m.retired = RetiredAfter(l, c)
  PROVE  SharesOK(m)
<1>. DEFINE s == l.snapshot[c]
<1>1. SharesOK(l) /\ l \in Ledgers
  BY DEF Books
<1>2. m.snapshot[c] = NoParts /\ \A d \in Contests \ {c} : m.snapshot[d] = l.snapshot[d]
  BY <1>1 DEF Ledgers
<1>3. \A d \in Contests : HeldFor(m, d) \subseteq HeldFor(l, d)
  BY <1>2 DEF HeldFor, NoParts
<1>4. \A d, e \in Contests : d # e => HeldFor(m, d) \cap HeldFor(m, e) = {}
  BY <1>1, <1>3 DEF SharesOK
<1>5. ASSUME NEW r \in Responses, responses[r] # NoResponse
      PROVE  /\ responses[r].contest \in Contests /\ responses[r].parts # NoParts
             /\ \/ responses[r].parts = m.snapshot[responses[r].contest]
                \/ responses[r].parts \in m.retired
  <2>1. /\ responses[r].contest \in Contests /\ responses[r].parts # NoParts
        /\ \/ responses[r].parts = l.snapshot[responses[r].contest]
           \/ responses[r].parts \in l.retired
    BY <1>1, <1>5 DEF SharesOK
  <2>2. responses[r].parts = s => PinCount(s) > 0
    BY PinnedIsAnswering
  <2>3. responses[r].parts = s => responses[r].parts \in m.retired
    BY <2>2 DEF RetiredAfter
  <2>4. responses[r].parts \in l.retired => responses[r].parts \in m.retired
    BY DEF RetiredAfter
  <2>5. QED  BY <1>2, <2>1, <2>3, <2>4
<1>6. \A t \in m.retired : t # NoParts /\ \E r \in Responses : responses[r].parts = t
  BY RetiredHold
<1>7. QED  BY <1>4, <1>5, <1>6 DEF SharesOK

\* A snapshot that is dropped, and what that leaves.
LEMMA DroppedKeeps ==
  ASSUME PinsOK, NEW l, NEW owed, NEW by, Books(l, owed, by), NEW c \in Contests
  PROVE  LET m == Dropped(l, c)
         IN  /\ Books(m, owed, by)
             /\ m.snapshot = [l.snapshot EXCEPT ![c] = NoParts]
             /\ m.total <= l.total
             /\ \A d \in Contests : m.byContest[d] <= l.byContest[d]
<1>. DEFINE s == l.snapshot[c]
            k == Retiring(l, c)
            m == UpdateMemory(k, c, s, -1, 0)
            after == Owned(k.refs, s, -1, 0)
            bytes == Cardinality(PinnedFor(c)) - Cardinality(HeldFor(l, c))
<1>1. /\ l \in Ledgers /\ SharesOK(l) /\ RefsOK(l) /\ s \in SUBSET Parts /\ ResponsesOK
      /\ owed \in Nat /\ by \in [Contests -> Nat]
      /\ l.total = Cardinality(HeldBy(l)) + owed
      /\ \A d \in Contests : l.byContest[d] = Cardinality(HeldFor(l, d)) + by[d]
  BY DEF Books, Ledgers, PinsOK
<1>2. /\ l.snapshot \in [Contests -> SUBSET Parts]
      /\ l.total \in Nat /\ l.byContest \in [Contests -> Nat]
  BY <1>1 DEF Ledgers
<1>3. CASE s = NoParts
  <2>1. Dropped(l, c) = l
    BY <1>3 DEF Dropped
  <2>2. l.snapshot = [l.snapshot EXCEPT ![c] = NoParts]
    BY <1>2, <1>3
  <2>3. QED  BY <1>2, <2>1, <2>2
<1>4. CASE s # NoParts
  <2>1. Dropped(l, c) = m
    BY <1>4 DEF Dropped, Retiring
  <2>2. /\ k \in Ledgers
        /\ k.snapshot = [l.snapshot EXCEPT ![c] = NoParts]
        /\ k.retired = RetiredAfter(l, c)
        /\ k.total = l.total /\ k.byContest = l.byContest
        /\ \A p \in Parts : /\ k.refs[p].resident = l.refs[p].resident
                            /\ k.refs[p].retired = Cardinality(RetiredWith(k, p))
    BY <1>4, Retires
  <2>. HIDE DEF k
  <2>3. \A p \in Parts : l.refs[p].resident = IF Resides(l, p) THEN 1 ELSE 0
    BY <1>1 DEF RefsOK
  <2>4. \A p \in s : k.refs[p].resident = 1
    BY <1>1, <2>2, <2>3 DEF Resides
  <2>5. k.refs \in [Parts -> [resident : Nat, retired : Nat]]
    BY <2>2 DEF Ledgers
  <2>6. /\ after \in [Parts -> [resident : Nat, retired : Nat]]
        /\ \A p \in Parts :
             /\ after[p].resident = IF p \in s THEN 0 ELSE k.refs[p].resident
             /\ after[p].retired = k.refs[p].retired
    BY <2>4, <2>5 DEF Owned
  <2>. HIDE DEF after
  <2>7. \A p \in s : IsAccounted(after[p]) <=> p \in PinnedFor(c)
    <3>1. \A p \in s : IsAccounted(after[p]) <=> Cardinality(RetiredWith(k, p)) > 0
      BY <1>1, <2>2, <2>6 DEF IsAccounted
    <3>2. \A p \in s : Cardinality(RetiredWith(k, p)) > 0
                         <=> \E t \in RetiredAfter(l, c) : p \in t
      BY <2>2, RetiredCounts
    <3>3. \A p \in s : p \in PinnedFor(c) <=> \E t \in RetiredAfter(l, c) : p \in t
      BY <1>4, RetiredHold
    <3>4. QED  BY <3>1, <3>2, <3>3
  <2>8. AccountedIn(after, s) = PinnedFor(c) \cap s /\ AccountedIn(k.refs, s) = s
    <3>1. AccountedIn(after, s) = PinnedFor(c) \cap s
      BY <2>7 DEF AccountedIn
    <3>2. AccountedIn(k.refs, s) = s
      BY <2>4 DEF AccountedIn, IsAccounted
    <3>3. QED  BY <3>1, <3>2
  <2>9. /\ PinnedFor(c) \in SUBSET Parts /\ HeldFor(l, c) \in SUBSET Parts
        /\ HeldFor(l, c) = s \cup PinnedFor(c)
        /\ HeldFor(l, c) \cap s = s
        /\ HeldFor(l, c) \ s = PinnedFor(c) \ s
        /\ HeldFor(l, c) \in SUBSET HeldBy(l) /\ HeldBy(l) \in SUBSET Parts
    BY <1>1, HeldParts DEF HeldFor
  <2>10. /\ Cardinality(PinnedFor(c)) \in Nat /\ Cardinality(HeldFor(l, c)) \in Nat
         /\ Cardinality(HeldBy(l)) \in Nat
         /\ Cardinality(HeldFor(l, c)) <= Cardinality(HeldBy(l))
         /\ Cardinality(PinnedFor(c)) <= Cardinality(HeldFor(l, c))
    BY <2>9, NoLarger
  <2>11. bytes = Cardinality(AccountedIn(after, s)) - Cardinality(AccountedIn(k.refs, s))
    <3>1. Cardinality(PinnedFor(c)) - Cardinality(HeldFor(l, c))
            = Cardinality(PinnedFor(c) \cap s) - Cardinality(HeldFor(l, c) \cap s)
      BY <2>9, DifferWithin
    <3>2. QED  BY <2>8, <2>9, <3>1
  <2>12. bytes \in Int /\ bytes <= 0 /\ k.total + bytes >= 0 /\ k.byContest[c] + bytes >= 0
    BY <1>1, <2>2, <2>10
  <2>. HIDE DEF bytes
  <2>13. /\ m \in Ledgers
         /\ m.snapshot = k.snapshot /\ m.retired = k.retired
         /\ m.refs = after
         /\ m.total = k.total + bytes
         /\ m.byContest = [k.byContest EXCEPT ![c] = @ + bytes]
    <3>1. after = Owned(k.refs, s, -1, 0)
      BY DEF after
    <3>. HIDE DEF s
    <3>2. QED  BY <1>1, <2>2, <2>6, <2>11, <2>12, <3>1, MemoryIs
  <2>. HIDE DEF m
  <2>14. SharesOK(m)
    BY <1>4, <2>2, <2>13, SharesAfterDrop
  <2>15. m.snapshot[c] = NoParts /\ \A d \in Contests \ {c} : m.snapshot[d] = l.snapshot[d]
    BY <1>2, <2>2, <2>13
  <2>16. RefsOK(m)
    <3>1. ASSUME NEW p \in Parts
          PROVE  m.refs[p].resident = IF Resides(m, p) THEN 1 ELSE 0
      <4>1. CASE p \in s
        <5>1. p \in HeldFor(l, c)
          BY <4>1 DEF HeldFor
        <5>2. \A d \in Contests \ {c} : p \notin HeldFor(l, d)
          BY <1>1, <5>1 DEF SharesOK
        <5>3. ~ Resides(m, p)
          BY <2>15, <5>2 DEF Resides, HeldFor, NoParts
        <5>4. QED  BY <2>6, <2>13, <4>1, <5>3
      <4>2. CASE p \notin s
        <5>1. Resides(m, p) <=> Resides(l, p)
          BY <2>15, <4>2 DEF Resides, NoParts
        <5>2. QED  BY <2>2, <2>3, <2>6, <2>13, <4>2, <5>1
      <4>3. QED  BY <4>1, <4>2
    <3>2. ASSUME NEW p \in Parts
          PROVE  m.refs[p].retired = Cardinality(RetiredWith(m, p))
      <4>1. RetiredWith(m, p) = RetiredWith(k, p)
        BY <2>13 DEF RetiredWith
      <4>2. QED  BY <2>2, <2>6, <2>13, <4>1
    <3>3. QED  BY <3>1, <3>2 DEF RefsOK
  <2>17. HeldFor(m, c) = PinnedFor(c)
    BY <2>15 DEF HeldFor, NoParts
  <2>18. Books(m, owed, by)
    <3>1. bytes = Cardinality(HeldFor(m, c)) - Cardinality(HeldFor(l, c))
      BY <2>17 DEF bytes
    <3>2. m.total = l.total + bytes /\ m.byContest = [l.byContest EXCEPT ![c] = @ + bytes]
      BY <2>2, <2>13
    <3>3. QED  BY <1>1, <2>12, <2>13, <2>14, <2>15, <2>16, <3>1, <3>2, Balance
  <2>19. m.total <= l.total /\ \A d \in Contests : m.byContest[d] <= l.byContest[d]
    BY <1>2, <2>2, <2>12, <2>13
  <2>20. QED  BY <2>1, <2>2, <2>13, <2>18, <2>19
<1>5. QED  BY <1>3, <1>4

\* The ledgers that come from l when contests of C may lose their snapshots.
Below(l, C, owed, by) ==
  {m \in Ledgers :
     /\ Books(m, owed, by)
     /\ m.total <= l.total /\ \A d \in Contests : m.byContest[d] <= l.byContest[d]
     /\ \A d \in Contests : \/ m.snapshot[d] = l.snapshot[d]
                            \/ d \in C /\ m.snapshot[d] = NoParts}

\* An order of the contests of C.
OrderOf(C) ==
  CHOOSE o \in [1 .. Cardinality(C) -> C] :
    \A c \in C : \E i \in 1 .. Cardinality(C) : o[i] = c

\* There is an order.
LEMMA OrderIs ==
  ASSUME NEW C, IsFiniteSet(C)
  PROVE  Cardinality(C) \in Nat /\ OrderOf(C) \in [1 .. Cardinality(C) -> C]
<1>1. Cardinality(C) \in Nat /\ ExistsBijection(1 .. Cardinality(C), C)
  BY FS_CardinalityType
<1>2. \E o \in [1 .. Cardinality(C) -> C] :
        \A c \in C : \E i \in 1 .. Cardinality(C) : o[i] = c
  BY <1>1 DEF ExistsBijection, Bijection, Surjection, Injection
<1>3. QED  BY <1>1, <1>2 DEF OrderOf

\* Ledgers that come from one another.
LEMMA DroppedStaysBelow ==
  ASSUME PinsOK, NEW l \in Ledgers, NEW owed, NEW by, NEW C \in SUBSET Contests, NEW c \in C,
         NEW m \in Below(l, C, owed, by)
  PROVE  Dropped(m, c) \in Below(l, C, owed, by)
<1>. DEFINE n == Dropped(m, c)
<1>1. m \in Ledgers /\ Books(m, owed, by) /\ c \in Contests
  BY DEF Below
<1>2. /\ Books(n, owed, by)
      /\ n.snapshot = [m.snapshot EXCEPT ![c] = NoParts]
      /\ n.total <= m.total
      /\ \A d \in Contests : n.byContest[d] <= m.byContest[d]
  BY <1>1, DroppedKeeps
<1>. HIDE DEF n
<1>3. n \in Ledgers
  BY <1>2 DEF Books
<1>4. /\ l.total \in Nat /\ m.total \in Nat /\ n.total \in Nat
      /\ \A d \in Contests : /\ l.byContest[d] \in Nat /\ m.byContest[d] \in Nat
                             /\ n.byContest[d] \in Nat
      /\ m.snapshot \in [Contests -> SUBSET Parts]
  BY <1>1, <1>3 DEF Ledgers
<1>5. n.total <= l.total /\ \A d \in Contests : n.byContest[d] <= l.byContest[d]
  BY <1>2, <1>4 DEF Below
<1>6. \A d \in Contests : \/ n.snapshot[d] = l.snapshot[d]
                          \/ d \in C /\ n.snapshot[d] = NoParts
  BY <1>2, <1>4 DEF Below
<1>7. n \in Below(l, C, owed, by)
  BY <1>2, <1>3, <1>5, <1>6 DEF Below
<1>8. QED  BY <1>7 DEF n

\* Dropping snapshots one after the other.
LEMMA DroppedAllKeeps ==
  ASSUME PinsOK, NEW l, NEW owed, NEW by, Books(l, owed, by), NEW C \in SUBSET Contests
  PROVE  DroppedAll(l, C) \in Below(l, C, owed, by)
<1>. DEFINE N == Cardinality(C)
            o == OrderOf(C)
            X == Below(l, C, owed, by)
            Q(f) == f = [n \in 0 .. N |-> IF n = 0 THEN l ELSE Dropped(f[n - 1], o[n])]
            a == CHOOSE f : Q(f)
<1>1. N \in Nat /\ o \in [1 .. N -> C]
  <2>1. IsFiniteSet(C)
    BY CacheBudgetAssumption, FS_Subset
  <2>2. QED  BY <2>1, OrderIs
<1>2. l \in Ledgers /\ l \in X
  <2>1. l \in Ledgers
    BY DEF Books
  <2>2. l.total \in Nat /\ \A d \in Contests : l.byContest[d] \in Nat
    BY <2>1 DEF Ledgers
  <2>3. QED  BY <2>1, <2>2 DEF Below
<1>3. DroppedAll(l, C) = a[N]
  BY DEF DroppedAll, OrderOf
<1>. HIDE DEF o, N
<1>4. ASSUME NEW x \in X, NEW n \in 1 .. N
      PROVE  Dropped(x, o[n]) \in X
  <2>1. o[n] \in C
    BY <1>1
  <2>2. QED  BY <1>2, <2>1, DroppedStaysBelow
<1>. HIDE DEF X
<1>. DEFINE next == [n \in 1 .. N |-> [x \in X |-> Dropped(x, o[n])]]
            u == Unrolled(X, l, next, N)
<1>5. /\ next \in [1 .. N -> [X -> X]]
      /\ \A n \in 1 .. N, x \in X : next[n][x] = Dropped(x, o[n])
  BY <1>4
<1>. HIDE DEF next
<1>6. /\ u \in [0 .. N -> X]
      /\ u[0] = l
      /\ \A n \in 1 .. N : u[n] = next[n][u[n - 1]]
  <2>1. N \in Nat /\ l \in X /\ next \in [1 .. N -> [X -> X]]
    BY <1>1, <1>2, <1>5
  <2>2. QED  BY ONLY <2>1, Recursion
<1>. HIDE DEF u
<1>7. \A n \in 1 .. N : n - 1 \in 0 .. N /\ u[n - 1] \in X
  BY <1>1, <1>6
<1>8. \A n \in 1 .. N : u[n] = Dropped(u[n - 1], o[n])
  BY <1>5, <1>6, <1>7
<1>9. Q(u)
  BY <1>6, <1>8
<1>10. Q(a)
  <2>1. a = CHOOSE f : Q(f)
    OBVIOUS
  <2>. HIDE DEF Q, a
  <2>2. QED  BY <1>9, <2>1
<1>11. \A f : Q(f) => \A n \in 0 .. N : f[n] = IF n = 0 THEN l ELSE Dropped(f[n - 1], o[n])
  OBVIOUS
<1>. HIDE DEF a, Q
<1>12. /\ a[0] = l
       /\ \A n \in 1 .. N : a[n] = Dropped(a[n - 1], o[n])
  BY <1>1, <1>10, <1>11
<1>. DEFINE T == {n \in 0 .. N : a[n] \in X}
<1>13. 0 \in T
  BY <1>1, <1>2, <1>12
<1>14. ASSUME NEW n \in 0 .. N, n < N, n \in T
       PROVE  n + 1 \in T
  <2>1. n + 1 \in 1 .. N /\ a[n] \in X /\ n + 1 - 1 = n
    BY <1>1, <1>14
  <2>2. a[n + 1] = Dropped(a[n], o[n + 1])
    BY <1>12, <2>1
  <2>3. QED  BY <1>4, <2>1, <2>2
<1>15. \A n \in 0 .. N : n \in T
  <2>. HIDE DEF T
  <2>1. QED  BY <1>1, <1>13, <1>14, UpTo
<1>16. a[N] \in X
  BY <1>1, <1>15
<1>17. QED  BY <1>3, <1>16 DEF X

\* Making room evicts contests that have no hydration.
LEMMA RoomKeeps ==
  ASSUME PinsOK, NEW l, NEW owed, NEW by, Books(l, owed, by), NEW bytes, NEW c,
         NEW room \in RoomFor(l, bytes, c)
  PROVE  room \in Below(l, Evictable(l), owed, by)
<1>1. PICK C \in SUBSET Evictable(l) : room = DroppedAll(l, C)
  BY DEF RoomFor
<1>2. C \in SUBSET Contests /\ Evictable(l) \in SUBSET Contests
  BY <1>1 DEF Evictable
<1>3. room \in Below(l, C, owed, by)
  BY <1>1, <1>2, DroppedAllKeeps
<1>4. QED  BY <1>1, <1>3 DEF Below

----------------------------------------------------------------------------
(* One hydration, or an append, at work. *)

More(by, c, units) == [by EXCEPT ![c] = @ + units]

\* Ledger l may stand while the others owe what they do and c owes so many units more: it
\* is right, and those whose hydration counts have their snapshot.
Keeping(l, c, owed, by, units) ==
  /\ owed \in Nat /\ by \in [Contests -> Nat] /\ units \in Nat
  /\ Books(l, owed + units, More(by, c, units))
  /\ Within(l)
  /\ \A d \in Contests \ {c} :
       entry[d].hydration # NoFlight => l.snapshot[d] = ledger.snapshot[d]

\* Reserving more, where it fits, or less.
LEMMA ChargeStands ==
  ASSUME PinsOK, NEW l, NEW c \in Contests, NEW owed, NEW by, NEW units,
         Keeping(l, c, owed, by, units),
         NEW bytes \in Int, units + bytes >= 0,
         bytes > 0 => l.total + bytes <= MaxBytes /\ l.byContest[c] + bytes <= MaxEntryBytes
  PROVE  LET m == Charge(l, c, bytes)
         IN  /\ Keeping(m, c, owed, by, units + bytes)
             /\ m.snapshot = l.snapshot
             /\ m.total = l.total + bytes /\ m.byContest[c] = l.byContest[c] + bytes
<1>. DEFINE m == Charge(l, c, bytes)
            all == owed + units
            whole == More(by, c, units)
<1>1. /\ owed \in Nat /\ by \in [Contests -> Nat] /\ units \in Nat /\ ResponsesOK
      /\ Books(l, owed + units, More(by, c, units)) /\ l \in Ledgers
  BY DEF Keeping, Books, PinsOK
<1>2. More(by, c, units)[c] = by[c] + units /\ by[c] \in Nat
  BY <1>1 DEF More
<1>3. /\ Books(m, owed + units + bytes, [More(by, c, units) EXCEPT ![c] = @ + bytes])
      /\ m.snapshot = l.snapshot
      /\ m.total = l.total + bytes
      /\ m.byContest = [l.byContest EXCEPT ![c] = @ + bytes]
  <2>1. /\ Books(l, all, whole) /\ all + bytes >= 0 /\ whole[c] + bytes >= 0
        /\ ResponsesOK /\ c \in Contests /\ bytes \in Int
    BY <1>1, <1>2
  <2>. HIDE DEF all, whole
  <2>2. /\ Books(m, all + bytes, [whole EXCEPT ![c] = @ + bytes])
        /\ m.snapshot = l.snapshot
        /\ m.total = l.total + bytes
        /\ m.byContest = [l.byContest EXCEPT ![c] = @ + bytes]
    BY ONLY <2>1, ChargeKeeps
  <2>3. QED  BY <2>2 DEF all, whole
<1>4. [whole EXCEPT ![c] = @ + bytes] = More(by, c, units + bytes)
  <2>1. /\ whole \in [Contests -> Int] /\ whole[c] = by[c] + units
        /\ \A d \in Contests \ {c} : whole[d] = by[d]
    BY <1>1 DEF More
  <2>. HIDE DEF whole
  <2>2. More(by, c, units + bytes) \in [Contests -> Int]
    BY <1>1 DEF More
  <2>3. \A d \in Contests : [whole EXCEPT ![c] = @ + bytes][d] = More(by, c, units + bytes)[d]
    BY <1>1, <2>1 DEF More
  <2>4. QED  BY <2>1, <2>2, <2>3
<1>5. owed + units + bytes = owed + (units + bytes) /\ units + bytes \in Nat
  BY <1>1
<1>. HIDE DEF m
<1>6. /\ l.total \in Nat /\ l.byContest \in [Contests -> Nat]
      /\ MaxBytes \in Nat /\ MaxEntryBytes \in Nat
  BY <1>1, CacheBudgetAssumption DEF Ledgers
<1>7. m.byContest[c] = l.byContest[c] + bytes
  BY <1>3, <1>6
<1>8. Within(m)
  <2>1. m.total <= MaxBytes
    BY <1>3, <1>6 DEF Keeping, Within
  <2>2. \A d \in Contests : m.byContest[d] <= MaxEntryBytes
    BY <1>3, <1>6 DEF Keeping, Within
  <2>3. QED  BY <2>1, <2>2 DEF Within
<1>9. Keeping(m, c, owed, by, units + bytes)
  BY <1>1, <1>3, <1>4, <1>5, <1>8 DEF Keeping
<1>10. QED  BY <1>3, <1>7, <1>9 DEF m

\* Ledgers below one that may stand.
LEMMA BelowStands ==
  ASSUME NEW l, NEW c \in Contests, NEW owed, NEW by, NEW units,
         Keeping(l, c, owed, by, units),
         NEW C, \A d \in C \ {c} : entry[d].hydration = NoFlight,
         NEW m \in Below(l, C, owed + units, More(by, c, units))
  PROVE  /\ Keeping(m, c, owed, by, units)
         /\ m.total <= l.total /\ m.byContest[c] <= l.byContest[c]
         /\ m.total \in Nat /\ l.total \in Nat
         /\ m.byContest[c] \in Nat /\ l.byContest[c] \in Nat
<1>1. l \in Ledgers /\ m \in Ledgers /\ Books(m, owed + units, More(by, c, units))
  BY DEF Keeping, Books, Below
<1>2. /\ l.total \in Nat /\ m.total \in Nat
      /\ \A d \in Contests : l.byContest[d] \in Nat /\ m.byContest[d] \in Nat
      /\ MaxBytes \in Nat /\ MaxEntryBytes \in Nat
  BY <1>1, CacheBudgetAssumption DEF Ledgers
<1>3. Within(m)
  BY <1>2 DEF Keeping, Below, Within
<1>4. \A d \in Contests \ {c} :
        entry[d].hydration # NoFlight => m.snapshot[d] = ledger.snapshot[d]
  BY DEF Keeping, Below
<1>5. Keeping(m, c, owed, by, units)
  BY <1>1, <1>3, <1>4 DEF Keeping
<1>6. QED  BY <1>2, <1>5 DEF Below

\* Making room.
LEMMA RoomStands ==
  ASSUME PinsOK, NEW l, NEW c \in Contests, NEW owed, NEW by, NEW units,
         Keeping(l, c, owed, by, units), NEW bytes, NEW m \in RoomFor(l, bytes, c)
  PROVE  /\ Keeping(m, c, owed, by, units)
         /\ m.total <= l.total /\ m.byContest[c] <= l.byContest[c]
         /\ m.total \in Nat /\ l.total \in Nat
         /\ m.byContest[c] \in Nat /\ l.byContest[c] \in Nat
         /\ \/ m.snapshot[c] = l.snapshot[c]
            \/ m.snapshot[c] = NoParts /\ entry[c].hydration = NoFlight
<1>1. m \in Below(l, Evictable(l), owed + units, More(by, c, units))
  <2>1. Books(l, owed + units, More(by, c, units))
    BY DEF Keeping
  <2>2. QED  BY <2>1, RoomKeeps
<1>2. \A d \in Evictable(l) : entry[d].hydration = NoFlight
  BY DEF Evictable
<1>3. \/ m.snapshot[c] = l.snapshot[c]
      \/ m.snapshot[c] = NoParts /\ entry[c].hydration = NoFlight
  BY <1>1, <1>2 DEF Below
<1>4. QED  BY <1>1, <1>2, <1>3, BelowStands

\* Asking for more.
LEMMA GrantStands ==
  ASSUME PinsOK, NEW l, NEW c \in Contests, NEW owed, NEW by, NEW units,
         Keeping(l, c, owed, by, units),
         NEW bytes \in Nat, NEW grant \in Grants(l, c, bytes)
  PROVE  /\ Keeping(grant.ledger, c, owed, by, IF grant.ok THEN units + bytes ELSE units)
         /\ \/ grant.ledger.snapshot[c] = l.snapshot[c]
            \/ grant.ledger.snapshot[c] = NoParts /\ entry[c].hydration = NoFlight
         /\ grant.ok \in BOOLEAN
<1>1. CASE bytes > 0 /\ l.byContest[c] + bytes > MaxEntryBytes
  <2>1. grant = [ok |-> FALSE, ledger |-> l]
    BY <1>1 DEF Grants
  <2>2. QED  BY <2>1
<1>2. CASE ~(bytes > 0 /\ l.byContest[c] + bytes > MaxEntryBytes)
  <2>1. PICK room \in RoomFor(l, bytes, c) :
          grant = [ok |-> room.total + bytes <= MaxBytes,
                   ledger |-> IF room.total + bytes <= MaxBytes
                              THEN Charge(room, c, bytes) ELSE room]
    BY <1>2 DEF Grants
  <2>2. /\ Keeping(room, c, owed, by, units)
        /\ room.byContest[c] <= l.byContest[c]
        /\ room.total \in Nat /\ room.byContest[c] \in Nat /\ l.byContest[c] \in Nat
        /\ \/ room.snapshot[c] = l.snapshot[c]
           \/ room.snapshot[c] = NoParts /\ entry[c].hydration = NoFlight
    BY RoomStands
  <2>3. units \in Nat /\ MaxBytes \in Nat /\ MaxEntryBytes \in Nat
    BY CacheBudgetAssumption DEF Keeping
  <2>4. CASE room.total + bytes <= MaxBytes
    <3>1. grant.ok = TRUE /\ grant.ledger = Charge(room, c, bytes)
      BY <2>1, <2>4
    <3>2. bytes > 0 => room.byContest[c] + bytes <= MaxEntryBytes
      BY <1>2, <2>2, <2>3
    <3>3. /\ Keeping(grant.ledger, c, owed, by, units + bytes)
          /\ grant.ledger.snapshot = room.snapshot
      BY <2>2, <2>3, <2>4, <3>1, <3>2, ChargeStands
    <3>4. QED  BY <2>2, <3>1, <3>3
  <2>5. CASE ~(room.total + bytes <= MaxBytes)
    <3>1. grant.ok = FALSE /\ grant.ledger = room
      <4>1. (room.total + bytes <= MaxBytes) = FALSE
        BY <2>5
      <4>2. grant = [ok |-> FALSE, ledger |-> room]
        BY <2>1, <4>1
      <4>3. QED  BY <4>2
    <3>2. QED  BY <2>2, <3>1
  <2>6. QED  BY <2>4, <2>5
<1>3. QED  BY <1>1, <1>2

\* Resizing a reservation.
LEMMA ResizeStands ==
  ASSUME PinsOK, NEW l, NEW c \in Contests, NEW owed, NEW by, NEW units,
         Keeping(l, c, owed, by, units),
         NEW to \in Nat, NEW grant \in Resized(l, c, units, to)
  PROVE  /\ Keeping(grant.ledger, c, owed, by, IF grant.ok THEN to ELSE units)
         /\ \/ grant.ledger.snapshot[c] = l.snapshot[c]
            \/ grant.ledger.snapshot[c] = NoParts /\ entry[c].hydration = NoFlight
         /\ grant.ok \in BOOLEAN
<1>1. units \in Nat
  BY DEF Keeping
<1>2. CASE to <= units
  <2>. DEFINE less == to - units
  <2>1. grant.ok = TRUE /\ grant.ledger = Charge(l, c, less)
    BY <1>2 DEF Resized
  <2>2. units + less = to /\ less \in Int /\ ~(less > 0) /\ units + less >= 0
    BY <1>1, <1>2
  <2>. HIDE DEF less
  <2>3. /\ Keeping(Charge(l, c, less), c, owed, by, units + less)
        /\ Charge(l, c, less).snapshot = l.snapshot
    BY <2>2, ChargeStands
  <2>4. QED  BY <2>1, <2>2, <2>3
<1>3. CASE ~(to <= units)
  <2>1. grant \in Grants(l, c, to - units) /\ to - units \in Nat
    BY <1>1, <1>3 DEF Resized
  <2>2. units + (to - units) = to
    BY <1>1
  <2>3. QED  BY <2>1, <2>2, GrantStands
<1>4. QED  BY <1>2, <1>3

\* Dropping the snapshot of the contest itself.
LEMMA DropStands ==
  ASSUME PinsOK, NEW l, NEW c \in Contests, NEW owed, NEW by, NEW units,
         Keeping(l, c, owed, by, units)
  PROVE  LET m == Dropped(l, c)
         IN  /\ Keeping(m, c, owed, by, units)
             /\ m.snapshot = [l.snapshot EXCEPT ![c] = NoParts]
             /\ m.snapshot[c] = NoParts
             /\ m.total <= l.total /\ m.byContest[c] <= l.byContest[c]
<1>. DEFINE m == Dropped(l, c)
<1>1. Books(l, owed + units, More(by, c, units)) /\ l \in Ledgers
  BY DEF Keeping, Books
<1>2. /\ Books(m, owed + units, More(by, c, units))
      /\ m.snapshot = [l.snapshot EXCEPT ![c] = NoParts]
      /\ m.total <= l.total
      /\ \A d \in Contests : m.byContest[d] <= l.byContest[d]
  BY <1>1, DroppedKeeps
<1>. HIDE DEF m
<1>3. m \in Ledgers /\ l.snapshot \in [Contests -> SUBSET Parts]
  BY <1>1, <1>2 DEF Books, Ledgers
<1>4. m.snapshot[c] = NoParts /\ \A d \in Contests \ {c} : m.snapshot[d] = l.snapshot[d]
  BY <1>2, <1>3
<1>5. m \in Below(l, {c}, owed + units, More(by, c, units))
  BY <1>2, <1>3, <1>4 DEF Below
<1>6. Keeping(m, c, owed, by, units)
  BY <1>5, BelowStands
<1>7. QED  BY <1>2, <1>4, <1>6 DEF m

\* A snapshot of parts that no other contest holds, where c has none.
LEMMA InstallStands ==
  ASSUME PinsOK, NEW l, NEW c \in Contests, NEW owed, NEW by, NEW units,
         Keeping(l, c, owed, by, units), l.snapshot[c] = NoParts,
         NEW s \in SUBSET Parts,
         \A d \in Contests \ {c} : s \cap HeldFor(l, d) = {},
         NEW bytes, bytes = Cardinality(s \ PinnedFor(c)),
         l.total + bytes <= MaxBytes, l.byContest[c] + bytes <= MaxEntryBytes
  PROVE  LET m == Installed(l, c, s)
         IN  /\ Keeping(m, c, owed, by, units)
             /\ m.snapshot = [l.snapshot EXCEPT ![c] = s]
<1>. DEFINE k == WithSnapshot(l, c, s)
            m == UpdateMemory(k, c, s, 1, 0)
            R == PinnedFor(c)
            after == Owned(l.refs, s, 1, 0)
<1>1. /\ Books(l, owed + units, More(by, c, units))
      /\ l \in Ledgers /\ SharesOK(l) /\ RefsOK(l) /\ ResponsesOK
  BY DEF Keeping, Books, PinsOK
<1>2. /\ l.snapshot \in [Contests -> SUBSET Parts] /\ l.total \in Nat
      /\ l.byContest \in [Contests -> Nat]
      /\ l.refs \in [Parts -> [resident : Nat, retired : Nat]]
  BY <1>1 DEF Ledgers
<1>3. /\ k \in Ledgers /\ k.snapshot = [l.snapshot EXCEPT ![c] = s]
      /\ k.retired = l.retired /\ k.refs = l.refs
      /\ k.total = l.total /\ k.byContest = l.byContest
  BY <1>1, WithSnapshotIs
<1>. HIDE DEF k
<1>4. ASSUME NEW p \in s
      PROVE  ~ Resides(l, p)
  BY DEF Resides, HeldFor, NoParts
<1>5. \A p \in s : l.refs[p].resident = 0
  BY <1>1, <1>4 DEF RefsOK
<1>6. /\ after \in [Parts -> [resident : Nat, retired : Nat]]
      /\ \A p \in Parts : /\ after[p].resident = IF p \in s THEN 1 ELSE l.refs[p].resident
                          /\ after[p].retired = l.refs[p].retired
  BY <1>2, <1>5 DEF Owned
<1>. HIDE DEF after
<1>7. AccountedIn(after, s) = s /\ AccountedIn(k.refs, s) = R \cap s
  <2>1. AccountedIn(after, s) = s
    BY <1>6 DEF AccountedIn, IsAccounted
  <2>2. AccountedIn(l.refs, s) = HeldBy(l) \cap s
    BY <1>1, AccountedIsHeld
  <2>3. HeldBy(l) \cap s = HeldFor(l, c) \cap s
    BY <1>1, OthersHoldOthers
  <2>4. HeldFor(l, c) = R
    BY DEF HeldFor, NoParts
  <2>5. QED  BY <1>3, <2>1, <2>2, <2>3, <2>4
<1>8. R \in SUBSET Parts /\ IsFiniteSet(s) /\ Cardinality(s) \in Nat
      /\ Cardinality(s \ R) \in Nat /\ Cardinality(R \cap s) \in Nat
  BY <1>1, HeldParts, PartsAreFinite
<1>9. /\ bytes \in Nat
      /\ bytes = Cardinality(AccountedIn(after, s)) - Cardinality(AccountedIn(k.refs, s))
  <2>1. Cardinality(s \ R) = Cardinality(s) - Cardinality(s \cap R)
    BY <1>8, FS_Difference
  <2>2. s \cap R = R \cap s
    OBVIOUS
  <2>3. QED  BY <1>7, <1>8, <2>1, <2>2
<1>10. bytes = Cardinality(s \cup R) - Cardinality(R)
  <2>1. Cardinality(s \cup R) - Cardinality(R)
          = Cardinality((s \cup R) \cap s) - Cardinality(R \cap s)
    <3>1. s \cup R \in SUBSET Parts /\ (s \cup R) \ s = R \ s
      BY <1>8
    <3>2. QED  BY <1>8, <3>1, DifferWithin
  <2>2. (s \cup R) \cap s = s
    OBVIOUS
  <2>3. QED  BY <1>7, <1>9, <2>1, <2>2
<1>11. /\ m \in Ledgers
       /\ m.snapshot = k.snapshot /\ m.retired = k.retired
       /\ m.refs = after
       /\ m.total = k.total + bytes
       /\ m.byContest = [k.byContest EXCEPT ![c] = @ + bytes]
  <2>1. after = Owned(k.refs, s, 1, 0)
    BY <1>3 DEF after
  <2>2. bytes \in Int /\ k.total + bytes >= 0 /\ k.byContest[c] + bytes >= 0
    BY <1>2, <1>3, <1>9
  <2>3. bytes = Cardinality(AccountedIn(after, s)) - Cardinality(AccountedIn(k.refs, s))
    BY <1>9
  <2>4. after \in [Parts -> [resident : Nat, retired : Nat]] /\ k \in Ledgers
        /\ c \in Contests /\ s \in SUBSET Parts
    BY <1>3, <1>6
  <2>5. QED  BY ONLY <2>1, <2>2, <2>3, <2>4, MemoryIs
<1>. HIDE DEF m
<1>12. m.snapshot[c] = s /\ \A d \in Contests \ {c} : m.snapshot[d] = l.snapshot[d]
  BY <1>2, <1>3, <1>11
<1>13. /\ HeldFor(m, c) = s \cup R /\ HeldFor(l, c) = R
       /\ \A d \in Contests \ {c} : HeldFor(m, d) = HeldFor(l, d)
  BY <1>12 DEF HeldFor, NoParts
<1>14. SharesOK(m)
  <2>1. ASSUME NEW r \in Responses, responses[r] # NoResponse
        PROVE  /\ responses[r].contest \in Contests /\ responses[r].parts # NoParts
               /\ \/ responses[r].parts = m.snapshot[responses[r].contest]
                  \/ responses[r].parts \in m.retired
    <3>1. /\ responses[r].contest \in Contests /\ responses[r].parts # NoParts
          /\ \/ responses[r].parts = l.snapshot[responses[r].contest]
             \/ responses[r].parts \in l.retired
      BY <1>1, <2>1 DEF SharesOK
    <3>2. QED  BY <1>3, <1>11, <1>12, <3>1
  <2>2. \A t \in m.retired : t # NoParts /\ \E r \in Responses : responses[r].parts = t
    BY <1>1, <1>3, <1>11 DEF SharesOK
  <2>3. ASSUME NEW d \in Contests, NEW e \in Contests, d # e
        PROVE  HeldFor(m, d) \cap HeldFor(m, e) = {}
    <3>1. HeldFor(l, d) \cap HeldFor(l, e) = {}
      BY <1>1, <2>3 DEF SharesOK
    <3>2. QED  BY <1>13, <2>3, <3>1
  <2>4. QED  BY <2>1, <2>2, <2>3 DEF SharesOK
<1>15. RefsOK(m)
  <2>1. ASSUME NEW p \in Parts
        PROVE  m.refs[p].resident = IF Resides(m, p) THEN 1 ELSE 0
    <3>1. p \in s => Resides(m, p)
      BY <1>12 DEF Resides
    <3>2. p \notin s => (Resides(m, p) <=> Resides(l, p))
      BY <1>12 DEF Resides, NoParts
    <3>3. l.refs[p].resident = IF Resides(l, p) THEN 1 ELSE 0
      BY <1>1 DEF RefsOK
    <3>4. QED  BY <1>6, <1>11, <3>1, <3>2, <3>3
  <2>2. ASSUME NEW p \in Parts
        PROVE  m.refs[p].retired = Cardinality(RetiredWith(m, p))
    <3>1. RetiredWith(m, p) = RetiredWith(l, p)
      BY <1>3, <1>11 DEF RetiredWith
    <3>2. l.refs[p].retired = Cardinality(RetiredWith(l, p))
      BY <1>1 DEF RefsOK
    <3>3. QED  BY <1>6, <1>11, <3>1, <3>2
  <2>3. QED  BY <2>1, <2>2 DEF RefsOK
<1>16. Books(m, owed + units, More(by, c, units))
  <2>1. bytes = Cardinality(HeldFor(m, c)) - Cardinality(HeldFor(l, c)) /\ bytes \in Int
    BY <1>9, <1>10, <1>13
  <2>2. m.total = l.total + bytes /\ m.byContest = [l.byContest EXCEPT ![c] = @ + bytes]
    BY <1>3, <1>11
  <2>. DEFINE all == owed + units
              whole == More(by, c, units)
  <2>3. /\ ResponsesOK /\ Books(l, all, whole) /\ m \in Ledgers /\ c \in Contests
        /\ SharesOK(m) /\ RefsOK(m)
        /\ \A d \in Contests \ {c} : m.snapshot[d] = l.snapshot[d]
    BY <1>1, <1>11, <1>12, <1>14, <1>15
  <2>. HIDE DEF all, whole
  <2>4. Books(m, all, whole)
    BY ONLY <2>1, <2>2, <2>3, Balance
  <2>5. QED  BY <2>4 DEF all, whole
<1>17. Within(m)
  <2>1. m.total <= MaxBytes
    BY <1>3, <1>11
  <2>2. \A d \in Contests : m.byContest[d] <= MaxEntryBytes
    BY <1>2, <1>3, <1>11 DEF Keeping, Within
  <2>3. QED  BY <2>1, <2>2 DEF Within
<1>18. Keeping(m, c, owed, by, units)
  BY <1>12, <1>16, <1>17 DEF Keeping
<1>19. m.snapshot = [l.snapshot EXCEPT ![c] = s]
  BY <1>3, <1>11
<1>20. QED  BY <1>18, <1>19 DEF m, k, Installed

----------------------------------------------------------------------------
(* What is built, and its publication. *)

\* The n least of a set of numbers.
LEMMA LeastOnes ==
  ASSUME NEW A \in SUBSET Nat, IsFiniteSet(A), NEW n \in 0 .. Cardinality(A)
  PROVE  \E S \in SUBSET A : Cardinality(S) = n /\ \A p \in S, q \in A \ S : p < q
<1>. DEFINE N == Cardinality(A)
            P(S, m) == Cardinality(S) = m /\ \A p \in S, q \in A \ S : p < q
            T == {m \in 0 .. N : \E S \in SUBSET A : P(S, m)}
<1>1. N \in Nat
  BY FS_CardinalityType
<1>2. 0 \in T
  <2>1. P({}, 0) /\ {} \in SUBSET A /\ 0 \in 0 .. N
    BY <1>1, FS_EmptySet
  <2>. HIDE DEF P
  <2>2. QED  BY <2>1
<1>3. ASSUME NEW m \in 0 .. N, m < N, m \in T
      PROVE  m + 1 \in T
  <2>1. PICK S \in SUBSET A : P(S, m)
    BY <1>3
  <2>2. IsFiniteSet(S)
    BY FS_Subset
  <2>3. A \ S # {} /\ A \ S \in SUBSET Nat
    <3>1. Cardinality(S) # Cardinality(A)
      BY <1>1, <1>3, <2>1
    <3>2. S # A
      BY <3>1
    <3>3. QED  BY <3>2
  <2>4. PICK x \in A \ S : \A y \in A \ S : x <= y
    BY <2>3, LeastElement
  <2>5. Cardinality(S \cup {x}) = m + 1
    BY <2>1, <2>2, <2>4, FS_AddElement
  <2>6. \A p \in S \cup {x}, q \in A \ (S \cup {x}) : p < q
    <3>1. ASSUME NEW p \in S \cup {x}, NEW q \in A \ (S \cup {x})
          PROVE  p < q
      <4>1. p \in S => p < q
        BY <2>1
      <4>2. x <= q /\ x # q /\ x \in Nat /\ q \in Nat
        BY <2>3, <2>4
      <4>3. QED  BY <4>1, <4>2
    <3>2. QED  BY <3>1
  <2>7. P(S \cup {x}, m + 1) /\ S \cup {x} \in SUBSET A /\ m + 1 \in 0 .. N
    BY <1>1, <1>3, <2>5, <2>6
  <2>. HIDE DEF P
  <2>8. QED  BY <2>7
<1>4. \A m \in 0 .. N : m \in T
  <2>. HIDE DEF T
  <2>1. QED  BY <1>1, <1>2, <1>3, UpTo
<1>5. n \in T
  BY <1>4
<1>6. QED  BY <1>5

\* What is in use is what is held.
LEMMA UsedIsHeld ==
  ASSUME NEW l, SharesOK(l)
  PROVE  UNION ({l.snapshot[c] : c \in Contests} \cup l.retired
                  \cup {responses[r].parts : r \in Responses}) = HeldBy(l)
<1>1. ASSUME NEW p, NEW s \in l.retired, p \in s
      PROVE  p \in HeldBy(l)
  BY <1>1, RetiredIsPinned DEF HeldBy, HeldFor
<1>2. ASSUME NEW p, NEW r \in Responses, p \in responses[r].parts
      PROVE  p \in HeldBy(l)
  <2>1. responses[r] # NoResponse
    BY <1>2 DEF NoResponse, NoParts
  <2>2. responses[r].contest \in Contests
    BY <2>1 DEF SharesOK
  <2>3. p \in PinnedFor(responses[r].contest)
    BY <1>2 DEF PinnedFor
  <2>4. QED  BY <2>2, <2>3 DEF HeldBy, HeldFor
<1>3. ASSUME NEW p \in HeldBy(l)
      PROVE  \/ \E c \in Contests : p \in l.snapshot[c]
             \/ \E r \in Responses : p \in responses[r].parts
  BY DEF HeldBy, HeldFor, PinnedFor
<1>4. \A c \in Contests : l.snapshot[c] \subseteq HeldBy(l)
  BY DEF HeldBy, HeldFor
<1>5. QED  BY <1>1, <1>2, <1>3, <1>4

\* While the budget is kept there are fresh parts.
LEMMA FreshPartsAre ==
  ASSUME PinsOK, NEW l, NEW owed, NEW by, Books(l, owed, by), l.total <= MaxBytes,
         NEW n \in 1 .. MaxFresh
  PROVE  /\ FreshParts(l, n) \in SUBSET Parts /\ FreshParts(l, n) # {}
         /\ FreshParts(l, n) \cap HeldBy(l) = {}
         /\ Cardinality(FreshParts(l, n)) = n
<1>. DEFINE A == Parts \ HeldBy(l)
            P(S) == Cardinality(S) = n /\ \A p \in S, q \in Parts \ (HeldBy(l) \cup S) : p < q
            fresh == FreshParts(l, n)
<1>1. /\ ResponsesOK /\ l \in Ledgers /\ owed \in Nat /\ SharesOK(l)
      /\ l.total = Cardinality(HeldBy(l)) + owed
  BY DEF Books, PinsOK
<1>2. /\ MaxBytes \in Nat /\ MaxFresh \in Nat /\ n \in Nat \ {0} /\ n <= MaxFresh
  BY CacheBudgetAssumption
<1>3. HeldBy(l) \in SUBSET Parts /\ Cardinality(HeldBy(l)) \in Nat
  BY <1>1, HeldParts, PartsAreFinite
<1>4. A \in SUBSET Nat /\ IsFiniteSet(A) /\ Cardinality(A) \in Nat
  BY <1>2, PartsAreFinite DEF Parts
<1>5. n \in 0 .. Cardinality(A)
  <2>1. Cardinality(A) = Cardinality(Parts) - Cardinality(Parts \cap HeldBy(l))
    BY PartsAreFinite, FS_Difference
  <2>2. Cardinality(Parts \cap HeldBy(l)) = Cardinality(HeldBy(l))
    <3>1. Parts \cap HeldBy(l) = HeldBy(l)
      BY <1>3
    <3>2. QED  BY <3>1
  <2>3. Cardinality(Parts) = MaxBytes + MaxFresh
    BY PartsAreFinite
  <2>. HIDE DEF A
  <2>4. Cardinality(A) >= MaxFresh
    BY <1>1, <1>2, <1>3, <1>4, <2>1, <2>2, <2>3
  <2>5. QED  BY <1>2, <1>4, <2>4
<1>6. \E S \in SUBSET A : P(S)
  <2>1. PICK S \in SUBSET A : Cardinality(S) = n /\ \A p \in S, q \in A \ S : p < q
    <3>. HIDE DEF A
    <3>1. QED  BY <1>4, <1>5, LeastOnes
  <2>2. Parts \ (HeldBy(l) \cup S) = A \ S
    OBVIOUS
  <2>3. QED  BY <2>1, <2>2
<1>7. fresh = CHOOSE S \in SUBSET A : P(S)
  BY <1>1, UsedIsHeld DEF FreshParts
<1>. HIDE DEF fresh
<1>8. fresh \in SUBSET A /\ P(fresh)
  <2>. HIDE DEF P, A
  <2>1. QED  BY <1>6, <1>7
<1>9. fresh # {}
  <2>1. Cardinality(fresh) = n /\ n # 0
    BY <1>2, <1>8
  <2>2. QED  BY <2>1, FS_EmptySet
<1>10. QED  BY <1>8, <1>9 DEF fresh

\* What is built from parts of the snapshot and no more fresh ones than bound fits where
\* so many more would: it replaces the snapshot.
LEMMA PublishStands ==
  ASSUME PinsOK, NEW l, NEW c \in Contests, NEW owed, NEW by, NEW units,
         Keeping(l, c, owed, by, units), NEW bound \in Nat,
         l.total + bound <= MaxBytes, l.byContest[c] + bound <= MaxEntryBytes,
         NEW fresh \in SUBSET Parts, fresh \cap HeldBy(l) = {}, Cardinality(fresh) <= bound,
         NEW s \in SUBSET (l.snapshot[c] \cup fresh), NEW end \in PublishSnapshot(l, c, s)
  PROVE  /\ end.ok = TRUE
         /\ Keeping(end.ledger, c, owed, by, units)
<1>. DEFINE dropped == Dropped(l, c)
            R == PinnedFor(c)
            a == Cardinality(s \ R)
            w == More(by, c, units)[c]
<1>1. /\ Books(l, owed + units, More(by, c, units)) /\ l \in Ledgers /\ SharesOK(l)
      /\ ResponsesOK /\ w \in Nat /\ owed + units \in Nat
      /\ l.total = Cardinality(HeldBy(l)) + (owed + units)
      /\ l.byContest[c] = Cardinality(HeldFor(l, c)) + w
  BY DEF Keeping, Books, PinsOK
<1>2. /\ Keeping(dropped, c, owed, by, units)
      /\ dropped.snapshot = [l.snapshot EXCEPT ![c] = NoParts]
      /\ dropped.snapshot[c] = NoParts
  BY DropStands
<1>. HIDE DEF dropped
<1>3. /\ Books(dropped, owed + units, More(by, c, units))
      /\ dropped \in Ledgers /\ SharesOK(dropped) /\ RefsOK(dropped)
      /\ dropped.total = Cardinality(HeldBy(dropped)) + (owed + units)
      /\ dropped.byContest[c] = Cardinality(HeldFor(dropped, c)) + w
  BY <1>2 DEF Keeping, Books
<1>. HIDE DEF w
<1>4. /\ HeldFor(dropped, c) = R /\ HeldFor(l, c) = l.snapshot[c] \cup R
      /\ \A d \in Contests \ {c} : HeldFor(dropped, d) = HeldFor(l, d)
  <2>1. l.snapshot \in [Contests -> SUBSET Parts]
    BY <1>1 DEF Ledgers
  <2>2. QED  BY <1>2, <2>1 DEF HeldFor, NoParts
<1>5. /\ R \in SUBSET Parts /\ HeldFor(l, c) \in SUBSET Parts /\ s \in SUBSET Parts
      /\ HeldBy(l) \in SUBSET Parts /\ HeldBy(dropped) \in SUBSET Parts
      /\ HeldFor(l, c) \in SUBSET HeldBy(l)
  BY <1>1, <1>3, HeldParts
<1>6. \A d \in Contests \ {c} : s \cap HeldFor(dropped, d) = {}
  <2>1. ASSUME NEW d \in Contests \ {c}
        PROVE  s \cap HeldFor(l, d) = {}
    <3>1. HeldFor(l, c) \cap HeldFor(l, d) = {}
      BY <1>1 DEF SharesOK
    <3>2. fresh \cap HeldFor(l, d) = {}
      BY DEF HeldBy
    <3>3. QED  BY <1>4, <3>1, <3>2
  <2>2. QED  BY <1>4, <2>1
<1>7. s \ HeldBy(dropped) = s \ R /\ AccountedIn(dropped.refs, s) = R \cap s
  <2>1. HeldBy(dropped) \cap s = HeldFor(dropped, c) \cap s
    BY <1>3, <1>6, OthersHoldOthers
  <2>2. AccountedIn(dropped.refs, s) = HeldBy(dropped) \cap s
    BY <1>1, <1>3, <1>5, AccountedIsHeld
  <2>3. QED  BY <1>4, <2>1, <2>2
<1>8. Additional(dropped, s) = a
  <2>1. s \ AccountedIn(dropped.refs, s) = s \ R
    BY <1>7
  <2>2. QED  BY <2>1 DEF Additional
<1>9. /\ a \in Nat /\ Cardinality(R) \in Nat /\ Cardinality(HeldFor(l, c)) \in Nat
      /\ Cardinality(HeldBy(l)) \in Nat /\ Cardinality(HeldBy(dropped)) \in Nat
      /\ Cardinality(fresh) \in Nat /\ Cardinality(s) \in Nat
  <2>1. s \ R \in SUBSET Parts
    BY <1>5
  <2>2. QED  BY <1>5, <2>1, PartsAreFinite
<1>10. Cardinality(R) + a <= Cardinality(HeldFor(l, c)) + Cardinality(fresh)
       /\ Cardinality(s) <= Cardinality(R) + a
  <2>1. Cardinality(R \cup s) = Cardinality(R) + a
    <3>1. R \cap (s \ R) = {} /\ R \cup s = R \cup (s \ R) /\ s \ R \in SUBSET Parts
      BY <1>5
    <3>2. IsFiniteSet(R) /\ IsFiniteSet(s \ R)
      BY <1>5, <3>1, PartsAreFinite
    <3>3. Cardinality(R \cup (s \ R))
            = Cardinality(R) + Cardinality(s \ R) - Cardinality(R \cap (s \ R))
      BY <3>2, FS_Union
    <3>4. Cardinality(R \cap (s \ R)) = 0
      BY <3>1, FS_EmptySet
    <3>5. Cardinality(R \cup s) = Cardinality(R \cup (s \ R))
      BY <3>1
    <3>6. QED  BY <1>9, <3>3, <3>4, <3>5
  <2>2. R \cup s \in SUBSET (HeldFor(l, c) \cup fresh)
        /\ HeldFor(l, c) \cup fresh \in SUBSET Parts
        /\ s \in SUBSET (R \cup s) /\ R \cup s \in SUBSET Parts
    BY <1>4, <1>5
  <2>3. /\ Cardinality(R \cup s) <= Cardinality(HeldFor(l, c) \cup fresh)
        /\ Cardinality(s) <= Cardinality(R \cup s)
        /\ Cardinality(R \cup s) \in Nat /\ Cardinality(HeldFor(l, c) \cup fresh) \in Nat
    BY <2>2, NoLarger
  <2>4. Cardinality(HeldFor(l, c) \cup fresh) <= Cardinality(HeldFor(l, c)) + Cardinality(fresh)
    BY <1>5, UnionNoLarger
  <2>5. QED  BY <1>9, <2>1, <2>3, <2>4
<1>11. Cardinality(HeldBy(dropped)) + a <= Cardinality(HeldBy(l)) + Cardinality(fresh)
  <2>. DEFINE H == HeldBy(dropped)
  <2>1. H \in SUBSET HeldBy(l)
    <3>1. \A d \in Contests : HeldFor(dropped, d) \subseteq HeldFor(l, d)
      BY <1>4
    <3>2. QED  BY <3>1 DEF HeldBy
  <2>2. H \in SUBSET Parts
    BY <1>5
  <2>. HIDE DEF H
  <2>3. Cardinality(H \cup s) = Cardinality(H) + a
    <3>1. H \cap (s \ R) = {} /\ H \cup s = H \cup (s \ R) /\ s \ R \in SUBSET Parts
      BY <1>5, <1>7 DEF H
    <3>2. IsFiniteSet(H) /\ IsFiniteSet(s \ R) /\ Cardinality(H) \in Nat
      BY <2>2, <3>1, PartsAreFinite
    <3>3. Cardinality(H \cup (s \ R))
            = Cardinality(H) + Cardinality(s \ R) - Cardinality(H \cap (s \ R))
      BY <3>2, FS_Union
    <3>4. Cardinality(H \cap (s \ R)) = 0
      BY <3>1, FS_EmptySet
    <3>5. Cardinality(H \cup s) = Cardinality(H \cup (s \ R))
      BY <3>1
    <3>6. QED  BY <1>9, <3>2, <3>3, <3>4, <3>5
  <2>4. H \cup s \in SUBSET (HeldBy(l) \cup fresh) /\ HeldBy(l) \cup fresh \in SUBSET Parts
    BY <1>4, <1>5, <2>1
  <2>5. /\ Cardinality(H \cup s) <= Cardinality(HeldBy(l) \cup fresh)
        /\ Cardinality(H \cup s) \in Nat /\ Cardinality(HeldBy(l) \cup fresh) \in Nat
    BY <2>4, NoLarger
  <2>6. Cardinality(HeldBy(l) \cup fresh) <= Cardinality(HeldBy(l)) + Cardinality(fresh)
    BY <1>5, UnionNoLarger
  <2>7. QED  BY <1>9, <2>3, <2>5, <2>6 DEF H
<1>12. MaxBytes \in Nat /\ MaxEntryBytes \in Nat
  BY CacheBudgetAssumption
<1>13. /\ Cardinality(s) <= MaxEntryBytes
       /\ dropped.byContest[c] + a <= MaxEntryBytes
       /\ dropped.total + a <= MaxBytes
  <2>. HIDE DEF a
  <2>1. Cardinality(R) = Cardinality(HeldFor(dropped, c))
    BY <1>4
  <2>2. /\ Cardinality(s) <= MaxEntryBytes
        /\ dropped.byContest[c] + a <= MaxEntryBytes
    BY <1>1, <1>3, <1>9, <1>10, <1>12, <2>1
  <2>3. dropped.total + a <= MaxBytes
    BY <1>1, <1>3, <1>9, <1>11, <1>12
  <2>4. QED  BY <2>2, <2>3
<1>14. end \in PublishOver(l, dropped, c, s)
  BY DEF PublishSnapshot, dropped
<1>15. PICK room \in RoomFor(dropped, a, c) :
         end = IF room.total + a > MaxBytes THEN Refusal(room)
               ELSE [ok |-> TRUE, oversize |-> FALSE, ledger |-> Installed(room, c, s)]
  <2>. HIDE DEF a
  <2>1. ~(Cardinality(s) > MaxEntryBytes) /\ ~(dropped.byContest[c] + a > MaxEntryBytes)
    <3>1. dropped.byContest[c] \in Nat
      BY <1>3 DEF Ledgers
    <3>2. QED  BY <1>9, <1>12, <1>13, <3>1
  <2>2. QED  BY <1>8, <1>14, <2>1 DEF PublishOver
<1>16. /\ Keeping(room, c, owed, by, units)
       /\ room.total <= dropped.total /\ room.byContest[c] <= dropped.byContest[c]
       /\ room.total \in Nat /\ dropped.total \in Nat
       /\ room.byContest[c] \in Nat /\ dropped.byContest[c] \in Nat
       /\ room.snapshot[c] = NoParts
  <2>. HIDE DEF a
  <2>1. /\ Keeping(room, c, owed, by, units)
        /\ room.total <= dropped.total /\ room.byContest[c] <= dropped.byContest[c]
        /\ room.total \in Nat /\ dropped.total \in Nat
        /\ room.byContest[c] \in Nat /\ dropped.byContest[c] \in Nat
        /\ \/ room.snapshot[c] = dropped.snapshot[c]
           \/ room.snapshot[c] = NoParts
    <3>1. Keeping(dropped, c, owed, by, units) /\ room \in RoomFor(dropped, a, c)
      BY <1>2
    <3>2. QED  BY <3>1, RoomStands
  <2>2. QED  BY <1>2, <2>1
<1>17. room.total + a <= MaxBytes /\ room.byContest[c] + a <= MaxEntryBytes
  <2>. HIDE DEF a
  <2>1. QED  BY <1>9, <1>12, <1>13, <1>16
<1>18. \A d \in Contests \ {c} : s \cap HeldFor(room, d) = {}
  <2>1. \A d \in Contests : \/ room.snapshot[d] = dropped.snapshot[d]
                            \/ room.snapshot[d] = NoParts
    <3>1. room \in Below(dropped, Evictable(dropped), owed + units, More(by, c, units))
      BY <1>3, <1>15, RoomKeeps
    <3>2. QED  BY <3>1 DEF Below
  <2>2. \A d \in Contests : HeldFor(room, d) \subseteq HeldFor(dropped, d)
    BY <2>1 DEF HeldFor, NoParts
  <2>3. QED  BY <1>6, <2>2
<1>19. end = [ok |-> TRUE, oversize |-> FALSE, ledger |-> Installed(room, c, s)]
  BY <1>9, <1>12, <1>15, <1>16, <1>17
<1>20. Keeping(Installed(room, c, s), c, owed, by, units)
  BY <1>5, <1>16, <1>17, <1>18, InstallStands
<1>21. QED  BY <1>19, <1>20

----------------------------------------------------------------------------
(* What hydrations owe. *)

Units(fl, F) == UNION {{f} \X (1 .. fl[f].reserved) : f \in F}

Owed(fl) == Cardinality(Units(fl, Flights))

OwedBy(fl) == [c \in Contests |-> Cardinality(Units(fl, Underway(c, fl)))]

\* Units are finitely many.
LEMMA UnitsAreFinite ==
  ASSUME NEW fl \in [Flights -> FlightRecords], NEW F \in SUBSET Flights
  PROVE  IsFiniteSet(Units(fl, F)) /\ Cardinality(Units(fl, F)) \in Nat
<1>. DEFINE Own(f) == {f} \X (1 .. fl[f].reserved)
            T == {Own(f) : f \in F}
            h == [f \in F |-> Own(f)]
<1>1. IsFiniteSet(F)
  BY CacheBudgetAssumption, FS_Subset
<1>2. \A f \in F : IsFiniteSet(Own(f))
  <2>1. ASSUME NEW f \in F
        PROVE  IsFiniteSet(Own(f))
    <3>1. fl[f].reserved \in Nat
      BY DEF FlightRecords
    <3>2. IsFiniteSet(1 .. fl[f].reserved)
      BY <3>1, FS_Interval
    <3>3. IsFiniteSet({f})
      BY FS_Singleton
    <3>4. QED  BY <3>2, <3>3, FS_Product
  <2>2. QED  BY <2>1
<1>. HIDE DEF Own
<1>3. h \in Surjection(F, T)
  BY DEF Surjection
<1>4. IsFiniteSet(T)
  <2>. HIDE DEF T, h
  <2>1. QED  BY <1>1, <1>3, FS_Surjection
<1>5. \A t \in T : IsFiniteSet(t)
  BY <1>2
<1>6. IsFiniteSet(UNION T)
  <2>. HIDE DEF T
  <2>1. QED  BY <1>4, <1>5, FS_UNION
<1>7. Units(fl, F) = UNION T
  BY DEF Units, Own
<1>8. QED  BY <1>6, <1>7, FS_CardinalityType

\* Those of one more hydration.
LEMMA UnitsOfOneMore ==
  ASSUME NEW fl \in [Flights -> FlightRecords], NEW F \in SUBSET Flights, NEW f \in Flights \ F
  PROVE  Cardinality(Units(fl, F \cup {f})) = Cardinality(Units(fl, F)) + fl[f].reserved
<1>. DEFINE own == {f} \X (1 .. fl[f].reserved)
            old == Units(fl, F)
<1>1. fl[f].reserved \in Nat
  BY DEF FlightRecords
<1>2. /\ IsFiniteSet(1 .. fl[f].reserved) /\ IsFiniteSet({f})
      /\ Cardinality(1 .. fl[f].reserved) = fl[f].reserved /\ Cardinality({f}) = 1
  <2>1. IsFiniteSet(1 .. fl[f].reserved) /\ Cardinality(1 .. fl[f].reserved) = fl[f].reserved
    <3>. DEFINE n == fl[f].reserved
    <3>. HIDE DEF n
    <3>1. n \in Nat
      BY <1>1 DEF n
    <3>2. IsFiniteSet(1 .. n) /\ Cardinality(1 .. n) = n
      BY <3>1, FS_Interval
    <3>3. QED  BY <3>2 DEF n
  <2>2. IsFiniteSet({f}) /\ Cardinality({f}) = 1
    BY FS_Singleton
  <2>3. QED  BY <2>1, <2>2
<1>3. IsFiniteSet(own) /\ Cardinality(own) = fl[f].reserved
  BY <1>1, <1>2, FS_Product
<1>4. IsFiniteSet(old) /\ Cardinality(old) \in Nat
  BY UnitsAreFinite
<1>5. Units(fl, F \cup {f}) = old \cup own
  BY DEF Units
<1>6. old \cap own = {}
  BY DEF Units
<1>. HIDE DEF old, own
<1>7. Cardinality(old \cap own) = 0
  BY <1>6, FS_EmptySet
<1>8. Cardinality(old \cup own)
        = Cardinality(old) + Cardinality(own) - Cardinality(old \cap own)
  BY <1>3, <1>4, FS_Union
<1>9. Cardinality(Units(fl, F \cup {f})) = Cardinality(old \cup own)
  BY <1>5
<1>10. Cardinality(Units(fl, F \cup {f})) = Cardinality(old) + fl[f].reserved
  BY <1>1, <1>3, <1>4, <1>7, <1>8, <1>9
<1>11. QED  BY <1>10 DEF old

\* Hydrations that owe as much as before for the contests that they did.
AsBefore(fl, fl1, F) ==
  \A g \in F : /\ fl1[g].reserved = fl[g].reserved /\ fl1[g].contest = fl[g].contest
               /\ fl1[g].phase = "idle" <=> fl[g].phase = "idle"

\* Such hydrations have the units that they had.
LEMMA UnitsAsBefore ==
  ASSUME NEW fl, NEW fl1, NEW F, AsBefore(fl, fl1, F), NEW G \in SUBSET F
  PROVE  Units(fl1, G) = Units(fl, G)
BY DEF Units, AsBefore

\* As much is owed then, in all and by each contest.
LEMMA OwedAsBefore ==
  ASSUME NEW fl, NEW fl1, AsBefore(fl, fl1, Flights)
  PROVE  Owed(fl1) = Owed(fl) /\ OwedBy(fl1) = OwedBy(fl)
<1>1. Owed(fl1) = Owed(fl)
  BY UnitsAsBefore DEF Owed
<1>2. ASSUME NEW c \in Contests
      PROVE  Cardinality(Units(fl1, Underway(c, fl1))) = Cardinality(Units(fl, Underway(c, fl)))
  <2>1. Underway(c, fl1) = Underway(c, fl) /\ Underway(c, fl) \in SUBSET Flights
    BY DEF Underway, AsBefore
  <2>2. Units(fl1, Underway(c, fl)) = Units(fl, Underway(c, fl))
    BY <2>1, UnitsAsBefore
  <2>3. QED  BY <2>1, <2>2
<1>3. QED  BY <1>1, <1>2 DEF OwedBy

\* What is owed is numbers.
LEMMA OwedType ==
  ASSUME NEW fl \in [Flights -> FlightRecords]
  PROVE  Owed(fl) \in Nat /\ OwedBy(fl) \in [Contests -> Nat]
<1>1. Owed(fl) \in Nat
  BY UnitsAreFinite DEF Owed
<1>2. ASSUME NEW c \in Contests
      PROVE  Cardinality(Units(fl, Underway(c, fl))) \in Nat
  <2>1. Underway(c, fl) \in SUBSET Flights
    BY DEF Underway
  <2>2. QED  BY <2>1, UnitsAreFinite
<1>3. QED  BY <1>1, <1>2 DEF OwedBy

\* When one that was idle joins the others.
LEMMA OwedWith ==
  ASSUME NEW fl \in [Flights -> FlightRecords], NEW fl1 \in [Flights -> FlightRecords],
         NEW f \in Flights, NEW c \in Contests,
         AsBefore(fl, fl1, Flights \ {f}),
         fl[f].phase = "idle", fl[f].reserved = 0,
         fl1[f].phase # "idle", fl1[f].contest = c
  PROVE  /\ Owed(fl1) = Owed(fl) + fl1[f].reserved
         /\ OwedBy(fl1) = More(OwedBy(fl), c, fl1[f].reserved)
<1>. DEFINE rest == Flights \ {f}
<1>1. rest \in SUBSET Flights /\ f \in Flights \ rest /\ Flights = rest \cup {f}
      /\ fl1[f].reserved \in Nat
  BY DEF FlightRecords
<1>2. Cardinality(Units(fl1, Flights)) = Cardinality(Units(fl1, rest)) + fl1[f].reserved
  <2>1. Cardinality(Units(fl1, rest \cup {f})) = Cardinality(Units(fl1, rest)) + fl1[f].reserved
    BY <1>1, UnitsOfOneMore
  <2>2. QED  BY <1>1, <2>1
<1>3. Cardinality(Units(fl, Flights)) = Cardinality(Units(fl, rest)) + fl[f].reserved
  <2>1. Cardinality(Units(fl, rest \cup {f})) = Cardinality(Units(fl, rest)) + fl[f].reserved
    BY <1>1, UnitsOfOneMore
  <2>2. QED  BY <1>1, <2>1
<1>4. Units(fl1, rest) = Units(fl, rest)
  BY UnitsAsBefore
<1>5. Cardinality(Units(fl, rest)) \in Nat
  BY UnitsAreFinite
<1>6. Owed(fl1) = Owed(fl) + fl1[f].reserved
  BY <1>1, <1>2, <1>3, <1>4, <1>5 DEF Owed
<1>7. ASSUME NEW d \in Contests
      PROVE  OwedBy(fl1)[d] = More(OwedBy(fl), c, fl1[f].reserved)[d]
  <2>. DEFINE F == Underway(d, fl)
  <2>1. F \in SUBSET rest /\ F \in SUBSET Flights /\ f \notin F
    BY DEF Underway
  <2>2. Underway(d, fl1) = IF d = c THEN F \cup {f} ELSE F
    BY DEF Underway, AsBefore
  <2>. HIDE DEF F
  <2>3. Units(fl1, F) = Units(fl, F) /\ Cardinality(Units(fl, F)) \in Nat
    BY <2>1, UnitsAsBefore, UnitsAreFinite
  <2>4. Cardinality(Units(fl1, F \cup {f})) = Cardinality(Units(fl1, F)) + fl1[f].reserved
    BY <2>1, UnitsOfOneMore
  <2>5. OwedBy(fl)[d] = Cardinality(Units(fl, F))
        /\ OwedBy(fl1)[d] = Cardinality(Units(fl1, Underway(d, fl1)))
        /\ OwedBy(fl) \in [Contests -> Nat]
    BY OwedType DEF OwedBy, F
  <2>6. CASE d = c
    <3>1. OwedBy(fl1)[d] = OwedBy(fl)[d] + fl1[f].reserved
      BY <2>2, <2>3, <2>4, <2>5, <2>6
    <3>2. QED  BY <2>5, <2>6, <3>1 DEF More
  <2>7. CASE d # c
    <3>1. OwedBy(fl1)[d] = OwedBy(fl)[d]
      BY <2>2, <2>3, <2>5, <2>7
    <3>2. QED  BY <2>5, <2>7, <3>1 DEF More
  <2>8. QED  BY <2>6, <2>7
<1>8. OwedBy(fl1) \in [Contests -> Nat] /\ OwedBy(fl) \in [Contests -> Nat]
  BY OwedType
<1>9. More(OwedBy(fl), c, fl1[f].reserved) \in [Contests -> Nat]
  BY <1>1, <1>8 DEF More
<1>10. OwedBy(fl1) = More(OwedBy(fl), c, fl1[f].reserved)
  BY <1>7, <1>8, <1>9
<1>11. QED  BY <1>6, <1>10

----------------------------------------------------------------------------
(* The invariant, and how steps begin and end. *)

EntriesOK ==
  entry \in [Contests -> [hydration : Flights \cup {NoFlight},
                          oversize : BOOLEAN, usable : BOOLEAN]]

\* One that counts is the entry's, and its base the entry's snapshot.
Counts(fl, l, en, f) ==
  /\ en[fl[f].contest].hydration = f
  /\ fl[f].base # NoParts => fl[f].base = l.snapshot[fl[f].contest]

FlightOK(fl, f) ==
  /\ fl[f].phase = "idle" <=> fl[f] = IdleFlight
  /\ fl[f].phase # "idle" => fl[f].contest \in Contests
  /\ fl[f].buffered <= fl[f].reserved
  /\ fl[f].phase \in {"queued", "cancelled"} => fl[f].reserved = 0
  /\ fl[f].phase = "reading" => fl[f].buffered + fl[f].page <= fl[f].reserved

FlightsOK(fl, l, en) ==
  /\ fl \in [Flights -> FlightRecords]
  /\ \A f \in Flights :
       FlightOK(fl, f) /\ (fl[f].phase \in CountingPhases => Counts(fl, l, en, f))

BudgetInv ==
  /\ Books(ledger, Owed(flight), OwedBy(flight)) /\ Within(ledger)
  /\ PinsOK /\ EntriesOK /\ FlightsOK(flight, ledger, entry)
  /\ overrun = FALSE

\* Ledger l may stand while hydration f has so many units reserved.
At(l, f, units) ==
  Keeping(l, flight[f].contest, Owed(Ended(f, flight)), OwedBy(Ended(f, flight)), units)

\* A ledger that is right stays so while answers are what they were.
LEMMA BooksStay ==
  ASSUME UNCHANGED <<pins, responses>>, PinsOK,
         Books(ledger', Owed(flight'), OwedBy(flight'))
  PROVE  Books(ledger, Owed(flight), OwedBy(flight))' /\ PinsOK'
<1>1. \A c : PinnedFor(c)' = PinnedFor(c)
  BY DEF PinnedFor
<1>2. PinsOK'
  BY DEF PinsOK, ResponsesOK, Answering
<1>3. SharesOK(ledger') => SharesOK(ledger)'
  BY <1>1 DEF SharesOK, HeldFor
<1>4. HeldBy(ledger)' = HeldBy(ledger')
      /\ \A c \in Contests : HeldFor(ledger, c)' = HeldFor(ledger', c)
  BY <1>1 DEF HeldBy, HeldFor
<1>5. RefsOK(ledger') => RefsOK(ledger)'
  BY DEF RefsOK, Resides, RetiredWith
<1>6. ledger' \in Ledgers => (ledger \in Ledgers)'
  BY DEF Ledgers
<1>7. Owed(flight') = Owed(flight)' /\ OwedBy(flight') = OwedBy(flight)'
  BY DEF Owed, OwedBy, Units, Underway
<1>8. QED  BY <1>2, <1>3, <1>4, <1>5, <1>6, <1>7 DEF Books

\* What has to be shown of a step that leaves the answers alone.
LEMMA Restored ==
  ASSUME UNCHANGED <<pins, responses>>, PinsOK,
         Books(ledger', Owed(flight'), OwedBy(flight')), Within(ledger'),
         EntriesOK', FlightsOK(flight', ledger', entry'), overrun' = FALSE
  PROVE  BudgetInv'
<1>1. FlightsOK(flight, ledger, entry)'
  BY DEF FlightsOK, FlightOK, Counts
<1>2. Within(ledger)'
  BY DEF Within
<1>3. QED  BY <1>1, <1>2, BooksStay DEF BudgetInv

\* What is so of an idle hydration.
LEMMA IdleIs ==
  /\ IdleFlight \in FlightRecords /\ IdleFlight.phase = "idle" /\ IdleFlight.reserved = 0
  /\ IdleFlight.buffered = 0
BY DEF IdleFlight, FlightRecords, FlightPhases, NoParts

\* The others, when one has ended.
LEMMA EndedIs ==
  ASSUME NEW fl \in [Flights -> FlightRecords], NEW f \in Flights
  PROVE  /\ Ended(f, fl) \in [Flights -> FlightRecords]
         /\ Ended(f, fl)[f] = IdleFlight
         /\ \A g \in Flights \ {f} : Ended(f, fl)[g] = fl[g]
         /\ AsBefore(Ended(f, fl), fl, Flights \ {f})
BY IdleIs DEF Ended, AsBefore

\* At first a hydration has reserved what it says.
LEMMA AtFirst ==
  ASSUME BudgetInv, NEW f \in Flights, flight[f].phase # "idle"
  PROVE  At(ledger, f, flight[f].reserved) /\ flight[f].contest \in Contests
<1>. DEFINE c == flight[f].contest
            rest == Ended(f, flight)
<1>1. /\ flight \in [Flights -> FlightRecords] /\ c \in Contests
      /\ flight[f].reserved \in Nat
  BY DEF BudgetInv, FlightsOK, FlightOK, FlightRecords
<1>2. /\ rest \in [Flights -> FlightRecords] /\ AsBefore(rest, flight, Flights \ {f})
      /\ rest[f].phase = "idle" /\ rest[f].reserved = 0
  BY <1>1, EndedIs, IdleIs
<1>3. Owed(rest) \in Nat /\ OwedBy(rest) \in [Contests -> Nat]
  BY <1>2, OwedType
<1>4. /\ Owed(flight) = Owed(rest) + flight[f].reserved
      /\ OwedBy(flight) = More(OwedBy(rest), c, flight[f].reserved)
  BY <1>1, <1>2, OwedWith
<1>. HIDE DEF rest
<1>5. Keeping(ledger, c, Owed(rest), OwedBy(rest), flight[f].reserved)
  BY <1>1, <1>3, <1>4 DEF Keeping, BudgetInv
<1>6. QED  BY <1>1, <1>5 DEF At, rest

\* Another hydration counts, of another contest or not the one that ended.
LEMMA OthersCount ==
  ASSUME BudgetInv, NEW g \in Flights, flight[g].phase \in CountingPhases
  PROVE  /\ flight[g].contest \in Contests /\ flight[g].phase # "idle"
         /\ entry[flight[g].contest].hydration = g
         /\ entry[flight[g].contest].hydration # NoFlight
         /\ flight[g].base # NoParts => flight[g].base = ledger.snapshot[flight[g].contest]
<1>1. flight[g].phase # "idle"
  BY DEF CountingPhases
<1>2. /\ flight[g].contest \in Contests
      /\ entry[flight[g].contest].hydration = g
      /\ flight[g].base # NoParts => flight[g].base = ledger.snapshot[flight[g].contest]
  BY <1>1 DEF BudgetInv, FlightsOK, FlightOK, Counts
<1>3. QED  BY <1>1, <1>2, CacheBudgetAssumption

\* A hydration ends.
LEMMA Ends ==
  ASSUME BudgetInv, NEW f \in Flights, flight[f].phase # "idle", NEW l, At(l, f, 0),
         \/ flight[f].phase \in CountingPhases
         \/ l.snapshot[flight[f].contest] = ledger.snapshot[flight[f].contest],
         ledger' = l, flight' = Ended(f, flight), EntriesOK',
         \A d \in Contests \ {flight[f].contest} : entry'[d] = entry[d],
         entry'[flight[f].contest].hydration
           = IF entry[flight[f].contest].hydration = f THEN NoFlight
             ELSE entry[flight[f].contest].hydration,
         UNCHANGED <<pins, responses, overrun>>
  PROVE  BudgetInv'
<1>. DEFINE c == flight[f].contest
            rest == Ended(f, flight)
<1>1. /\ flight \in [Flights -> FlightRecords] /\ c \in Contests
  BY AtFirst DEF BudgetInv, FlightsOK
<1>2. /\ rest \in [Flights -> FlightRecords] /\ rest[f] = IdleFlight
      /\ \A g \in Flights \ {f} : rest[g] = flight[g]
  BY <1>1, EndedIs
<1>3. Owed(rest) \in Nat /\ OwedBy(rest) \in [Contests -> Nat]
  BY <1>2, OwedType
<1>. HIDE DEF rest
<1>4. Owed(rest) + 0 = Owed(rest) /\ More(OwedBy(rest), c, 0) = OwedBy(rest)
  BY <1>1, <1>3 DEF More
<1>5. Keeping(l, c, Owed(rest), OwedBy(rest), 0)
  BY DEF At, rest
<1>6. Books(l, Owed(rest), OwedBy(rest)) /\ Within(l)
  BY <1>4, <1>5 DEF Keeping
<1>7. ASSUME NEW g \in Flights
      PROVE  /\ FlightOK(rest, g)
             /\ rest[g].phase \in CountingPhases => Counts(rest, l, entry', g)
  <2>1. CASE g = f
    <3>1. FlightOK(rest, g)
      BY <1>2, <2>1, IdleIs DEF FlightOK, IdleFlight
    <3>2. rest[g].phase \notin CountingPhases
      BY <1>2, <2>1, IdleIs DEF CountingPhases
    <3>3. QED  BY <3>1, <3>2
  <2>2. CASE g # f
    <3>1. rest[g] = flight[g]
      BY <1>2, <2>2
    <3>2. FlightOK(rest, g)
      BY <3>1 DEF BudgetInv, FlightsOK, FlightOK
    <3>3. ASSUME flight[g].phase \in CountingPhases
          PROVE  Counts(rest, l, entry', g)
      <4>. DEFINE d == flight[g].contest
      <4>1. /\ d \in Contests /\ entry[d].hydration = g /\ entry[d].hydration # NoFlight
            /\ flight[g].base # NoParts => flight[g].base = ledger.snapshot[d]
        BY <3>3, OthersCount
      <4>2. flight[f].phase \in CountingPhases => d # c
        BY <2>2, <4>1, OthersCount
      <4>3. d # c => l.snapshot[d] = ledger.snapshot[d]
        BY <1>5, <4>1 DEF Keeping
      <4>4. l.snapshot[d] = ledger.snapshot[d]
        BY <4>2, <4>3
      <4>5. entry'[d].hydration = g
        BY <2>2, <4>1
      <4>6. QED  BY <3>1, <4>1, <4>4, <4>5 DEF Counts
    <3>4. QED  BY <3>1, <3>2, <3>3
  <2>3. QED  BY <2>1, <2>2
<1>8. FlightsOK(flight', ledger', entry')
  BY <1>2, <1>7 DEF FlightsOK, rest
<1>9. Books(ledger', Owed(flight'), OwedBy(flight')) /\ Within(ledger')
  BY <1>6 DEF rest
<1>10. PinsOK /\ overrun' = FALSE
  BY DEF BudgetInv
<1>11. QED  BY <1>8, <1>9, <1>10, Restored

\* A hydration that is detached, if it is of the contest.
LEMMA DetachedIs ==
  ASSUME NEW fl \in [Flights -> FlightRecords], NEW c \in Contests,
         \A f \in Flights : FlightOK(fl, f)
  PROVE  /\ Detached(c, fl) \in [Flights -> FlightRecords]
         /\ AsBefore(fl, Detached(c, fl), Flights)
         /\ \A f \in Flights :
              /\ FlightOK(Detached(c, fl), f)
              /\ Detached(c, fl)[f].phase \in CountingPhases =>
                   Detached(c, fl)[f] = fl[f] /\ fl[f].contest # c
<1>. DEFINE fl1 == Detached(c, fl)
<1>1. ASSUME NEW f \in Flights
      PROVE  /\ fl1[f] \in FlightRecords
             /\ fl1[f].reserved = fl[f].reserved /\ fl1[f].contest = fl[f].contest
             /\ fl1[f].phase = "idle" <=> fl[f].phase = "idle"
             /\ FlightOK(fl1, f)
             /\ fl1[f].phase \in CountingPhases => fl1[f] = fl[f] /\ fl[f].contest # c
  <2>1. fl[f] \in FlightRecords /\ FlightOK(fl, f)
    OBVIOUS
  <2>2. CASE f \in Underway(c, fl)
    <3>. DEFINE p == IF fl[f].phase \in {"queued", "cancelled"}
                     THEN "cancelled" ELSE "detached"
    <3>1. fl1[f] = [IdleFlight EXCEPT !.phase = p, !.contest = c, !.reserved = fl[f].reserved]
      BY <2>2 DEF Detached
    <3>2. p \in {"cancelled", "detached"} /\ (p = "cancelled" => fl[f].reserved = 0)
      BY <2>1 DEF FlightOK
    <3>. HIDE DEF p
    <3>3. fl[f].reserved \in Nat /\ fl[f].contest = c /\ fl[f].phase # "idle"
      BY <2>1, <2>2 DEF Underway, FlightRecords
    <3>4. /\ fl1[f] \in FlightRecords /\ fl1[f].phase = p /\ fl1[f].contest = c
          /\ fl1[f].reserved = fl[f].reserved /\ fl1[f].buffered = 0
      <4>. DEFINE r == fl[f].reserved
      <4>. HIDE DEF r
      <4>1. fl1[f] = [phase |-> p, contest |-> c, base |-> {}, reserved |-> r, buffered |-> 0,
                      page |-> 0, rebuilding |-> FALSE, overtaken |-> FALSE]
        BY <3>1 DEF IdleFlight, NoParts, r
      <4>2. r \in Nat /\ p \in FlightPhases
        BY <3>2, <3>3 DEF FlightPhases, r
      <4>. HIDE DEF fl1
      <4>3. fl1[f] \in FlightRecords
        BY <4>1, <4>2 DEF FlightRecords
      <4>4. QED  BY <4>1, <4>3 DEF r
    <3>5. fl1[f].phase # "idle" /\ fl1[f] # IdleFlight /\ fl1[f].phase \notin CountingPhases
          /\ fl1[f].phase # "reading"
      BY <3>2, <3>4, IdleIs DEF CountingPhases
    <3>6. FlightOK(fl1, f)
      BY <3>2, <3>3, <3>4, <3>5 DEF FlightOK
    <3>7. QED  BY <3>3, <3>4, <3>5, <3>6
  <2>3. CASE f \notin Underway(c, fl)
    <3>1. fl1[f] = fl[f]
      BY <2>3 DEF Detached
    <3>2. FlightOK(fl1, f)
      BY <2>1, <3>1 DEF FlightOK
    <3>3. fl1[f].phase \in CountingPhases => fl[f].contest # c
      BY <2>3, <3>1 DEF Underway, CountingPhases
    <3>4. QED  BY <2>1, <3>1, <3>2, <3>3
  <2>4. QED  BY <2>2, <2>3
<1>2. fl1 \in [Flights -> FlightRecords]
  BY <1>1 DEF Detached
<1>3. AsBefore(fl, fl1, Flights)
  BY <1>1 DEF AsBefore
<1>4. QED  BY <1>1, <1>2, <1>3

\* Entries are closed: none of their hydrations counts any more.
LEMMA Closes ==
  ASSUME BudgetInv, NEW C \in SUBSET Contests,
         NEW fl \in [Flights -> FlightRecords],
         Books(ledger', Owed(fl), OwedBy(fl)), Within(ledger'),
         \A d \in Contests \ C :
           entry[d].hydration # NoFlight => ledger'.snapshot[d] = ledger.snapshot[d],
         flight' \in [Flights -> FlightRecords], AsBefore(fl, flight', Flights),
         \A f \in Flights :
           /\ FlightOK(flight', f)
           /\ flight'[f].phase \in CountingPhases =>
                flight'[f] = flight[f] /\ flight[f].contest \notin C,
         EntriesOK', \A d \in Contests \ C : entry'[d].hydration = entry[d].hydration,
         UNCHANGED <<pins, responses, overrun>>
  PROVE  BudgetInv'
<1>1. Books(ledger', Owed(flight'), OwedBy(flight'))
  BY OwedAsBefore
<1>2. ASSUME NEW f \in Flights, flight'[f].phase \in CountingPhases
      PROVE  Counts(flight', ledger', entry', f)
  <2>1. flight'[f] = flight[f] /\ flight[f].contest \notin C
    BY <1>2
  <2>2. /\ flight[f].contest \in Contests /\ entry[flight[f].contest].hydration = f
        /\ entry[flight[f].contest].hydration # NoFlight
        /\ flight[f].base # NoParts => flight[f].base = ledger.snapshot[flight[f].contest]
    BY <1>2, <2>1, OthersCount
  <2>3. QED  BY <2>1, <2>2 DEF Counts
<1>3. FlightsOK(flight', ledger', entry')
  BY <1>2 DEF FlightsOK
<1>4. PinsOK /\ overrun' = FALSE
  BY DEF BudgetInv
<1>5. QED  BY <1>1, <1>3, <1>4, Restored

\* A hydration ends, and closes the entry.
LEMMA EndsClosing ==
  ASSUME BudgetInv, NEW f \in Flights, flight[f].phase # "idle", NEW l, At(l, f, 0),
         ledger' = l, flight' = Detached(flight[f].contest, Ended(f, flight)), EntriesOK',
         \A d \in Contests \ {flight[f].contest} : entry'[d] = entry[d],
         UNCHANGED <<pins, responses, overrun>>
  PROVE  BudgetInv'
<1>. DEFINE c == flight[f].contest
            rest == Ended(f, flight)
<1>1. flight \in [Flights -> FlightRecords] /\ c \in Contests
  BY AtFirst DEF BudgetInv, FlightsOK
<1>2. /\ rest \in [Flights -> FlightRecords] /\ rest[f] = IdleFlight
      /\ \A g \in Flights \ {f} : rest[g] = flight[g]
  BY <1>1, EndedIs
<1>3. \A g \in Flights : FlightOK(rest, g)
  <2>1. FlightOK(rest, f)
    BY <1>2, IdleIs DEF FlightOK, IdleFlight
  <2>2. \A g \in Flights \ {f} : FlightOK(rest, g)
    BY <1>2 DEF BudgetInv, FlightsOK, FlightOK
  <2>3. QED  BY <2>1, <2>2
<1>4. Keeping(l, c, Owed(rest), OwedBy(rest), 0)
  BY DEF At
<1>5. flight' = Detached(c, rest)
  OBVIOUS
<1>. HIDE DEF rest
<1>6. /\ flight' \in [Flights -> FlightRecords] /\ AsBefore(rest, flight', Flights)
      /\ \A g \in Flights :
           /\ FlightOK(flight', g)
           /\ flight'[g].phase \in CountingPhases =>
                flight'[g] = rest[g] /\ rest[g].contest # c
  BY <1>1, <1>2, <1>3, <1>5, DetachedIs
<1>7. Owed(rest) \in Nat /\ OwedBy(rest) \in [Contests -> Nat]
  BY <1>2, OwedType
<1>8. Owed(rest) + 0 = Owed(rest) /\ More(OwedBy(rest), c, 0) = OwedBy(rest)
  BY <1>1, <1>7 DEF More
<1>9. Books(l, Owed(rest), OwedBy(rest)) /\ Within(l)
  BY <1>4, <1>8 DEF Keeping
<1>10. \A d \in Contests \ {c} :
         entry[d].hydration # NoFlight => l.snapshot[d] = ledger.snapshot[d]
  BY <1>4 DEF Keeping
<1>11. \A g \in Flights : flight'[g].phase \in CountingPhases => g # f
  BY <1>2, <1>6, IdleIs DEF CountingPhases
<1>12. \A g \in Flights :
         /\ FlightOK(flight', g)
         /\ flight'[g].phase \in CountingPhases =>
              flight'[g] = flight[g] /\ flight[g].contest \notin {c}
  BY <1>2, <1>6, <1>11
<1>13. {c} \in SUBSET Contests
  BY <1>1
<1>. HIDE DEF c
<1>14. \A d \in Contests \ {c} : entry'[d].hydration = entry[d].hydration
  BY DEF c
<1>15. QED  BY <1>2, <1>6, <1>9, <1>10, <1>12, <1>13, <1>14, Closes

\* A hydration that counts goes on as r says.
LEMMA GoesOn ==
  ASSUME BudgetInv, NEW f \in Flights, flight[f].phase \in CountingPhases,
         NEW r \in FlightRecords, r.contest = flight[f].contest, r.phase \in CountingPhases,
         r.buffered <= r.reserved, r.phase = "queued" => r.reserved = 0,
         r.phase = "reading" => r.buffered + r.page <= r.reserved,
         NEW l, At(l, f, r.reserved),
         r.base # NoParts => r.base = l.snapshot[flight[f].contest],
         ledger' = l, flight' = [flight EXCEPT ![f] = r],
         UNCHANGED <<pins, responses, entry, overrun>>
  PROVE  BudgetInv'
<1>. DEFINE c == flight[f].contest
            rest == Ended(f, flight)
<1>1. /\ flight \in [Flights -> FlightRecords] /\ c \in Contests /\ flight[f].phase # "idle"
      /\ entry[c].hydration = f
  BY OthersCount DEF BudgetInv, FlightsOK
<1>2. /\ rest \in [Flights -> FlightRecords] /\ rest[f] = IdleFlight
      /\ \A g \in Flights \ {f} : rest[g] = flight[g]
  BY <1>1, EndedIs
<1>3. Keeping(l, c, Owed(rest), OwedBy(rest), r.reserved)
  BY DEF At
<1>. HIDE DEF rest
<1>4. /\ flight' \in [Flights -> FlightRecords] /\ flight'[f] = r
      /\ \A g \in Flights \ {f} : flight'[g] = flight[g]
  BY <1>1
<1>5. r.phase # "idle" /\ r.phase # "cancelled" /\ r # IdleFlight
  BY IdleIs DEF CountingPhases
<1>6. AsBefore(rest, flight', Flights \ {f})
  BY <1>2, <1>4 DEF AsBefore
<1>7. /\ Owed(flight') = Owed(rest) + r.reserved
      /\ OwedBy(flight') = More(OwedBy(rest), c, r.reserved)
  <2>1. flight'[f].phase # "idle" /\ flight'[f].contest = c
    BY <1>4, <1>5
  <2>2. rest[f].phase = "idle" /\ rest[f].reserved = 0
    BY <1>2, IdleIs
  <2>3. /\ Owed(flight') = Owed(rest) + flight'[f].reserved
        /\ OwedBy(flight') = More(OwedBy(rest), c, flight'[f].reserved)
    BY ONLY <1>1, <1>2, <1>4, <1>6, <2>1, <2>2, f \in Flights, OwedWith
  <2>4. QED  BY <1>4, <2>3
<1>8. Books(ledger', Owed(flight'), OwedBy(flight')) /\ Within(ledger')
  BY <1>3, <1>7 DEF Keeping
<1>9. ASSUME NEW g \in Flights
      PROVE  /\ FlightOK(flight', g)
             /\ flight'[g].phase \in CountingPhases => Counts(flight', ledger', entry', g)
  <2>1. CASE g = f
    <3>1. FlightOK(flight', g)
      BY <1>1, <1>4, <1>5, <2>1 DEF FlightOK
    <3>2. Counts(flight', ledger', entry', g)
      BY <1>1, <1>4, <2>1 DEF Counts
    <3>3. QED  BY <3>1, <3>2
  <2>2. CASE g # f
    <3>1. flight'[g] = flight[g]
      BY <1>4, <2>2
    <3>2. FlightOK(flight', g)
      BY <3>1 DEF BudgetInv, FlightsOK, FlightOK
    <3>3. ASSUME flight[g].phase \in CountingPhases
          PROVE  Counts(flight', ledger', entry', g)
      <4>. DEFINE d == flight[g].contest
      <4>1. /\ d \in Contests /\ entry[d].hydration = g /\ entry[d].hydration # NoFlight
            /\ flight[g].base # NoParts => flight[g].base = ledger.snapshot[d]
        BY <3>3, OthersCount
      <4>2. d # c
        BY <1>1, <2>2, <4>1
      <4>3. l.snapshot[d] = ledger.snapshot[d]
        BY <1>3, <4>1, <4>2 DEF Keeping
      <4>4. QED  BY <3>1, <4>1, <4>3 DEF Counts
    <3>4. QED  BY <3>1, <3>2, <3>3
  <2>3. QED  BY <2>1, <2>2
<1>10. FlightsOK(flight', ledger', entry')
  BY <1>4, <1>9 DEF FlightsOK
<1>11. PinsOK /\ EntriesOK' /\ overrun' = FALSE
  BY DEF BudgetInv, EntriesOK
<1>12. QED  BY <1>8, <1>10, <1>11, Restored

----------------------------------------------------------------------------
(* The ways in which a hydration ends, and a further attempt. *)

\* A reservation is given back.
LEMMA Frees ==
  ASSUME PinsOK, NEW f, flight[f].contest \in Contests, NEW l, NEW units, At(l, f, units)
  PROVE  LET m == Charge(l, flight[f].contest, -units)
         IN  /\ At(m, f, 0) /\ m.snapshot = l.snapshot
             /\ m.total = l.total - units
             /\ m.byContest[flight[f].contest] = l.byContest[flight[f].contest] - units
<1>. DEFINE c == flight[f].contest
            owed == Owed(Ended(f, flight))
            by == OwedBy(Ended(f, flight))
            bytes == -units
            m == Charge(l, c, bytes)
<1>1. Keeping(l, c, owed, by, units) /\ units \in Nat /\ l \in Ledgers
  BY DEF At, Keeping, Books
<1>2. bytes \in Int /\ units + bytes = 0 /\ units + bytes >= 0 /\ ~(bytes > 0)
  BY <1>1
<1>3. l.total \in Nat /\ l.byContest[c] \in Nat
  BY <1>1 DEF Ledgers
<1>4. l.total + bytes = l.total - units /\ l.byContest[c] + bytes = l.byContest[c] - units
  BY <1>1, <1>3
<1>. HIDE DEF owed, by, bytes, c
<1>5. /\ Keeping(m, c, owed, by, units + bytes)
      /\ m.snapshot = l.snapshot
      /\ m.total = l.total + bytes /\ m.byContest[c] = l.byContest[c] + bytes
  BY <1>1, <1>2, ChargeStands DEF c
<1>6. At(m, f, 0)
  BY <1>2, <1>5 DEF At, c, owed, by
<1>. HIDE DEF m
<1>7. QED  BY <1>4, <1>5, <1>6 DEF m, bytes, c

\* Without its reservation.
LEMMA ReleasedStands ==
  ASSUME BudgetInv, NEW f \in Flights, flight[f].phase # "idle"
  PROVE  At(Released(ledger, f), f, 0) /\ Released(ledger, f).snapshot = ledger.snapshot
<1>1. PinsOK
  BY DEF BudgetInv
<1>2. QED  BY <1>1, AtFirst, Frees DEF Released

\* A hydration ends, and nothing else changes.
LEMMA UnavailableStep ==
  ASSUME BudgetInv, NEW f \in Flights, flight[f].phase # "idle", NEW l, At(l, f, 0),
         \/ flight[f].phase \in CountingPhases
         \/ l.snapshot[flight[f].contest] = ledger.snapshot[flight[f].contest],
         Unavailable(f, l)
  PROVE  BudgetInv'
<1>. DEFINE c == flight[f].contest
<1>1. c \in Contests /\ EntriesOK
  BY AtFirst DEF BudgetInv
<1>2. /\ ledger' = l /\ flight' = Ended(f, flight) /\ entry' = LeaveEntry(f)
      /\ UNCHANGED <<pins, responses, overrun>>
  BY DEF Unavailable
<1>3. /\ EntriesOK' /\ \A d \in Contests \ {c} : entry'[d] = entry[d]
      /\ entry'[c].hydration = IF entry[c].hydration = f THEN NoFlight ELSE entry[c].hydration
  BY <1>1, <1>2 DEF EntriesOK, LeaveEntry
<1>4. QED  BY <1>2, <1>3, Ends

\* The entry that a hydration leaves with a mark.
LEMMA LeavesMarked ==
  ASSUME EntriesOK, NEW f \in Flights, flight[f].contest \in Contests, NEW mark \in BOOLEAN,
         entry' = [LeaveEntry(f) EXCEPT ![flight[f].contest] = [@ EXCEPT !.oversize = mark]]
  PROVE  /\ EntriesOK' /\ \A d \in Contests \ {flight[f].contest} : entry'[d] = entry[d]
         /\ entry'[flight[f].contest].hydration
              = IF entry[flight[f].contest].hydration = f THEN NoFlight
                ELSE entry[flight[f].contest].hydration
<1>. DEFINE c == flight[f].contest
            left == LeaveEntry(f)
<1>1. /\ left \in [Contests -> [hydration : Flights \cup {NoFlight},
                                oversize : BOOLEAN, usable : BOOLEAN]]
      /\ \A d \in Contests \ {c} : left[d] = entry[d]
      /\ left[c].hydration = IF entry[c].hydration = f THEN NoFlight ELSE entry[c].hydration
  BY DEF EntriesOK, LeaveEntry
<1>. HIDE DEF left
<1>2. entry' = [left EXCEPT ![c] = [left[c] EXCEPT !.oversize = mark]]
  BY DEF left
<1>3. /\ c \in Contests /\ mark \in BOOLEAN
      /\ left[c] \in [hydration : Flights \cup {NoFlight}, oversize : BOOLEAN,
                      usable : BOOLEAN]
  BY <1>1
<1>. HIDE DEF c
<1>4. /\ EntriesOK' /\ \A d \in Contests \ {c} : entry'[d] = entry[d]
      /\ entry'[c].hydration = IF entry[c].hydration = f THEN NoFlight ELSE entry[c].hydration
  BY ONLY <1>1, <1>2, <1>3 DEF EntriesOK
<1>5. QED  BY <1>4 DEF c

\* What a hydration that fails for want of capacity leaves.
LEMMA CapacityFailsStep ==
  ASSUME BudgetInv, NEW f \in Flights, flight[f].phase \in CountingPhases, NEW l, At(l, f, 0),
         NEW desired, CapacityFails(f, l, desired)
  PROVE  BudgetInv'
<1>. DEFINE c == flight[f].contest
            big == desired > MaxEntryBytes
<1>1. c \in Contests /\ EntriesOK /\ flight[f].phase # "idle"
  BY OthersCount DEF BudgetInv
<1>2. /\ ledger' = l /\ flight' = Ended(f, flight)
      /\ entry' = [LeaveEntry(f) EXCEPT ![c] = [@ EXCEPT !.oversize = big]]
      /\ UNCHANGED <<pins, responses, overrun>>
  BY DEF CapacityFails
<1>3. big \in BOOLEAN
  OBVIOUS
<1>. HIDE DEF big
<1>4. /\ EntriesOK' /\ \A d \in Contests \ {c} : entry'[d] = entry[d]
      /\ entry'[c].hydration = IF entry[c].hydration = f THEN NoFlight ELSE entry[c].hydration
  BY <1>1, <1>2, <1>3, LeavesMarked
<1>5. QED  BY <1>1, <1>2, <1>4, Ends

\* A hydration that fails otherwise closes the entry.
LEMMA FailClosedStep ==
  ASSUME BudgetInv, NEW f \in Flights, flight[f].phase # "idle", NEW l, At(l, f, 0),
         FailClosedBy(f, l), UNCHANGED overrun
  PROVE  BudgetInv'
<1>. DEFINE c == flight[f].contest
<1>1. c \in Contests /\ EntriesOK /\ PinsOK
  BY AtFirst DEF BudgetInv
<1>2. At(Dropped(l, c), f, 0)
  BY <1>1, DropStands DEF At
<1>3. /\ ledger' = Dropped(l, c) /\ flight' = Detached(c, Ended(f, flight))
      /\ entry' = [entry EXCEPT ![c] = [@ EXCEPT !.hydration = NoFlight]]
      /\ UNCHANGED <<pins, responses>>
  BY DEF FailClosedBy
<1>4. EntriesOK' /\ \A d \in Contests \ {c} : entry'[d] = entry[d]
  BY <1>1, <1>3 DEF EntriesOK
<1>5. QED  BY <1>2, <1>3, <1>4, EndsClosing

\* An attempt begins with nothing reserved.
LEMMA AttemptStep ==
  ASSUME BudgetInv, NEW f \in Flights, flight[f].phase \in CountingPhases, NEW l, At(l, f, 0),
         Attempt(f, l)
  PROVE  BudgetInv'
<1>. DEFINE c == flight[f].contest
<1>1. c \in Contests /\ PinsOK /\ flight[f].phase # "idle"
  BY OthersCount DEF BudgetInv
<1>2. PICK bound \in 1 .. MaxFresh, empty \in BOOLEAN :
        LET tight == /\ l.snapshot[c] # NoParts /\ PinCount(l.snapshot[c]) = 0
                     /\ l.byContest[c] + bound > MaxEntryBytes
            start == IF tight THEN Dropped(l, c) ELSE l
        IN  /\ \E room \in RoomFor(start, 0, c) :
                 /\ ledger' = room
                 /\ flight' =
                      [flight EXCEPT ![f] =
                        [IdleFlight EXCEPT
                           !.phase = IF empty THEN "authority" ELSE "estimating",
                           !.contest = c, !.base = room.snapshot[c]]]
            /\ UNCHANGED <<pins, responses, entry, overrun>>
  BY DEF Attempt
<1>3. PICK start \in {l, Dropped(l, c)} :
        /\ \E room \in RoomFor(start, 0, c) :
             /\ ledger' = room
             /\ flight' =
                  [flight EXCEPT ![f] =
                    [IdleFlight EXCEPT
                       !.phase = IF empty THEN "authority" ELSE "estimating",
                       !.contest = c, !.base = room.snapshot[c]]]
        /\ UNCHANGED <<pins, responses, entry, overrun>>
  BY <1>2
<1>4. PICK room \in RoomFor(start, 0, c) :
        /\ ledger' = room
        /\ flight' =
             [flight EXCEPT ![f] =
               [IdleFlight EXCEPT
                  !.phase = IF empty THEN "authority" ELSE "estimating",
                  !.contest = c, !.base = room.snapshot[c]]]
  BY <1>3
<1>5. At(start, f, 0)
  <2>1. At(Dropped(l, c), f, 0)
    BY <1>1, DropStands DEF At
  <2>2. QED  BY <2>1
<1>6. At(room, f, 0)
  BY <1>1, <1>5, RoomStands DEF At
<1>7. room \in Ledgers
  BY <1>6 DEF At, Keeping, Books
<1>. DEFINE p == IF empty THEN "authority" ELSE "estimating"
            base == room.snapshot[c]
            r == [IdleFlight EXCEPT !.phase = p, !.contest = c, !.base = base]
<1>8. p \in CountingPhases /\ p # "queued" /\ p # "reading" /\ p \in FlightPhases
  BY DEF CountingPhases, FlightPhases
<1>9. base \in SUBSET Parts
  BY <1>1, <1>7 DEF Ledgers
<1>. HIDE DEF p, base
<1>10. r = [phase |-> p, contest |-> c, base |-> base, reserved |-> 0, buffered |-> 0,
            page |-> 0, rebuilding |-> FALSE, overtaken |-> FALSE]
  <2>1. r = [IdleFlight EXCEPT !.phase = p, !.contest = c, !.base = base]
    OBVIOUS
  <2>. HIDE DEF r
  <2>2. QED  BY <2>1 DEF IdleFlight
<1>11. flight' = [flight EXCEPT ![f] = r]
  BY <1>4 DEF p, base
<1>. HIDE DEF r
<1>12. r \in FlightRecords
  BY <1>1, <1>8, <1>9, <1>10 DEF FlightRecords
<1>13. /\ r.phase = p /\ r.contest = c /\ r.base = base /\ r.reserved = 0 /\ r.buffered = 0
  BY <1>10
<1>14. r.base # NoParts => r.base = room.snapshot[c]
  BY <1>13 DEF base
<1>15. UNCHANGED <<pins, responses, entry, overrun>>
  BY <1>3
<1>16. At(room, f, r.reserved) /\ ledger' = room
  BY <1>4, <1>6, <1>13
<1>17. /\ r.contest = flight[f].contest /\ r.phase \in CountingPhases
       /\ r.buffered <= r.reserved /\ (r.phase = "queued" => r.reserved = 0)
       /\ (r.phase = "reading" => r.buffered + r.page <= r.reserved)
  BY <1>8, <1>13
<1>18. QED  BY <1>11, <1>12, <1>14, <1>15, <1>16, <1>17, GoesOn

\* A further attempt, or none.
LEMMA RetryStep ==
  ASSUME BudgetInv, NEW f \in Flights, flight[f].phase \in CountingPhases, NEW l, At(l, f, 0),
         Retry(f, l)
  PROVE  BudgetInv'
<1>1. flight[f].phase # "idle"
  BY OthersCount
<1>2. QED  BY <1>1, AttemptStep, UnavailableStep DEF Retry

----------------------------------------------------------------------------
(* The end of an attempt that has built a snapshot. *)

\* What is built needs no more than was reserved for it, and is published.
LEMMA InstallStep ==
  ASSUME BudgetInv, NEW f \in Flights, flight[f].phase \in CountingPhases,
         NEW l, NEW reserved, At(l, f, reserved), NEW buffered \in Nat, NEW bound \in Nat,
         buffered + bound <= reserved,
         NEW fresh \in SUBSET Parts, fresh \cap HeldBy(l) = {}, Cardinality(fresh) <= bound,
         NEW s \in SUBSET (l.snapshot[flight[f].contest] \cup fresh),
         Install(f, l, s, buffered, reserved)
  PROVE  BudgetInv'
<1>. DEFINE c == flight[f].contest
            freed == Charge(l, c, -reserved)
            all == Owed(Ended(f, flight)) + reserved
            whole == More(OwedBy(Ended(f, flight)), c, reserved)
<1>1. c \in Contests /\ PinsOK /\ ResponsesOK /\ EntriesOK /\ flight[f].phase # "idle"
      /\ overrun = FALSE
  BY OthersCount DEF BudgetInv, PinsOK
<1>2. /\ Books(l, all, whole) /\ Within(l) /\ reserved \in Nat
      /\ l \in Ledgers /\ SharesOK(l) /\ RefsOK(l)
  BY DEF At, Keeping, Books
<1>. HIDE DEF all, whole
<1>3. At(freed, f, 0) /\ freed.snapshot = l.snapshot
      /\ freed.total = l.total - reserved
      /\ freed.byContest[c] = l.byContest[c] - reserved
  BY <1>1, Frees
<1>. HIDE DEF freed
<1>4. Cardinality(fresh) \in Nat /\ l.total \in Nat /\ l.byContest[c] \in Nat
      /\ MaxBytes \in Nat /\ MaxEntryBytes \in Nat
  BY <1>1, <1>2, PartsAreFinite, CacheBudgetAssumption DEF Ledgers
<1>5. Additional(l, s) \in Nat /\ Additional(l, s) <= Cardinality(fresh)
  <2>1. s \in SUBSET Parts /\ l.snapshot[c] \in SUBSET HeldBy(l)
    BY <1>1, <1>2, HeldParts
  <2>2. AccountedIn(l.refs, s) = HeldBy(l) \cap s
    BY <1>1, <1>2, <2>1, AccountedIsHeld
  <2>3. s \ AccountedIn(l.refs, s) \in SUBSET fresh
    BY <2>1, <2>2
  <2>4. /\ Cardinality(s \ AccountedIn(l.refs, s)) \in Nat
        /\ Cardinality(s \ AccountedIn(l.refs, s)) <= Cardinality(fresh)
    BY <2>3, NoLarger
  <2>5. QED  BY <2>4 DEF Additional
<1>6. ~(buffered + Additional(l, s) > reserved)
  BY <1>2, <1>4, <1>5
<1>7. IF flight[f].overtaken
      THEN Retry(f, freed)
      ELSE \E end \in PublishSnapshot(freed, c, s) :
             /\ ledger' = end.ledger
             /\ flight' = Ended(f, flight)
             /\ entry' = [LeaveEntry(f) EXCEPT ![c] =
                            [@ EXCEPT !.oversize = OversizeAfter(c, end)]]
             /\ overrun' = (overrun \/ ~end.ok)
             /\ UNCHANGED <<pins, responses>>
  BY <1>6 DEF Install, freed
<1>8. CASE flight[f].overtaken
  BY <1>3, <1>7, <1>8, RetryStep
<1>9. CASE ~flight[f].overtaken
  <2>1. PICK end \in PublishSnapshot(freed, c, s) :
          /\ ledger' = end.ledger
          /\ flight' = Ended(f, flight)
          /\ entry' = [LeaveEntry(f) EXCEPT ![c] =
                         [@ EXCEPT !.oversize = OversizeAfter(c, end)]]
          /\ overrun' = (overrun \/ ~end.ok)
          /\ UNCHANGED <<pins, responses>>
    BY <1>7, <1>9
  <2>2. /\ end.ok = TRUE
        /\ At(end.ledger, f, 0)
    <3>1. Keeping(freed, c, Owed(Ended(f, flight)), OwedBy(Ended(f, flight)), 0)
      BY <1>3 DEF At
    <3>2. freed.total + bound <= MaxBytes /\ freed.byContest[c] + bound <= MaxEntryBytes
      BY <1>1, <1>2, <1>3, <1>4 DEF Within
    <3>3. HeldBy(freed) = HeldBy(l)
      BY <1>3 DEF HeldBy, HeldFor
    <3>4. s \in SUBSET (freed.snapshot[c] \cup fresh) /\ fresh \cap HeldBy(freed) = {}
      BY <1>3, <3>3
    <3>. DEFINE others == Owed(Ended(f, flight))
                by == OwedBy(Ended(f, flight))
    <3>5. /\ PinsOK /\ c \in Contests /\ Keeping(freed, c, others, by, 0) /\ bound \in Nat
          /\ freed.total + bound <= MaxBytes /\ freed.byContest[c] + bound <= MaxEntryBytes
          /\ fresh \in SUBSET Parts /\ fresh \cap HeldBy(freed) = {}
          /\ Cardinality(fresh) <= bound
          /\ s \in SUBSET (freed.snapshot[c] \cup fresh) /\ end \in PublishSnapshot(freed, c, s)
      BY <1>1, <2>1, <3>1, <3>2, <3>4
    <3>. HIDE DEF others, by, c
    <3>6. end.ok = TRUE
      BY ONLY <3>5, PublishStands
    <3>7. Keeping(end.ledger, c, others, by, 0)
      BY ONLY <3>5, PublishStands
    <3>8. QED  BY <3>6, <3>7 DEF At, others, by, c
  <2>3. overrun' = overrun
    BY <1>1, <2>1, <2>2
  <2>. DEFINE mark == OversizeAfter(c, end)
  <2>4. mark \in BOOLEAN
    <3>1. mark = FALSE
      BY <2>2 DEF OversizeAfter
    <3>2. QED  BY <3>1
  <2>5. entry' = [LeaveEntry(f) EXCEPT ![c] = [@ EXCEPT !.oversize = mark]]
    BY <2>1
  <2>. HIDE DEF mark
  <2>6. /\ EntriesOK' /\ \A d \in Contests \ {c} : entry'[d] = entry[d]
        /\ entry'[c].hydration = IF entry[c].hydration = f THEN NoFlight ELSE entry[c].hydration
    BY <1>1, <2>4, <2>5, LeavesMarked
  <2>7. QED  BY <1>1, <2>1, <2>2, <2>3, <2>6, Ends
<1>10. QED  BY <1>8, <1>9

\* A snapshot is built from all events, if that much is granted.
LEMMA BuildAllStep ==
  ASSUME BudgetInv, NEW f \in Flights, flight[f].phase \in CountingPhases,
         NEW l, NEW reserved, At(l, f, reserved), NEW buffered \in Nat,
         BuildAll(f, l, buffered, reserved)
  PROVE  BudgetInv'
<1>. DEFINE c == flight[f].contest
<1>1. c \in Contests /\ PinsOK /\ reserved \in Nat
  BY OthersCount DEF BudgetInv, At, Keeping
<1>2. PICK bound \in 1 .. MaxFresh :
        LET enough == Max({reserved, BuildNeeds(buffered, bound)})
        IN  \E grant \in Resized(l, c, reserved, enough) :
              IF grant.ok
              THEN \E s \in Builds(grant.ledger, bound) :
                     Install(f, grant.ledger, s, buffered, enough)
              ELSE CapacityFails(f, Charge(grant.ledger, c, -reserved),
                                 BuildNeeds(buffered, bound))
  BY DEF BuildAll
<1>. DEFINE enough == Max({reserved, BuildNeeds(buffered, bound)})
<1>3. bound \in Nat /\ BuildNeeds(buffered, bound) = buffered + bound
  BY CacheBudgetAssumption DEF BuildNeeds
<1>4. enough \in Nat /\ buffered + bound <= enough
  <2>1. enough = IF reserved >= buffered + bound THEN reserved ELSE buffered + bound
    BY <1>1, <1>3, GreaterOfTwo
  <2>. HIDE DEF enough
  <2>2. QED  BY <1>1, <1>3, <2>1
<1>5. PICK grant \in Resized(l, c, reserved, enough) :
        IF grant.ok
        THEN \E s \in Builds(grant.ledger, bound) :
               Install(f, grant.ledger, s, buffered, enough)
        ELSE CapacityFails(f, Charge(grant.ledger, c, -reserved), BuildNeeds(buffered, bound))
  BY <1>2
<1>. HIDE DEF enough
<1>6. At(grant.ledger, f, IF grant.ok THEN enough ELSE reserved)
  BY <1>1, <1>4, ResizeStands DEF At
<1>7. CASE grant.ok
  <2>. DEFINE m == grant.ledger
  <2>1. PICK s \in Builds(m, bound) : Install(f, m, s, buffered, enough)
    BY <1>5, <1>7
  <2>2. PICK n \in 1 .. bound : s = FreshParts(m, n)
    BY DEF Builds
  <2>3. At(m, f, enough)
    BY <1>6, <1>7
  <2>4. /\ Books(m, Owed(Ended(f, flight)) + enough,
                 More(OwedBy(Ended(f, flight)), c, enough))
        /\ m.total <= MaxBytes
    BY <2>3 DEF At, Keeping, Within
  <2>. HIDE DEF m
  <2>5. n \in 1 .. MaxFresh /\ n <= bound
    BY <1>3, CacheBudgetAssumption
  <2>6. /\ s \in SUBSET Parts /\ s # {} /\ s \cap HeldBy(m) = {}
        /\ Cardinality(s) <= bound
    BY <1>1, <2>2, <2>4, <2>5, FreshPartsAre
  <2>7. s \in SUBSET (m.snapshot[c] \cup s)
    OBVIOUS
  <2>8. QED  BY <1>3, <1>4, <2>1, <2>3, <2>6, <2>7, InstallStep
<1>8. CASE ~grant.ok
  <2>1. At(grant.ledger, f, reserved)
    BY <1>6, <1>8
  <2>2. At(Charge(grant.ledger, c, -reserved), f, 0)
    BY <1>1, <2>1, Frees
  <2>3. CapacityFails(f, Charge(grant.ledger, c, -reserved), BuildNeeds(buffered, bound))
    BY <1>5, <1>8
  <2>4. QED  BY <2>2, <2>3, CapacityFailsStep
<1>9. QED  BY <1>7, <1>8

----------------------------------------------------------------------------
(* The steps of a hydration. *)

\* More for a hydration that counts leaves its base where it is, granted or not.
LEMMA GrantAt ==
  ASSUME BudgetInv, NEW f \in Flights, flight[f].phase \in CountingPhases,
         NEW l, NEW units, At(l, f, units), NEW bytes \in Nat,
         NEW grant \in Grants(l, flight[f].contest, bytes)
  PROVE  /\ At(grant.ledger, f, IF grant.ok THEN units + bytes ELSE units)
         /\ grant.ledger.snapshot[flight[f].contest] = l.snapshot[flight[f].contest]
         /\ grant.ok \in BOOLEAN
<1>. DEFINE c == flight[f].contest
            others == Owed(Ended(f, flight))
            by == OwedBy(Ended(f, flight))
<1>1. c \in Contests /\ PinsOK /\ entry[c].hydration # NoFlight
  BY OthersCount DEF BudgetInv
<1>2. Keeping(l, c, others, by, units) /\ grant \in Grants(l, c, bytes)
  BY DEF At
<1>. HIDE DEF c, others, by
<1>3. Keeping(grant.ledger, c, others, by, IF grant.ok THEN units + bytes ELSE units)
  BY <1>1, <1>2, GrantStands
<1>4. grant.ledger.snapshot[c] = l.snapshot[c]
  <2>1. \/ grant.ledger.snapshot[c] = l.snapshot[c]
        \/ grant.ledger.snapshot[c] = NoParts /\ entry[c].hydration = NoFlight
    BY <1>1, <1>2, GrantStands
  <2>2. QED  BY <1>1, <2>1
<1>5. grant.ok \in BOOLEAN
  BY <1>1, <1>2, GrantStands
<1>6. QED  BY <1>3, <1>4, <1>5 DEF At, c, others, by

\* So does another size for its reservation.
LEMMA ResizeAt ==
  ASSUME BudgetInv, NEW f \in Flights, flight[f].phase \in CountingPhases,
         NEW l, NEW units, At(l, f, units), NEW to \in Nat,
         NEW grant \in Resized(l, flight[f].contest, units, to)
  PROVE  /\ At(grant.ledger, f, IF grant.ok THEN to ELSE units)
         /\ grant.ledger.snapshot[flight[f].contest] = l.snapshot[flight[f].contest]
         /\ grant.ok \in BOOLEAN
<1>. DEFINE c == flight[f].contest
            others == Owed(Ended(f, flight))
            by == OwedBy(Ended(f, flight))
<1>1. c \in Contests /\ PinsOK /\ entry[c].hydration # NoFlight
  BY OthersCount DEF BudgetInv
<1>2. Keeping(l, c, others, by, units) /\ grant \in Resized(l, c, units, to)
  BY DEF At
<1>. HIDE DEF c, others, by
<1>3. Keeping(grant.ledger, c, others, by, IF grant.ok THEN to ELSE units)
  BY <1>1, <1>2, ResizeStands
<1>4. grant.ledger.snapshot[c] = l.snapshot[c]
  <2>1. \/ grant.ledger.snapshot[c] = l.snapshot[c]
        \/ grant.ledger.snapshot[c] = NoParts /\ entry[c].hydration = NoFlight
    BY <1>1, <1>2, ResizeStands
  <2>2. QED  BY <1>1, <2>1
<1>5. grant.ok \in BOOLEAN
  BY <1>1, <1>2, ResizeStands
<1>6. QED  BY <1>3, <1>4, <1>5 DEF At, c, others, by

\* What is so of a hydration that counts.
LEMMA CountingIs ==
  ASSUME BudgetInv, NEW f \in Flights, flight[f].phase \in CountingPhases
  PROVE  /\ flight[f] \in FlightRecords /\ FlightOK(flight, f)
         /\ flight[f].contest \in Contests /\ PinsOK /\ flight[f].phase # "idle"
         /\ flight[f].reserved \in Nat /\ flight[f].buffered \in Nat /\ flight[f].page \in Nat
         /\ flight[f].base \in SUBSET Parts
         /\ flight[f].rebuilding \in BOOLEAN /\ flight[f].overtaken \in BOOLEAN
         /\ flight[f].buffered <= flight[f].reserved
         /\ flight[f].base # NoParts => flight[f].base = ledger.snapshot[flight[f].contest]
         /\ At(ledger, f, flight[f].reserved)
<1>1. flight[f] \in FlightRecords /\ FlightOK(flight, f) /\ PinsOK
  BY DEF BudgetInv, FlightsOK
<1>2. /\ flight[f].contest \in Contests /\ flight[f].phase # "idle"
      /\ flight[f].base # NoParts => flight[f].base = ledger.snapshot[flight[f].contest]
  BY OthersCount
<1>3. At(ledger, f, flight[f].reserved)
  BY <1>2, AtFirst
<1>4. /\ flight[f].reserved \in Nat /\ flight[f].buffered \in Nat /\ flight[f].page \in Nat
      /\ flight[f].base \in SUBSET Parts
      /\ flight[f].rebuilding \in BOOLEAN /\ flight[f].overtaken \in BOOLEAN
  BY <1>1 DEF FlightRecords
<1>5. flight[f].buffered <= flight[f].reserved
  BY <1>1 DEF FlightOK
<1>6. QED  BY <1>1, <1>2, <1>3, <1>4, <1>5

\* A hydration begins with nothing reserved.
LEMMA StartHydrationStep ==
  ASSUME BudgetInv, NEW f \in Flights, NEW c \in Contests, StartHydration(f, c)
  PROVE  BudgetInv'
<1>. DEFINE r == [IdleFlight EXCEPT !.phase = "queued", !.contest = c]
<1>1. /\ flight \in [Flights -> FlightRecords] /\ flight[f] = IdleFlight
      /\ entry[c].hydration = NoFlight /\ EntriesOK /\ PinsOK /\ overrun = FALSE
      /\ flight' = [flight EXCEPT ![f] = [flight[f] EXCEPT !.phase = "queued", !.contest = c]]
      /\ entry' = [entry EXCEPT ![c] = [entry[c] EXCEPT !.hydration = f]]
      /\ UNCHANGED <<ledger, pins, responses, overrun>>
  <2>1. /\ flight \in [Flights -> FlightRecords] /\ EntriesOK /\ PinsOK /\ overrun = FALSE
    BY DEF BudgetInv, FlightsOK
  <2>2. flight[f] = IdleFlight
    BY DEF StartHydration, IsFree
  <2>3. entry[c].hydration = NoFlight
    <3>1. entry[c] = [hydration |-> NoFlight, oversize |-> FALSE, usable |-> TRUE]
      BY DEF StartHydration
    <3>2. QED  BY <3>1
  <2>4. /\ flight' = [flight EXCEPT ![f] = [flight[f] EXCEPT !.phase = "queued", !.contest = c]]
        /\ entry' = [entry EXCEPT ![c] = [entry[c] EXCEPT !.hydration = f]]
        /\ UNCHANGED <<ledger, pins, responses, overrun>>
    BY DEF StartHydration
  <2>5. QED  BY <2>1, <2>2, <2>3, <2>4
<1>2. r = [phase |-> "queued", contest |-> c, base |-> NoParts, reserved |-> 0,
           buffered |-> 0, page |-> 0, rebuilding |-> FALSE, overtaken |-> FALSE]
  <2>1. r = [IdleFlight EXCEPT !.phase = "queued", !.contest = c]
    OBVIOUS
  <2>. HIDE DEF r
  <2>2. QED  BY <2>1 DEF IdleFlight
<1>3. flight' = [flight EXCEPT ![f] = r]
  BY <1>1
<1>. HIDE DEF r
<1>4. r \in FlightRecords
  BY <1>2 DEF FlightRecords, FlightPhases, NoParts
<1>5. /\ r.phase = "queued" /\ r.contest = c /\ r.base = NoParts /\ r.reserved = 0
      /\ r.buffered = 0
  BY <1>2
<1>6. /\ flight' \in [Flights -> FlightRecords] /\ flight'[f] = r
      /\ \A g \in Flights \ {f} : flight'[g] = flight[g]
  BY <1>1, <1>3, <1>4
<1>7. Owed(flight') = Owed(flight) /\ OwedBy(flight') = OwedBy(flight)
  <2>1. AsBefore(flight, flight', Flights \ {f})
    BY <1>6 DEF AsBefore
  <2>2. /\ flight[f].phase = "idle" /\ flight[f].reserved = 0
        /\ flight'[f].phase # "idle" /\ flight'[f].contest = c
    BY <1>1, <1>5, <1>6, IdleIs
  <2>3. /\ Owed(flight') = Owed(flight) + flight'[f].reserved
        /\ OwedBy(flight') = More(OwedBy(flight), c, flight'[f].reserved)
    <3>1. flight \in [Flights -> FlightRecords] /\ flight' \in [Flights -> FlightRecords]
      BY <1>1, <1>6
    <3>2. QED  BY ONLY <2>1, <2>2, <3>1, f \in Flights, c \in Contests, OwedWith
  <2>4. Owed(flight) \in Nat /\ OwedBy(flight) \in [Contests -> Nat]
    BY <1>1, OwedType
  <2>5. flight'[f].reserved = 0
    BY <1>5, <1>6
  <2>6. Owed(flight') = Owed(flight)
    BY <2>3, <2>4, <2>5
  <2>7. More(OwedBy(flight), c, 0) = OwedBy(flight)
    BY <2>4 DEF More
  <2>8. QED  BY <2>3, <2>5, <2>6, <2>7
<1>8. Books(ledger', Owed(flight'), OwedBy(flight')) /\ Within(ledger')
  BY <1>1, <1>7 DEF BudgetInv
<1>9. /\ EntriesOK' /\ entry'[c].hydration = f
      /\ \A d \in Contests \ {c} : entry'[d] = entry[d]
  BY <1>1 DEF EntriesOK
<1>10. ASSUME NEW g \in Flights
       PROVE  /\ FlightOK(flight', g)
              /\ flight'[g].phase \in CountingPhases => Counts(flight', ledger', entry', g)
  <2>1. CASE g = f
    <3>1. r # IdleFlight
      BY <1>5, IdleIs
    <3>2. FlightOK(flight', g)
      BY <1>5, <1>6, <2>1, <3>1 DEF FlightOK
    <3>3. Counts(flight', ledger', entry', g)
      BY <1>5, <1>6, <1>9, <2>1 DEF Counts
    <3>4. QED  BY <3>2, <3>3
  <2>2. CASE g # f
    <3>1. flight'[g] = flight[g]
      BY <1>6, <2>2
    <3>2. FlightOK(flight', g)
      BY <3>1 DEF BudgetInv, FlightsOK, FlightOK
    <3>3. ASSUME flight[g].phase \in CountingPhases
          PROVE  Counts(flight', ledger', entry', g)
      <4>. DEFINE d == flight[g].contest
      <4>1. /\ d \in Contests /\ entry[d].hydration = g /\ entry[d].hydration # NoFlight
            /\ flight[g].base # NoParts => flight[g].base = ledger.snapshot[d]
        BY <3>3, OthersCount
      <4>2. entry'[d] = entry[d]
        BY <1>1, <1>9, <4>1
      <4>3. QED  BY <1>1, <3>1, <4>1, <4>2 DEF Counts
    <3>4. QED  BY <3>1, <3>2, <3>3
  <2>3. QED  BY <2>1, <2>2
<1>11. FlightsOK(flight', ledger', entry')
  BY <1>6, <1>10 DEF FlightsOK
<1>12. QED  BY <1>1, <1>8, <1>9, <1>11, Restored

\* A hydration that has not begun ends.
LEMMA LeaveQueueStep ==
  ASSUME BudgetInv, NEW f \in Flights, LeaveQueue(f)
  PROVE  BudgetInv'
<1>1. flight[f].phase # "idle" /\ Unavailable(f, Released(ledger, f))
  BY DEF LeaveQueue
<1>2. QED  BY <1>1, ReleasedStands, UnavailableStep

\* The first attempt of one that is queued.
LEMMA BeginHydrationStep ==
  ASSUME BudgetInv, NEW f \in Flights, BeginHydration(f)
  PROVE  BudgetInv'
<1>1. flight[f].phase \in CountingPhases /\ flight[f].phase = "queued" /\ Attempt(f, ledger)
  BY DEF BeginHydration, CountingPhases
<1>2. At(ledger, f, 0)
  <2>1. FlightOK(flight, f) /\ At(ledger, f, flight[f].reserved)
    BY <1>1, CountingIs
  <2>2. flight[f].reserved = 0
    BY <1>1, <2>1 DEF FlightOK
  <2>3. QED  BY <2>1, <2>2
<1>3. QED  BY <1>1, <1>2, AttemptStep

\* What the next page may need is reserved, or the hydration fails.
LEMMA EstimatePageStep ==
  ASSUME BudgetInv, NEW f \in Flights, EstimatePage(f)
  PROVE  BudgetInv'
<1>. DEFINE c == flight[f].contest
            o == flight[f]
            from == flight[f].reserved
<1>1. flight[f].phase \in CountingPhases /\ flight[f].phase = "estimating"
  BY DEF EstimatePage, CountingPhases
<1>2. /\ o \in FlightRecords /\ c \in Contests /\ PinsOK
      /\ from \in Nat /\ o.buffered \in Nat /\ o.buffered <= from
      /\ o.base # NoParts => o.base = ledger.snapshot[c]
      /\ At(ledger, f, from)
  BY <1>1, CountingIs
<1>3. PICK page \in 1 .. MaxPage :
        LET desired == o.buffered + page
        IN  \E grant \in IF desired <= from THEN {[ok |-> TRUE, ledger |-> ledger]}
                         ELSE Grants(ledger, c, desired - from) :
              IF grant.ok
              THEN /\ ledger' = grant.ledger
                   /\ flight' = [flight EXCEPT ![f] =
                                   [@ EXCEPT !.phase = "reading", !.page = page,
                                             !.reserved = Max({from, desired})]]
                   /\ UNCHANGED <<pins, responses, entry, overrun>>
              ELSE CapacityFails(f, Released(grant.ledger, f), desired)
  BY DEF EstimatePage
<1>. DEFINE desired == o.buffered + page
            most == Max({from, desired})
<1>4. page \in Nat
  BY CacheBudgetAssumption
<1>5. PICK grant \in IF desired <= from THEN {[ok |-> TRUE, ledger |-> ledger]}
                     ELSE Grants(ledger, c, desired - from) :
        IF grant.ok
        THEN /\ ledger' = grant.ledger
             /\ flight' = [flight EXCEPT ![f] =
                             [@ EXCEPT !.phase = "reading", !.page = page, !.reserved = most]]
             /\ UNCHANGED <<pins, responses, entry, overrun>>
        ELSE CapacityFails(f, Released(grant.ledger, f), desired)
  BY <1>3
<1>6. most = (IF from >= desired THEN from ELSE desired) /\ desired \in Nat
  <2>1. desired \in Int
    BY <1>2, <1>4
  <2>2. QED  BY <1>2, <1>4, <2>1, GreaterOfTwo
<1>. HIDE DEF most
<1>7. /\ At(grant.ledger, f, IF grant.ok THEN most ELSE from)
      /\ grant.ledger.snapshot[c] = ledger.snapshot[c]
  <2>1. CASE desired <= from
    <3>1. grant.ok = TRUE /\ grant.ledger = ledger
      BY <1>5, <2>1
    <3>2. most = from
      BY <1>2, <1>6, <2>1
    <3>3. QED  BY <1>2, <3>1, <3>2
  <2>2. CASE ~(desired <= from)
    <3>. DEFINE bytes == desired - from
    <3>1. bytes \in Nat /\ from + bytes = desired /\ most = desired
      BY <1>2, <1>6, <2>2
    <3>2. grant \in Grants(ledger, flight[f].contest, bytes)
      BY <1>5, <2>2
    <3>. HIDE DEF bytes
    <3>3. /\ At(grant.ledger, f, IF grant.ok THEN from + bytes ELSE from)
          /\ grant.ledger.snapshot[c] = ledger.snapshot[c]
      BY <1>1, <1>2, <3>1, <3>2, GrantAt
    <3>4. QED  BY <3>1, <3>3
  <2>3. QED  BY <2>1, <2>2
<1>8. CASE grant.ok
  <2>. DEFINE r == [o EXCEPT !.phase = "reading", !.page = page, !.reserved = most]
  <2>1. /\ ledger' = grant.ledger /\ flight' = [flight EXCEPT ![f] = r]
        /\ UNCHANGED <<pins, responses, entry, overrun>>
    BY <1>5, <1>8
  <2>. HIDE DEF o
  <2>2. /\ r \in FlightRecords /\ r.phase = "reading" /\ r.contest = o.contest
        /\ r.base = o.base /\ r.reserved = most /\ r.buffered = o.buffered /\ r.page = page
    BY <1>2, <1>4, <1>6 DEF FlightRecords, FlightPhases
  <2>. HIDE DEF r
  <2>3. r.buffered <= r.reserved /\ r.buffered + r.page <= r.reserved
    BY <1>2, <1>4, <1>6, <2>2
  <2>4. At(grant.ledger, f, r.reserved)
    BY <1>7, <1>8, <2>2
  <2>5. r.base # NoParts => r.base = grant.ledger.snapshot[c]
    BY <1>2, <1>7, <2>2
  <2>6. r.phase \in CountingPhases /\ r.phase # "queued" /\ r.contest = flight[f].contest
    BY <2>2 DEF CountingPhases, o
  <2>7. QED  BY <1>1, <2>1, <2>2, <2>3, <2>4, <2>5, <2>6, GoesOn
<1>9. CASE ~grant.ok
  <2>1. CapacityFails(f, Released(grant.ledger, f), desired) /\ At(grant.ledger, f, from)
    BY <1>5, <1>7, <1>9
  <2>2. At(Released(grant.ledger, f), f, 0)
    BY <1>2, <2>1, Frees DEF Released
  <2>3. QED  BY <1>1, <2>1, <2>2, CapacityFailsStep
<1>10. QED  BY <1>8, <1>9

\* What an append or a build may yield is parts of the snapshot and fresh ones.
LEMMA ExtensionsAre ==
  ASSUME PinsOK, NEW l, NEW owed, NEW by, Books(l, owed, by), l.total <= MaxBytes,
         NEW base, NEW bound \in 1 .. MaxFresh, NEW s \in Extensions(l, base, bound)
  PROVE  \E fresh \in SUBSET Parts :
           /\ fresh \cap HeldBy(l) = {} /\ Cardinality(fresh) <= bound
           /\ s \in SUBSET (base \cup fresh)
<1>1. PICK kept \in SUBSET base, n \in 1 .. bound : s = kept \cup FreshParts(l, n)
  BY DEF Extensions
<1>2. n \in 1 .. MaxFresh /\ n <= bound
  BY CacheBudgetAssumption
<1>. DEFINE fresh == FreshParts(l, n)
<1>3. fresh \in SUBSET Parts /\ fresh \cap HeldBy(l) = {} /\ Cardinality(fresh) = n
  BY <1>2, FreshPartsAre
<1>4. s = kept \cup fresh
  BY <1>1
<1>. HIDE DEF fresh
<1>5. QED  BY <1>2, <1>3, <1>4

\* The rows of a page are in memory, and no more is reserved for them than they are.
LEMMA ReadPageStep ==
  ASSUME BudgetInv, NEW f \in Flights, ReadPage(f)
  PROVE  BudgetInv'
<1>. DEFINE c == flight[f].contest
            o == flight[f]
<1>1. o.phase \in CountingPhases /\ o.phase = "reading"
  BY DEF ReadPage, CountingPhases
<1>2. /\ o \in FlightRecords /\ FlightOK(flight, f) /\ c \in Contests /\ PinsOK
      /\ o.reserved \in Nat /\ o.buffered \in Nat /\ o.page \in Nat
      /\ o.base # NoParts => o.base = ledger.snapshot[c]
      /\ At(ledger, f, o.reserved)
  BY <1>1, CountingIs
<1>3. o.buffered + o.page <= o.reserved
  BY <1>1, <1>2 DEF FlightOK
<1>4. PICK bytes \in 1 .. o.page, more \in BOOLEAN :
        LET buffered == o.buffered + bytes
            l == Charge(ledger, c, buffered - o.reserved)
        IN  IF more \/ ~o.rebuilding
            THEN /\ ledger' = l
                 /\ flight' = [flight EXCEPT ![f] =
                                 [@ EXCEPT !.phase = IF more THEN "estimating" ELSE "authority",
                                           !.buffered = buffered, !.reserved = buffered,
                                           !.page = 0]]
                 /\ UNCHANGED <<pins, responses, entry, overrun>>
            ELSE BuildAll(f, l, buffered, buffered)
  BY DEF ReadPage
<1>. DEFINE buffered == o.buffered + bytes
            less == buffered - o.reserved
            l == Charge(ledger, c, less)
            p == IF more THEN "estimating" ELSE "authority"
<1>5. buffered \in Nat /\ less \in Int /\ ~(less > 0) /\ o.reserved + less = buffered
      /\ o.reserved + less >= 0
  BY <1>2, <1>3
<1>6. \/ /\ ledger' = l
         /\ flight' = [flight EXCEPT ![f] = [o EXCEPT !.phase = p, !.buffered = buffered,
                                                      !.reserved = buffered, !.page = 0]]
         /\ UNCHANGED <<pins, responses, entry, overrun>>
      \/ BuildAll(f, l, buffered, buffered)
  BY <1>4
<1>7. p \in {"estimating", "authority"}
  OBVIOUS
<1>. HIDE DEF buffered, less, p
<1>8. At(l, f, buffered) /\ l.snapshot = ledger.snapshot
  <2>. DEFINE others == Owed(Ended(f, flight))
              by == OwedBy(Ended(f, flight))
  <2>1. Keeping(ledger, c, others, by, o.reserved)
    BY <1>2 DEF At
  <2>. HIDE DEF others, by
  <2>2. Keeping(l, c, others, by, o.reserved + less) /\ l.snapshot = ledger.snapshot
    BY <1>2, <1>5, <2>1, ChargeStands
  <2>3. Keeping(l, c, others, by, buffered)
    BY <1>5, <2>2
  <2>4. QED  BY <2>2, <2>3 DEF At, others, by
<1>. HIDE DEF l
<1>9. CASE BuildAll(f, l, buffered, buffered)
  BY <1>1, <1>5, <1>8, <1>9, BuildAllStep
<1>10. CASE /\ ledger' = l
            /\ flight' = [flight EXCEPT ![f] = [o EXCEPT !.phase = p, !.buffered = buffered,
                                                         !.reserved = buffered, !.page = 0]]
            /\ UNCHANGED <<pins, responses, entry, overrun>>
  <2>. DEFINE r == [o EXCEPT !.phase = p, !.buffered = buffered,
                             !.reserved = buffered, !.page = 0]
  <2>1. ledger' = l /\ flight' = [flight EXCEPT ![f] = r]
        /\ UNCHANGED <<pins, responses, entry, overrun>>
    BY <1>10
  <2>. HIDE DEF o
  <2>2. /\ r \in FlightRecords /\ r.phase = p /\ r.contest = o.contest /\ r.base = o.base
        /\ r.reserved = buffered /\ r.buffered = buffered /\ r.page = 0
    BY <1>2, <1>5, <1>7 DEF FlightRecords, FlightPhases
  <2>. HIDE DEF r
  <2>3. r.buffered <= r.reserved
    BY <1>5, <2>2
  <2>4. At(l, f, r.reserved)
    BY <1>8, <2>2
  <2>5. r.base # NoParts => r.base = l.snapshot[c]
    BY <1>2, <1>8, <2>2
  <2>6. /\ r.phase \in CountingPhases /\ r.phase # "queued" /\ r.phase # "reading"
        /\ r.contest = flight[f].contest
    BY <1>7, <2>2 DEF CountingPhases, o
  <2>7. BudgetInv /\ f \in Flights /\ flight[f].phase \in CountingPhases
    BY <1>1 DEF o
  <2>8. QED  BY ONLY <2>1, <2>2, <2>3, <2>4, <2>5, <2>6, <2>7, GoesOn
<1>11. QED  BY <1>6, <1>9, <1>10

\* The authority has more events.
LEMMA FollowTargetStep ==
  ASSUME BudgetInv, NEW f \in Flights, FollowTarget(f)
  PROVE  BudgetInv'
<1>. DEFINE o == flight[f]
            r == [o EXCEPT !.phase = "estimating"]
<1>1. flight[f].phase \in CountingPhases /\ flight' = [flight EXCEPT ![f] = r]
      /\ ledger' = ledger /\ UNCHANGED <<pins, responses, entry, overrun>>
  BY DEF FollowTarget, CountingPhases
<1>2. /\ o \in FlightRecords /\ At(ledger, f, o.reserved) /\ o.buffered <= o.reserved
      /\ o.base # NoParts => o.base = ledger.snapshot[o.contest]
  BY <1>1, CountingIs
<1>. HIDE DEF o
<1>3. /\ r \in FlightRecords /\ r.phase = "estimating" /\ r.contest = o.contest
      /\ r.base = o.base /\ r.reserved = o.reserved /\ r.buffered = o.buffered
  BY <1>2 DEF FlightRecords, FlightPhases
<1>. HIDE DEF r
<1>4. /\ r.phase \in CountingPhases /\ r.phase # "queued" /\ r.phase # "reading"
      /\ r.contest = flight[f].contest
  BY <1>3 DEF CountingPhases, o
<1>5. r.buffered <= r.reserved /\ At(ledger, f, r.reserved)
  BY <1>2, <1>3
<1>6. r.base # NoParts => r.base = ledger.snapshot[flight[f].contest]
  BY <1>2, <1>3 DEF o
<1>7. QED  BY <1>1, <1>3, <1>4, <1>5, <1>6, GoesOn

\* A snapshot is built, or extended; or the rows were not enough, and are read anew.
LEMMA MaterializeSnapshotStep ==
  ASSUME BudgetInv, NEW f \in Flights, MaterializeSnapshot(f)
  PROVE  BudgetInv'
<1>. DEFINE c == flight[f].contest
            o == flight[f]
            base == flight[f].base
            buffered == flight[f].buffered
<1>1. o.phase \in CountingPhases
  BY DEF MaterializeSnapshot, CountingPhases
<1>2. /\ o \in FlightRecords /\ c \in Contests /\ PinsOK /\ o.phase # "idle"
      /\ o.reserved \in Nat /\ buffered \in Nat
      /\ base # NoParts => base = ledger.snapshot[c]
      /\ At(ledger, f, o.reserved)
  BY <1>1, CountingIs
<1>3. CASE base = NoParts
  <2>1. BuildAll(f, ledger, buffered, o.reserved)
    BY <1>3 DEF MaterializeSnapshot
  <2>2. QED  BY <1>1, <1>2, <2>1, BuildAllStep
<1>4. CASE base # NoParts
  <2>1. PICK bound \in 1 .. MaxFresh :
          \E grant \in Resized(ledger, c, o.reserved, BuildNeeds(buffered, bound)) :
            IF ~grant.ok
            THEN IF PinCount(base) = 0 THEN Retry(f, Dropped(Released(grant.ledger, f), c))
                 ELSE CapacityFails(f, Released(grant.ledger, f), bound)
            ELSE \/ \E s \in Extensions(grant.ledger, base, bound) :
                      Install(f, grant.ledger, s, buffered, BuildNeeds(buffered, bound))
                 \/ /\ ledger' = grant.ledger
                    /\ flight' = [flight EXCEPT ![f] =
                                    [@ EXCEPT !.phase = "estimating", !.rebuilding = TRUE,
                                              !.reserved = BuildNeeds(buffered, bound)]]
                    /\ UNCHANGED <<pins, responses, entry, overrun>>
    BY <1>4 DEF MaterializeSnapshot
  <2>. DEFINE needs == BuildNeeds(buffered, bound)
  <2>2. bound \in Nat /\ needs = buffered + bound /\ needs \in Nat
    BY <1>2, CacheBudgetAssumption DEF BuildNeeds
  <2>3. PICK grant \in Resized(ledger, c, o.reserved, needs) :
          IF ~grant.ok
          THEN IF PinCount(base) = 0 THEN Retry(f, Dropped(Released(grant.ledger, f), c))
               ELSE CapacityFails(f, Released(grant.ledger, f), bound)
          ELSE \/ \E s \in Extensions(grant.ledger, base, bound) :
                    Install(f, grant.ledger, s, buffered, needs)
               \/ /\ ledger' = grant.ledger
                  /\ flight' = [flight EXCEPT ![f] =
                                  [o EXCEPT !.phase = "estimating", !.rebuilding = TRUE,
                                            !.reserved = needs]]
                  /\ UNCHANGED <<pins, responses, entry, overrun>>
    BY <2>1
  <2>. HIDE DEF needs
  <2>4. /\ At(grant.ledger, f, IF grant.ok THEN needs ELSE o.reserved)
        /\ grant.ledger.snapshot[c] = ledger.snapshot[c]
    BY <1>1, <1>2, <2>2, <2>3, ResizeAt
  <2>. DEFINE m == grant.ledger
  <2>5. CASE ~grant.ok
    <3>. DEFINE freed == Released(m, f)
    <3>1. At(m, f, o.reserved)
      BY <2>4, <2>5
    <3>2. At(freed, f, 0)
      BY <1>2, <3>1, Frees DEF Released
    <3>. HIDE DEF freed
    <3>3. At(Dropped(freed, c), f, 0)
      BY <1>2, <3>2, DropStands DEF At
    <3>4. Retry(f, Dropped(freed, c)) \/ CapacityFails(f, freed, bound)
      BY <2>3, <2>5 DEF freed
    <3>5. QED  BY <1>1, <3>2, <3>3, <3>4, RetryStep, CapacityFailsStep
  <2>6. CASE /\ grant.ok
             /\ \E s \in Extensions(m, base, bound) : Install(f, m, s, buffered, needs)
    <3>1. PICK s \in Extensions(m, base, bound) : Install(f, m, s, buffered, needs)
      BY <2>6
    <3>2. At(m, f, needs)
      BY <2>4, <2>6
    <3>3. /\ Books(m, Owed(Ended(f, flight)) + needs, More(OwedBy(Ended(f, flight)), c, needs))
          /\ m.total <= MaxBytes
      BY <3>2 DEF At, Keeping, Within
    <3>4. PICK fresh \in SUBSET Parts :
            /\ fresh \cap HeldBy(m) = {} /\ Cardinality(fresh) <= bound
            /\ s \in SUBSET (base \cup fresh)
      BY <1>2, <3>3, ExtensionsAre
    <3>5. s \in SUBSET (m.snapshot[c] \cup fresh)
      BY <1>2, <1>4, <2>4, <3>4
    <3>. HIDE DEF m
    <3>6. buffered + bound <= needs
      BY <1>2, <2>2
    <3>7. QED  BY <1>1, <1>2, <2>2, <3>1, <3>2, <3>4, <3>5, <3>6, InstallStep
  <2>7. CASE /\ grant.ok /\ ledger' = m
             /\ flight' = [flight EXCEPT ![f] =
                             [o EXCEPT !.phase = "estimating", !.rebuilding = TRUE,
                                       !.reserved = needs]]
             /\ UNCHANGED <<pins, responses, entry, overrun>>
    <3>. DEFINE r == [o EXCEPT !.phase = "estimating", !.rebuilding = TRUE, !.reserved = needs]
    <3>1. ledger' = m /\ flight' = [flight EXCEPT ![f] = r]
          /\ UNCHANGED <<pins, responses, entry, overrun>>
      BY <2>7
    <3>. HIDE DEF o, m
    <3>2. /\ r \in FlightRecords /\ r.phase = "estimating" /\ r.contest = o.contest
          /\ r.base = o.base /\ r.reserved = needs /\ r.buffered = o.buffered
      BY <1>2, <2>2 DEF FlightRecords, FlightPhases
    <3>. HIDE DEF r
    <3>3. r.buffered <= r.reserved
      BY <1>2, <2>2, <3>2 DEF o
    <3>4. At(m, f, r.reserved)
      BY <2>4, <2>7, <3>2 DEF m
    <3>5. r.base # NoParts => r.base = m.snapshot[c]
      BY <1>2, <2>4, <3>2 DEF m, o
    <3>6. /\ r.phase \in CountingPhases /\ r.phase # "queued" /\ r.phase # "reading"
          /\ r.contest = flight[f].contest
      BY <3>2 DEF CountingPhases, o
    <3>7. BudgetInv /\ f \in Flights /\ flight[f].phase \in CountingPhases
      BY <1>1 DEF o
    <3>8. QED  BY ONLY <3>1, <3>2, <3>3, <3>4, <3>5, <3>6, <3>7, GoesOn
  <2>8. QED  BY <2>3, <2>5, <2>6, <2>7
<1>5. QED  BY <1>3, <1>4

\* A hydration ends without a snapshot.
LEMMA HydrationUnavailableStep ==
  ASSUME BudgetInv, NEW f \in Flights, HydrationUnavailable(f)
  PROVE  BudgetInv'
<1>1. flight[f].phase # "idle" /\ Unavailable(f, Released(ledger, f))
  BY DEF HydrationUnavailable
<1>2. QED  BY <1>1, ReleasedStands, UnavailableStep

\* A hydration fails, and closes the entry.
LEMMA HydrationFailsStep ==
  ASSUME BudgetInv, NEW f \in Flights, HydrationFails(f)
  PROVE  BudgetInv'
<1>1. flight[f].phase # "idle" /\ FailClosedBy(f, Released(ledger, f)) /\ UNCHANGED overrun
  BY DEF HydrationFails
<1>2. QED  BY <1>1, ReleasedStands, FailClosedStep

\* The entry's hydration finds that another authority supersedes the entry.
LEMMA AuthorityDiffersStep ==
  ASSUME BudgetInv, NEW f \in Flights, NEW gone \in BOOLEAN, AuthorityDiffers(f, gone)
  PROVE  BudgetInv'
<1>. DEFINE c == flight[f].contest
            l == Dropped(Released(ledger, f), c)
            usable == ~gone
<1>1. flight[f].phase # "idle"
  BY DEF AuthorityDiffers
<1>2. c \in Contests /\ EntriesOK /\ PinsOK
  BY <1>1, AtFirst DEF BudgetInv
<1>3. At(l, f, 0)
  <2>1. At(Released(ledger, f), f, 0)
    BY <1>1, ReleasedStands
  <2>2. QED  BY <1>2, <2>1, DropStands DEF At
<1>4. /\ ledger' = l /\ flight' = Detached(c, Ended(f, flight))
      /\ entry' = [entry EXCEPT ![c] =
                     [entry[c] EXCEPT !.hydration = NoFlight, !.usable = usable]]
      /\ UNCHANGED <<pins, responses, overrun>>
  BY DEF AuthorityDiffers
<1>5. usable \in BOOLEAN
  OBVIOUS
<1>. HIDE DEF usable, l
<1>6. EntriesOK' /\ \A d \in Contests \ {c} : entry'[d] = entry[d]
  BY <1>2, <1>4, <1>5 DEF EntriesOK
<1>7. QED  BY <1>1, <1>3, <1>4, <1>6, EndsClosing

----------------------------------------------------------------------------
(* What happens to the entries. *)

\* A ledger stays right when it notes that a snapshot is behind.
LEMMA BehindKeeps ==
  ASSUME ResponsesOK, NEW l, NEW owed, NEW by, Books(l, owed, by), NEW c \in Contests
  PROVE  LET m == Behind(l, c)
         IN  /\ Books(m, owed, by) /\ m.snapshot = l.snapshot
             /\ m.total = l.total /\ m.byContest = l.byContest
<1>. DEFINE m == Behind(l, c)
            b == [l.behind EXCEPT ![c] = l.snapshot[c] # NoParts]
<1>1. l \in Ledgers
  BY DEF Books
<1>2. b \in [Contests -> BOOLEAN]
  BY <1>1 DEF Ledgers
<1>3. m = [l EXCEPT !.behind = b]
  BY DEF Behind
<1>. HIDE DEF m, b
<1>4. /\ m \in Ledgers /\ m.snapshot = l.snapshot /\ m.retired = l.retired /\ m.refs = l.refs
      /\ m.total = l.total /\ m.byContest = l.byContest
  BY <1>1, <1>2, <1>3 DEF Ledgers
<1>5. SharesOK(m) /\ RefsOK(m)
  BY <1>4 DEF Books, SharesOK, HeldFor, RefsOK, Resides, RetiredWith
<1>6. HeldBy(m) = HeldBy(l) /\ \A d \in Contests : HeldFor(m, d) = HeldFor(l, d)
  BY <1>4 DEF HeldBy, HeldFor
<1>7. Books(m, owed, by)
  BY <1>4, <1>5, <1>6 DEF Books
<1>8. QED  BY <1>4, <1>7 DEF m

\* A snapshot is behind the target from now on.
LEMMA ObserveTargetStep ==
  ASSUME BudgetInv, NEW c \in Contests, ObserveTarget(c)
  PROVE  BudgetInv'
<1>1. /\ ledger' = Behind(ledger, c)
      /\ flight' = [g \in Flights |->
                      IF g \in Underway(c, flight)
                      THEN [flight[g] EXCEPT !.overtaken =
                              (flight[g].overtaken \/ flight[g].rebuilding)]
                      ELSE flight[g]]
      /\ UNCHANGED <<pins, responses, entry, overrun>>
  BY DEF ObserveTarget
<1>2. /\ Books(ledger, Owed(flight), OwedBy(flight)) /\ Within(ledger) /\ PinsOK /\ ResponsesOK
      /\ EntriesOK /\ overrun = FALSE /\ FlightsOK(flight, ledger, entry)
  BY DEF BudgetInv, PinsOK
<1>3. /\ Books(ledger', Owed(flight), OwedBy(flight)) /\ ledger'.snapshot = ledger.snapshot
      /\ ledger'.total = ledger.total /\ ledger'.byContest = ledger.byContest
  BY <1>1, <1>2, BehindKeeps
<1>4. ASSUME NEW g \in Flights
      PROVE  /\ flight'[g] \in FlightRecords
             /\ flight'[g].phase = flight[g].phase /\ flight'[g].contest = flight[g].contest
             /\ flight'[g].base = flight[g].base
             /\ flight'[g].reserved = flight[g].reserved
             /\ flight'[g].buffered = flight[g].buffered /\ flight'[g].page = flight[g].page
             /\ flight[g].phase = "idle" => flight'[g] = flight[g]
  <2>1. flight[g] \in FlightRecords
    BY <1>2 DEF FlightsOK
  <2>2. CASE g \in Underway(c, flight)
    <3>. DEFINE o == flight[g]
                v == o.overtaken \/ o.rebuilding
                r == [o EXCEPT !.overtaken = v]
    <3>1. flight'[g] = r
      BY <1>1, <2>2
    <3>2. v \in BOOLEAN /\ o.phase # "idle"
      BY <2>2 DEF Underway
    <3>. HIDE DEF o, v
    <3>3. o \in FlightRecords
      BY <2>1 DEF o
    <3>4. /\ r \in FlightRecords /\ r.phase = o.phase /\ r.contest = o.contest
          /\ r.base = o.base /\ r.reserved = o.reserved /\ r.buffered = o.buffered
          /\ r.page = o.page
      BY <3>2, <3>3 DEF FlightRecords
    <3>. HIDE DEF r
    <3>5. QED  BY <3>1, <3>2, <3>4 DEF o
  <2>3. CASE g \notin Underway(c, flight)
    <3>1. flight'[g] = flight[g]
      BY <1>1, <2>3
    <3>2. QED  BY <2>1, <3>1
  <2>4. QED  BY <2>2, <2>3
<1>5. flight' \in [Flights -> FlightRecords]
  BY <1>1, <1>4
<1>6. AsBefore(flight, flight', Flights)
  BY <1>4 DEF AsBefore
<1>7. Books(ledger', Owed(flight'), OwedBy(flight'))
  BY <1>3, <1>6, OwedAsBefore
<1>8. ASSUME NEW g \in Flights
      PROVE  /\ FlightOK(flight', g)
             /\ flight'[g].phase \in CountingPhases => Counts(flight', ledger', entry', g)
  <2>1. FlightOK(flight, g) /\ (flight[g].phase \in CountingPhases
                                  => Counts(flight, ledger, entry, g))
    BY <1>2 DEF FlightsOK
  <2>2. flight'[g].phase = "idle" <=> flight'[g] = IdleFlight
    BY <1>4, <2>1, IdleIs DEF FlightOK
  <2>3. FlightOK(flight', g)
    BY <1>4, <2>1, <2>2 DEF FlightOK
  <2>4. flight'[g].phase \in CountingPhases => Counts(flight', ledger', entry', g)
    BY <1>1, <1>3, <1>4, <2>1 DEF Counts
  <2>5. QED  BY <2>3, <2>4
<1>9. FlightsOK(flight', ledger', entry')
  BY <1>5, <1>8 DEF FlightsOK
<1>10. Within(ledger')
  BY <1>2, <1>3 DEF Within
<1>11. EntriesOK' /\ overrun' = FALSE
  BY <1>1, <1>2 DEF EntriesOK
<1>12. QED  BY <1>1, <1>2, <1>7, <1>9, <1>10, <1>11, Restored

\* An append ends where no hydration was the entry's.
LEMMA AppendEnds ==
  ASSUME BudgetInv, NEW c \in Contests, entry[c].hydration = NoFlight,
         NEW l, Keeping(l, c, Owed(flight), OwedBy(flight), 0), ledger' = l,
         EntriesOK', \A d \in Contests \ {c} : entry'[d] = entry[d],
         UNCHANGED <<pins, responses, flight, overrun>>
  PROVE  BudgetInv'
<1>1. flight \in [Flights -> FlightRecords] /\ \A f \in Flights : FlightOK(flight, f)
  BY DEF BudgetInv, FlightsOK
<1>2. Owed(flight) + 0 = Owed(flight) /\ More(OwedBy(flight), c, 0) = OwedBy(flight)
  <2>1. Owed(flight) \in Nat /\ OwedBy(flight) \in [Contests -> Nat]
    BY <1>1, OwedType
  <2>2. QED  BY <2>1 DEF More
<1>3. Books(l, Owed(flight), OwedBy(flight)) /\ Within(l)
  BY <1>2 DEF Keeping
<1>4. \A d \in Contests \ {c} :
        entry[d].hydration # NoFlight => l.snapshot[d] = ledger.snapshot[d]
  BY DEF Keeping
<1>5. AsBefore(flight, flight', Flights) /\ flight' = flight
  BY DEF AsBefore
<1>6. \A f \in Flights : flight[f].phase \in CountingPhases => flight[f].contest \notin {c}
  BY OthersCount
<1>7. /\ flight' \in [Flights -> FlightRecords]
      /\ \A f \in Flights :
           /\ FlightOK(flight', f)
           /\ flight'[f].phase \in CountingPhases =>
                flight'[f] = flight[f] /\ flight[f].contest \notin {c}
  BY <1>1, <1>5, <1>6
<1>8. \A d \in Contests \ {c} : entry'[d].hydration = entry[d].hydration
  OBVIOUS
<1>9. {c} \in SUBSET Contests
  OBVIOUS
<1>10. QED  BY <1>1, <1>3, <1>4, <1>5, <1>7, <1>8, <1>9, Closes

\* An append is reserved, built and published at once, or is not.
LEMMA ObserveCommittedAppendStep ==
  ASSUME BudgetInv, NEW c \in Contests, ObserveCommittedAppend(c)
  PROVE  BudgetInv'
<1>. DEFINE owed == Owed(flight)
            by == OwedBy(flight)
            base == ledger.snapshot[c]
<1>1. /\ entry[c].hydration = NoFlight /\ base # NoParts
      /\ UNCHANGED <<pins, responses, flight>>
  BY DEF ObserveCommittedAppend
<1>2. /\ Books(ledger, owed, by) /\ Within(ledger) /\ PinsOK /\ ResponsesOK /\ EntriesOK
      /\ overrun = FALSE /\ flight \in [Flights -> FlightRecords]
  BY DEF BudgetInv, PinsOK, FlightsOK
<1>3. owed \in Nat /\ by \in [Contests -> Nat]
  BY <1>2, OwedType
<1>4. PICK buffered \in 1 .. MaxPage, bound \in 1 .. MaxFresh :
        \E grant \in Grants(ledger, c, BuildNeeds(buffered, bound)) :
          LET freed == Charge(grant.ledger, c, -BuildNeeds(buffered, bound))
          IN  IF ~grant.ok
              THEN ledger' = Behind(grant.ledger, c) /\ UNCHANGED <<entry, overrun>>
              ELSE IF grant.ledger.snapshot[c] = NoParts
              THEN ledger' = freed /\ UNCHANGED <<entry, overrun>>
              ELSE \/ ledger' = Dropped(freed, c) /\ UNCHANGED <<entry, overrun>>
                   \/ \E s \in Extensions(freed, base, bound) :
                        \E end \in PublishSnapshot(freed, c, s) :
                          /\ ledger' = IF end.ok THEN end.ledger ELSE Behind(end.ledger, c)
                          /\ entry' = [entry EXCEPT ![c] =
                                         [@ EXCEPT !.oversize = OversizeAfter(c, end)]]
                          /\ overrun' = (overrun \/ ~end.ok)
  BY DEF ObserveCommittedAppend
<1>. DEFINE needs == BuildNeeds(buffered, bound)
            less == -needs
<1>5. bound \in Nat /\ needs \in Nat /\ bound <= needs
  BY CacheBudgetAssumption DEF BuildNeeds
<1>6. PICK grant \in Grants(ledger, c, needs) :
        LET freed == Charge(grant.ledger, c, less)
        IN  IF ~grant.ok
            THEN ledger' = Behind(grant.ledger, c) /\ UNCHANGED <<entry, overrun>>
            ELSE IF grant.ledger.snapshot[c] = NoParts
            THEN ledger' = freed /\ UNCHANGED <<entry, overrun>>
            ELSE \/ ledger' = Dropped(freed, c) /\ UNCHANGED <<entry, overrun>>
                 \/ \E s \in Extensions(freed, base, bound) :
                      \E end \in PublishSnapshot(freed, c, s) :
                        /\ ledger' = IF end.ok THEN end.ledger ELSE Behind(end.ledger, c)
                        /\ entry' = [entry EXCEPT ![c] =
                                       [@ EXCEPT !.oversize = OversizeAfter(c, end)]]
                        /\ overrun' = (overrun \/ ~end.ok)
  BY <1>4
<1>7. less \in Int /\ ~(less > 0) /\ needs + less = 0 /\ 0 + needs = needs
  BY <1>5
<1>. HIDE DEF needs, less
<1>. DEFINE l == grant.ledger
            freed == Charge(l, c, less)
<1>8. Keeping(ledger, c, owed, by, 0)
  <2>1. owed + 0 = owed /\ More(by, c, 0) = by
    BY <1>3 DEF More
  <2>2. QED  BY <1>2, <1>3, <2>1 DEF Keeping
<1>. HIDE DEF owed, by
<1>9. /\ Keeping(l, c, owed, by, IF grant.ok THEN 0 + needs ELSE 0)
      /\ \/ l.snapshot[c] = base
         \/ l.snapshot[c] = NoParts
  BY <1>2, <1>5, <1>8, GrantStands
<1>. HIDE DEF l
<1>10. CASE ~grant.ok
  <2>. DEFINE m == Behind(l, c)
  <2>1. Keeping(l, c, owed, by, 0)
    BY <1>9, <1>10
  <2>2. Books(l, owed + 0, More(by, c, 0))
    BY <2>1 DEF Keeping
  <2>3. /\ Books(m, owed + 0, More(by, c, 0)) /\ m.snapshot = l.snapshot
        /\ m.total = l.total /\ m.byContest = l.byContest
    BY <1>2, <2>2, BehindKeeps
  <2>4. ledger' = m /\ UNCHANGED <<entry, overrun>>
    BY <1>6, <1>10 DEF l
  <2>. HIDE DEF m
  <2>5. Keeping(m, c, owed, by, 0)
    BY <2>1, <2>3 DEF Keeping, Within
  <2>6. EntriesOK' /\ \A d \in Contests \ {c} : entry'[d] = entry[d]
    BY <1>2, <2>4 DEF EntriesOK
  <2>7. QED  BY <1>1, <2>4, <2>5, <2>6, AppendEnds DEF owed, by
<1>11. CASE grant.ok
  <2>1. /\ Keeping(freed, c, owed, by, 0) /\ freed.snapshot = l.snapshot
        /\ freed.total + bound <= MaxBytes /\ freed.byContest[c] + bound <= MaxEntryBytes
    <3>1. Keeping(l, c, owed, by, needs)
      BY <1>7, <1>9, <1>11
    <3>2. /\ Keeping(freed, c, owed, by, needs + less) /\ freed.snapshot = l.snapshot
          /\ freed.total = l.total + less /\ freed.byContest[c] = l.byContest[c] + less
      BY <1>2, <1>7, <3>1, ChargeStands
    <3>3. Keeping(freed, c, owed, by, 0)
      BY <1>7, <3>2
    <3>4. /\ l.total \in Nat /\ l.byContest[c] \in Nat
          /\ l.total <= MaxBytes /\ l.byContest[c] <= MaxEntryBytes
      BY <3>1 DEF Keeping, Books, Ledgers, Within
    <3>5. MaxBytes \in Nat /\ MaxEntryBytes \in Nat
      BY CacheBudgetAssumption
    <3>. HIDE DEF freed
    <3>6. freed.total + bound <= MaxBytes /\ freed.byContest[c] + bound <= MaxEntryBytes
      BY <1>5, <1>7, <3>2, <3>4, <3>5
    <3>7. QED  BY <3>2, <3>3, <3>6
  <2>2. \/ ledger' \in {freed, Dropped(freed, c)} /\ UNCHANGED <<entry, overrun>>
        \/ /\ l.snapshot[c] # NoParts
           /\ \E s \in Extensions(freed, base, bound) :
                \E end \in PublishSnapshot(freed, c, s) :
                  /\ ledger' = IF end.ok THEN end.ledger ELSE Behind(end.ledger, c)
                  /\ entry' = [entry EXCEPT ![c] =
                                 [@ EXCEPT !.oversize = OversizeAfter(c, end)]]
                  /\ overrun' = (overrun \/ ~end.ok)
    BY <1>6, <1>11 DEF l
  <2>. HIDE DEF freed
  <2>3. CASE ledger' \in {freed, Dropped(freed, c)} /\ UNCHANGED <<entry, overrun>>
    <3>1. Keeping(Dropped(freed, c), c, owed, by, 0)
      BY <1>2, <2>1, DropStands
    <3>2. Keeping(ledger', c, owed, by, 0)
      BY <2>1, <2>3, <3>1
    <3>3. EntriesOK' /\ \A d \in Contests \ {c} : entry'[d] = entry[d]
      BY <1>2, <2>3 DEF EntriesOK
    <3>4. QED  BY <1>1, <2>3, <3>2, <3>3, AppendEnds DEF owed, by
  <2>4. ASSUME l.snapshot[c] # NoParts,
               NEW s \in Extensions(freed, base, bound),
               NEW end \in PublishSnapshot(freed, c, s),
               ledger' = IF end.ok THEN end.ledger ELSE Behind(end.ledger, c),
               entry' = [entry EXCEPT ![c] = [@ EXCEPT !.oversize = OversizeAfter(c, end)]],
               overrun' = (overrun \/ ~end.ok)
        PROVE  BudgetInv'
    <3>1. freed.snapshot[c] = base
      BY <1>9, <2>1, <2>4
    <3>2. /\ Books(freed, owed + 0, More(by, c, 0)) /\ freed.total <= MaxBytes
      BY <2>1 DEF Keeping, Within
    <3>3. PICK fresh \in SUBSET Parts :
            /\ fresh \cap HeldBy(freed) = {} /\ Cardinality(fresh) <= bound
            /\ s \in SUBSET (base \cup fresh)
      BY <1>2, <3>2, ExtensionsAre
    <3>4. s \in SUBSET (freed.snapshot[c] \cup fresh)
      BY <3>1, <3>3
    <3>5. end.ok = TRUE /\ Keeping(end.ledger, c, owed, by, 0)
      BY <1>2, <1>5, <2>1, <3>3, <3>4, PublishStands
    <3>6. ledger' = end.ledger /\ overrun' = overrun
      BY <1>2, <2>4, <3>5
    <3>. DEFINE mark == OversizeAfter(c, end)
    <3>7. mark \in BOOLEAN
      <4>1. mark = FALSE
        BY <3>5 DEF OversizeAfter
      <4>2. QED  BY <4>1
    <3>8. entry' = [entry EXCEPT ![c] = [entry[c] EXCEPT !.oversize = mark]]
      BY <2>4
    <3>. HIDE DEF mark
    <3>9. EntriesOK' /\ \A d \in Contests \ {c} : entry'[d] = entry[d]
      BY ONLY <1>2, <3>7, <3>8, c \in Contests DEF EntriesOK
    <3>10. QED  BY <1>1, <3>5, <3>6, <3>9, AppendEnds DEF owed, by
  <2>5. QED  BY <2>2, <2>3, <2>4
<1>12. QED  BY <1>10, <1>11

\* An entry is closed.
LEMMA InvalidateEntryStep ==
  ASSUME BudgetInv, NEW c \in Contests, InvalidateEntry(c)
  PROVE  BudgetInv'
<1>1. PICK oversize \in {entry[c].oversize, FALSE} :
        entry' = [entry EXCEPT ![c] =
                    [entry[c] EXCEPT !.hydration = NoFlight, !.oversize = oversize]]
  BY DEF InvalidateEntry
<1>2. /\ ledger' = Dropped(ledger, c) /\ flight' = Detached(c, flight)
      /\ UNCHANGED <<pins, responses, overrun>>
  BY DEF InvalidateEntry
<1>3. /\ Books(ledger, Owed(flight), OwedBy(flight)) /\ Within(ledger) /\ PinsOK /\ EntriesOK
      /\ flight \in [Flights -> FlightRecords] /\ \A f \in Flights : FlightOK(flight, f)
  BY DEF BudgetInv, FlightsOK
<1>4. EntriesOK' /\ \A d \in Contests \ {c} : entry'[d].hydration = entry[d].hydration
  <2>1. oversize \in BOOLEAN
    BY <1>3 DEF EntriesOK
  <2>2. QED  BY <1>1, <1>3, <2>1 DEF EntriesOK
<1>5. /\ Books(ledger', Owed(flight), OwedBy(flight))
      /\ ledger'.snapshot = [ledger.snapshot EXCEPT ![c] = NoParts]
      /\ ledger'.total <= ledger.total
      /\ \A d \in Contests : ledger'.byContest[d] <= ledger.byContest[d]
  BY <1>2, <1>3, DroppedKeeps
<1>6. ledger \in Ledgers /\ ledger' \in Ledgers
  BY <1>3, <1>5 DEF Books
<1>7. Within(ledger')
  BY <1>3, <1>5, <1>6, CacheBudgetAssumption DEF Within, Ledgers
<1>8. \A d \in Contests \ {c} : ledger'.snapshot[d] = ledger.snapshot[d]
  BY <1>5, <1>6 DEF Ledgers
<1>9. /\ flight' \in [Flights -> FlightRecords] /\ AsBefore(flight, flight', Flights)
      /\ \A f \in Flights :
           /\ FlightOK(flight', f)
           /\ flight'[f].phase \in CountingPhases =>
                flight'[f] = flight[f] /\ flight[f].contest \notin {c}
  BY <1>2, <1>3, DetachedIs
<1>10. {c} \in SUBSET Contests
  OBVIOUS
<1>11. QED  BY <1>2, <1>3, <1>4, <1>5, <1>7, <1>8, <1>9, <1>10, Closes

\* Entries are closed.
LEMMA CloseEntriesStep ==
  ASSUME BudgetInv, NEW C \in SUBSET Contests, CloseEntries(C)
  PROVE  BudgetInv'
<1>1. /\ ledger' = DroppedAll(ledger, C)
      /\ flight' = [f \in Flights |->
                      IF flight[f].contest \in C THEN Detached(flight[f].contest, flight)[f]
                      ELSE flight[f]]
      /\ entry' = [d \in Contests |->
                     IF d \in C
                     THEN [entry[d] EXCEPT !.hydration = NoFlight, !.usable = FALSE]
                     ELSE entry[d]]
      /\ UNCHANGED <<pins, responses, overrun>>
  BY DEF CloseEntries
<1>2. /\ Books(ledger, Owed(flight), OwedBy(flight)) /\ Within(ledger) /\ PinsOK /\ EntriesOK
      /\ flight \in [Flights -> FlightRecords] /\ \A f \in Flights : FlightOK(flight, f)
  BY DEF BudgetInv, FlightsOK
<1>3. EntriesOK' /\ \A d \in Contests \ C : entry'[d].hydration = entry[d].hydration
  BY <1>1, <1>2 DEF EntriesOK
<1>4. ledger' \in Below(ledger, C, Owed(flight), OwedBy(flight))
  BY <1>1, <1>2, DroppedAllKeeps
<1>5. /\ Books(ledger', Owed(flight), OwedBy(flight))
      /\ ledger' \in Ledgers /\ ledger \in Ledgers
      /\ ledger'.total <= ledger.total
      /\ \A d \in Contests : ledger'.byContest[d] <= ledger.byContest[d]
      /\ \A d \in Contests \ C : ledger'.snapshot[d] = ledger.snapshot[d]
  BY <1>2, <1>4 DEF Below, Books
<1>6. Within(ledger')
  BY <1>2, <1>5, CacheBudgetAssumption DEF Within, Ledgers
<1>7. ASSUME NEW f \in Flights
      PROVE  /\ flight'[f] \in FlightRecords /\ FlightOK(flight', f)
             /\ flight'[f].reserved = flight[f].reserved
             /\ flight'[f].contest = flight[f].contest
             /\ flight'[f].phase = "idle" <=> flight[f].phase = "idle"
             /\ flight'[f].phase \in CountingPhases =>
                  flight'[f] = flight[f] /\ flight[f].contest \notin C
  <2>1. CASE flight[f].contest \in C
    <3>. DEFINE fl == Detached(flight[f].contest, flight)
    <3>1. /\ fl \in [Flights -> FlightRecords] /\ AsBefore(flight, fl, Flights)
          /\ FlightOK(fl, f) /\ fl[f].phase \notin CountingPhases
      BY <1>2, <2>1, DetachedIs
    <3>2. flight'[f] = fl[f]
      BY <1>1, <2>1
    <3>. HIDE DEF fl
    <3>3. FlightOK(flight', f)
      BY <3>1, <3>2 DEF FlightOK
    <3>4. QED  BY <3>1, <3>2, <3>3 DEF AsBefore
  <2>2. CASE flight[f].contest \notin C
    <3>1. flight'[f] = flight[f]
      BY <1>1, <2>2
    <3>2. FlightOK(flight', f)
      BY <1>2, <3>1 DEF FlightOK
    <3>3. QED  BY <1>2, <2>2, <3>1, <3>2
  <2>3. QED  BY <2>1, <2>2
<1>8. flight' \in [Flights -> FlightRecords] /\ AsBefore(flight, flight', Flights)
  BY <1>1, <1>7 DEF AsBefore
<1>9. QED  BY <1>1, <1>2, <1>3, <1>5, <1>6, <1>7, <1>8, Closes

----------------------------------------------------------------------------
(* Answers, and the theorems. *)

\* What answers and snapshots hold are parts.
HeldAreParts ==
  /\ \A d \in Contests : HeldFor(ledger, d) \in SUBSET Parts
  /\ HeldBy(ledger) \in SUBSET Parts

\* The parts that are referenced are those that are held.
AccountedAreHeld ==
  /\ \A p \in Parts : IsAccounted(ledger.refs[p]) <=> p \in HeldBy(ledger)
  /\ \A s \in SUBSET Parts : AccountedIn(ledger.refs, s) = HeldBy(ledger) \cap s

LedgerOK == ledger \in Ledgers /\ SharesOK(ledger) /\ RefsOK(ledger)

\* Both, before a step and after it.
LEMMA HeldAndAccounted ==
  ResponsesOK /\ LedgerOK => HeldAreParts /\ AccountedAreHeld
<1>1. ASSUME ResponsesOK, LedgerOK
      PROVE  HeldAreParts
  BY <1>1, HeldParts DEF HeldAreParts, LedgerOK
<1>2. ASSUME ResponsesOK, LedgerOK
      PROVE  AccountedAreHeld
  <2>1. \A p \in Parts : IsAccounted(ledger.refs[p]) <=> p \in HeldBy(ledger)
    BY <1>2, AccountedIsHeld DEF LedgerOK
  <2>2. QED  BY <2>1 DEF AccountedAreHeld, AccountedIn
<1>3. QED  BY <1>1, <1>2

LEMMA HeldAndAccountedAfter ==
  ResponsesOK' /\ LedgerOK' => HeldAreParts' /\ AccountedAreHeld'
<1>1. (ResponsesOK /\ LedgerOK => HeldAreParts /\ AccountedAreHeld)'
  BY HeldAndAccounted, PTL
<1>2. QED  BY <1>1

\* The counters are right when they changed as what is held did, within s.
LEMMA BalanceAfter ==
  ASSUME ResponsesOK, ResponsesOK', NEW owed, NEW by, Books(ledger, owed, by),
         LedgerOK', NEW c \in Contests, NEW s,
         HeldFor(ledger, c) \ s = HeldFor(ledger, c)' \ s,
         \A d \in Contests \ {c} : HeldFor(ledger, d)' = HeldFor(ledger, d),
         HeldBy(ledger) \cap s = HeldFor(ledger, c) \cap s,
         HeldBy(ledger)' \cap s = HeldFor(ledger, c)' \cap s,
         NEW bytes \in Int,
         bytes = Cardinality(HeldFor(ledger, c)' \cap s)
                   - Cardinality(HeldFor(ledger, c) \cap s),
         ledger'.total = ledger.total + bytes,
         ledger'.byContest = [ledger.byContest EXCEPT ![c] = @ + bytes]
  PROVE  Books(ledger, owed, by)'
<1>. DEFINE A == HeldFor(ledger, c)
            B == HeldFor(ledger, c)'
            all == HeldBy(ledger)
            all1 == HeldBy(ledger)'
<1>1. /\ ledger \in Ledgers /\ owed \in Nat /\ by \in [Contests -> Nat]
      /\ ledger.byContest \in [Contests -> Nat] /\ ledger.total \in Nat
      /\ ledger.total = Cardinality(all) + owed
      /\ \A d \in Contests : ledger.byContest[d] = Cardinality(HeldFor(ledger, d)) + by[d]
  BY DEF Books, Ledgers
<1>2. A \in SUBSET Parts /\ all \in SUBSET Parts
  BY <1>1, HeldParts
<1>3. B \in SUBSET Parts /\ all1 \in SUBSET Parts
  BY HeldAndAccountedAfter DEF HeldAreParts
<1>4. all \ s = all1 \ s
  BY DEF HeldBy
<1>5. /\ all \cap s = A \cap s /\ all1 \cap s = B \cap s /\ A \ s = B \ s
      /\ bytes = Cardinality(B \cap s) - Cardinality(A \cap s)
  OBVIOUS
<1>. HIDE DEF A, B, all, all1
<1>6. /\ Cardinality(B) - Cardinality(A) = bytes
      /\ Cardinality(A) \in Nat /\ Cardinality(B) \in Nat
  <2>1. A \ s = B \ s
    BY <1>5
  <2>2. Cardinality(B) - Cardinality(A) = Cardinality(B \cap s) - Cardinality(A \cap s)
    BY ONLY <1>2, <1>3, <2>1, DifferWithin
  <2>3. QED  BY <1>2, <1>3, <1>5, <2>2, PartsAreFinite
<1>7. /\ Cardinality(all1) - Cardinality(all) = bytes
      /\ Cardinality(all) \in Nat /\ Cardinality(all1) \in Nat
  <2>1. Cardinality(all1) - Cardinality(all)
          = Cardinality(all1 \cap s) - Cardinality(all \cap s)
    BY ONLY <1>2, <1>3, <1>4, DifferWithin
  <2>2. Cardinality(all \cap s) = Cardinality(A \cap s)
    BY <1>5
  <2>3. Cardinality(all1 \cap s) = Cardinality(B \cap s)
    BY <1>5
  <2>4. QED  BY <1>2, <1>3, <1>5, <2>1, <2>2, <2>3, PartsAreFinite
<1>8. ledger'.total = Cardinality(all1) + owed
  BY <1>1, <1>7
<1>9. ASSUME NEW d \in Contests
      PROVE  ledger'.byContest[d] = Cardinality(HeldFor(ledger, d)') + by[d]
  <2>1. CASE d = c
    <3>1. ledger'.byContest[c] = ledger.byContest[c] + bytes
      BY <1>1
    <3>2. ledger.byContest[c] = Cardinality(A) + by[c] /\ by[c] \in Nat
      BY <1>1 DEF A
    <3>3. ledger'.byContest[c] = Cardinality(B) + by[c]
      BY <1>6, <3>1, <3>2
    <3>4. QED  BY <2>1, <3>3 DEF B
  <2>2. CASE d # c
    <3>1. ledger'.byContest[d] = ledger.byContest[d]
      BY <1>1, <2>2
    <3>2. HeldFor(ledger, d)' = HeldFor(ledger, d)
      BY <2>2
    <3>3. Cardinality(HeldFor(ledger, d)') = Cardinality(HeldFor(ledger, d))
      BY <3>2
    <3>4. QED  BY <1>1, <3>1, <3>3
  <2>3. QED  BY <2>1, <2>2
<1>10. QED  BY <1>1, <1>8, <1>9 DEF Books, LedgerOK, all1

\* What has to be shown of a step of an answer.
LEMMA Answered ==
  ASSUME BudgetInv, UNCHANGED <<entry, flight, overrun>>,
         ledger'.snapshot = ledger.snapshot, PinsOK',
         Books(ledger, Owed(flight), OwedBy(flight))', Within(ledger)'
  PROVE  BudgetInv'
<1>1. EntriesOK' /\ overrun' = FALSE
  BY DEF BudgetInv, EntriesOK
<1>2. FlightsOK(flight, ledger, entry)'
  BY DEF BudgetInv, FlightsOK, FlightOK, Counts
<1>3. QED  BY <1>1, <1>2 DEF BudgetInv

\* An answer is cut from the snapshot, which it pins.
LEMMA PinSnapshotStep ==
  ASSUME BudgetInv, NEW r \in Responses, NEW c \in Contests, PinSnapshot(r, c)
  PROVE  BudgetInv'
<1>. DEFINE s == ledger.snapshot[c]
            Of(t) == {q \in Responses : responses[q].parts = t}
            Of1(t) == {q \in Responses : responses'[q].parts = t}
<1>1. /\ responses[r] = NoResponse /\ s # NoParts
      /\ responses' = [responses EXCEPT ![r] = [contest |-> c, parts |-> s]]
      /\ pins' = [t \in DOMAIN pins \cup {s} |-> IF t = s THEN PinCount(s) + 1 ELSE pins[t]]
      /\ UNCHANGED <<ledger, entry, flight, overrun>>
  BY DEF PinSnapshot, IsFree
<1>2. /\ Books(ledger, Owed(flight), OwedBy(flight)) /\ Within(ledger) /\ PinsOK /\ ResponsesOK
      /\ ledger \in Ledgers /\ SharesOK(ledger) /\ RefsOK(ledger)
  BY DEF BudgetInv, Books, PinsOK
<1>3. s \in SUBSET Parts
  BY <1>2 DEF Ledgers
<1>4. /\ ResponsesOK' /\ responses'[r].contest = c /\ responses'[r].parts = s
      /\ \A q \in Responses \ {r} : responses'[q] = responses[q]
  <2>. DEFINE new == [contest |-> c, parts |-> s]
  <2>1. new \in [contest : Contests \cup {NoFlight}, parts : SUBSET Parts]
        /\ new.contest = c /\ new.parts = s
    BY <1>3
  <2>. HIDE DEF new
  <2>2. responses' = [responses EXCEPT ![r] = new]
    BY <1>1 DEF new
  <2>3. QED  BY <1>2, <2>1, <2>2 DEF ResponsesOK
<1>5. responses[r].parts = NoParts
  BY <1>1 DEF NoResponse
<1>6. PinsOK'
  <2>1. Answering' = Answering \cup {s}
    BY <1>1, <1>4, <1>5 DEF Answering
  <2>2. DOMAIN pins = Answering /\ \A t \in Answering : pins[t] = Cardinality(Of(t))
    BY <1>2 DEF PinsOK
  <2>3. pins' = [t \in Answering' |-> IF t = s THEN PinCount(s) + 1 ELSE pins[t]]
    BY <1>1, <2>1, <2>2
  <2>4. ASSUME NEW t \in Answering', t # s
        PROVE  pins[t] = Cardinality(Of1(t))
    <3>1. t \in Answering /\ t # NoParts
      BY <2>1, <2>4 DEF Answering
    <3>2. Of1(t) = Of(t)
      BY <1>4, <1>5, <2>4, <3>1
    <3>3. QED  BY <2>2, <3>1, <3>2
  <2>5. PinCount(s) + 1 = Cardinality(Of1(s))
    <3>1. PinCount(s) = Cardinality(Of(s))
      BY <1>1, <1>2, PinnedIsAnswering
    <3>2. Of1(s) = Of(s) \cup {r} /\ r \notin Of(s)
      BY <1>1, <1>4, <1>5
    <3>3. IsFiniteSet(Of(s))
      BY CacheBudgetAssumption, FS_Subset
    <3>. HIDE DEF Of
    <3>4. Cardinality(Of(s) \cup {r}) = Cardinality(Of(s)) + 1
      BY <3>2, <3>3, FS_AddElement
    <3>5. Cardinality(Of1(s)) = Cardinality(Of(s) \cup {r})
      BY <3>2
    <3>6. QED  BY <3>1, <3>4, <3>5
  <2>. HIDE DEF s
  <2>6. pins' = [t \in Answering' |-> Cardinality(Of1(t))]
    BY <2>3, <2>4, <2>5
  <2>7. QED  BY <1>4, <2>6 DEF PinsOK
<1>7. /\ \A d \in Contests \ {c} : PinnedFor(d)' = PinnedFor(d)
      /\ PinnedFor(c)' = PinnedFor(c) \cup s
  <2>1. \A d : \A p : p \in PinnedFor(d)' <=>
          \E q \in Responses : responses'[q].contest = d /\ p \in responses'[q].parts
    BY DEF PinnedFor
  <2>2. \A d : \A p : p \in PinnedFor(d) <=>
          \E q \in Responses : responses[q].contest = d /\ p \in responses[q].parts
    BY DEF PinnedFor
  <2>3. \A p : p \notin responses[r].parts
    BY <1>5 DEF NoParts
  <2>. HIDE DEF s
  <2>4. \A d \in Contests \ {c} : \A p : p \in PinnedFor(d)' <=> p \in PinnedFor(d)
    BY <1>4, <2>1, <2>2, <2>3
  <2>5. \A p : p \in PinnedFor(c)' <=> p \in PinnedFor(c) \/ p \in s
    BY <1>4, <2>1, <2>2, <2>3
  <2>6. QED  BY <2>4, <2>5
<1>8. \A d \in Contests : HeldFor(ledger, d)' = HeldFor(ledger, d)
  BY <1>1, <1>7 DEF HeldFor
<1>9. HeldBy(ledger)' = HeldBy(ledger)
  BY <1>8 DEF HeldBy
<1>10. SharesOK(ledger)'
  <2>1. ASSUME NEW q \in Responses, responses'[q] # NoResponse
        PROVE  /\ responses'[q].contest \in Contests /\ responses'[q].parts # NoParts
               /\ \/ responses'[q].parts = ledger'.snapshot[responses'[q].contest]
                  \/ responses'[q].parts \in ledger'.retired
    <3>1. CASE q = r
      BY <1>1, <1>4, <3>1
    <3>2. CASE q # r
      <4>1. responses'[q] = responses[q] /\ ledger' = ledger
        BY <1>1, <1>4, <3>2
      <4>2. QED  BY <1>2, <2>1, <4>1 DEF SharesOK
    <3>3. QED  BY <3>1, <3>2
  <2>2. ASSUME NEW t \in ledger'.retired
        PROVE  t # NoParts /\ \E q \in Responses : responses'[q].parts = t
    <3>1. t # NoParts /\ \E q \in Responses : responses[q].parts = t
      BY <1>1, <1>2 DEF SharesOK
    <3>2. QED  BY <1>4, <1>5, <3>1
  <2>3. \A d, e \in Contests : d # e => HeldFor(ledger, d)' \cap HeldFor(ledger, e)' = {}
    BY <1>2, <1>8 DEF SharesOK
  <2>4. QED  BY <2>1, <2>2, <2>3 DEF SharesOK
<1>11. RefsOK(ledger)' /\ (ledger \in Ledgers)' /\ Within(ledger)'
  BY <1>1, <1>2 DEF RefsOK, Resides, RetiredWith, Ledgers, Within
<1>12. Owed(flight)' = Owed(flight) /\ OwedBy(flight)' = OwedBy(flight)
  BY <1>1 DEF Owed, OwedBy, Units, Underway
<1>13. Books(ledger, Owed(flight), OwedBy(flight))'
  BY <1>1, <1>2, <1>8, <1>9, <1>10, <1>11, <1>12 DEF Books
<1>14. QED  BY <1>1, <1>6, <1>11, <1>13, Answered

\* What a retired snapshot of c's that is released referenced is no more charged, unless
\* something else references it too.
LEMMA RetiredReleases ==
  ASSUME ResponsesOK, NEW l, NEW owed, NEW by, Books(l, owed, by), NEW c \in Contests,
         NEW s \in l.retired, s \in SUBSET HeldFor(l, c)
  PROVE  LET m == UpdateMemory([l EXCEPT !.retired = @ \ {s}], c, s, 0, -1)
         IN  /\ m \in Ledgers /\ RefsOK(m)
             /\ m.snapshot = l.snapshot /\ m.retired = l.retired \ {s}
             /\ \E bytes \in Int :
                  /\ bytes = Cardinality(AccountedIn(m.refs, s))
                               - Cardinality(AccountedIn(l.refs, s))
                  /\ bytes <= 0
                  /\ m.total = l.total + bytes
                  /\ m.byContest = [l.byContest EXCEPT ![c] = @ + bytes]
<1>. DEFINE k == [l EXCEPT !.retired = @ \ {s}]
            after == Owned(l.refs, s, 0, -1)
            m == UpdateMemory(k, c, s, 0, -1)
<1>1. /\ l \in Ledgers /\ SharesOK(l) /\ RefsOK(l) /\ owed \in Nat /\ by \in [Contests -> Nat]
      /\ l.total = Cardinality(HeldBy(l)) + owed
      /\ l.byContest[c] = Cardinality(HeldFor(l, c)) + by[c] /\ by[c] \in Nat
  BY DEF Books
<1>2. /\ s \in SUBSET Parts /\ l.refs \in [Parts -> [resident : Nat, retired : Nat]]
  BY <1>1 DEF Ledgers
<1>3. /\ k \in Ledgers /\ k.snapshot = l.snapshot
      /\ k.retired = l.retired \ {s} /\ k.refs = l.refs
      /\ k.total = l.total /\ k.byContest = l.byContest
  BY <1>1 DEF Ledgers
<1>. HIDE DEF k
<1>4. ASSUME NEW p \in Parts
      PROVE  /\ Cardinality(RetiredWith(k, p)) \in Nat
             /\ l.refs[p].retired
                  = Cardinality(RetiredWith(k, p)) + (IF p \in s THEN 1 ELSE 0)
  <2>1. RetiredWith(l, p) \in SUBSET SUBSET Parts
    BY <1>1 DEF RetiredWith, Ledgers
  <2>2. IsFiniteSet(RetiredWith(l, p)) /\ Cardinality(RetiredWith(l, p)) \in Nat
    BY <2>1, RetiredAreFinite
  <2>3. l.refs[p].retired = Cardinality(RetiredWith(l, p))
    BY <1>1 DEF RefsOK
  <2>4. Cardinality(RetiredWith(k, p)) \in Nat
    BY <1>3, RetiredCounts
  <2>5. CASE p \in s
    <3>1. RetiredWith(k, p) = RetiredWith(l, p) \ {s} /\ s \in RetiredWith(l, p)
      BY <1>3, <2>5 DEF RetiredWith
    <3>2. Cardinality(RetiredWith(l, p) \ {s}) = Cardinality(RetiredWith(l, p)) - 1
      BY <2>2, <3>1, FS_RemoveElement
    <3>3. Cardinality(RetiredWith(k, p)) = Cardinality(RetiredWith(l, p)) - 1
      BY <3>1, <3>2
    <3>4. QED  BY <2>2, <2>3, <2>4, <2>5, <3>3
  <2>6. CASE p \notin s
    <3>1. RetiredWith(k, p) = RetiredWith(l, p)
      BY <1>3, <2>6 DEF RetiredWith
    <3>2. QED  BY <2>3, <2>4, <2>6, <3>1
  <2>7. QED  BY <2>5, <2>6
<1>5. /\ after \in [Parts -> [resident : Nat, retired : Nat]]
      /\ \A p \in Parts : /\ after[p].resident = l.refs[p].resident
                          /\ after[p].retired = Cardinality(RetiredWith(k, p))
  <2>1. ASSUME NEW p \in Parts
        PROVE  /\ after[p] \in [resident : Nat, retired : Nat]
               /\ after[p].resident = l.refs[p].resident
               /\ after[p].retired = Cardinality(RetiredWith(k, p))
    <3>1. l.refs[p].resident \in Nat /\ l.refs[p].retired \in Nat
          /\ l.refs[p] \in [resident : Nat, retired : Nat]
      BY <1>2
    <3>2. CASE p \in s
      <4>1. after[p] = [resident |-> l.refs[p].resident + 0,
                        retired |-> l.refs[p].retired + (-1)]
        BY <3>2 DEF Owned
      <4>. HIDE DEF after
      <4>2. l.refs[p].resident + 0 = l.refs[p].resident
            /\ l.refs[p].retired + (-1) = Cardinality(RetiredWith(k, p))
        BY <1>4, <3>1, <3>2
      <4>3. QED  BY <1>4, <3>1, <4>1, <4>2
    <3>3. CASE p \notin s
      <4>1. after[p] = l.refs[p]
        BY <3>3 DEF Owned
      <4>. HIDE DEF after
      <4>2. l.refs[p].retired = Cardinality(RetiredWith(k, p))
        BY <1>4, <3>1, <3>3
      <4>3. QED  BY <3>1, <4>1, <4>2
    <3>4. QED  BY <3>2, <3>3
  <2>2. after = [p \in Parts |-> after[p]]
    BY DEF Owned
  <2>. HIDE DEF after
  <2>3. QED  BY <2>1, <2>2
<1>. HIDE DEF after
<1>. DEFINE now == Cardinality(AccountedIn(after, s))
            before == Cardinality(AccountedIn(l.refs, s))
            bytes == now - before
<1>6. AccountedIn(l.refs, s) = s
  <2>1. AccountedIn(l.refs, s) = HeldBy(l) \cap s
    BY <1>1, <1>2, AccountedIsHeld
  <2>2. HeldFor(l, c) \in SUBSET HeldBy(l)
    BY <1>1, HeldParts
  <2>3. QED  BY <2>1, <2>2
<1>7. AccountedIn(after, s) \in SUBSET s
  BY DEF AccountedIn
<1>8. before = Cardinality(s) /\ before \in Nat
  BY <1>2, <1>6, PartsAreFinite
<1>9. now \in Nat /\ now <= Cardinality(s)
  BY <1>2, <1>7, NoLarger
<1>10. Cardinality(s) <= l.total /\ Cardinality(s) <= l.byContest[c]
       /\ l.total \in Nat /\ l.byContest[c] \in Nat
  <2>1. /\ HeldFor(l, c) \in SUBSET Parts /\ HeldBy(l) \in SUBSET Parts
        /\ s \in SUBSET HeldBy(l)
    BY <1>1, HeldParts
  <2>2. /\ Cardinality(s) <= Cardinality(HeldFor(l, c))
        /\ Cardinality(HeldFor(l, c)) \in Nat /\ Cardinality(s) \in Nat
    BY <2>1, NoLarger
  <2>3. Cardinality(s) <= Cardinality(HeldBy(l)) /\ Cardinality(HeldBy(l)) \in Nat
    BY <2>1, NoLarger
  <2>4. QED  BY <1>1, <2>2, <2>3 DEF Ledgers
<1>. HIDE DEF now, before
<1>11. bytes \in Int /\ bytes <= 0 /\ l.total + bytes >= 0 /\ l.byContest[c] + bytes >= 0
  BY <1>8, <1>9, <1>10
<1>12. bytes = Cardinality(AccountedIn(after, s)) - Cardinality(AccountedIn(l.refs, s))
  BY DEF now, before
<1>. HIDE DEF bytes
<1>13. /\ m \in Ledgers
       /\ m.snapshot = k.snapshot /\ m.retired = k.retired
       /\ m.refs = after
       /\ m.total = k.total + bytes
       /\ m.byContest = [k.byContest EXCEPT ![c] = @ + bytes]
  <2>1. after = Owned(k.refs, s, 0, -1)
    BY <1>3 DEF after
  <2>2. bytes = Cardinality(AccountedIn(after, s)) - Cardinality(AccountedIn(k.refs, s))
    BY <1>3, <1>12
  <2>3. k.total + bytes >= 0 /\ k.byContest[c] + bytes >= 0
    BY <1>3, <1>11
  <2>4. after \in [Parts -> [resident : Nat, retired : Nat]] /\ -1 \in Int
    BY <1>5
  <2>5. QED  BY <1>2, <1>3, <1>11, <2>1, <2>2, <2>3, <2>4, MemoryIs
<1>14. RefsOK(m)
  <2>. HIDE DEF m
  <2>1. ASSUME NEW p \in Parts
        PROVE  /\ m.refs[p].resident = IF Resides(m, p) THEN 1 ELSE 0
               /\ m.refs[p].retired = Cardinality(RetiredWith(m, p))
    <3>1. RetiredWith(m, p) = RetiredWith(k, p) /\ (Resides(m, p) <=> Resides(l, p))
      BY <1>3, <1>13 DEF RetiredWith, Resides
    <3>2. l.refs[p].resident = IF Resides(l, p) THEN 1 ELSE 0
      BY <1>1 DEF RefsOK
    <3>3. QED  BY <1>5, <1>13, <3>1, <3>2
  <2>2. QED  BY <2>1 DEF RefsOK
<1>15. /\ m.total = l.total + bytes
       /\ m.byContest = [l.byContest EXCEPT ![c] = @ + bytes]
       /\ m.snapshot = l.snapshot /\ m.retired = l.retired \ {s}
       /\ bytes = Cardinality(AccountedIn(m.refs, s)) - Cardinality(AccountedIn(l.refs, s))
  BY <1>3, <1>12, <1>13
<1>. HIDE DEF m
<1>16. QED  BY <1>11, <1>13, <1>14, <1>15 DEF m, k

\* An answer is written out: its snapshot is pinned once less, and goes when it was
\* retired and no other answer needs it.
LEMMA ReleaseSnapshotStep ==
  ASSUME BudgetInv, NEW r \in Responses, ReleaseSnapshot(r)
  PROVE  BudgetInv'
<1>0. PICK s, c : s = responses[r].parts /\ c = responses[r].contest
  OBVIOUS
<1>. DEFINE Of(t) == {q \in Responses : responses[q].parts = t}
            Of1(t) == {q \in Responses : responses'[q].parts = t}
            last == PinCount(s) <= 1
<1>1. /\ responses[r] # NoResponse
      /\ responses' = [responses EXCEPT ![r] = NoResponse]
      /\ pins' = IF last THEN [t \in DOMAIN pins \ {s} |-> pins[t]]
                 ELSE [pins EXCEPT ![s] = @ - 1]
      /\ ledger' = IF last /\ s \in ledger.retired
                   THEN UpdateMemory([ledger EXCEPT !.retired = @ \ {s}], c, s, 0, -1)
                   ELSE ledger
      /\ UNCHANGED <<entry, flight, overrun>>
  BY <1>0 DEF ReleaseSnapshot
<1>2. /\ Books(ledger, Owed(flight), OwedBy(flight)) /\ Within(ledger) /\ PinsOK /\ ResponsesOK
      /\ ledger \in Ledgers /\ SharesOK(ledger) /\ RefsOK(ledger)
  BY DEF BudgetInv, Books, PinsOK
<1>3. /\ c \in Contests /\ s # NoParts /\ s \in SUBSET Parts
      /\ s = ledger.snapshot[c] \/ s \in ledger.retired
      /\ s \subseteq PinnedFor(c)
  <2>1. s \in SUBSET Parts
    BY <1>0, <1>2 DEF ResponsesOK
  <2>2. c \in Contests /\ s # NoParts /\ (s = ledger.snapshot[c] \/ s \in ledger.retired)
    BY <1>0, <1>1, <1>2 DEF SharesOK
  <2>3. s \subseteq PinnedFor(c)
    BY <1>0 DEF PinnedFor
  <2>4. QED  BY <2>1, <2>2, <2>3
<1>4. /\ responses'[r] = NoResponse /\ NoResponse.parts = NoParts
      /\ \A q \in Responses \ {r} : responses'[q] = responses[q]
  BY <1>1, <1>2 DEF ResponsesOK, NoResponse
<1>5. ResponsesOK'
  <2>1. NoResponse \in [contest : Contests \cup {NoFlight}, parts : SUBSET Parts]
    BY DEF NoResponse, NoParts
  <2>2. QED  BY <1>1, <1>2, <2>1 DEF ResponsesOK
<1>6. /\ IsFiniteSet(Of(s)) /\ r \in Of(s) /\ PinCount(s) = Cardinality(Of(s))
      /\ Cardinality(Of(s)) \in Nat
      /\ Of1(s) = Of(s) \ {r} /\ Cardinality(Of1(s)) = Cardinality(Of(s)) - 1
      /\ Cardinality(Of1(s)) \in Nat
      /\ Of1(s) = {} <=> Cardinality(Of1(s)) = 0
  <2>1. IsFiniteSet(Of(s)) /\ r \in Of(s)
    BY <1>0, CacheBudgetAssumption, FS_Subset
  <2>2. PinCount(s) = Cardinality(Of(s))
    BY <1>2, <1>3, PinnedIsAnswering
  <2>3. Of1(s) = Of(s) \ {r}
    BY <1>3, <1>4
  <2>. HIDE DEF Of, Of1
  <2>4. /\ IsFiniteSet(Of(s) \ {r}) /\ Cardinality(Of(s) \ {r}) = Cardinality(Of(s)) - 1
        /\ Cardinality(Of(s)) \in Nat /\ Cardinality(Of(s) \ {r}) \in Nat
    BY <2>1, FS_RemoveElement, FS_CardinalityType
  <2>5. Of(s) \ {r} = {} <=> Cardinality(Of(s) \ {r}) = 0
    BY <2>4, FS_EmptySet
  <2>6. QED  BY <2>1, <2>2, <2>3, <2>4, <2>5
<1>7. \A t : t # s /\ t # NoParts => Of1(t) = Of(t)
  <2>1. ASSUME NEW t, t # s, t # NoParts
        PROVE  Of1(t) = Of(t)
    BY <1>0, <1>4, <2>1
  <2>2. QED  BY <2>1
<1>8. last <=> Of1(s) = {}
  <2>. HIDE DEF Of, Of1
  <2>1. QED  BY <1>6
<1>9. PinsOK'
  <2>1. DOMAIN pins = Answering /\ \A t \in Answering : pins[t] = Cardinality(Of(t))
    BY <1>2 DEF PinsOK
  <2>2. Answering' = {t \in Answering : t # s} \cup (IF last THEN {} ELSE {s})
    <3>1. \A t : t \in Answering' <=> t # NoParts /\ Of1(t) # {}
      BY DEF Answering
    <3>2. \A t : t \in Answering <=> t # NoParts /\ Of(t) # {}
      BY DEF Answering
    <3>. HIDE DEF Of, Of1, last
    <3>3. QED  BY <1>3, <1>7, <1>8, <3>1, <3>2
  <2>3. s \in Answering
    BY <1>0, <1>3 DEF Answering
  <2>. HIDE DEF Of, Of1
  <2>4. \A t \in Answering : t # s => pins[t] = Cardinality(Of1(t))
    <3>1. \A t \in Answering : t # NoParts
      BY DEF Answering
    <3>2. QED  BY <1>7, <2>1, <3>1
  <2>5. pins' = [t \in Answering' |-> Cardinality(Of1(t))]
    <3>1. CASE last
      <4>1. Answering' = Answering \ {s}
        BY <2>2, <3>1
      <4>2. pins' = [t \in Answering' |-> pins[t]]
        BY <1>1, <2>1, <3>1, <4>1
      <4>3. QED  BY <2>4, <4>1, <4>2
    <3>2. CASE ~last
      <4>1. Answering' = Answering
        BY <2>2, <2>3, <3>2
      <4>2. pins' = [pins EXCEPT ![s] = pins[s] - 1]
        BY <1>1, <3>2
      <4>3. pins[s] - 1 = Cardinality(Of1(s))
        BY <1>6, <2>1, <2>3
      <4>4. pins = [t \in Answering |-> pins[t]]
        BY <1>2, <2>1 DEF PinsOK
      <4>. HIDE DEF last
      <4>5. pins' = [t \in Answering |-> IF t = s THEN pins[s] - 1 ELSE pins[t]]
        BY <2>1, <4>2, <4>4
      <4>6. QED  BY <2>4, <4>1, <4>3, <4>5
    <3>3. QED  BY <3>1, <3>2
  <2>6. QED  BY <1>5, <2>5 DEF PinsOK, Of1
<1>10. /\ \A d \in Contests : PinnedFor(d)' \subseteq PinnedFor(d)
       /\ \A d \in Contests \ {c} : PinnedFor(d)' = PinnedFor(d)
       /\ PinnedFor(c) \ s = PinnedFor(c)' \ s
       /\ ~last => PinnedFor(c)' = PinnedFor(c)
  <2>1. \A d : \A p : p \in PinnedFor(d)' <=>
          \E q \in Responses \ {r} : responses[q].contest = d /\ p \in responses[q].parts
    <3>1. \A d : \A p : p \in PinnedFor(d)' <=>
            \E q \in Responses : responses'[q].contest = d /\ p \in responses'[q].parts
      BY DEF PinnedFor
    <3>2. \A p : p \notin responses'[r].parts
      BY <1>4 DEF NoParts
    <3>3. QED  BY <1>4, <3>1, <3>2
  <2>2. \A d : \A p : p \in PinnedFor(d) <=>
          \/ \E q \in Responses \ {r} : responses[q].contest = d /\ p \in responses[q].parts
          \/ d = c /\ p \in s
    BY <1>0 DEF PinnedFor
  <2>3. ASSUME ~last
        PROVE  \A p \in s : p \in PinnedFor(c)'
    <3>1. PICK q \in Of1(s) : TRUE
      BY <1>8, <2>3
    <3>2. q \in Responses \ {r} /\ responses[q].parts = s
      BY <1>6
    <3>3. responses[q].contest \in Contests
      <4>1. responses[q] # NoResponse
        BY <1>3, <1>4, <3>2
      <4>2. QED  BY <1>2, <3>2, <4>1 DEF SharesOK
    <3>4. responses[q].contest = c
      <4>. DEFINE d == responses[q].contest
      <4>1. s \subseteq HeldFor(ledger, c) /\ s \subseteq HeldFor(ledger, d)
        BY <1>3, <3>2 DEF HeldFor, PinnedFor
      <4>2. d # c => HeldFor(ledger, d) \cap HeldFor(ledger, c) = {}
        BY <1>2, <1>3, <3>3 DEF SharesOK
      <4>3. QED  BY <1>3, <4>1, <4>2 DEF NoParts
    <3>5. ASSUME NEW p \in s
          PROVE  p \in PinnedFor(c)'
      <4>1. q \in Responses \ {r} /\ responses[q].contest = c /\ p \in responses[q].parts
        BY <3>2, <3>4
      <4>2. QED  BY <2>1, <4>1
    <3>6. QED  BY <3>5
  <2>. HIDE DEF last
  <2>4. \A d \in Contests : \A p : p \in PinnedFor(d)' => p \in PinnedFor(d)
    BY <2>1, <2>2
  <2>5. ASSUME NEW d \in Contests \ {c}
        PROVE  PinnedFor(d)' = PinnedFor(d)
    <3>1. ASSUME NEW p
          PROVE  p \in PinnedFor(d)' <=> p \in PinnedFor(d)
      BY <2>1, <2>2
    <3>2. QED  BY <3>1
  <2>6. PinnedFor(c) \ s = PinnedFor(c)' \ s
    <3>1. ASSUME NEW p, p \notin s
          PROVE  p \in PinnedFor(c)' <=> p \in PinnedFor(c)
      BY <2>1, <2>2, <3>1
    <3>2. QED  BY <3>1
  <2>7. ASSUME ~last
        PROVE  PinnedFor(c)' = PinnedFor(c)
    <3>1. ASSUME NEW p
          PROVE  p \in PinnedFor(c)' <=> p \in PinnedFor(c)
      BY <2>1, <2>2, <2>3, <2>7
    <3>2. QED  BY <3>1
  <2>8. QED  BY <2>4, <2>5, <2>6, <2>7
<1>11. /\ \E bytes \in Int :
            /\ last /\ s \in ledger.retired =>
                 bytes = Cardinality(AccountedIn(ledger'.refs, s))
                           - Cardinality(AccountedIn(ledger.refs, s))
            /\ bytes <= 0
            /\ ledger'.total = ledger.total + bytes
            /\ ledger'.byContest = [ledger.byContest EXCEPT ![c] = @ + bytes]
       /\ (ledger \in Ledgers)' /\ RefsOK(ledger)'
       /\ ledger'.snapshot = ledger.snapshot
       /\ ledger'.retired = IF last THEN ledger.retired \ {s} ELSE ledger.retired
  <2>1. CASE last /\ s \in ledger.retired
    <3>. DEFINE m == UpdateMemory([ledger EXCEPT !.retired = @ \ {s}], c, s, 0, -1)
    <3>1. ledger' = m
      BY <1>1, <2>1
    <3>2. s \in SUBSET HeldFor(ledger, c)
      BY <1>3 DEF HeldFor
    <3>3. /\ m \in Ledgers /\ RefsOK(m)
          /\ m.snapshot = ledger.snapshot /\ m.retired = ledger.retired \ {s}
          /\ \E bytes \in Int :
               /\ bytes = Cardinality(AccountedIn(m.refs, s))
                            - Cardinality(AccountedIn(ledger.refs, s))
               /\ bytes <= 0
               /\ m.total = ledger.total + bytes
               /\ m.byContest = [ledger.byContest EXCEPT ![c] = @ + bytes]
      BY <1>2, <1>3, <2>1, <3>2, RetiredReleases
    <3>. HIDE DEF m
    <3>4. (ledger \in Ledgers)' /\ RefsOK(ledger)'
      BY <3>1, <3>3 DEF RefsOK, Resides, RetiredWith, Ledgers
    <3>5. QED  BY <2>1, <3>1, <3>3, <3>4
  <2>2. CASE ~(last /\ s \in ledger.retired)
    <3>1. ledger' = ledger
      BY <1>1, <2>2
    <3>2. (ledger \in Ledgers)' /\ RefsOK(ledger)'
      BY <1>2, <3>1 DEF RefsOK, Resides, RetiredWith, Ledgers
    <3>3. /\ ledger.total + 0 = ledger.total
          /\ [ledger.byContest EXCEPT ![c] = @ + 0] = ledger.byContest
      BY <1>2, <1>3 DEF Ledgers
    <3>4. ledger'.retired = IF last THEN ledger.retired \ {s} ELSE ledger.retired
      BY <2>2, <3>1
    <3>. HIDE DEF last
    <3>5. QED  BY <2>2, <3>1, <3>2, <3>3, <3>4
  <2>3. QED  BY <2>1, <2>2
<1>12. /\ \A d \in Contests : HeldFor(ledger, d)' \subseteq HeldFor(ledger, d)
       /\ \A d \in Contests \ {c} : HeldFor(ledger, d)' = HeldFor(ledger, d)
       /\ HeldFor(ledger, c) \ s = HeldFor(ledger, c)' \ s
       /\ ~(last /\ s \in ledger.retired) => HeldFor(ledger, c)' = HeldFor(ledger, c)
  <2>1. \A d \in Contests : /\ HeldFor(ledger, d)' = ledger.snapshot[d] \cup PinnedFor(d)'
                            /\ HeldFor(ledger, d) = ledger.snapshot[d] \cup PinnedFor(d)
    BY <1>11 DEF HeldFor
  <2>. HIDE DEF last
  <2>2. \A d \in Contests : HeldFor(ledger, d)' \subseteq HeldFor(ledger, d)
    BY <1>10, <2>1
  <2>3. \A d \in Contests \ {c} : HeldFor(ledger, d)' = HeldFor(ledger, d)
    BY <1>10, <2>1
  <2>. DEFINE A == HeldFor(ledger, c)
              B == HeldFor(ledger, c)'
              P == PinnedFor(c)
              Q == PinnedFor(c)'
              t == ledger.snapshot[c]
  <2>0. A = t \cup P /\ B = t \cup Q /\ P \ s = Q \ s /\ (~last => Q = P)
    BY <1>3, <1>10, <2>1
  <2>. HIDE DEF A, B, P, Q, t
  <2>4. A \ s = B \ s
    BY <2>0
  <2>5. ~last => B = A
    BY <2>0
  <2>6. s \notin ledger.retired => B = A
    <3>1. s \notin ledger.retired => s = t
      BY <1>3 DEF t
    <3>2. s = t => B = A
      BY <2>0
    <3>3. QED  BY <3>1, <3>2
  <2>7. QED  BY <2>2, <2>3, <2>4, <2>5, <2>6 DEF A, B
<1>13. SharesOK(ledger)'
  <2>1. ASSUME NEW q \in Responses, responses'[q] # NoResponse
        PROVE  /\ responses'[q].contest \in Contests /\ responses'[q].parts # NoParts
               /\ \/ responses'[q].parts = ledger'.snapshot[responses'[q].contest]
                  \/ responses'[q].parts \in ledger'.retired
    <3>1. q # r /\ responses'[q] = responses[q]
      BY <1>4, <2>1
    <3>2. /\ responses[q].contest \in Contests /\ responses[q].parts # NoParts
          /\ \/ responses[q].parts = ledger.snapshot[responses[q].contest]
             \/ responses[q].parts \in ledger.retired
      BY <1>2, <2>1, <3>1 DEF SharesOK
    <3>3. last => responses[q].parts # s
      BY <1>8, <3>1
    <3>. HIDE DEF last
    <3>4. QED  BY <1>11, <3>1, <3>2, <3>3
  <2>2. ASSUME NEW t \in ledger'.retired
        PROVE  t # NoParts /\ \E q \in Responses : responses'[q].parts = t
    <3>1. t # NoParts /\ \E q \in Responses : responses[q].parts = t
      BY <1>2, <1>11 DEF SharesOK
    <3>2. CASE t # s
      <4>1. Of1(t) # {}
        BY <1>7, <3>1, <3>2
      <4>2. QED  BY <3>1, <4>1
    <3>3. CASE t = s
      <4>1. ~last
        BY <1>11, <3>3
      <4>2. Of1(t) # {}
        BY <1>8, <3>3, <4>1
      <4>3. QED  BY <3>1, <4>2
    <3>4. QED  BY <3>2, <3>3
  <2>3. \A d, e \in Contests : d # e => HeldFor(ledger, d) \cap HeldFor(ledger, e) = {}
    BY <1>2 DEF SharesOK
  <2>4. \A d, e \in Contests : d # e => HeldFor(ledger, d)' \cap HeldFor(ledger, e)' = {}
    BY <1>12, <2>3
  <2>5. QED  BY <2>1, <2>2, <2>4 DEF SharesOK
<1>14. Owed(flight)' = Owed(flight) /\ OwedBy(flight)' = OwedBy(flight)
  BY <1>1 DEF Owed, OwedBy, Units, Underway
<1>. HIDE DEF last, Of, Of1
<1>15. PICK bytes \in Int :
         /\ last /\ s \in ledger.retired =>
              bytes = Cardinality(AccountedIn(ledger'.refs, s))
                        - Cardinality(AccountedIn(ledger.refs, s))
         /\ bytes <= 0
         /\ ledger'.total = ledger.total + bytes
         /\ ledger'.byContest = [ledger.byContest EXCEPT ![c] = @ + bytes]
  BY <1>11
<1>16. HeldBy(ledger) \cap s = HeldFor(ledger, c) \cap s
       /\ HeldBy(ledger)' \cap s = HeldFor(ledger, c)' \cap s
  <2>1. \A d \in Contests \ {c} : s \cap HeldFor(ledger, d) = {}
    <3>1. s \subseteq HeldFor(ledger, c)
      BY <1>3 DEF HeldFor
    <3>2. QED  BY <1>2, <1>3, <3>1 DEF SharesOK
  <2>2. \A d \in Contests \ {c} : s \cap HeldFor(ledger, d)' = {}
    BY <1>12, <2>1
  <2>3. HeldBy(ledger) \cap s = HeldFor(ledger, c) \cap s
    BY <1>3, <2>1 DEF HeldBy
  <2>4. HeldBy(ledger)' \cap s = HeldFor(ledger, c)' \cap s
    <3>1. HeldBy(ledger)' = UNION {HeldFor(ledger, d)' : d \in Contests}
      BY DEF HeldBy
    <3>2. \A p : p \in HeldBy(ledger)' <=> \E d \in Contests : p \in HeldFor(ledger, d)'
      BY <3>1
    <3>3. ASSUME NEW p \in s
          PROVE  p \in HeldBy(ledger)' <=> p \in HeldFor(ledger, c)'
      BY <1>3, <2>2, <3>2
    <3>4. QED  BY <3>3
  <2>5. QED  BY <2>3, <2>4
<1>17. last /\ s \in ledger.retired =>
         bytes = Cardinality(HeldFor(ledger, c)' \cap s)
                   - Cardinality(HeldFor(ledger, c) \cap s)
  <2>1. ASSUME last, s \in ledger.retired
        PROVE  bytes = Cardinality(HeldFor(ledger, c)' \cap s)
                         - Cardinality(HeldFor(ledger, c) \cap s)
    <3>1. AccountedIn(ledger.refs, s) = HeldBy(ledger) \cap s
      BY <1>2, <1>3, AccountedIsHeld
    <3>2. AccountedIn(ledger'.refs, s) = HeldBy(ledger)' \cap s
      <4>1. LedgerOK'
        BY <1>11, <1>13 DEF LedgerOK
      <4>2. AccountedAreHeld'
        BY <1>5, <4>1, HeldAndAccountedAfter
      <4>3. QED  BY <1>3, <4>2 DEF AccountedAreHeld
    <3>3. Cardinality(AccountedIn(ledger.refs, s)) = Cardinality(HeldFor(ledger, c) \cap s)
      BY <1>16, <3>1
    <3>4. Cardinality(AccountedIn(ledger'.refs, s)) = Cardinality(HeldFor(ledger, c)' \cap s)
      BY <1>16, <3>2
    <3>5. QED  BY <1>15, <2>1, <3>3, <3>4
  <2>2. QED  BY <2>1
<1>18. Books(ledger, Owed(flight), OwedBy(flight))'
  <2>1. PICK owed, by : owed = Owed(flight) /\ by = OwedBy(flight)
    OBVIOUS
  <2>2. Books(ledger, owed, by)
    BY <1>2, <2>1
  <2>3. Books(ledger, owed, by)'
    <3>1. CASE ledger' = ledger /\ ~(last /\ s \in ledger.retired)
      <4>1. ASSUME NEW d \in Contests
            PROVE  HeldFor(ledger, d)' = HeldFor(ledger, d)
        <5>1. CASE d = c
          BY <1>12, <3>1, <5>1
        <5>2. CASE d # c
          BY <1>12, <5>2
        <5>3. QED  BY <5>1, <5>2
      <4>2. HeldBy(ledger)' = HeldBy(ledger)
        BY <4>1 DEF HeldBy
      <4>3. QED  BY <1>11, <1>13, <2>2, <3>1, <4>1, <4>2 DEF Books
    <3>2. CASE last /\ s \in ledger.retired
      <4>1. LedgerOK'
        BY <1>11, <1>13 DEF LedgerOK
      <4>2. bytes = Cardinality(HeldFor(ledger, c)' \cap s)
                      - Cardinality(HeldFor(ledger, c) \cap s)
        BY <1>17, <3>2
      <4>3. /\ HeldFor(ledger, c) \ s = HeldFor(ledger, c)' \ s
            /\ \A d \in Contests \ {c} : HeldFor(ledger, d)' = HeldFor(ledger, d)
        BY <1>12
      <4>4. /\ c \in Contests /\ ledger'.total = ledger.total + bytes
            /\ ledger'.byContest = [ledger.byContest EXCEPT ![c] = @ + bytes]
            /\ ResponsesOK
        BY <1>2, <1>3, <1>15
      <4>5. QED
        BY ONLY <1>5, <1>16, <2>2, <4>1, <4>2, <4>3, <4>4, bytes \in Int, BalanceAfter
    <3>3. QED  BY <1>1, <3>1, <3>2
  <2>4. QED  BY <1>14, <2>1, <2>3 DEF Books
<1>19. Within(ledger)'
  <2>1. /\ ledger.total \in Nat /\ ledger.byContest \in [Contests -> Nat]
        /\ MaxBytes \in Nat /\ MaxEntryBytes \in Nat
    BY <1>2, CacheBudgetAssumption DEF Ledgers
  <2>2. ledger'.total <= MaxBytes
    BY <1>2, <1>15, <2>1 DEF Within
  <2>3. ASSUME NEW d \in Contests
        PROVE  ledger'.byContest[d] <= MaxEntryBytes
    <3>1. ledger.byContest[d] \in Nat /\ ledger.byContest[d] <= MaxEntryBytes
      BY <1>2, <2>1 DEF Within
    <3>2. ledger'.byContest[d] = IF d = c THEN ledger.byContest[d] + bytes
                                 ELSE ledger.byContest[d]
      BY <1>15, <2>1
    <3>3. QED  BY <1>15, <2>1, <3>1, <3>2
  <2>4. QED  BY <2>2, <2>3 DEF Within
<1>20. ledger'.snapshot = ledger.snapshot
  BY <1>11
<1>21. QED  BY <1>1, <1>9, <1>18, <1>19, <1>20, Answered

\* At first nothing is held.
LEMMA BudgetInitInv ==
  ASSUME BudgetInit
  PROVE  BudgetInv
<1>1. /\ ledger = EmptyLedger /\ pins = [s \in {} |-> 0]
      /\ responses = [r \in Responses |-> NoResponse]
      /\ entry = [c \in Contests |->
                    [hydration |-> NoFlight, oversize |-> FALSE, usable |-> TRUE]]
      /\ flight = [f \in Flights |-> IdleFlight]
      /\ overrun = FALSE
  BY DEF BudgetInit
<1>2. ledger = [snapshot |-> [c \in Contests |-> NoParts],
                behind |-> [c \in Contests |-> FALSE],
                retired |-> {},
                refs |-> [p \in Parts |-> [resident |-> 0, retired |-> 0]],
                total |-> 0,
                byContest |-> [c \in Contests |-> 0]]
  BY <1>1 DEF EmptyLedger
<1>3. /\ ledger \in Ledgers /\ ledger.retired = {} /\ ledger.total = 0
      /\ \A c \in Contests : ledger.snapshot[c] = {} /\ ledger.byContest[c] = 0
      /\ \A p \in Parts : ledger.refs[p].resident = 0 /\ ledger.refs[p].retired = 0
  BY <1>2 DEF Ledgers, NoParts
<1>4. \A r \in Responses : responses[r] = NoResponse /\ responses[r].parts = {}
  BY <1>1 DEF NoResponse, NoParts
<1>5. \A c \in Contests : PinnedFor(c) = {} /\ HeldFor(ledger, c) = {}
  BY <1>3, <1>4 DEF PinnedFor, HeldFor
<1>6. HeldBy(ledger) = {}
  BY <1>5 DEF HeldBy
<1>7. SharesOK(ledger)
  BY <1>3, <1>4, <1>5 DEF SharesOK
<1>8. RefsOK(ledger)
  <2>1. ASSUME NEW p \in Parts
        PROVE  /\ ledger.refs[p].resident = IF Resides(ledger, p) THEN 1 ELSE 0
               /\ ledger.refs[p].retired = Cardinality(RetiredWith(ledger, p))
    <3>1. ~Resides(ledger, p)
      BY <1>3 DEF Resides
    <3>2. RetiredWith(ledger, p) = {}
      BY <1>3 DEF RetiredWith
    <3>3. Cardinality(RetiredWith(ledger, p)) = 0
      BY <3>2, FS_EmptySet
    <3>4. QED  BY <1>3, <3>1, <3>3
  <2>2. QED  BY <2>1 DEF RefsOK
<1>9. /\ flight \in [Flights -> FlightRecords]
      /\ \A f \in Flights : flight[f] = IdleFlight /\ flight[f].phase = "idle"
                            /\ flight[f].reserved = 0 /\ flight[f].buffered = 0
  BY <1>1, IdleIs
<1>10. Owed(flight) = 0 /\ OwedBy(flight) = [c \in Contests |-> 0]
  <2>1. ASSUME NEW F \in SUBSET Flights
        PROVE  Cardinality(Units(flight, F)) = 0
    <3>1. \A f \in F : {f} \X (1 .. flight[f].reserved) = {}
      BY <1>9
    <3>2. Units(flight, F) = {}
      BY <3>1 DEF Units
    <3>3. QED  BY <3>2, FS_EmptySet
  <2>2. \A c \in Contests : Underway(c, flight) \in SUBSET Flights
    BY DEF Underway
  <2>3. QED  BY <2>1, <2>2 DEF Owed, OwedBy
<1>11. Books(ledger, Owed(flight), OwedBy(flight))
  <2>1. Cardinality(HeldBy(ledger)) = 0
    BY <1>6, FS_EmptySet
  <2>2. \A c \in Contests : Cardinality(HeldFor(ledger, c)) = 0
    BY <1>5, FS_EmptySet
  <2>3. QED  BY <1>3, <1>7, <1>8, <1>10, <2>1, <2>2 DEF Books
<1>12. Within(ledger)
  BY <1>3, CacheBudgetAssumption DEF Within
<1>13. PinsOK
  <2>1. ResponsesOK
    BY <1>1 DEF ResponsesOK, NoResponse, NoParts
  <2>2. Answering = {}
    BY <1>4 DEF Answering, NoParts
  <2>3. pins = [s \in Answering |-> Cardinality({r \in Responses : responses[r].parts = s})]
    BY <1>1, <2>2
  <2>4. QED  BY <2>1, <2>3 DEF PinsOK
<1>14. EntriesOK
  BY <1>1 DEF EntriesOK
<1>15. FlightsOK(flight, ledger, entry)
  <2>1. ASSUME NEW f \in Flights
        PROVE  FlightOK(flight, f) /\ flight[f].phase \notin CountingPhases
    BY <1>9 DEF FlightOK, CountingPhases
  <2>2. QED  BY <1>9, <2>1 DEF FlightsOK
<1>16. QED  BY <1>1, <1>11, <1>12, <1>13, <1>14, <1>15 DEF BudgetInv

\* Every step keeps the invariant.
LEMMA BudgetNextInv ==
  ASSUME BudgetInv, [BudgetNext]_budgetVars
  PROVE  BudgetInv'
<1>1. ASSUME NEW f \in Flights, NEW c \in Contests, StartHydration(f, c)
      PROVE  BudgetInv'
  BY <1>1, StartHydrationStep
<1>2. ASSUME NEW f \in Flights,
             \/ LeaveQueue(f) \/ BeginHydration(f) \/ EstimatePage(f) \/ ReadPage(f)
             \/ FollowTarget(f) \/ MaterializeSnapshot(f)
      PROVE  BudgetInv'
  BY <1>2, LeaveQueueStep, BeginHydrationStep, EstimatePageStep, ReadPageStep, FollowTargetStep,
     MaterializeSnapshotStep
<1>3. ASSUME NEW f \in Flights, HydrationUnavailable(f) \/ HydrationFails(f)
      PROVE  BudgetInv'
  BY <1>3, HydrationUnavailableStep, HydrationFailsStep
<1>4. ASSUME NEW f \in Flights, NEW gone \in BOOLEAN, AuthorityDiffers(f, gone)
      PROVE  BudgetInv'
  BY <1>4, AuthorityDiffersStep
<1>5. ASSUME NEW c \in Contests,
             ObserveTarget(c) \/ ObserveCommittedAppend(c) \/ InvalidateEntry(c)
      PROVE  BudgetInv'
  BY <1>5, ObserveTargetStep, ObserveCommittedAppendStep, InvalidateEntryStep
<1>6. ASSUME NEW C \in SUBSET Contests, CloseEntries(C)
      PROVE  BudgetInv'
  BY <1>6, CloseEntriesStep
<1>7. ASSUME NEW r \in Responses, NEW c \in Contests, PinSnapshot(r, c)
      PROVE  BudgetInv'
  BY <1>7, PinSnapshotStep
<1>8. ASSUME NEW r \in Responses, ReleaseSnapshot(r)
      PROVE  BudgetInv'
  BY <1>8, ReleaseSnapshotStep
<1>9. CASE UNCHANGED budgetVars
  <2>1. UNCHANGED <<ledger, pins, responses, entry, flight, overrun>>
    BY <1>9 DEF budgetVars
  <2>2. EntriesOK' /\ FlightsOK(flight', ledger', entry') /\ Within(ledger')
        /\ Books(ledger', Owed(flight'), OwedBy(flight')) /\ PinsOK /\ overrun' = FALSE
    BY <2>1 DEF BudgetInv, EntriesOK
  <2>3. QED  BY <2>1, <2>2, Restored
<1>10. \A c \in Contests : {c} \in SUBSET Contests
  OBVIOUS
<1>11. CASE BudgetNext
  <2>1. CASE \/ \E f \in Flights, c \in Contests : StartHydration(f, c)
             \/ \E f \in Flights, gone \in BOOLEAN : AuthorityDiffers(f, gone)
             \/ \E r \in Responses, c \in Contests : PinSnapshot(r, c)
             \/ \E r \in Responses : ReleaseSnapshot(r)
    BY <1>1, <1>4, <1>7, <1>8, <2>1
  <2>2. CASE \E f \in Flights :
               \/ LeaveQueue(f) \/ BeginHydration(f) \/ EstimatePage(f) \/ ReadPage(f)
               \/ FollowTarget(f) \/ MaterializeSnapshot(f)
    BY <1>2, <2>2
  <2>3. CASE \E f \in Flights : HydrationUnavailable(f) \/ HydrationFails(f)
    BY <1>3, <2>3
  <2>4. CASE \E c \in Contests :
               ObserveTarget(c) \/ ObserveCommittedAppend(c) \/ InvalidateEntry(c)
    BY <1>5, <2>4
  <2>5. CASE (\E c \in Contests : CloseEntries({c})) \/ CloseEntries(Contests)
    BY <1>6, <1>10, <2>5
  <2>6. QED  BY <1>11, <2>1, <2>2, <2>3, <2>4, <2>5 DEF BudgetNext
<1>12. QED  BY <1>9, <1>11

\* The invariant of the memory's account.
THEOREM BudgetInvariant == BudgetSpec => []BudgetInv
<1>1. BudgetInit => BudgetInv
  BY BudgetInitInv
<1>2. BudgetInv /\ [BudgetNext]_budgetVars => BudgetInv'
  BY BudgetNextInv
<1>3. QED  BY <1>1, <1>2, PTL DEF BudgetSpec

\* Type correctness of CacheBudget: the counters and reference counts of
\* contest-event-read-cache.ts are never below zero.
THEOREM BudgetTypeCorrect == BudgetSpec => []BudgetTypeOK
<1>1. ASSUME BudgetInv
      PROVE  BudgetTypeOK
  <2>1. ledger \in Ledgers /\ PinsOK /\ FlightsOK(flight, ledger, entry)
    BY <1>1 DEF BudgetInv, Books
  <2>2. ASSUME NEW s \in DOMAIN pins
        PROVE  pins[s] \in 1 .. Cardinality(Responses)
    <3>. DEFINE Q == {r \in Responses : responses[r].parts = s}
    <3>1. s \in Answering /\ pins[s] = Cardinality(Q)
      BY <2>1 DEF PinsOK
    <3>2. Q # {}
      BY <3>1 DEF Answering
    <3>3. IsFiniteSet(Responses) /\ Q \in SUBSET Responses
      BY CacheBudgetAssumption
    <3>. HIDE DEF Q
    <3>4. /\ IsFiniteSet(Q) /\ Cardinality(Q) <= Cardinality(Responses)
      BY <3>3, FS_Subset
    <3>5. Cardinality(Q) \in Nat /\ Cardinality(Responses) \in Nat
      BY <3>3, <3>4, FS_CardinalityType
    <3>6. Cardinality(Q) # 0
      BY <3>2, <3>4, FS_EmptySet
    <3>7. QED  BY <3>1, <3>4, <3>5, <3>6
  <2>3. ASSUME NEW f \in Flights
        PROVE  /\ flight[f].reserved >= flight[f].buffered
               /\ flight[f].phase = "idle" <=> flight[f] = IdleFlight
    <3>1. FlightOK(flight, f) /\ flight[f] \in FlightRecords
      BY <2>1 DEF FlightsOK
    <3>2. flight[f].reserved \in Nat /\ flight[f].buffered \in Nat
      BY <3>1 DEF FlightRecords
    <3>3. QED  BY <3>1, <3>2 DEF FlightOK
  <2>4. QED  BY <2>1, <2>2, <2>3 DEF BudgetTypeOK, Ledgers
<1>2. BudgetInv => BudgetTypeOK
  BY <1>1
<1>3. QED  BY <1>2, BudgetInvariant, PTL

\* What the counters of contest-event-read-cache.ts say is what is there, and within the
\* budgets, whatever snapshots share, and in whatever order they are pinned, superseded
\* and released.
THEOREM MemoryAlwaysAccounted == BudgetSpec => []MemoryIsAccounted
<1>1. ASSUME BudgetInv
      PROVE  MemoryIsAccounted
  <2>. DEFINE there == UNION (Resident \cup Answering)
              Held(c) == ledger.snapshot[c] \cup
                UNION {responses[r].parts : r \in {r \in Responses : responses[r].contest = c}}
  <2>1. /\ Books(ledger, Owed(flight), OwedBy(flight)) /\ Within(ledger) /\ ResponsesOK
        /\ ledger \in Ledgers /\ SharesOK(ledger) /\ RefsOK(ledger)
    BY <1>1 DEF BudgetInv, Books, PinsOK
  <2>2. there = HeldBy(ledger)
    <3>1. UNION ({ledger.snapshot[c] : c \in Contests} \cup ledger.retired
                   \cup {responses[r].parts : r \in Responses}) = HeldBy(ledger)
      BY <2>1, UsedIsHeld
    <3>2. ASSUME NEW p, NEW t \in ledger.retired, p \in t
          PROVE  \E r \in Responses : p \in responses[r].parts
      BY <2>1, <3>2 DEF SharesOK
    <3>3. ASSUME NEW p
          PROVE  p \in there <=>
                   \/ \E c \in Contests : p \in ledger.snapshot[c]
                   \/ \E r \in Responses : p \in responses[r].parts
      BY DEF Resident, Answering, NoParts
    <3>4. ASSUME NEW p
          PROVE  p \in HeldBy(ledger) <=>
                   \/ \E c \in Contests : p \in ledger.snapshot[c]
                   \/ \E r \in Responses : p \in responses[r].parts
      BY <3>1, <3>2
    <3>. HIDE DEF there
    <3>5. QED  BY <3>3, <3>4
  <2>3. \A c \in Contests : Held(c) = HeldFor(ledger, c)
    BY DEF HeldFor, PinnedFor
  <2>4. /\ Reserved(Flights) = Owed(flight)
        /\ \A c \in Contests : Reserved(Underway(c, flight)) = OwedBy(flight)[c]
    BY DEF Reserved, Owed, OwedBy, Units
  <2>5. \A p \in Parts : IsAccounted(ledger.refs[p]) <=> p \in HeldBy(ledger)
    BY <2>1, AccountedIsHeld
  <2>6. ledger.total = Cardinality(there) + Reserved(Flights) /\ ledger.total <= MaxBytes
    <3>1. Cardinality(there) = Cardinality(HeldBy(ledger))
      BY <2>2
    <3>. HIDE DEF there
    <3>2. QED  BY <2>1, <2>4, <3>1 DEF Books, Within
  <2>7. ASSUME NEW c \in Contests
        PROVE  /\ ledger.byContest[c] = Cardinality(Held(c)) + Reserved(Underway(c, flight))
               /\ ledger.byContest[c] <= MaxEntryBytes
    <3>1. Cardinality(Held(c)) = Cardinality(HeldFor(ledger, c))
      BY <2>3
    <3>. HIDE DEF Held
    <3>2. QED  BY <2>1, <2>4, <3>1 DEF Books, Within
  <2>8. \A p \in Parts : IsAccounted(ledger.refs[p]) <=> p \in there
    BY <2>2, <2>5
  <2>. HIDE DEF there
  <2>9. QED  BY <2>6, <2>7, <2>8 DEF MemoryIsAccounted, there
<1>2. BudgetInv => MemoryIsAccounted
  BY <1>1
<1>3. QED  BY <1>2, BudgetInvariant, PTL

\* What an append or a hydration has built always fits what was reserved for it, and a
\* hydration that still counts is its entry's, and extends the snapshot that is there.
THEOREM ReservationsAlwaysSuffice == BudgetSpec => []ReservationsSuffice
<1>1. ASSUME BudgetInv
      PROVE  ReservationsSuffice
  <2>1. overrun = FALSE /\ FlightsOK(flight, ledger, entry)
    BY <1>1 DEF BudgetInv
  <2>2. ASSUME NEW f \in Flights, flight[f].phase \notin {"idle", "cancelled", "detached"}
        PROVE  /\ entry[flight[f].contest].hydration = f
               /\ flight[f].base # NoParts =>
                    flight[f].base = ledger.snapshot[flight[f].contest]
    <3>1. flight[f] \in FlightRecords
      BY <2>1 DEF FlightsOK
    <3>2. flight[f].phase \in FlightPhases
      BY <3>1 DEF FlightRecords
    <3>3. flight[f].phase \in CountingPhases
      BY <2>2, <3>2 DEF FlightPhases, CountingPhases
    <3>4. QED  BY <2>1, <3>3 DEF FlightsOK, Counts
  <2>3. QED  BY <2>1, <2>2 DEF ReservationsSuffice
<1>2. BudgetInv => ReservationsSuffice
  BY <1>1
<1>3. QED  BY <1>2, BudgetInvariant, PTL

=============================================================================
