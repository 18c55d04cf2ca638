------------------------- MODULE EventStreamProofs -------------------------
(***************************************************************************)
(* Proofs about the event log and about the final archive that is built    *)
(* from it.                                                                *)
(*                                                                         *)
(* EventStream: for every set of producers, solutions, times and batches.  *)
(* The inductive invariant adds to the properties what an absent contest   *)
(* looks like and that a NEW row carries its own time.                     *)
(*                                                                         *)
(* Finalization: for any number of finalizers, uploads and changes of the  *)
(* log.  FinInv adds to the properties what connects a request, its        *)
(* transaction, its file row and its object.                               *)
(***************************************************************************)
EXTENDS EventStreamProps, FinalizationProps, WellFoundedInduction, TLAPS

\* Every non-empty set of naturals has a least element.
LEMMA LeastElement ==
  ASSUME NEW T \in SUBSET Nat, T # {}
  PROVE  \E x \in T : \A y \in T : x <= y
<1>1. PICK x \in T : \A y \in T : ~ (<<y, x>> \in OpToRel(<, Nat))
  <2>. HIDE DEF OpToRel
  <2>1. IsWellFoundedOn(OpToRel(<, Nat), Nat)
    BY NatLessThanWellFounded
  <2>2. QED  BY <2>1, WFMin
<1>2. \A y \in T : ~ (y < x)
  <2>. TAKE y \in T
  <2>1. y < x => <<y, x>> \in OpToRel(<, Nat)
    BY DEF OpToRel
  <2>2. QED  BY <1>1, <2>1
<1>3. QED  BY <1>2

\* A non-empty set of naturals with an upper bound has a greatest element.
LEMMA GreatestElement ==
  ASSUME NEW T \in SUBSET Nat, T # {}, NEW m \in Nat, \A y \in T : y <= m
  PROVE  \E x \in T : \A y \in T : y <= x
<1>. DEFINE U == { k \in Nat : \A y \in T : y <= k }
<1>1. PICK k \in U : \A j \in U : k <= j
  BY LeastElement
<1>2. CASE k \in T
  BY <1>2
<1>3. CASE k \notin T
  <2>. PICK y \in T : TRUE
    OBVIOUS
  <2>1. k # 0
    BY <1>1, <1>3
  <2>2. k - 1 \in U
    BY <1>1, <1>3, <2>1
  <2>3. QED  BY <1>1, <2>1, <2>2
<1>4. QED  BY <1>2, <1>3

----------------------------------------------------------------------------

\* Before createContest there is nothing.
AbsentIsEmpty ==
  contest.status = "Absent" =>
    /\ rows = {} /\ writers = {} /\ acked = {}
    /\ stream.rev = 1

\* fillSolutionSubmitTime gives a NEW event its own time.
NewCarriesItsTime == \A r \in rows : r.type = "NEW" => r.submit = r.time

IInv ==
  /\ TypeOK
  /\ AbsentIsEmpty
  /\ NewCarriesItsTime
  /\ LogContiguous
  /\ WatermarkIsLogEnd
  /\ AckDurable
  /\ SubmitTimeResolved
  /\ SingleWriter
  /\ SealedIsJudged

----------------------------------------------------------------------------
\* What validateProducerBatch has established about a batch.
LEMMA BatchFacts ==
  ASSUME NEW b \in Batches
  PROVE  /\ Len(b) \in Nat \ {0}
         /\ \A i \in 1 .. Len(b) : b[i] \in ProducerEvent /\ b[i].id \in Nat \ {0}
         /\ \A i, j \in 1 .. Len(b) : i < j => b[i].id < b[j].id
         /\ \A i \in 1 .. Len(b) : b[i].id <= b[Len(b)].id
<1>1. WellFormedBatch(b)
  BY StreamAssumption
<1>2. /\ b \in Seq(ProducerEvent)
      /\ b # << >>
      /\ \A i, j \in 1 .. Len(b) : i < j => b[i].id < b[j].id
  BY <1>1 DEF WellFormedBatch
<1>3. Len(b) \in Nat \ {0}
  BY <1>2
<1>4. \A i \in 1 .. Len(b) : b[i] \in ProducerEvent /\ b[i].id \in Nat \ {0}
  <2>1. \A i \in 1 .. Len(b) : b[i] \in ProducerEvent
    BY <1>2
  <2>2. \A e \in ProducerEvent : e.id \in Nat \ {0}
    BY DEF ProducerEvent
  <2>3. QED  BY <2>1, <2>2
<1>5. \A i \in 1 .. Len(b) : b[i].id <= b[Len(b)].id
  <2>. TAKE i \in 1 .. Len(b)
  <2>1. CASE i = Len(b)
    BY <2>1, <1>4
  <2>2. CASE i # Len(b)
    BY <2>2, <1>2, <1>3, <1>4
  <2>3. QED  BY <2>1, <2>2
<1>6. QED  BY <1>2, <1>3, <1>4, <1>5

\* A fresh event of a gap-free batch lies strictly beyond the watermark, and
\* the batch fills every id from the old watermark to the new one.
LEMMA BatchFillsTheTail ==
  ASSUME TypeOK, WatermarkIsLogEnd, NEW b \in Batches, NoGap(b)
  PROVE  /\ \A i \in Fresh(b) : b[i].id > stream.last
         /\ Max2(stream.last, b[Len(b)].id) \in Nat
         /\ \A n \in (stream.last + 1) .. Max2(stream.last, b[Len(b)].id) :
              \E i \in Fresh(b) : b[i].id = n
<1>1. /\ stream.last \in Nat
      /\ stream.rev \in Nat \ {0}
  BY DEF TypeOK, Stream
<1>2. \A i \in 1 .. Len(b) : CursorBefore(b, i) \in Nat
                             /\ CursorBefore(b, i) >= stream.last
  BY <1>1, BatchFacts DEF CursorBefore, Max2
<1>3. \A i \in Fresh(b) : b[i].id > stream.last
  BY <1>1, <1>2, BatchFacts DEF NoGap, Fresh
<1>4. Max2(stream.last, b[Len(b)].id) \in Nat
  BY <1>1, BatchFacts DEF Max2
<1>5. ASSUME NEW n \in (stream.last + 1) .. Max2(stream.last, b[Len(b)].id)
      PROVE  \E i \in Fresh(b) : b[i].id = n
  <2>. DEFINE U == { i \in 1 .. Len(b) : b[i].id >= n }
  <2>1. n \in Nat /\ n > stream.last
    BY <1>1, <1>4
  <2>2. Len(b) \in U
    BY <1>1, <1>5, <2>1, BatchFacts DEF Max2
  <2>3. U \subseteq Nat
    BY BatchFacts
  <2>4. PICK k \in U : \A j \in U : k <= j
    BY <2>2, <2>3, LeastElement
  <2>5. k \in 1 .. Len(b) /\ b[k].id >= n
    BY <2>4
  <2>6. k \in Fresh(b)
    BY <1>1, <2>1, <2>5, BatchFacts DEF WatermarkIsLogEnd, Fresh, Stored, CurrentRows
  <2>7. b[k].id = CursorBefore(b, k) + 1
    BY <2>6 DEF NoGap
  <2>8. CASE k = 1
    BY <1>1, <2>1, <2>5, <2>6, <2>7, <2>8 DEF CursorBefore
  <2>9. CASE k # 1
    <3>1. k - 1 \in 1 .. Len(b) /\ k - 1 \notin U
      BY <2>4, <2>5, <2>9, BatchFacts
    <3>2. b[k - 1].id < n /\ b[k - 1].id \in Nat
      BY <2>1, <3>1, BatchFacts
    <3>3. CursorBefore(b, k) = Max2(stream.last, b[k - 1].id)
      BY <2>9 DEF CursorBefore
    <3>4. CursorBefore(b, k) <= n - 1 /\ CursorBefore(b, k) \in Nat
      BY <1>1, <2>1, <3>2, <3>3 DEF Max2
    <3>5. b[k].id = n
      BY <2>1, <2>5, <2>7, <3>4, BatchFacts
    <3>6. QED  BY <2>6, <3>5
  <2>10. QED  BY <2>8, <2>9
<1>6. QED  BY <1>3, <1>4, <1>5

----------------------------------------------------------------------------
\* The submit time that is stored: of the right kind, and for an event that
\* needs one it comes from the batch's own NEW events or from a stored NEW.
LEMMA SubmitTimeFacts ==
  ASSUME TypeOK, NEW b \in Batches, NEW i \in 1 .. Len(b),
         NEW persisted \in PersistedSubmitTimes,
         NeedsSubmitTime(b[i]) => SubmitTime(b, i, persisted) # NoTime
  PROVE  /\ SubmitTime(b, i, persisted) \in Times \cup {NoTime}
         /\ b[i].type = "NEW" => SubmitTime(b, i, persisted) = b[i].time
         /\ NeedsSubmitTime(b[i]) =>
              \/ \E j \in BatchNews(b, i) : SubmitTime(b, i, persisted) = b[j].time
              \/ \E r \in NewRows(b[i].sol) : SubmitTime(b, i, persisted) = r.submit
<1>1. b[i] \in ProducerEvent /\ (\A j \in 1 .. (i - 1) : b[j] \in ProducerEvent)
  BY BatchFacts
<1>2. \A e \in ProducerEvent :
        /\ e.time \in Times
        /\ e.type \in EventTypes
        /\ NeedsSubmitTime(e) => e.sol \in Solutions
  BY DEF ProducerEvent, NeedsSubmitTime
<1>3. CASE b[i].type = "NEW"
  BY <1>1, <1>2, <1>3 DEF SubmitTime, NeedsSubmitTime
<1>4. CASE b[i].type = "CONFIG"
  BY <1>4 DEF SubmitTime, NeedsSubmitTime
<1>5. CASE NeedsSubmitTime(b[i]) /\ BatchNews(b, i) # {}
  <2>. DEFINE j == CHOOSE j \in BatchNews(b, i) :
                     \A k \in BatchNews(b, i) : k <= j
  <2>1. BatchNews(b, i) \subseteq 1 .. (i - 1)
    BY DEF BatchNews
  <2>2. \E k \in BatchNews(b, i) : \A l \in BatchNews(b, i) : l <= k
    <3>1. BatchNews(b, i) \in SUBSET Nat /\ (\A y \in BatchNews(b, i) : y <= i)
      BY <2>1, BatchFacts
    <3>2. i \in Nat
      BY BatchFacts
    <3>3. QED  BY <1>5, <3>1, <3>2, GreatestElement
  <2>3. j \in BatchNews(b, i)
    BY <2>2
  <2>4. SubmitTime(b, i, persisted) = b[j].time
    BY <1>5 DEF SubmitTime, NeedsSubmitTime
  <2>5. b[j].time \in Times
    BY <1>1, <1>2, <2>1, <2>3
  <2>. HIDE DEF j
  <2>6. QED  BY <1>5, <2>3, <2>4, <2>5 DEF NeedsSubmitTime
<1>6. CASE NeedsSubmitTime(b[i]) /\ BatchNews(b, i) = {}
  <2>1. SubmitTime(b, i, persisted) = persisted[b[i].sol]
    BY <1>6 DEF SubmitTime, NeedsSubmitTime
  <2>2. b[i].sol \in Solutions
    BY <1>1, <1>2, <1>6
  <2>3. persisted[b[i].sol] \in Times \cup {NoTime}
    BY <2>2 DEF PersistedSubmitTimes
  <2>4. \E r \in NewRows(b[i].sol) : persisted[b[i].sol] = r.submit
    BY <1>6, <2>1, <2>2 DEF PersistedSubmitTimes
  <2>5. QED  BY <1>6, <2>1, <2>3, <2>4 DEF NeedsSubmitTime
<1>7. QED  BY <1>1, <1>2, <1>3, <1>4, <1>5, <1>6 DEF EventTypes, NeedsSubmitTime

----------------------------------------------------------------------------
\* One append preserves the inductive invariant.
LEMMA AppendPreserves ==
  ASSUME IInv, NEW p \in Producers, NEW rev \in 1 .. MaxRevision,
         NEW b \in Batches, NEW persisted \in PersistedSubmitTimes,
         AppendProducerEvents(p, rev, b, persisted)
  PROVE  IInv'
<1>. DEFINE new == Inserted(b, persisted)
            last == Max2(stream.last, b[Len(b)].id)
<1>1. /\ rev = stream.rev
      /\ contest.status # "Absent" /\ contest.status # "Finalized"
      /\ contest' = contest
      /\ rows' = rows \cup new
      /\ stream' = [stream EXCEPT !.producer = p, !.last = last]
      /\ NoConflict(b) /\ NoGap(b) /\ Submitted(b, persisted)
      /\ stream.producer \in {NoProducer, p}
  BY DEF AppendProducerEvents, MayAppend, Live
<1>2. /\ TypeOK /\ AbsentIsEmpty /\ NewCarriesItsTime /\ LogContiguous
      /\ WatermarkIsLogEnd /\ AckDurable /\ SubmitTimeResolved /\ SingleWriter
  BY DEF IInv
<1>3. /\ stream.rev \in Nat \ {0} /\ stream.last \in Nat
      /\ last \in Nat /\ last >= stream.last
      /\ stream'.rev = stream.rev /\ stream'.last = last /\ stream'.producer = p
  BY <1>1, <1>2, BatchFacts, BatchFillsTheTail DEF TypeOK, Stream, Max2
<1>4. \A i \in Fresh(b) : /\ i \in 1 .. Len(b)
                          /\ b[i].id > stream.last /\ b[i].id <= last
                          /\ b[i].id \in Nat \ {0}
  <2>1. \A i \in Fresh(b) : i \in 1 .. Len(b) /\ b[i].id > stream.last
    BY <1>1, <1>2, BatchFillsTheTail DEF Fresh
  <2>2. \A i \in 1 .. Len(b) : b[i].id <= last
    BY <1>3, BatchFacts DEF Max2
  <2>3. QED  BY <2>1, <2>2, BatchFacts
<1>5. \A n \in (stream.last + 1) .. last : \E i \in Fresh(b) : b[i].id = n
  BY <1>1, <1>2, BatchFillsTheTail
<1>6. \A i \in Fresh(b) :
        /\ SubmitTime(b, i, persisted) \in Times \cup {NoTime}
        /\ b[i].type = "NEW" => SubmitTime(b, i, persisted) = b[i].time
        /\ NeedsSubmitTime(b[i]) =>
             \/ \E j \in BatchNews(b, i) : SubmitTime(b, i, persisted) = b[j].time
             \/ \E r \in NewRows(b[i].sol) : SubmitTime(b, i, persisted) = r.submit
  BY <1>1, <1>2, <1>4, SubmitTimeFacts DEF Submitted
<1>7. \A i \in Fresh(b) :
        /\ NewRow(b, i, persisted) \in new
        /\ NewRow(b, i, persisted).rev = stream.rev
        /\ NewRow(b, i, persisted).id = b[i].id
        /\ NewRow(b, i, persisted).submit = SubmitTime(b, i, persisted)
        /\ SamePayload(NewRow(b, i, persisted), b[i])
  BY DEF Inserted, NewRow, SamePayload
<1>8. \A r \in new : \E i \in Fresh(b) : r = NewRow(b, i, persisted)
  BY DEF Inserted
<1>9. new \subseteq Row
  <2>1. \A e \in ProducerEvent : /\ e.id \in Nat \ {0} /\ e.type \in EventTypes
                                 /\ e.sol \in Solutions \cup {NoSolution}
                                 /\ e.time \in Times /\ e.judged \in BOOLEAN
    BY DEF ProducerEvent
  <2>2. ASSUME NEW i \in Fresh(b)  PROVE NewRow(b, i, persisted) \in Row
    <3>1. b[i] \in ProducerEvent
      BY <1>4, BatchFacts
    <3>2. QED  BY <1>3, <1>6, <2>1, <3>1 DEF NewRow, Row
  <2>3. QED  BY <1>8, <2>2
<1>. HIDE DEF new, last
<1>10. TypeOK'
  <2>1. contest' \in Contest /\ rows' \subseteq Row /\ stream' \in Stream
    BY <1>1, <1>2, <1>3, <1>9 DEF TypeOK, Stream
  <2>2. writers' \subseteq Producers
    BY <1>2 DEF TypeOK, AppendProducerEvents
  <2>3. acked' \subseteq [rev : Nat \ {0}, event : ProducerEvent]
    BY <1>1, <1>2, <1>3, BatchFacts DEF TypeOK, AppendProducerEvents
  <2>4. QED  BY <2>1, <2>2, <2>3 DEF TypeOK
<1>11. AbsentIsEmpty'
  BY <1>1 DEF AbsentIsEmpty
<1>12. NewCarriesItsTime'
  BY <1>1, <1>2, <1>6, <1>7, <1>8 DEF NewCarriesItsTime, SamePayload
<1>13. LogContiguous'
  <2>1. ASSUME NEW r \in rows', NEW q \in rows', r.rev = q.rev, r.id = q.id
        PROVE  r = q
    <3>1. CASE r \in rows /\ q \in rows
      BY <1>2, <2>1, <3>1 DEF LogContiguous
    <3>2. \A x \in new : x.rev = stream.rev /\ x.id > stream.last
      BY <1>4, <1>7, <1>8
    <3>3. \A x \in rows : x.rev = stream.rev => x.id <= stream.last
      BY <1>2 DEF WatermarkIsLogEnd, CurrentRows
    <3>4. \A x \in rows \cup new : x.id \in Nat
      BY <1>2, <1>9 DEF TypeOK, Row
    <3>5. CASE r \in new /\ q \in new
      <4>1. PICK i, j \in Fresh(b) :
              r = NewRow(b, i, persisted) /\ q = NewRow(b, j, persisted)
        BY <1>8, <3>5
      <4>2. b[i].id = b[j].id
        BY <1>7, <2>1, <4>1
      <4>3. i = j
        BY <1>4, <4>2, BatchFacts
      <4>4. QED  BY <4>1, <4>3
    <3>6. QED  BY <1>1, <1>3, <2>1, <3>1, <3>2, <3>3, <3>4, <3>5
  <2>2. ASSUME NEW r \in rows', NEW n \in 1 .. r.id
        PROVE  \E q \in rows' : q.rev = r.rev /\ q.id = n
    <3>1. CASE r \in rows
      BY <1>1, <1>2, <3>1 DEF LogContiguous
    <3>2. CASE r \in new
      <4>1. r.rev = stream.rev /\ r.id \in Nat /\ r.id <= last
        BY <1>4, <1>7, <1>8, <3>2
      <4>2. CASE n <= stream.last
        <5>1. PICK x \in CurrentRows : x.id = stream.last
          BY <1>2, <1>3, <4>1, <4>2 DEF WatermarkIsLogEnd
        <5>2. n \in 1 .. x.id
          BY <1>3, <4>1, <4>2, <5>1
        <5>3. QED  BY <1>1, <1>2, <4>1, <5>1, <5>2 DEF LogContiguous, CurrentRows
      <4>3. CASE n > stream.last
        <5>1. PICK i \in Fresh(b) : b[i].id = n
          BY <1>3, <1>5, <4>1, <4>3
        <5>2. QED  BY <1>1, <1>7, <4>1, <5>1
      <4>4. QED  BY <1>3, <4>1, <4>2, <4>3
    <3>3. QED  BY <1>1, <3>1, <3>2
  <2>3. QED  BY <2>1, <2>2 DEF LogContiguous
<1>14. WatermarkIsLogEnd'
  <2>1. \A r \in rows' : r.rev \in Nat /\ r.rev <= stream.rev /\ r.id \in Nat
    BY <1>1, <1>2, <1>3, <1>7, <1>8, <1>9 DEF WatermarkIsLogEnd, TypeOK, Row
  <2>2. \A r \in rows' : r.rev = stream.rev => r.id <= last
    <3>1. \A r \in new : r.id <= last
      BY <1>4, <1>7, <1>8
    <3>2. \A r \in rows : r.rev = stream.rev => r.id <= stream.last
      BY <1>2 DEF WatermarkIsLogEnd, CurrentRows
    <3>3. QED  BY <1>1, <1>3, <2>1, <3>1, <3>2
  <2>3. last > 0 => \E r \in rows' : r.rev = stream.rev /\ r.id = last
    <3>1. CASE last = stream.last
      BY <1>1, <1>2, <3>1 DEF WatermarkIsLogEnd, CurrentRows
    <3>2. CASE last # stream.last
      <4>1. PICK i \in Fresh(b) : b[i].id = last
        BY <1>3, <1>5, <3>2
      <4>2. QED  BY <1>1, <1>7, <4>1
    <3>3. QED  BY <3>1, <3>2
  <2>4. QED  BY <1>3, <2>1, <2>2, <2>3 DEF WatermarkIsLogEnd, CurrentRows
<1>15. AckDurable'
  <2>1. ASSUME NEW i \in 1 .. Len(b)
        PROVE  \E r \in rows' : r.rev = stream.rev /\ r.id = b[i].id
                                /\ SamePayload(r, b[i])
    <3>1. CASE i \in Fresh(b)
      BY <1>1, <1>7, <3>1
    <3>2. CASE i \notin Fresh(b)
      BY <1>1, <3>2 DEF Fresh, Stored, NoConflict
    <3>3. QED  BY <3>1, <3>2
  <2>2. \A a \in acked' : \/ a \in acked
                          \/ \E i \in 1 .. Len(b) : a = [rev |-> stream.rev, event |-> b[i]]
    BY <1>1 DEF AppendProducerEvents
  <2>3. QED  BY <1>1, <1>2, <2>1, <2>2 DEF AckDurable
<1>16. SubmitTimeResolved'
  <2>1. ASSUME NEW i \in Fresh(b), NeedsSubmitTime(b[i])
        PROVE  \E q \in rows' : /\ q.type = "NEW" /\ q.sol = b[i].sol
                                /\ q.rev = stream.rev /\ q.id < b[i].id
                                /\ q.submit = SubmitTime(b, i, persisted)
    <3>1. CASE \E r \in NewRows(b[i].sol) : SubmitTime(b, i, persisted) = r.submit
      <4>1. PICK r \in NewRows(b[i].sol) : SubmitTime(b, i, persisted) = r.submit
        BY <3>1
      <4>2. r \in rows /\ r.rev = stream.rev /\ r.type = "NEW" /\ r.sol = b[i].sol
        BY DEF NewRows
      <4>3. r.id <= stream.last /\ r.id \in Nat
        BY <1>2, <4>2 DEF WatermarkIsLogEnd, CurrentRows, TypeOK, Row
      <4>4. r.id < b[i].id
        BY <1>3, <1>4, <4>3
      <4>5. QED  BY <1>1, <4>1, <4>2, <4>4
    <3>2. CASE \E j \in BatchNews(b, i) : SubmitTime(b, i, persisted) = b[j].time
      <4>1. PICK j \in BatchNews(b, i) : SubmitTime(b, i, persisted) = b[j].time
        BY <3>2
      <4>2. /\ j \in 1 .. Len(b) /\ j < i
            /\ b[j].type = "NEW" /\ b[j].sol = b[i].sol
        BY <1>4, BatchFacts DEF BatchNews
      <4>3. b[j].id < b[i].id
        BY <1>4, <4>2, BatchFacts
      <4>4. CASE j \in Fresh(b)
        BY <1>1, <1>6, <1>7, <4>1, <4>2, <4>3, <4>4 DEF SamePayload
      <4>5. CASE j \notin Fresh(b)
        <5>1. PICK r \in Stored(b[j].id) : TRUE
          BY <4>2, <4>5 DEF Fresh
        <5>2. SamePayload(r, b[j]) /\ r \in rows /\ r.rev = stream.rev /\ r.id = b[j].id
          BY <1>1, <4>2, <5>1 DEF NoConflict, Stored
        <5>3. r.submit = b[j].time
          BY <1>2, <4>2, <5>2 DEF NewCarriesItsTime, SamePayload
        <5>4. QED  BY <1>1, <4>1, <4>2, <4>3, <5>2, <5>3 DEF SamePayload
      <4>6. QED  BY <4>4, <4>5
    <3>3. QED  BY <1>6, <2>1, <3>1, <3>2
  <2>2. ASSUME NEW r \in rows', NeedsSubmitTime(r)
        PROVE  \E q \in rows' : /\ q.type = "NEW" /\ q.sol = r.sol
                                /\ q.rev = r.rev /\ q.id < r.id
                                /\ q.submit = r.submit
    <3>1. CASE r \in rows
      BY <1>1, <1>2, <2>2, <3>1 DEF SubmitTimeResolved
    <3>2. CASE r \in new
      <4>1. PICK i \in Fresh(b) : r = NewRow(b, i, persisted)
        BY <1>8, <3>2
      <4>2. /\ r.rev = stream.rev /\ r.id = b[i].id /\ r.sol = b[i].sol
            /\ r.submit = SubmitTime(b, i, persisted) /\ NeedsSubmitTime(b[i])
        BY <1>7, <2>2, <4>1 DEF SamePayload, NeedsSubmitTime
      <4>3. QED  BY <2>1, <4>2
    <3>3. QED  BY <1>1, <3>1, <3>2
  <2>3. QED  BY <2>2 DEF SubmitTimeResolved
<1>17. SingleWriter'
  <2>1. \A w \in writers : w = p
    BY <1>1, <1>2, StreamAssumption DEF SingleWriter, TypeOK
  <2>2. QED  BY <1>3, <2>1 DEF AppendProducerEvents, SingleWriter
<1>18. SealedIsJudged'
  BY <1>1 DEF SealedIsJudged
<1>19. QED
  BY <1>10, <1>11, <1>12, <1>13, <1>14, <1>15, <1>16, <1>17, <1>18 DEF IInv

\* What the administrative transactions leave alone preserves the log's part
\* of the invariant: same rows and watermark, or a new empty revision.
LEMMA SameLogPreserves ==
  ASSUME IInv, rows' = rows, acked' = acked,
         stream' \in Stream, contest' \in Contest,
         stream'.rev = stream.rev /\ stream'.last = stream.last,
         writers' = {} \/ (writers' = writers /\ stream' = stream),
         contest'.status = "Absent" => contest.status = "Absent"
  PROVE  /\ TypeOK' /\ AbsentIsEmpty' /\ NewCarriesItsTime' /\ LogContiguous'
         /\ WatermarkIsLogEnd' /\ AckDurable' /\ SubmitTimeResolved' /\ SingleWriter'
<1>1. TypeOK' /\ AbsentIsEmpty' /\ NewCarriesItsTime'
  BY DEF IInv, TypeOK, AbsentIsEmpty, NewCarriesItsTime
<1>2. LogContiguous' /\ AckDurable' /\ SubmitTimeResolved'
  BY DEF IInv, LogContiguous, AckDurable, SubmitTimeResolved
<1>3. WatermarkIsLogEnd'
  BY DEF IInv, WatermarkIsLogEnd, CurrentRows
<1>4. SingleWriter'
  BY DEF IInv, SingleWriter
<1>5. QED  BY <1>1, <1>2, <1>3, <1>4

\* A step of any other transaction preserves the inductive invariant.
LEMMA AdminPreserves ==
  ASSUME IInv,
         \/ \E freeze \in FreezeStarts \cup {NoFreeze} : CreateContest(freeze)
         \/ ReleaseProducerLock
         \/ DropEvents
         \/ \E freeze \in FreezeStarts \cup {NoFreeze} : UpdateFreeze(freeze)
         \/ \E freeze \in FreezeStarts \cup {NoFreeze} : AttachArchive(freeze)
         \/ Finalize
         \/ DeleteContest
  PROVE  IInv'
<1>1. TypeOK /\ SealedIsJudged /\ WatermarkIsLogEnd /\ AbsentIsEmpty /\ LogContiguous
  BY DEF IInv
<1>2. /\ stream \in Stream /\ contest \in Contest /\ rows \subseteq Row
      /\ stream.rev \in Nat \ {0} /\ stream.last \in Nat
  BY <1>1 DEF TypeOK, Stream
<1>3. ASSUME NEW freeze \in FreezeStarts \cup {NoFreeze}, CreateContest(freeze)
      PROVE  IInv'
  <2>1. /\ rows' = {} /\ acked' = {} /\ writers' = {}
        /\ contest' \in Contest /\ stream' \in Stream
        /\ contest'.status = "Created"
        /\ stream'.rev = 1 /\ stream'.last = 0
    BY <1>1, <1>3 DEF CreateContest, AbsentIsEmpty, Contest, Stream
  <2>2. QED
    BY <2>1 DEF IInv, TypeOK, AbsentIsEmpty, NewCarriesItsTime, LogContiguous,
                WatermarkIsLogEnd, CurrentRows, AckDurable, SubmitTimeResolved,
                SingleWriter, SealedIsJudged
<1>4. CASE ReleaseProducerLock
  <2>1. /\ rows' = rows /\ acked' = acked /\ writers' = {} /\ contest' = contest
        /\ stream' \in Stream
        /\ stream'.rev = stream.rev /\ stream'.last = stream.last
    BY <1>2, <1>4 DEF ReleaseProducerLock, Stream
  <2>2. SealedIsJudged'
    <3>1. CurrentRows' = CurrentRows
      BY <2>1 DEF CurrentRows
    <3>2. QED  BY <1>1, <2>1, <3>1 DEF SealedIsJudged
  <2>3. QED  BY <1>2, <2>1, <2>2, SameLogPreserves DEF IInv
<1>5. CASE DropEvents
  <2>1. /\ rows' = rows /\ acked' = acked /\ writers' = {} /\ contest' = contest
        /\ stream' \in Stream /\ contest.status # "Absent"
        /\ contest.status # "Finalized"
        /\ stream'.rev = stream.rev + 1 /\ stream'.last = 0
    BY <1>2, <1>5 DEF DropEvents, Live, Stream
  <2>2. \A r \in rows : r.rev \in Nat /\ r.rev <= stream.rev
    BY <1>1, <1>2 DEF WatermarkIsLogEnd, Row
  <2>3. WatermarkIsLogEnd'
    BY <1>2, <2>1, <2>2 DEF WatermarkIsLogEnd, CurrentRows
  <2>4. TypeOK' /\ AbsentIsEmpty' /\ SingleWriter' /\ SealedIsJudged'
    BY <1>1, <2>1 DEF TypeOK, AbsentIsEmpty, SingleWriter, SealedIsJudged
  <2>5. LogContiguous' /\ AckDurable' /\ SubmitTimeResolved' /\ NewCarriesItsTime'
    BY <2>1 DEF IInv, LogContiguous, AckDurable, SubmitTimeResolved, NewCarriesItsTime
  <2>6. QED  BY <2>3, <2>4, <2>5 DEF IInv
<1>6. ASSUME NEW freeze \in FreezeStarts \cup {NoFreeze}, UpdateFreeze(freeze)
      PROVE  IInv'
  <2>1. /\ UNCHANGED <<stream, rows, acked, writers>>
        /\ contest' \in Contest /\ contest'.status = "Created"
    BY <1>2, <1>6 DEF UpdateFreeze, Contest
  <2>2. SealedIsJudged'
    BY <2>1 DEF SealedIsJudged
  <2>3. QED  BY <1>2, <2>1, <2>2, SameLogPreserves DEF IInv
<1>7. ASSUME NEW freeze \in FreezeStarts \cup {NoFreeze}, AttachArchive(freeze)
      PROVE  IInv'
  <2>1. /\ UNCHANGED <<stream, rows, acked, writers>>
        /\ contest' \in Contest /\ contest'.status # "Absent"
        /\ contest'.status = "Finalized" =>
             stream.last = 0 \/ contest.status = "Finalized"
    BY <1>2, <1>7 DEF AttachArchive, Live, Contest
  <2>2. SealedIsJudged'
    <3>1. CurrentRows' = CurrentRows
      BY <2>1 DEF CurrentRows
    <3>2. QED  BY <1>1, <1>2, <2>1, <3>1 DEF SealedIsJudged
  <2>3. QED  BY <1>2, <2>1, <2>2, SameLogPreserves DEF IInv
<1>8. CASE Finalize
  <2>1. /\ UNCHANGED <<stream, rows, acked, writers>>
        /\ contest' \in Contest /\ contest'.status = "Finalized"
        /\ Finalizable
    BY <1>2, <1>8 DEF Finalize, Live, Contest
  <2>2. ASSUME NEW r \in CurrentRows, r.type = "NEW"
        PROVE  \E q \in CurrentRows :
                 /\ q.type \in Settling /\ q.judged /\ q.sol = r.sol /\ q.id > r.id
                 /\ \A x \in CurrentRows : x.sol = r.sol => x.id <= q.id
    <3>1. PICK q \in CurrentRows :
             /\ q.type \in Settling /\ q.judged /\ q.sol = r.sol
             /\ r.id <= q.id
             /\ \A x \in CurrentRows : x.sol = r.sol => x.id <= q.id
      BY <2>1, <2>2 DEF Finalizable
    <3>2. r.id # q.id
      BY <1>1, <2>2, <3>1 DEF LogContiguous, CurrentRows, Settling
    <3>3. r.id \in Nat /\ q.id \in Nat
      BY <1>2 DEF CurrentRows, Row
    <3>4. QED  BY <3>1, <3>2, <3>3
  <2>3. SealedIsJudged'
    <3>1. CurrentRows' = CurrentRows
      BY <2>1 DEF CurrentRows
    <3>2. QED  BY <2>1, <2>2, <3>1 DEF SealedIsJudged
  <2>4. QED  BY <1>2, <2>1, <2>3, SameLogPreserves DEF IInv
<1>9. CASE DeleteContest
  <2>1. /\ UNCHANGED <<stream, rows, acked, writers>>
        /\ contest' \in Contest /\ contest'.status = contest.status
    BY <1>2, <1>9 DEF DeleteContest, Contest
  <2>2. SealedIsJudged'
    <3>1. CurrentRows' = CurrentRows
      BY <2>1 DEF CurrentRows
    <3>2. QED  BY <1>1, <2>1, <3>1 DEF SealedIsJudged
  <2>3. QED  BY <1>2, <2>1, <2>2, SameLogPreserves DEF IInv
<1>10. QED  BY <1>3, <1>4, <1>5, <1>6, <1>7, <1>8, <1>9

\* The inductive invariant holds initially and every step preserves it.
THEOREM Inductive == Spec => []IInv
<1>1. Init => IInv
  BY DEF Init, IInv, TypeOK, Contest, Stream, AbsentIsEmpty, NewCarriesItsTime,
         LogContiguous, WatermarkIsLogEnd, CurrentRows, AckDurable,
         SubmitTimeResolved, SingleWriter, SealedIsJudged
<1>2. IInv /\ [Next]_vars => IInv'
  <2>. SUFFICES ASSUME IInv, [Next]_vars  PROVE IInv'
    OBVIOUS
  <2>1. CASE AppendSome
    BY <2>1, AppendPreserves DEF AppendSome
  <2>2. CASE UNCHANGED vars
    BY <2>2 DEF vars, IInv, TypeOK, AbsentIsEmpty, NewCarriesItsTime,
                LogContiguous, WatermarkIsLogEnd, CurrentRows, AckDurable,
                SubmitTimeResolved, SingleWriter, SealedIsJudged
  <2>3. QED  BY <2>1, <2>2, AdminPreserves DEF Next
<1>3. QED  BY <1>1, <1>2, PTL DEF Spec

\* Types of the rows and of the log.
THEOREM TypeCorrect == Spec => []TypeOK
<1>1. IInv => TypeOK
  BY DEF IInv
<1>2. QED  BY <1>1, Inductive, PTL

\* No hole and no duplicate id in any revision of the log, and the watermark is the
\* end of the current revision's.
THEOREM LogStaysWhole == Spec => []LogIsWhole
<1>1. IInv => LogIsWhole
  BY DEF IInv, LogIsWhole
<1>2. QED  BY <1>1, Inductive, PTL

\* An acknowledged event is in the log, with its payload.
THEOREM AcknowledgedIsDurable == Spec => []AckDurable
<1>1. IInv => AckDurable
  BY DEF IInv
<1>2. QED  BY <1>1, Inductive, PTL

\* Every event that is filtered by submit time carries the one of an earlier NEW.
THEOREM SubmitTimesResolved == Spec => []SubmitTimeResolved
<1>1. IInv => SubmitTimeResolved
  BY DEF IInv
<1>2. QED  BY <1>1, Inductive, PTL

\* One writer per lock tenure.
THEOREM OneWriter == Spec => []SingleWriter
<1>1. IInv => SingleWriter
  BY DEF IInv
<1>2. QED  BY <1>1, Inductive, PTL

\* A finalized stream has a final verdict for every submission.
THEOREM SealedStreamIsJudged == Spec => []SealedIsJudged
<1>1. IInv => SealedIsJudged
  BY DEF IInv
<1>2. QED  BY <1>1, Inductive, PTL

----------------------------------------------------------------------------
\* A row, once committed, stays as it is; new rows extend the current revision.
LEMMA LogIsAppendOnly == IInv /\ [Next]_vars => [AppendOnly]_vars
<1>1. ASSUME IInv, [Next]_vars
      PROVE  [ /\ rows \subseteq rows'
               /\ \A r \in rows' \ rows :
                    r.rev = stream.rev /\ r.id > stream.last ]_vars
  <2>1. CASE AppendSome
    <3>1. PICK p \in Producers, rev \in 1 .. MaxRevision, b \in Batches,
               persisted \in PersistedSubmitTimes :
                 AppendProducerEvents(p, rev, b, persisted)
      BY <2>1 DEF AppendSome
    <3>2. NoGap(b) /\ rows' = rows \cup Inserted(b, persisted)
      BY <3>1 DEF AppendProducerEvents
    <3>3. \A i \in Fresh(b) : b[i].id > stream.last
      BY <1>1, <3>2, BatchFillsTheTail DEF IInv
    <3>4. QED  BY <3>2, <3>3 DEF Inserted, NewRow
  <2>2. CASE ~ AppendSome /\ Next
    <3>1. contest.status = "Absent" => rows = {}
      BY <1>1 DEF IInv, AbsentIsEmpty
    <3>2. rows' = rows
      BY <2>2, <3>1 DEF Next, CreateContest, ReleaseProducerLock, DropEvents,
                        UpdateFreeze, AttachArchive, Finalize, DeleteContest
    <3>3. QED  BY <3>2
  <2>3. CASE UNCHANGED vars
    BY <2>3
  <2>4. QED  BY <1>1, <2>1, <2>2, <2>3
<1>2. QED  BY <1>1 DEF AppendOnly

\* What is announced after a commit never goes back and skips no revision.
LEMMA WatermarkOnlyGrows == IInv /\ [Next]_vars => [WatermarkMonotone]_vars
<1>1. ASSUME IInv, [Next]_vars
      PROVE  [ \/ stream'.rev = stream.rev + 1 /\ stream'.last = 0
               \/ stream'.rev = stream.rev /\ stream'.last >= stream.last ]_vars
  <2>1. /\ stream \in Stream /\ stream.rev \in Nat \ {0} /\ stream.last \in Nat
    BY <1>1 DEF IInv, TypeOK, Stream
  <2>2. CASE AppendSome
    <3>1. PICK p \in Producers, rev \in 1 .. MaxRevision, b \in Batches,
               persisted \in PersistedSubmitTimes :
                 AppendProducerEvents(p, rev, b, persisted)
      BY <2>2 DEF AppendSome
    <3>2. /\ stream'.rev = stream.rev
          /\ stream'.last = Max2(stream.last, b[Len(b)].id)
      BY <2>1, <3>1 DEF AppendProducerEvents, Stream
    <3>3. QED  BY <2>1, <3>2, BatchFacts DEF Max2
  <2>3. CASE \E freeze \in FreezeStarts \cup {NoFreeze} : CreateContest(freeze)
    <3>1. rows = {}
      BY <1>1, <2>3 DEF CreateContest, IInv, AbsentIsEmpty
    <3>2. stream.last = 0
      BY <1>1, <2>1, <3>1 DEF IInv, WatermarkIsLogEnd, CurrentRows
    <3>3. stream.rev = 1
      BY <1>1, <2>3 DEF CreateContest, IInv, AbsentIsEmpty
    <3>4. QED  BY <2>3, <3>2, <3>3 DEF CreateContest
  <2>4. CASE ReleaseProducerLock
    BY <2>1, <2>4 DEF ReleaseProducerLock, Stream
  <2>5. CASE DropEvents
    BY <2>1, <2>5 DEF DropEvents
  <2>6. CASE stream' = stream
    BY <2>1, <2>6
  <2>7. QED
    BY <1>1, <2>2, <2>3, <2>4, <2>5, <2>6
       DEF Next, UpdateFreeze, AttachArchive, Finalize, DeleteContest, vars
<1>2. QED  BY <1>1 DEF WatermarkMonotone

\* A finalized contest's log is final.
LEMMA FinalizedIsSealed == IInv /\ [Next]_vars => [SealedByFinalize]_vars
<1>1. ASSUME IInv, [Next]_vars
      PROVE  [ contest.status = "Finalized" =>
                 /\ contest'.status = "Finalized"
                 /\ rows' = rows
                 /\ stream'.rev = stream.rev
                 /\ stream'.last = stream.last ]_vars
  <2>1. contest \in Contest /\ stream \in Stream
    BY <1>1 DEF IInv, TypeOK
  <2>2. QED
    BY <1>1, <2>1
       DEF Next, AppendSome, AppendProducerEvents, MayAppend, CreateContest,
           ReleaseProducerLock, DropEvents, UpdateFreeze, AttachArchive,
           Finalize, DeleteContest, Live, Contest, Stream, vars
<1>2. QED  BY <1>1 DEF SealedByFinalize

\* History stands: no step rewrites the log, takes a watermark back or touches what
\* was finalized.
THEOREM HistoryIsKept == Spec => HistoryStands
<1>1. IInv /\ [Next]_vars => [AppendOnly /\ WatermarkMonotone /\ SealedByFinalize]_vars
  BY LogIsAppendOnly, WatermarkOnlyGrows, FinalizedIsSealed
<1>2. QED  BY <1>1, Inductive, PTL DEF Spec, HistoryStands

-----------------------------------------------------------------------------
\* The final archive (Finalization).

\* A row has its object, and so has a request that is about to write its row.
RowHasObject ==
  \A f \in Files :
    (fileRow[f] # "none" \/ progress[f] = "saving") => f \in objects

\* A request that has not begun has left no trace.
IdleIsBlank ==
  \A f \in Files :
    progress[f] = "idle" => f \notin objects \cup puts /\ fileRow[f] = "none"

\* Nothing is sent or written before the archive has been built.
BuiltFirst ==
  \A q \in Finalizers :
    /\ progress[q] \in {"uploading", "saving", "committing"} => built[q] # 0
    /\ progress[q] \in {"idle", "building"} => built[q] = 0
    /\ built[q] = 0 => q \notin objects \cup puts /\ fileRow[q] = "none"

\* A COMMIT under way belongs to an archive that is stored, and to a request that
\* is past the upload and does not remove it.
CommitIsPrepared ==
  \A q \in Finalizers :
    session[q] = "committing" =>
      /\ q \in objects
      /\ built[q] # 0
      /\ progress[q] \notin {"idle", "building", "uploading", "saving", "removing"}

\* The lock keeps the log as the archive was built from it, and afterwards the
\* contest's status does.
LockKeepsLog ==
  \A q \in Finalizers :
    (session[q] # "none" /\ built[q] # 0) => built[q] = log.version

CommitSealsLog ==
  \A q \in Finalizers :
    fileRow[q] # "none" => archive.status = "Finalized" /\ built[q] = log.version

\* Only a file with a row is ever attached.
AttachedHasRow == \A f \in Files : archive.file = f => fileRow[f] # "none"

\* A file is removed only when its transaction is over and has not written it.
RemovedHasNoRow ==
  \A q \in Finalizers :
    progress[q] = "removing" => session[q] = "none" /\ fileRow[q] = "none"

\* An answer that may turn out wrong is reported.
DoubtIsReported ==
  \A q \in Finalizers :
    (progress[q] = "error" /\ (session[q] = "committing" \/ fileRow[q] # "none"))
      => q \in reported

FinalIsLive ==
  (archive.status = "Finalized" /\ ~archive.deleted)
    => archive.file # NoFile /\ fileRow[archive.file] = "live"

OkIsFinal ==
  \A q \in Finalizers : progress[q] = "ok" => archive.status = "Finalized"

FinInv ==
  /\ FinalizationTypeOK
  /\ RowHasObject
  /\ IdleIsBlank
  /\ BuiltFirst
  /\ CommitIsPrepared
  /\ LockKeepsLog
  /\ CommitSealsLog
  /\ AttachedHasRow
  /\ RemovedHasNoRow
  /\ DoubtIsReported
  /\ FinalIsLive
  /\ OkIsFinal
  /\ NothingLeftBehind
----------------------------------------------------------------------------
\* The object store, and how an upload ends for its request.
LEMMA StoreSteps ==
  ASSUME FinInv, NEW f \in Files,
         StoreObject(f) \/ Uploaded(f) \/ UploadFails(f)
  PROVE  FinInv'
<1>. USE FinalizationAssumption
     DEF FinInv, FinalizationTypeOK, RowHasObject, IdleIsBlank, BuiltFirst,
         CommitIsPrepared, LockKeepsLog, CommitSealsLog, AttachedHasRow,
         RemovedHasNoRow, DoubtIsReported, FinalIsLive, OkIsFinal,
         NothingLeftBehind, Files, Over, Goto
<1>1. CASE StoreObject(f)
  BY <1>1 DEF StoreObject
<1>2. CASE Uploaded(f)
  BY <1>2 DEF Uploaded
<1>3. CASE UploadFails(f)
  BY <1>3 DEF UploadFails
<1>4. QED  BY <1>1, <1>2, <1>3

\* A finalizer on its way to the upload.
LEMMA BuildSteps ==
  ASSUME FinInv, NEW q \in Finalizers,
         FinalizeRefused(q) \/ AlreadyFinal(q) \/ LockContest(q)
         \/ Generate(q) \/ GenerateFails(q)
  PROVE  FinInv'
<1>. USE FinalizationAssumption
     DEF FinInv, FinalizationTypeOK, RowHasObject, IdleIsBlank, BuiltFirst,
         CommitIsPrepared, LockKeepsLog, CommitSealsLog, AttachedHasRow,
         RemovedHasNoRow, DoubtIsReported, FinalIsLive, OkIsFinal,
         NothingLeftBehind, Files, Over, Goto
<1>1. CASE FinalizeRefused(q)
  BY <1>1 DEF FinalizeRefused
<1>2. CASE AlreadyFinal(q)
  BY <1>2 DEF AlreadyFinal, Locked
<1>3. CASE LockContest(q)
  BY <1>3 DEF LockContest, Locked
<1>4. CASE Generate(q)
  BY <1>4 DEF Generate
<1>5. CASE GenerateFails(q)
  BY <1>5 DEF GenerateFails
<1>6. QED  BY <1>1, <1>2, <1>3, <1>4, <1>5

\* The transaction of a finalizer, as it sees it and as MySQL does.
LEMMA CommitSteps ==
  ASSUME FinInv, NEW q \in Finalizers,
         SendCommit(q) \/ StatementFails(q) \/ Committed(q) \/ CommitFails(q)
         \/ RolledBack(q) \/ RollbackFails(q) \/ ExecuteCommit(q)
         \/ EndSession(q)
  PROVE  FinInv'
<1>. USE FinalizationAssumption
     DEF FinInv, FinalizationTypeOK, RowHasObject, IdleIsBlank, BuiltFirst,
         CommitIsPrepared, LockKeepsLog, CommitSealsLog, AttachedHasRow,
         RemovedHasNoRow, DoubtIsReported, FinalIsLive, OkIsFinal,
         NothingLeftBehind, Files, Over, Goto
<1>1. CASE SendCommit(q)
  BY <1>1 DEF SendCommit
<1>2. CASE StatementFails(q)
  BY <1>2 DEF StatementFails
<1>3. CASE Committed(q)
  BY <1>3 DEF Committed
<1>4. CASE CommitFails(q)
  BY <1>4 DEF CommitFails
<1>5. CASE RolledBack(q)
  BY <1>5 DEF RolledBack, AfterRollback
<1>6. CASE RollbackFails(q)
  BY <1>6 DEF RollbackFails, AfterRollback
<1>7. CASE ExecuteCommit(q)
  <2>1. /\ archive' \in [status : {"Created", "Finalized"}, deleted : BOOLEAN,
                       file : Files \cup {NoFile}]
        /\ archive'.status = "Finalized" /\ archive'.file = q
        /\ archive'.deleted = archive.deleted
    BY <1>7 DEF ExecuteCommit
  <2>2. /\ session[q] = "committing"
        /\ session' = [session EXCEPT ![q] = "none"]
        /\ fileRow' = [fileRow EXCEPT ![q] = "live"]
        /\ UNCHANGED <<log, objects, puts, progress, built, reported, straggled>>
    BY <1>7 DEF ExecuteCommit
  <2>3. QED  BY <2>1, <2>2
<1>8. CASE EndSession(q)
  BY <1>8 DEF EndSession
<1>9. QED  BY <1>1, <1>2, <1>3, <1>4, <1>5, <1>6, <1>7, <1>8

\* What a failed finalizer does about its upload.
LEMMA ReconcileSteps ==
  ASSUME FinInv, NEW q \in Finalizers,
         ReconcileUpload(q) \/ ReconcileFails(q) \/ RemoveUploaded(q)
         \/ RemoveFails(q)
  PROVE  FinInv'
<1>. USE FinalizationAssumption
     DEF FinInv, FinalizationTypeOK, RowHasObject, IdleIsBlank, BuiltFirst,
         CommitIsPrepared, LockKeepsLog, CommitSealsLog, AttachedHasRow,
         RemovedHasNoRow, DoubtIsReported, FinalIsLive, OkIsFinal,
         NothingLeftBehind, Files, Over, Goto
<1>1. CASE ReconcileUpload(q)
  BY <1>1 DEF ReconcileUpload, MayReconcile, Locked, Recovered, Removable
<1>2. CASE ReconcileFails(q)
  BY <1>2 DEF ReconcileFails
<1>3. CASE RemoveUploaded(q)
  BY <1>3 DEF RemoveUploaded
<1>4. CASE RemoveFails(q)
  BY <1>4 DEF RemoveFails
<1>5. QED  BY <1>1, <1>2, <1>3, <1>4

\* Files attached, files deleted, processes that die.
LEMMA FileSteps ==
  ASSUME FinInv, NEW f \in Files,
         AttachFile(f) \/ DeleteFile(f) \/ Die(f)
  PROVE  FinInv'
<1>. USE FinalizationAssumption
     DEF FinInv, FinalizationTypeOK, RowHasObject, IdleIsBlank, BuiltFirst,
         CommitIsPrepared, LockKeepsLog, CommitSealsLog, AttachedHasRow,
         RemovedHasNoRow, DoubtIsReported, FinalIsLive, OkIsFinal,
         NothingLeftBehind, Files, Over, Goto
<1>1. CASE AttachFile(f)
  BY <1>1 DEF AttachFile, Locked
<1>2. CASE DeleteFile(f)
  BY <1>2 DEF DeleteFile, MayDelete, Locked
<1>3. CASE Die(f)
  BY <1>3 DEF Die
<1>4. QED  BY <1>1, <1>2, <1>3

\* The administrator's uploads.
LEMMA UploadSteps ==
  ASSUME FinInv, NEW f \in Uploads,
         StartUpload(f) \/ SaveFile(f) \/ SaveFails(f)
  PROVE  FinInv'
<1>. USE FinalizationAssumption
     DEF FinInv, FinalizationTypeOK, RowHasObject, IdleIsBlank, BuiltFirst,
         CommitIsPrepared, LockKeepsLog, CommitSealsLog, AttachedHasRow,
         RemovedHasNoRow, DoubtIsReported, FinalIsLive, OkIsFinal,
         NothingLeftBehind, Files, Over, Goto
<1>1. CASE StartUpload(f)
  BY <1>1 DEF StartUpload
<1>2. CASE SaveFile(f)
  BY <1>2 DEF SaveFile
<1>3. CASE SaveFails(f)
  BY <1>3 DEF SaveFails
<1>4. QED  BY <1>1, <1>2, <1>3

\* What else happens to the contest.
LEMMA ContestSteps ==
  ASSUME FinInv,
         \/ \E empty \in BOOLEAN : ChangeLog(empty)
         \/ DetachFile \/ RemoveContest
  PROVE  FinInv'
<1>. USE FinalizationAssumption
     DEF FinInv, FinalizationTypeOK, RowHasObject, IdleIsBlank, BuiltFirst,
         CommitIsPrepared, LockKeepsLog, CommitSealsLog, AttachedHasRow,
         RemovedHasNoRow, DoubtIsReported, FinalIsLive, OkIsFinal,
         NothingLeftBehind, Files, Over, Goto
<1>1. CASE \E empty \in BOOLEAN : ChangeLog(empty)
  BY <1>1 DEF ChangeLog, Locked
<1>2. CASE DetachFile
  BY <1>2 DEF DetachFile, Locked
<1>3. CASE RemoveContest
  BY <1>3 DEF RemoveContest, Locked
<1>4. QED  BY <1>1, <1>2, <1>3

\* The invariant holds from the start and is kept by every step.
THEOREM FinalizationInductive == FinalizationSpec => []FinInv
<1>1. FinalizationInit => FinInv
  BY FinalizationAssumption
     DEF FinalizationInit, FinInv, FinalizationTypeOK, RowHasObject, IdleIsBlank,
         BuiltFirst, CommitIsPrepared, LockKeepsLog, CommitSealsLog,
         AttachedHasRow, RemovedHasNoRow, DoubtIsReported, FinalIsLive, OkIsFinal,
         NothingLeftBehind, Files, Over
<1>2. FinInv /\ [FinalizationNext]_finalizationVars => FinInv'
  <2>. SUFFICES ASSUME FinInv, [FinalizationNext]_finalizationVars  PROVE FinInv'
    OBVIOUS
  <2>1. CASE FinalizationNext
    BY <2>1, StoreSteps, BuildSteps, CommitSteps, ReconcileSteps, FileSteps,
       UploadSteps, ContestSteps DEF FinalizationNext
  <2>2. CASE UNCHANGED finalizationVars
    BY <2>2
       DEF finalizationVars, FinInv, FinalizationTypeOK, RowHasObject,
           IdleIsBlank, BuiltFirst, CommitIsPrepared, LockKeepsLog,
           CommitSealsLog, AttachedHasRow, RemovedHasNoRow, DoubtIsReported,
           FinalIsLive, OkIsFinal, NothingLeftBehind
  <2>3. QED  BY <2>1, <2>2
<1>3. QED  BY <1>1, <1>2, PTL DEF FinalizationSpec

----------------------------------------------------------------------------
\* Types of the rows, the store and the requests.
THEOREM FinalizationTypeCorrect == FinalizationSpec => []FinalizationTypeOK
<1>1. FinInv => FinalizationTypeOK
  BY DEF FinInv
<1>2. QED  BY <1>1, FinalizationInductive, PTL

\* A finalized contest keeps its archive: the row, the object, and everything that
\* was in the log.
THEOREM ArchiveOutlasts == FinalizationSpec => []ArchiveStands
<1>1. FinInv => ArchiveStands
  BY FinalizationAssumption
     DEF FinInv, FinalizationTypeOK, RowHasObject, CommitSealsLog, FinalIsLive,
         ArchiveStands, Files
<1>2. QED  BY <1>1, FinalizationInductive, PTL

\* Whatever fails, every object without a row is accounted for.
THEOREM StoreIsAccountedFor == FinalizationSpec => []NothingLeftBehind
<1>1. FinInv => NothingLeftBehind
  BY DEF FinInv
<1>2. QED  BY <1>1, FinalizationInductive, PTL

\* The answer to a finalizer is true, or a log line says that it may not be.
THEOREM FinalizersAreToldTheTruth == FinalizationSpec => []AnswersAreTrue
<1>1. FinInv => AnswersAreTrue
  BY DEF FinInv, AttachedHasRow, DoubtIsReported, OkIsFinal, AnswersAreTrue, Files
<1>2. QED  BY <1>1, FinalizationInductive, PTL
=============================================================================
