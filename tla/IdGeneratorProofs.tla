-------------------------- MODULE IdGeneratorProofs -------------------------
(***************************************************************************)
(* Proofs about the id generator, for every set of processes, slots and    *)
(* clock readings and every bound.  The argument: a process whose          *)
(* connection exists holds the lock of its slot, so only it can extend a   *)
(* reservation of that slot; hence the windows reserved for one slot are   *)
(* disjoint, also those of owners that do not know yet that they have lost *)
(* it; and every id lies in the window of the process that made it, not    *)
(* behind that process's last one.                                         *)
(***************************************************************************)
EXTENDS IdGeneratorProps, TLAPS

Begun(p) == first[p] # Undefined

Registered(p) == row[p].worker # None

\* How far init is says what it has done.
Progressed ==
  \A p \in Procs :
    /\ step[p] \in {"start", "claim"} => worker[p] = None
    /\ step[p] \in {"start", "claim", "read"} => ~Begun(p)
    /\ step[p] \in {"start", "claim", "read", "reserve"} => ~Registered(p)
    /\ step[p] \in {"reserve", "reserved", "done"} => Begun(p)
    /\ step[p] \in {"reserved", "done"} => Registered(p)
    /\ step[p] = "read" \/ Begun(p) => worker[p] # None
    /\ Registered(p) => Begun(p) /\ row[p].worker = worker[p]
    /\ state[p] = "ready" => step[p] = "done"
    /\ renewal[p] # "idle" => step[p] = "done"

\* A process whose connection exists holds the lock of the slot it claimed.
Holds == \A p \in Procs : connected[p] /\ worker[p] # None => lock[worker[p]] = p

\* What a process believes to be reserved is in the registry.
Durable ==
  \A p \in Procs :
    /\ Begun(p) => first[p] <= reserved[p]
    /\ Registered(p) => reserved[p] <= row[p].until
    /\ renewal[p] \in {"update", "updated"} => reserved[p] <= target[p]
    /\ renewal[p] = "updated" => target[p] <= row[p].until

\* The owner's window begins behind all others that were reserved for its slot.
Fenced ==
  \A p, q \in Procs :
    p # q /\ connected[p] /\ Begun(p) /\ row[q].worker = worker[p]
      => row[q].until < first[p]

\* Two windows of one slot are disjoint.
WindowsDisjoint ==
  \A p, q \in Procs :
    p # q /\ Registered(p) /\ row[p].worker = row[q].worker
      => row[p].until < first[q] \/ row[q].until < first[p]

\* The generator's last timestamp lies in the window.
LastInWindow ==
  \A p \in Procs :
    last[p] # Undefined => /\ Registered(p)
                           /\ first[p] <= last[p] /\ last[p] <= reserved[p]

\* p may have made id: it lies in p's window and not behind p's last id.
Made(p, id) ==
  /\ last[p] # Undefined
  /\ id.worker = row[p].worker
  /\ first[p] <= id.time
  /\ id.time <= last[p]
  /\ id.time = last[p] => id.seq <= sequence[p]

AllMade == \A id \in issued : \E p \in Procs : Made(p, id)

IInv == IdTypeOK /\ Progressed /\ Holds /\ Durable /\ Fenced /\ WindowsDisjoint

\* What holds of the ids, if no clock steps back before the first one.
Ids == LastInWindow /\ AllMade /\ UniqueIds

----------------------------------------------------------------------------
\* A step that touches neither the registry nor the locks nor who owns what
\* leaves the windows as they are.
LEMMA SameOwnership ==
  ASSUME IInv, UNCHANGED <<worker, first, connected, lock, row>>
  PROVE  Holds' /\ Fenced' /\ WindowsDisjoint'
<1>1. Holds'
  BY DEF IInv, Holds
<1>2. Fenced'
  BY DEF IInv, Fenced, Begun
<1>3. WindowsDisjoint'
  BY DEF IInv, WindowsDisjoint, Registered
<1>4. QED  BY <1>1, <1>2, <1>3

\* A step that ends a connection, and with it the lock.
LEMMA ConnectionEnds ==
  ASSUME IInv, NEW p \in Procs, LoseConnection(p) \/ ReleaseQueryRunner(p)
  PROVE  IInv'
<1>. USE DEF IInv, service, generator, renewing, history
<1>1. /\ connected' = [connected EXCEPT ![p] = FALSE]
      /\ lock' = Freed(p)
      /\ UNCHANGED <<service, generator, renewing, row, history>>
  BY DEF LoseConnection, ReleaseQueryRunner
<1>2. IdTypeOK'
  BY <1>1 DEF IdTypeOK, Freed
<1>3. Progressed' /\ Durable' /\ WindowsDisjoint'
  BY <1>1 DEF Progressed, Durable, WindowsDisjoint, Begun, Registered
<1>4. Holds'
  BY <1>1 DEF IdTypeOK, Holds, Freed
<1>5. Fenced'
  BY <1>1 DEF IdTypeOK, Fenced, Begun
<1>6. QED  BY <1>2, <1>3, <1>4, <1>5

----------------------------------------------------------------------------
\* The reading of the previous reservation: the window chosen begins behind every
\* window that was ever reserved for the slot.
LEMMA ReadStep ==
  ASSUME IInv, NEW p \in Procs, NEW now \in Clock, ReadPreviousReservation(p, now)
  PROVE  IInv'
<1>. USE IdGeneratorAssumption DEF IInv, service, generator, renewing, mysql, history
<1>. DEFINE w == worker[p]
<1>1. PICK previous \in Reservations(w) :
        /\ \A r \in Reservations(w) : r <= previous
        /\ first' = [first EXCEPT ![p] = Larger(now, previous + 1)]
        /\ offset' = [offset EXCEPT ![p] = Larger(now, previous + 1) - now]
        /\ reserved' = [reserved EXCEPT ![p] = Larger(now, previous + 1) + Window]
  BY DEF ReadPreviousReservation
<1>. DEFINE begin == Larger(now, previous + 1)
<1>2. previous \in Time
  BY DEF IdTypeOK, Reservations, Time, Undefined
<1>3. begin \in Nat /\ begin - now \in Nat /\ begin + Window \in Nat /\ begin > previous
  BY <1>2 DEF Larger, Time, Undefined
<1>4. /\ step[p] = "read" /\ connected[p]
      /\ step' = [step EXCEPT ![p] = "reserve"]
      /\ UNCHANGED <<state, worker, generator, renewing, mysql, history>>
  BY DEF ReadPreviousReservation
<1>5. first'[p] = begin /\ reserved'[p] = begin + Window
      /\ \A q \in Procs \ {p} : first'[q] = first[q] /\ reserved'[q] = reserved[q]
  BY <1>1 DEF IdTypeOK
<1>6. worker[p] # None /\ ~Registered(p) /\ renewal[p] = "idle"
  BY <1>4 DEF IdTypeOK, Progressed, Begun, Registered
<1>7. IdTypeOK'
  BY <1>1, <1>3, <1>4 DEF IdTypeOK, Time
<1>. HIDE DEF begin
<1>8. Progressed'
  BY <1>3, <1>4, <1>5, <1>6 DEF IdTypeOK, Progressed, Begun, Registered, Undefined
<1>9. Holds'
  BY <1>4 DEF Holds
<1>10. Durable'
  BY <1>3, <1>4, <1>5, <1>6 DEF IdTypeOK, Durable, Begun, Registered, Undefined
<1>11. Fenced'
  <2>1. SUFFICES ASSUME NEW q \in Procs, NEW r \in Procs, q # r, connected[q],
                        Begun(q)', row[r].worker = worker[q]
                 PROVE  row[r].until < first'[q]
    BY <1>4 DEF Fenced
  <2>2. CASE q = p
    <3>1. row[r].until \in Reservations(w)
      BY <2>1, <2>2 DEF Reservations
    <3>2. row[r].until <= previous /\ row[r].until \in Time
      BY <1>1, <3>1 DEF IdTypeOK
    <3>3. QED  BY <1>2, <1>3, <1>5, <2>2, <3>2 DEF Time, Undefined
  <2>3. CASE q # p
    BY <1>5, <2>1, <2>3 DEF Fenced, Begun
  <2>4. QED  BY <2>2, <2>3
<1>12. WindowsDisjoint'
  BY <1>4, <1>5, <1>6 DEF IdTypeOK, WindowsDisjoint, Registered
<1>13. QED  BY <1>7, <1>8, <1>9, <1>10, <1>11, <1>12

\* A reservation that reaches the registry is its owner's, and its owner holds the
\* lock: no other window of the slot is changed, and all others end before it.
LEMMA Reserving ==
  ASSUME IInv, NEW p \in Procs, NEW until \in Time, connected[p], Begun(p),
         row' = [row EXCEPT ![p] = [worker |-> worker[p], until |-> until]],
         UNCHANGED <<worker, first, connected, lock>>
  PROVE  Holds' /\ Fenced' /\ WindowsDisjoint'
<1>. USE DEF IInv
<1>1. /\ row'[p].worker = worker[p] /\ row'[p].until = until
      /\ \A q \in Procs \ {p} : row'[q] = row[q]
  BY DEF IdTypeOK
<1>2. worker[p] \in Slots /\ lock[worker[p]] = p
  BY DEF IdTypeOK, Progressed, Holds
<1>3. Holds'
  BY DEF Holds
<1>4. Fenced'
  <2>1. SUFFICES ASSUME NEW q \in Procs, NEW r \in Procs, q # r, connected[q],
                        Begun(q), row'[r].worker = worker[q]
                 PROVE  row'[r].until < first[q]
    BY DEF Fenced, Begun
  <2>2. CASE r = p
    <3>1. worker[q] = worker[p] /\ worker[q] # None
      BY <1>1, <1>2, <2>1, <2>2 DEF IdTypeOK, Progressed
    <3>2. lock[worker[p]] = q
      BY <2>1, <3>1 DEF Holds
    <3>3. QED  BY <1>2, <2>1, <2>2, <3>2
  <2>3. CASE r # p
    BY <1>1, <2>1, <2>3 DEF Fenced
  <2>4. QED  BY <2>2, <2>3
<1>5. WindowsDisjoint'
  <2>1. SUFFICES ASSUME NEW q \in Procs, NEW r \in Procs, q # r,
                        row'[q].worker # None, row'[q].worker = row'[r].worker
                 PROVE  row'[q].until < first[r] \/ row'[r].until < first[q]
    BY DEF WindowsDisjoint, Registered
  <2>2. ASSUME NEW s \in Procs, s # p, row[s].worker = worker[p]
        PROVE  row[s].until < first[p]
    BY <2>2 DEF Fenced
  <2>3. CASE q = p \/ r = p
    BY <1>1, <2>1, <2>2, <2>3
  <2>4. CASE q # p /\ r # p
    BY <1>1, <2>1, <2>4 DEF WindowsDisjoint, Registered
  <2>5. QED  BY <2>3, <2>4
<1>6. QED  BY <1>3, <1>4, <1>5

\* The steps of init.
LEMMA StartingSteps ==
  ASSUME IInv, NEW p \in Procs, Starting(p)
  PROVE  IInv'
<1>. USE IdGeneratorAssumption DEF IInv, service, generator, renewing, mysql, history
<1>1. CASE Register(p)
  <2>1. IdTypeOK'
    BY <1>1 DEF IdTypeOK, Register
  <2>2. Progressed' /\ Durable' /\ WindowsDisjoint'
    BY <1>1 DEF IdTypeOK, Progressed, Durable, WindowsDisjoint, Begun, Registered, Register
  <2>3. Holds' /\ Fenced'
    BY <1>1 DEF IdTypeOK, Progressed, Holds, Fenced, Begun, Register
  <2>4. QED  BY <2>1, <2>2, <2>3
<1>2. ASSUME NEW w \in Slots, ClaimWorkerSlot(p, w)  PROVE IInv'
  <2>1. IdTypeOK'
    BY <1>2 DEF IdTypeOK, ClaimWorkerSlot
  <2>2. Progressed' /\ Durable' /\ WindowsDisjoint'
    BY <1>2 DEF IdTypeOK, Progressed, Durable, WindowsDisjoint, Begun, Registered,
                ClaimWorkerSlot
  <2>3. Holds' /\ Fenced'
    BY <1>2 DEF IdTypeOK, Progressed, Holds, Fenced, Begun, ClaimWorkerSlot
  <2>4. QED  BY <2>1, <2>2, <2>3
<1>3. ASSUME NEW now \in Clock, ReadPreviousReservation(p, now)  PROVE IInv'
  BY <1>3, ReadStep
<1>4. CASE PersistFirstReservation(p)
  <2>1. IdTypeOK'
    BY <1>4 DEF IdTypeOK, PersistFirstReservation
  <2>2. Progressed'
    BY <1>4 DEF IdTypeOK, Progressed, Begun, Registered, PersistFirstReservation
  <2>3. Durable'
    BY <1>4 DEF IdTypeOK, Time, Undefined, Progressed, Durable, Begun, Registered,
                PersistFirstReservation
  <2>4. Begun(p) /\ reserved[p] \in Time /\ connected[p]
    BY <1>4 DEF IdTypeOK, Progressed, PersistFirstReservation
  <2>5. Holds' /\ Fenced' /\ WindowsDisjoint'
    BY <1>4, <2>4, Reserving DEF PersistFirstReservation
  <2>6. QED  BY <2>1, <2>2, <2>3, <2>5
<1>5. CASE FinishInit(p) \/ FailInit(p)
  <2>1. IdTypeOK'
    BY <1>5 DEF IdTypeOK, FinishInit, FailInit
  <2>2. Progressed' /\ Durable'
    BY <1>5 DEF IdTypeOK, Progressed, Durable, Begun, Registered, FinishInit, FailInit
  <2>3. Holds' /\ Fenced' /\ WindowsDisjoint'
    BY <1>5, SameOwnership DEF FinishInit, FailInit
  <2>4. QED  BY <2>1, <2>2, <2>3
<1>6. QED  BY <1>1, <1>2, <1>3, <1>4, <1>5 DEF Starting

\* nextId, and the requests for a longer reservation.
LEMMA CallSteps ==
  ASSUME IInv, NEW p \in Procs, NEW now \in Clock,
         NextId(p, now) \/ RequestReservationRenewal(p, now)
  PROVE  IInv'
<1>. USE IdGeneratorAssumption DEF IInv, service, generator, renewing, mysql, history
<1>1. now \in Nat /\ Logical(p, now) \in Nat
  BY DEF IdTypeOK, Logical
<1>2. CASE NextId(p, now)
  <2>. DEFINE time == Larger(Logical(p, now), last[p])
              seq == IF time = last[p] THEN sequence[p] + 1 ELSE 0
              id == Id(p, time, seq)
  <2>1. /\ state[p] = "ready" /\ seq <= MaxSequence
        /\ last' = [last EXCEPT ![p] = time]
        /\ sequence' = [sequence EXCEPT ![p] = seq]
        /\ issued' = issued \cup {id}
        /\ twice' = IF id \in issued THEN twice \cup {id} ELSE twice
        /\ UNCHANGED <<service, renewing, mysql>>
    BY <1>2 DEF NextId
  <2>2. time \in Nat /\ seq \in 0 .. MaxSequence
    BY <1>1, <2>1 DEF IdTypeOK, Larger, Time, Undefined
  <2>3. worker[p] \in Slots
    BY <2>1 DEF IdTypeOK, Progressed
  <2>4. id \in SnowflakeId
    BY <2>2, <2>3 DEF Id, SnowflakeId
  <2>. HIDE DEF time, seq, id
  <2>5. IdTypeOK'
    BY <2>1, <2>2, <2>4 DEF IdTypeOK, Time
  <2>6. Progressed' /\ Durable'
    BY <2>1 DEF Progressed, Durable, Begun, Registered
  <2>7. QED  BY <2>1, <2>5, <2>6, SameOwnership
<1>3. CASE RequestReservationRenewal(p, now)
  <2>. DEFINE wanted == Larger(requested[p], Logical(p, now) + Window)
  <2>1. IdTypeOK'
    <3>1. wanted \in Time /\ Undefined \in Time
      BY <1>1 DEF IdTypeOK, Larger, Time, Undefined
    <3>2. UNCHANGED <<service, generator, mysql, history>>
      BY <1>3 DEF RequestReservationRenewal
    <3>3. CASE renewal[p] = "idle"
      <4>1. /\ requested' = [requested EXCEPT ![p] = Undefined]
            /\ renewal' = [renewal EXCEPT ![p] = "check"]
            /\ target' = [target EXCEPT ![p] = wanted]
        BY <1>3, <3>3 DEF RequestReservationRenewal
      <4>. HIDE DEF wanted
      <4>2. QED  BY <3>1, <3>2, <4>1 DEF IdTypeOK
    <3>4. CASE renewal[p] # "idle"
      <4>1. requested' = [requested EXCEPT ![p] = wanted] /\ UNCHANGED <<renewal, target>>
        BY <1>3, <3>4 DEF RequestReservationRenewal
      <4>. HIDE DEF wanted
      <4>2. QED  BY <3>1, <3>2, <4>1 DEF IdTypeOK
    <3>5. QED  BY <3>3, <3>4
  <2>2. Progressed' /\ Durable'
    BY <1>3 DEF IdTypeOK, Progressed, Durable, Begun, Registered, RequestReservationRenewal
  <2>3. QED  BY <1>3, <2>1, <2>2, SameOwnership DEF RequestReservationRenewal
<1>4. QED  BY <1>2, <1>3

\* The steps of a renewal.
LEMMA RenewingSteps ==
  ASSUME IInv, NEW p \in Procs, Renewing(p)
  PROVE  IInv'
<1>. USE IdGeneratorAssumption DEF IInv, service, generator, renewing, mysql, history
<1>1. ASSUME NEW now \in Clock, RenewalTimer(p, now)  PROVE IInv'
  BY <1>1, CallSteps DEF RenewalTimer
<1>2. ASSUME NEW now \in Clock, CheckOwnership(p, now)  PROVE IInv'
  <2>. DEFINE end == Larger(Larger(reserved[p], target[p]), Logical(p, now) + Window)
  <2>1. /\ renewal[p] = "check"
        /\ renewal' = [renewal EXCEPT ![p] = "update"]
        /\ target' = [target EXCEPT ![p] = end]
        /\ UNCHANGED <<service, generator, requested, mysql, history>>
    BY <1>2 DEF CheckOwnership
  <2>2. end \in Nat /\ reserved[p] <= end
    BY DEF IdTypeOK, Logical, Larger, Time, Undefined
  <2>. HIDE DEF end
  <2>3. IdTypeOK'
    BY <2>1, <2>2 DEF IdTypeOK, Time
  <2>4. Progressed' /\ Durable'
    BY <2>1, <2>2 DEF IdTypeOK, Progressed, Durable, Begun, Registered
  <2>5. QED  BY <2>1, <2>3, <2>4, SameOwnership
<1>3. CASE PersistReservation(p)
  <2>1. /\ renewal[p] = "update" /\ connected[p] /\ target[p] \in Time
        /\ Begun(p) /\ row[p].worker = worker[p] /\ worker[p] # None
    BY <1>3 DEF IdTypeOK, Progressed, PersistReservation
  <2>2. /\ row' = [row EXCEPT ![p] = [worker |-> worker[p], until |-> target[p]]]
        /\ renewal' = [renewal EXCEPT ![p] = "updated"]
        /\ UNCHANGED <<service, generator, requested, target, connected, lock, history>>
    <3>1. row[p] \in [worker : Slots \cup {None}, until : Time]
      BY DEF IdTypeOK
    <3>2. [row[p] EXCEPT !.until = target[p]]
            = [worker |-> worker[p], until |-> target[p]]
      BY <2>1, <3>1
    <3>3. QED  BY <1>3, <3>2 DEF PersistReservation
  <2>3. IdTypeOK'
    BY <2>1, <2>2 DEF IdTypeOK
  <2>4. Progressed'
    BY <2>1, <2>2 DEF IdTypeOK, Progressed, Begun, Registered
  <2>5. Durable'
    BY <2>1, <2>2 DEF IdTypeOK, Time, Undefined, Durable, Begun, Registered
  <2>6. Holds' /\ Fenced' /\ WindowsDisjoint'
    BY <2>1, <2>2, Reserving
  <2>7. QED  BY <2>3, <2>4, <2>5, <2>6
<1>4. CASE FinishRenewal(p)
  <2>1. IdTypeOK'
    BY <1>4 DEF IdTypeOK, FinishRenewal, Time
  <2>2. Progressed'
    BY <1>4 DEF IdTypeOK, Progressed, Begun, Registered, FinishRenewal
  <2>3. Durable'
    <3>1. /\ reserved' = [reserved EXCEPT ![p] = target[p]]
          /\ renewal'[p] \in {"check", "idle"}
          /\ \A q \in Procs \ {p} : renewal'[q] = renewal[q] /\ target'[q] = target[q]
          /\ UNCHANGED <<first, row>>
      BY <1>4 DEF IdTypeOK, FinishRenewal
    <3>2. /\ first[p] <= target[p] /\ target[p] <= row[p].until
      <4>1. /\ first[p] <= reserved[p] /\ reserved[p] <= target[p]
            /\ target[p] <= row[p].until
        BY <1>4 DEF Progressed, Durable, FinishRenewal
      <4>2. first[p] \in Int /\ reserved[p] \in Int /\ target[p] \in Int
        BY DEF IdTypeOK, Time, Undefined
      <4>3. QED  BY <4>1, <4>2
    <3>3. ASSUME NEW q \in Procs
          PROVE  /\ Begun(q) => first[q] <= reserved'[q]
                 /\ Registered(q) => reserved'[q] <= row[q].until
                 /\ renewal'[q] \in {"update", "updated"} => reserved'[q] <= target'[q]
                 /\ renewal'[q] = "updated" => target'[q] <= row[q].until
      BY <3>1, <3>2 DEF IdTypeOK, Durable
    <3>4. QED  BY <3>1, <3>3 DEF Durable, Begun, Registered
  <2>4. QED  BY <1>4, <2>1, <2>2, <2>3, SameOwnership DEF FinishRenewal
<1>5. CASE FailRenewal(p)
  <2>1. IdTypeOK'
    BY <1>5 DEF IdTypeOK, Time, FailRenewal, OwnershipLost
  <2>2. Progressed' /\ Durable'
    BY <1>5 DEF IdTypeOK, Progressed, Durable, Begun, Registered, FailRenewal, OwnershipLost
  <2>3. QED  BY <1>5, <2>1, <2>2, SameOwnership DEF FailRenewal
<1>6. QED  BY <1>1, <1>2, <1>3, <1>4, <1>5 DEF Renewing

\* The end of an ownership.
LEMMA EndingSteps ==
  ASSUME IInv, NEW p \in Procs, Ending(p)
  PROVE  IInv'
<1>. USE DEF IInv, service, generator, renewing, mysql, history
<1>1. CASE LoseConnection(p) \/ ReleaseQueryRunner(p)
  BY <1>1, ConnectionEnds
<1>2. CASE NoticeLoss(p) \/ Dispose(p)
  <2>1. IdTypeOK'
    BY <1>2 DEF IdTypeOK, NoticeLoss, OwnershipLost, Dispose
  <2>2. Progressed' /\ Durable'
    BY <1>2 DEF IdTypeOK, Progressed, Durable, Begun, Registered, NoticeLoss,
                OwnershipLost, Dispose
  <2>3. QED  BY <1>2, <2>1, <2>2, SameOwnership DEF NoticeLoss, Dispose
<1>3. QED  BY <1>1, <1>2 DEF Ending

----------------------------------------------------------------------------
\* The inductive invariant holds throughout.
THEOREM Inductive == IdSpec => []IInv
<1>1. IdInit => IInv
  BY IdGeneratorAssumption DEF IdInit, IInv, IdTypeOK, Progressed, Holds, Durable, Fenced,
     WindowsDisjoint, Begun, Registered, Undefined, Time
<1>2. IInv /\ [IdNext]_idVars => IInv'
  <2>. SUFFICES ASSUME IInv, [IdNext]_idVars  PROVE IInv'
    OBVIOUS
  <2>1. CASE IdNext
    BY <2>1, StartingSteps, CallSteps, RenewingSteps, EndingSteps
       DEF IdNext, Generating, NextIdExpired
  <2>2. CASE UNCHANGED idVars
    BY <2>2, SameOwnership DEF IInv, idVars, service, generator, renewing, mysql, history,
       IdTypeOK, Progressed, Durable, Begun, Registered
  <2>3. QED  BY <2>1, <2>2
<1>3. QED  BY <1>1, <1>2, PTL DEF IdSpec

\* Every variable has its type.
THEOREM TypeCorrect == IdSpec => []IdTypeOK
<1>1. IInv => IdTypeOK
  BY DEF IInv
<1>2. QED  BY <1>1, Inductive, PTL

\* The windows reserved for one slot never overlap, whoever has lost or taken over
\* the slot and whoever knows of it.
THEOREM FencesHold == IdSpec => []WindowsDisjoint
<1>1. IInv => WindowsDisjoint
  BY DEF IInv
<1>2. QED  BY <1>1, Inductive, PTL

----------------------------------------------------------------------------
\* A step that makes no id and takes nothing back of what was reserved.
LEMMA NoNewId ==
  ASSUME IInv, IInv', Ids, UNCHANGED <<generator, history>>,
         \A p \in Procs : Registered(p) =>
           first'[p] = first[p] /\ row'[p].worker = row[p].worker
           /\ reserved[p] <= reserved'[p]
  PROVE  Ids'
<1>. USE DEF Ids, generator, history
<1>1. LastInWindow'
  BY DEF LastInWindow, IInv, IdTypeOK, Time, Undefined, Registered
<1>2. AllMade'
  BY DEF AllMade, Made, LastInWindow
<1>3. UniqueIds'
  BY DEF UniqueIds
<1>4. QED  BY <1>1, <1>2, <1>3

\* In a step a registered process keeps its slot and the begin of its window, and
\* what it believes to be reserved never shrinks.
LEMMA WindowGrows ==
  ASSUME IInv, NEW p \in Procs, NEW q \in Procs, Registered(q),
         Starting(p) \/ Generating(p) \/ Renewing(p) \/ Ending(p)
  PROVE  /\ first'[q] = first[q] /\ row'[q].worker = row[q].worker
         /\ reserved[q] <= reserved'[q]
<1>. USE DEF IInv, service, generator, renewing, mysql, history
<1>1. ASSUME UNCHANGED <<first, reserved, row>>
      PROVE  /\ first'[q] = first[q] /\ row'[q].worker = row[q].worker
             /\ reserved[q] <= reserved'[q]
  BY <1>1 DEF IdTypeOK, Time, Undefined
<1>2. CASE Starting(p)
  <2>1. CASE UNCHANGED <<first, reserved, row>>
    BY <1>1, <2>1
  <2>2. ASSUME NEW now \in Clock, ReadPreviousReservation(p, now)
        PROVE  q # p /\ first'[q] = first[q] /\ reserved'[q] = reserved[q] /\ row' = row
    BY <2>2 DEF IdTypeOK, Progressed, ReadPreviousReservation
  <2>3. ASSUME PersistFirstReservation(p)
        PROVE  q # p /\ row'[q] = row[q] /\ UNCHANGED <<first, reserved>>
    BY <2>3 DEF IdTypeOK, Progressed, PersistFirstReservation
  <2>4. QED
    BY <1>2, <2>1, <2>2, <2>3 DEF Starting, Register, ClaimWorkerSlot, FinishInit,
       FailInit, IdTypeOK, Time, Undefined
<1>3. CASE Generating(p)
  BY <1>1, <1>3 DEF Generating, NextId, NextIdExpired, RequestReservationRenewal
<1>4. CASE Renewing(p)
  <2>1. CASE UNCHANGED <<first, reserved, row>>
    BY <1>1, <2>1
  <2>2. CASE PersistReservation(p)
    BY <2>2 DEF IdTypeOK, Time, Undefined, PersistReservation
  <2>3. CASE FinishRenewal(p)
    <3>1. reserved[p] <= target[p]
      BY <2>3 DEF FinishRenewal, Durable
    <3>2. QED  BY <2>3, <3>1 DEF IdTypeOK, Time, Undefined, FinishRenewal
  <2>4. QED
    BY <1>4, <2>1, <2>2, <2>3 DEF Renewing, RenewalTimer, RequestReservationRenewal,
       CheckOwnership, FailRenewal
<1>5. CASE Ending(p)
  BY <1>1, <1>5 DEF Ending, LoseConnection, NoticeLoss, Dispose, ReleaseQueryRunner
<1>6. QED  BY <1>2, <1>3, <1>4, <1>5

\* An id that is made is new: it lies behind its maker's last one, and in no other
\* window of the slot.
LEMMA NewIdIsNew ==
  ASSUME IInv, IInv', Ids, ~EarlyStepBack,
         NEW p \in Procs, NEW now \in Clock, NextId(p, now)
  PROVE  Ids'
<1>. USE IdGeneratorAssumption DEF IInv, service, generator, renewing, mysql, history
<1>. DEFINE time == Larger(Logical(p, now), last[p])
            seq == IF time = last[p] THEN sequence[p] + 1 ELSE 0
            id == Id(p, time, seq)
<1>1. /\ state[p] = "ready"
      /\ last[p] = Undefined => first[p] <= Logical(p, now)
      /\ Logical(p, now) <= reserved[p]
      /\ last' = [last EXCEPT ![p] = time]
      /\ sequence' = [sequence EXCEPT ![p] = seq]
      /\ issued' = issued \cup {id}
      /\ twice' = IF id \in issued THEN twice \cup {id} ELSE twice
      /\ UNCHANGED <<service, renewing, mysql>>
  BY DEF NextId
<1>2. Registered(p) /\ Begun(p) /\ row[p].worker = worker[p] /\ worker[p] # None
  BY <1>1 DEF Progressed
<1>3. Logical(p, now) \in Nat /\ last[p] \in Time
  BY DEF IdTypeOK, Logical
<1>4. time \in Nat /\ first[p] <= time /\ time <= reserved[p] /\ last[p] <= time
  BY <1>1, <1>3 DEF Ids, LastInWindow, IdTypeOK, Larger, Time, Undefined
<1>5. reserved[p] <= row[p].until
  BY <1>2 DEF Durable
<1>6. id.worker = worker[p] /\ id.time = time /\ id.seq = seq
  BY DEF Id
<1>7. /\ time = last[p] => seq > sequence[p]
      /\ seq \in Nat /\ sequence[p] \in Nat
  BY DEF IdTypeOK
<1>. HIDE DEF time, seq, id
<1>8. id \notin issued
  <2>1. SUFFICES ASSUME NEW q \in Procs, Made(q, id)  PROVE FALSE
    BY DEF Ids, AllMade
  <2>2. CASE q = p
    <3>1. id.time <= last[p] /\ (id.time = last[p] => id.seq <= sequence[p])
      BY <2>1, <2>2 DEF Made
    <3>2. last[p] \in Int
      BY <1>3 DEF Time, Undefined
    <3>3. QED  BY <1>4, <1>6, <1>7, <3>1, <3>2
  <2>3. CASE q # p
    <3>1. /\ row[q].worker = row[p].worker /\ first[q] <= time /\ time <= last[q]
          /\ last[q] <= reserved[q] /\ reserved[q] <= row[q].until
      BY <1>2, <1>6, <2>1 DEF Made, Ids, LastInWindow, Durable
    <3>2. row[p].until < first[q] \/ row[q].until < first[p]
      BY <1>2, <2>3, <3>1 DEF WindowsDisjoint
    <3>3. /\ first[p] \in Int /\ first[q] \in Int /\ last[q] \in Int
          /\ reserved[p] \in Int /\ reserved[q] \in Int
          /\ row[p].until \in Int /\ row[q].until \in Int
      BY DEF IdTypeOK, Time, Undefined
    <3>4. QED  BY <1>4, <1>5, <3>1, <3>2, <3>3
  <2>4. QED  BY <2>2, <2>3
<1>9. UniqueIds'
  BY <1>1, <1>8 DEF Ids, UniqueIds
<1>10. LastInWindow'
  BY <1>1, <1>2, <1>4 DEF Ids, LastInWindow, IdTypeOK, Registered
<1>11. AllMade'
  <2>1. /\ last'[p] = time /\ sequence'[p] = seq
        /\ \A q \in Procs \ {p} : last'[q] = last[q] /\ sequence'[q] = sequence[q]
    BY <1>1 DEF IdTypeOK
  <2>2. SUFFICES ASSUME NEW i \in issued'  PROVE \E q \in Procs : Made(q, i)'
    BY DEF AllMade
  <2>3. CASE i = id
    BY <1>1, <1>2, <1>4, <1>6, <1>7, <2>1, <2>3 DEF Made, IdTypeOK, Undefined
  <2>4. CASE i \in issued
    <3>1. PICK q \in Procs : Made(q, i)
      BY <2>4 DEF Ids, AllMade
    <3>2. i.time \in Nat /\ i.seq \in Int
      BY <2>4 DEF IdTypeOK, SnowflakeId
    <3>3. CASE q # p
      BY <1>1, <2>1, <3>1, <3>3 DEF Made
    <3>4. CASE q = p
      <4>1. /\ i.worker = row[p].worker /\ first[p] <= i.time /\ i.time <= last[p]
            /\ i.time = last[p] => i.seq <= sequence[p]
        BY <3>1, <3>4 DEF Made
      <4>2. last[p] \in Int
        BY <1>3 DEF Time, Undefined
      <4>3. i.time <= time /\ (i.time = time => i.seq <= seq)
        BY <1>4, <1>7, <3>2, <4>1, <4>2
      <4>4. Made(p, i)'
        BY <1>1, <1>4, <2>1, <4>1, <4>3 DEF Made, Undefined
      <4>5. QED  BY <4>4
    <3>5. QED  BY <3>3, <3>4
  <2>5. QED  BY <1>1, <2>3, <2>4
<1>12. QED  BY <1>9, <1>10, <1>11 DEF Ids

\* What holds of the ids is kept by every step.
LEMMA IdsKept ==
  ASSUME IInv, IInv', Ids, ~EarlyStepBack, [IdNext]_idVars
  PROVE  Ids'
<1>1. ASSUME NEW p \in Procs, NEW now \in Clock, NextId(p, now)  PROVE Ids'
  BY <1>1, NewIdIsNew
<1>2. ASSUME NEW p \in Procs,
             Starting(p) \/ Generating(p) \/ Renewing(p) \/ Ending(p),
             UNCHANGED <<generator, history>>
      PROVE  Ids'
  BY <1>2, WindowGrows, NoNewId
<1>3. ASSUME NEW p \in Procs,
             Starting(p) \/ Generating(p) \/ Renewing(p) \/ Ending(p),
             ~ \E now \in Clock : NextId(p, now)
      PROVE  UNCHANGED <<generator, history>>
  <2>1. CASE Starting(p)
    BY <2>1 DEF Starting, Register, ClaimWorkerSlot, ReadPreviousReservation,
       PersistFirstReservation, FinishInit, FailInit
  <2>2. CASE Generating(p)
    BY <1>3, <2>2 DEF Generating, NextIdExpired, RequestReservationRenewal
  <2>3. CASE Renewing(p)
    BY <2>3 DEF Renewing, RenewalTimer, RequestReservationRenewal, CheckOwnership,
       PersistReservation, FinishRenewal, FailRenewal
  <2>4. CASE Ending(p)
    BY <2>4 DEF Ending, LoseConnection, NoticeLoss, Dispose, ReleaseQueryRunner
  <2>5. QED  BY <1>3, <2>1, <2>2, <2>3, <2>4
<1>4. ASSUME UNCHANGED idVars  PROVE Ids'
  BY <1>4 DEF idVars, service, generator, mysql, history, Ids, LastInWindow, AllMade, Made,
     UniqueIds, Registered
<1>5. QED  BY <1>1, <1>2, <1>3, <1>4 DEF IdNext

\* No id is generated twice, by whatever processes in whatever order, if no clock
\* steps back between the start of a process and its first id.
THEOREM IdsAreUnique ==
  ASSUME ~EarlyStepBack
  PROVE  IdSpec => []UniqueIds
<1>1. IdInit => Ids
  BY DEF IdInit, Ids, LastInWindow, AllMade, UniqueIds, Undefined
<1>2. IInv /\ IInv' /\ Ids /\ [IdNext]_idVars => Ids'
  BY IdsKept
<1>3. Ids => UniqueIds
  BY DEF Ids
<1>4. QED  BY <1>1, <1>2, <1>3, Inductive, PTL DEF IdSpec

\* What is asked for while a renewal is under way is never left behind.
THEOREM NothingStranded == IdSpec => []NoRequestStranded
<1>1. IdInit => NoRequestStranded
  BY DEF IdInit, NoRequestStranded
<1>2. IInv /\ NoRequestStranded /\ [IdNext]_idVars => NoRequestStranded'
  <2>. SUFFICES ASSUME IInv, NoRequestStranded, [IdNext]_idVars  PROVE NoRequestStranded'
    OBVIOUS
  <2>. USE DEF service, generator, renewing, mysql, history
  <2>1. ASSUME UNCHANGED <<requested, renewal>>  PROVE NoRequestStranded'
    BY <2>1 DEF NoRequestStranded
  <2>2. ASSUME NEW p \in Procs, Starting(p) \/ Ending(p)  PROVE NoRequestStranded'
    BY <2>1, <2>2 DEF Starting, Register, ClaimWorkerSlot, ReadPreviousReservation,
       PersistFirstReservation, FinishInit, FailInit, Ending, LoseConnection, NoticeLoss,
       Dispose, ReleaseQueryRunner
  <2>3. ASSUME NEW p \in Procs, NEW now \in Clock, RequestReservationRenewal(p, now)
        PROVE  NoRequestStranded'
    BY <2>3 DEF IInv, IdTypeOK, NoRequestStranded, RequestReservationRenewal
  <2>4. ASSUME NEW p \in Procs, Generating(p)  PROVE NoRequestStranded'
    BY <2>1, <2>3, <2>4 DEF Generating, NextId, NextIdExpired
  <2>5. ASSUME NEW p \in Procs, Renewing(p)  PROVE NoRequestStranded'
    <3>1. ASSUME NEW now \in Clock, CheckOwnership(p, now)  PROVE NoRequestStranded'
      BY <3>1 DEF IInv, IdTypeOK, NoRequestStranded, CheckOwnership
    <3>2. CASE PersistReservation(p)
      BY <3>2 DEF IInv, IdTypeOK, NoRequestStranded, PersistReservation
    <3>3. CASE FinishRenewal(p)
      BY <3>3 DEF IInv, IdTypeOK, NoRequestStranded, FinishRenewal
    <3>4. CASE FailRenewal(p)
      BY <3>4 DEF IInv, IdTypeOK, NoRequestStranded, FailRenewal
    <3>5. QED  BY <2>3, <2>5, <3>1, <3>2, <3>3, <3>4 DEF Renewing, RenewalTimer
  <2>6. QED  BY <2>1, <2>2, <2>4, <2>5 DEF IdNext, idVars
<1>3. QED  BY <1>1, <1>2, Inductive, PTL DEF IdSpec

============================================================================
