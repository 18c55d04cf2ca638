----------------------------- MODULE IdGenerator ----------------------------
(***************************************************************************)
(* The processes that generate Snowflake ids, and the MySQL server that    *)
(* keeps them apart (id-generator.service.ts, snowflake-id.ts).            *)
(*                                                                         *)
(* Each member of Procs is one life of a process, with its registry row    *)
(* and its dedicated connection.  A worker slot is owned through a named   *)
(* lock, which MySQL frees with the connection that holds it, long before  *)
(* the owner may notice; what then keeps its ids apart from its            *)
(* successor's is the window of timestamps reserved in the registry.  An   *)
(* await is a step boundary: a statement is sent, executed, and answered   *)
(* in three steps, and nothing obliges a process to go on, so a crash is a *)
(* lost connection that nobody notices.                                    *)
(*                                                                         *)
(* Date.now() is any number in Clock at each call: clocks are skewed, jump *)
(* and step back.  With EarlyStepBack = FALSE, they do not step back       *)
(* between the start of a process and its first id.                        *)
(*                                                                         *)
(* An operator marked "Wrong" is a slip one could make in the operator     *)
(* that follows it; IdNext uses none of them, and each breaks a property.  *)
(***************************************************************************)
EXTENDS Integers, FiniteSets

CONSTANTS
  Procs,          \* lives of processes
  Slots,          \* worker ids
  None,           \* no process, no slot
  Clock,          \* what Date.now() may say
  Window,         \* RESERVATION_WINDOW_MS
  MaxBackward,    \* maxClockBackwardMs
  MaxSequence,    \* MAX_SEQUENCE
  MaxReserved,    \* bound: a reservation that ends later is not asked for
  MaxIds,         \* bound: ids generated in all
  EarlyStepBack   \* a clock may step back between init and the first id

ASSUME IdGeneratorAssumption ==
  /\ None \notin Procs \cup Slots
  /\ Clock \subseteq Nat
  /\ Window \in Nat /\ MaxBackward \in Nat /\ MaxSequence \in Nat
  /\ EarlyStepBack \in BOOLEAN

VARIABLES
  state,       \* ServiceState of each process
  step,        \* how far its init is
  worker,      \* the slot it claimed
  first,       \* firstLogicalTimestampMs
  offset,      \* logicalClockOffsetMs
  reserved,    \* reservedUntilMs
  last,        \* lastTimestampMs of its generator
  sequence,
  requested,   \* requestedReservedUntilMs
  renewal,     \* how far its reservation renewal is
  target,      \* the end of the window that the renewal asks for
  connected,   \* MySQL: the process's connection exists
  lock,        \* MySQL: the holder of each slot's named lock
  row,         \* MySQL: id_worker_registry
  issued,      \* history: the ids generated
  twice        \* history: those generated a second time

service == <<state, step, worker, first, offset, reserved>>
generator == <<last, sequence>>
renewing == <<requested, renewal, target>>
mysql == <<connected, lock, row>>
history == <<issued, twice>>
idVars == <<service, generator, renewing, mysql, history>>

Undefined == -1

Time == Nat \cup {Undefined}

Larger(a, b) == IF a < b THEN b ELSE a

\* The logical time of p when its Date.now() says now.
Logical(p, now) == now + offset[p]

----------------------------------------------------------------------------
(* init(), from its first await to its last. *)

\* connect, and the insertion of the registry row.
Register(p) ==
  /\ step[p] = "start"
  /\ step' = [step EXCEPT ![p] = "claim"]
  /\ connected' = [connected EXCEPT ![p] = TRUE]
  /\ UNCHANGED <<state, worker, first, offset, reserved, generator, renewing,
                 lock, row, history>>

\* claimWorkerSlot: the probing starts at a slot given by the row's number, which
\* may be any, and ends at one that is free when it is probed.
ClaimWorkerSlot(p, w) ==
  /\ step[p] = "claim" /\ connected[p]
  /\ lock[w] = None
  /\ lock' = [lock EXCEPT ![w] = p]
  /\ worker' = [worker EXCEPT ![p] = w]
  /\ step' = [step EXCEPT ![p] = "read"]
  /\ UNCHANGED <<state, first, offset, reserved, generator, renewing,
                 connected, row, history>>

\* The reservations ever made for a slot; -1 stands for none.
Reservations(w) ==
  {Undefined} \cup { row[q].until : q \in { r \in Procs : row[r].worker = w } }

\* Wrong: starts at the end of the previous window, not behind it.
ReadPreviousReservationAtEnd(p, now) ==
  /\ step[p] = "read" /\ connected[p]
  /\ \E previous \in Reservations(worker[p]) :
       /\ \A r \in Reservations(worker[p]) : r <= previous
       /\ LET begin == Larger(now, previous)
          IN  /\ begin + Window <= MaxReserved
              /\ first' = [first EXCEPT ![p] = begin]
              /\ offset' = [offset EXCEPT ![p] = begin - now]
              /\ reserved' = [reserved EXCEPT ![p] = begin + Window]
  /\ step' = [step EXCEPT ![p] = "reserve"]
  /\ UNCHANGED <<state, worker, generator, renewing, mysql, history>>

\* readPreviousReservation, and the choice of the first window.
ReadPreviousReservation(p, now) ==
  /\ step[p] = "read" /\ connected[p]
  /\ \E previous \in Reservations(worker[p]) :
       /\ \A r \in Reservations(worker[p]) : r <= previous
       /\ LET begin == Larger(now, previous + 1)
          IN  /\ begin + Window <= MaxReserved
              /\ first' = [first EXCEPT ![p] = begin]
              /\ offset' = [offset EXCEPT ![p] = begin - now]
              /\ reserved' = [reserved EXCEPT ![p] = begin + Window]
  /\ step' = [step EXCEPT ![p] = "reserve"]
  /\ UNCHANGED <<state, worker, generator, renewing, mysql, history>>

\* MySQL executes the first update of the row.
PersistFirstReservation(p) ==
  /\ step[p] = "reserve" /\ connected[p]
  /\ row' = [row EXCEPT ![p] = [worker |-> worker[p], until |-> reserved[p]]]
  /\ step' = [step EXCEPT ![p] = "reserved"]
  /\ UNCHANGED <<state, worker, first, offset, reserved, generator, renewing,
                 connected, lock, history>>

\* Its answer arrives.
FinishInit(p) ==
  /\ step[p] = "reserved"
  /\ state' = [state EXCEPT ![p] = "ready"]
  /\ step' = [step EXCEPT ![p] = "done"]
  /\ UNCHANGED <<worker, first, offset, reserved, generator, renewing, mysql, history>>

\* A statement fails, its answer is lost, or all slots are taken.
FailInit(p) ==
  /\ step[p] \in {"start", "claim", "read", "reserve", "reserved"}
  /\ state' = [state EXCEPT ![p] = "lost"]
  /\ step' = [step EXCEPT ![p] = "failed"]
  /\ UNCHANGED <<worker, first, offset, reserved, generator, renewing, mysql, history>>

----------------------------------------------------------------------------
(* nextId(), which is synchronous. *)

Id(p, time, seq) == [worker |-> worker[p], time |-> time, seq |-> seq]

\* A timestamp beyond the reservation or too far back is refused; one that is a
\* little back counts as the last.  When the sequence of a millisecond is used up
\* the call spins until the clock goes on: it is this step with a later reading.
NextId(p, now) ==
  LET time == Larger(Logical(p, now), last[p])
      seq == IF time = last[p] THEN sequence[p] + 1 ELSE 0
      id == Id(p, time, seq)
  IN  /\ Cardinality(issued) < MaxIds
      /\ state[p] = "ready"
      /\ last[p] = Undefined => EarlyStepBack \/ first[p] <= Logical(p, now)
      /\ Logical(p, now) <= reserved[p]
      /\ last[p] # Undefined => last[p] - Logical(p, now) <= MaxBackward
      /\ seq <= MaxSequence
      /\ last' = [last EXCEPT ![p] = time]
      /\ sequence' = [sequence EXCEPT ![p] = seq]
      /\ issued' = issued \cup {id}
      /\ twice' = IF id \in issued THEN twice \cup {id} ELSE twice
      /\ UNCHANGED <<service, renewing, mysql>>

----------------------------------------------------------------------------
(* The renewal of the reservation: one at a time, with a mailbox. *)

\* requestReservationRenewal.
RequestReservationRenewal(p, now) ==
  LET wanted == Larger(requested[p], Logical(p, now) + Window)
  IN  /\ state[p] = "ready"
      /\ wanted <= MaxReserved
      /\ IF renewal[p] = "idle"
           THEN /\ requested' = [requested EXCEPT ![p] = Undefined]
                /\ renewal' = [renewal EXCEPT ![p] = "check"]
                /\ target' = [target EXCEPT ![p] = wanted]
           ELSE /\ requested' = [requested EXCEPT ![p] = wanted]
                /\ UNCHANGED <<renewal, target>>
      /\ UNCHANGED <<service, generator, mysql, history>>

\* The interval timer.
RenewalTimer(p, now) == RequestReservationRenewal(p, now)

\* nextId refuses a timestamp beyond the reservation, and asks for a longer one.
NextIdExpired(p, now) ==
  /\ Logical(p, now) > reserved[p]
  /\ RequestReservationRenewal(p, now)

\* The answer to IS_USED_LOCK, and the choice of the window's end.
CheckOwnership(p, now) ==
  LET end == Larger(Larger(reserved[p], target[p]), Logical(p, now) + Window)
  IN  /\ renewal[p] = "check" /\ connected[p]
      /\ lock[worker[p]] = p
      /\ end <= MaxReserved
      /\ renewal' = [renewal EXCEPT ![p] = "update"]
      /\ target' = [target EXCEPT ![p] = end]
      /\ UNCHANGED <<service, generator, requested, mysql, history>>

\* MySQL executes the update.
PersistReservation(p) ==
  /\ renewal[p] = "update" /\ connected[p]
  /\ row' = [row EXCEPT ![p].until = target[p]]
  /\ renewal' = [renewal EXCEPT ![p] = "updated"]
  /\ UNCHANGED <<service, generator, requested, target, connected, lock, history>>

\* Wrong: does not look at the mailbox again.
FinishRenewalOnce(p) ==
  /\ renewal[p] = "updated"
  /\ reserved' = [reserved EXCEPT ![p] = target[p]]
  /\ renewal' = [renewal EXCEPT ![p] = "idle"]
  /\ target' = [target EXCEPT ![p] = Undefined]
  /\ UNCHANGED <<state, step, worker, first, offset, requested, generator, mysql,
                 history>>

\* Its answer arrives: the window is believed in, and what was asked for meanwhile
\* is asked for next.
FinishRenewal(p) ==
  /\ renewal[p] = "updated"
  /\ reserved' = [reserved EXCEPT ![p] = target[p]]
  /\ IF state[p] = "ready" /\ requested[p] # Undefined
       THEN /\ renewal' = [renewal EXCEPT ![p] = "check"]
            /\ target' = [target EXCEPT ![p] = requested[p]]
       ELSE /\ renewal' = [renewal EXCEPT ![p] = "idle"]
            /\ target' = [target EXCEPT ![p] = Undefined]
  /\ requested' = [requested EXCEPT ![p] = Undefined]
  /\ UNCHANGED <<state, step, worker, first, offset, generator, mysql, history>>

\* markOwnershipLost.
OwnershipLost(p) ==
  state' = [state EXCEPT ![p] = IF @ = "ready" THEN "lost" ELSE @]

\* A statement of the renewal fails, its answer is lost, or the lock is not held.
FailRenewal(p) ==
  /\ renewal[p] # "idle"
  /\ OwnershipLost(p)
  /\ renewal' = [renewal EXCEPT ![p] = "idle"]
  /\ requested' = [requested EXCEPT ![p] = Undefined]
  /\ target' = [target EXCEPT ![p] = Undefined]
  /\ UNCHANGED <<step, worker, first, offset, reserved, generator, mysql, history>>

----------------------------------------------------------------------------
(* The end of an ownership. *)

Freed(p) == [w \in Slots |-> IF lock[w] = p THEN None ELSE lock[w]]

\* MySQL ends the connection, at any time.
LoseConnection(p) ==
  /\ connected[p]
  /\ connected' = [connected EXCEPT ![p] = FALSE]
  /\ lock' = Freed(p)
  /\ UNCHANGED <<service, generator, renewing, row, history>>

\* handleConnectionLoss, some time later or never.
NoticeLoss(p) ==
  /\ ~connected[p]
  /\ state[p] = "ready"
  /\ OwnershipLost(p)
  /\ UNCHANGED <<step, worker, first, offset, reserved, generator, renewing,
                 mysql, history>>

\* dispose, up to its first await.
Dispose(p) ==
  /\ step[p] \in {"done", "failed"}
  /\ state[p] # "closed"
  /\ state' = [state EXCEPT ![p] = "closed"]
  /\ UNCHANGED <<step, worker, first, offset, reserved, generator, renewing,
                 mysql, history>>

\* releaseQueryRunner, once no renewal is under way.
ReleaseQueryRunner(p) ==
  /\ state[p] = "closed" \/ step[p] = "failed"
  /\ renewal[p] = "idle"
  /\ connected[p]
  /\ connected' = [connected EXCEPT ![p] = FALSE]
  /\ lock' = Freed(p)
  /\ UNCHANGED <<service, generator, renewing, row, history>>

----------------------------------------------------------------------------
IdInit ==
  /\ state = [p \in Procs |-> "uninitialized"]
  /\ step = [p \in Procs |-> "start"]
  /\ worker = [p \in Procs |-> None]
  /\ first = [p \in Procs |-> Undefined]
  /\ offset = [p \in Procs |-> 0]
  /\ reserved = [p \in Procs |-> Undefined]
  /\ last = [p \in Procs |-> Undefined]
  /\ sequence = [p \in Procs |-> 0]
  /\ requested = [p \in Procs |-> Undefined]
  /\ renewal = [p \in Procs |-> "idle"]
  /\ target = [p \in Procs |-> Undefined]
  /\ connected = [p \in Procs |-> FALSE]
  /\ lock = [w \in Slots |-> None]
  /\ row = [p \in Procs |-> [worker |-> None, until |-> Undefined]]
  /\ issued = {}
  /\ twice = {}

Starting(p) ==
  \/ Register(p)
  \/ \E w \in Slots : ClaimWorkerSlot(p, w)
  \/ \E now \in Clock : ReadPreviousReservation(p, now)
  \/ PersistFirstReservation(p)
  \/ FinishInit(p)
  \/ FailInit(p)

Generating(p) ==
  \E now \in Clock : NextId(p, now) \/ NextIdExpired(p, now)

Renewing(p) ==
  \/ \E now \in Clock : RenewalTimer(p, now) \/ CheckOwnership(p, now)
  \/ PersistReservation(p)
  \/ FinishRenewal(p)
  \/ FailRenewal(p)

Ending(p) ==
  LoseConnection(p) \/ NoticeLoss(p) \/ Dispose(p) \/ ReleaseQueryRunner(p)

IdNext == \E p \in Procs : Starting(p) \/ Generating(p) \/ Renewing(p) \/ Ending(p)

IdSpec == IdInit /\ [][IdNext]_idVars
============================================================================
