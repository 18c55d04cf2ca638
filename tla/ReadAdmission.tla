--------------------------- MODULE ReadAdmission ---------------------------
(***************************************************************************)
(* How a read of the event log gets to MySQL: the bulkhead that admits it  *)
(* (contest-event-read-bulkhead.ts), the retried acquisition of a pooled   *)
(* connection and the deadline on the whole read                           *)
(* (contest-event-read-db-deadline.ts), and the connector that prepares    *)
(* the session before anybody uses it (mysql2-utc-connector.ts).           *)
(*                                                                         *)
(* The caller and the operation are apart: a deadline answers the caller   *)
(* and frees its slot, while an acquisition that cannot be cancelled goes  *)
(* on.  Everybody but the timers may be silent forever.  A task with       *)
(* several reads repeats what is modelled for one.                         *)
(***************************************************************************)
EXTENDS Integers, Sequences, FiniteSets

CONSTANTS
  Reads,          \* calls of run()
  Transactional,  \* those that ask for an isolation level
  Connections,    \* places in the pool
  NoConnection,
  Concurrency, MaxQueueSize, MaximumAttempts

ASSUME ReadAdmissionAssumption ==
  /\ IsFiniteSet(Reads)
  /\ Transactional \subseteq Reads
  /\ NoConnection \notin Connections
  /\ Concurrency \in Nat \ {0}
  /\ MaxQueueSize \in Nat
  /\ MaximumAttempts \in Nat \ {0}

VARIABLES
  caller,     \* what the caller of run() sees
  busy,       \* the bulkhead: active
  waiting,    \* the bulkhead: queue
  disposed,   \* the bulkhead: disposed
  operation,  \* where the operation is: its phase, "pause" between attempts
  tries,      \* attempts to acquire
  held,       \* the connection the operation waits for or has
  pool,       \* mysql2: the state of each connection
  dirty       \* MySQL: connections with an open transaction

readVars ==
  <<caller, busy, waiting, disposed, operation, tries, held, pool, dirty>>

Answers == {"served", "refused", "failed"}

Expired(r) == caller[r] # "active"

GoOn(r, phase) == operation' = [operation EXCEPT ![r] = phase]

\* A connection leaves the pool: destroyed, or found broken by mysql2.
Destroyed(c) ==
  /\ pool' = IF c = NoConnection THEN pool ELSE [pool EXCEPT ![c] = "closed"]
  /\ dirty' = dirty \ {c}

\* release(): back into the pool, unless it has left the pool before.
ReleasedConnection(c) ==
  /\ pool' = IF c = NoConnection THEN pool ELSE [pool EXCEPT ![c] = "free"]
  /\ UNCHANGED dirty

----------------------------------------------------------------------------
(* The bulkhead. *)

StartTask(r) ==
  /\ caller[r] = "idle"
  /\ ~disposed /\ busy < Concurrency
  /\ busy' = busy + 1
  /\ caller' = [caller EXCEPT ![r] = "active"]
  /\ GoOn(r, "pause")
  /\ UNCHANGED <<waiting, disposed, tries, held, pool, dirty>>

QueueTask(r) ==
  /\ caller[r] = "idle"
  /\ ~disposed /\ busy >= Concurrency /\ Len(waiting) < MaxQueueSize
  /\ waiting' = Append(waiting, r)
  /\ caller' = [caller EXCEPT ![r] = "queued"]
  /\ UNCHANGED <<busy, disposed, operation, tries, held, pool, dirty>>

\* disposed, or queue-full.
RefuseTask(r) ==
  /\ caller[r] = "idle"
  /\ disposed \/ (busy >= Concurrency /\ Len(waiting) >= MaxQueueSize)
  /\ caller' = [caller EXCEPT ![r] = "refused"]
  /\ UNCHANGED <<busy, waiting, disposed, operation, tries, held, pool, dirty>>

Without(i) ==
  [j \in 1 .. Len(waiting) - 1 |-> IF j < i THEN waiting[j] ELSE waiting[j + 1]]

\* The timer of a queued task: the task leaves the queue, wherever it stands.
QueueTimeout(r) ==
  /\ caller[r] = "queued"
  /\ \E i \in 1 .. Len(waiting) :
       /\ waiting[i] = r
       /\ waiting' = Without(i)
  /\ caller' = [caller EXCEPT ![r] = "refused"]
  /\ UNCHANGED <<busy, disposed, operation, tries, held, pool, dirty>>

\* dispose(): the queue is refused; what runs runs on.
DisposeBulkhead ==
  /\ ~disposed
  /\ disposed' = TRUE
  /\ waiting' = <<>>
  /\ caller' = [r \in Reads |-> IF caller[r] = "queued" THEN "refused" ELSE caller[r]]
  /\ UNCHANGED <<busy, operation, tries, held, pool, dirty>>

\* Wrong: a task that ends frees its slot and starts nobody.
DrainedNobody == 0

\* How many queued tasks are started when one has ended.
Drained ==
  IF disposed \/ waiting = <<>> \/ busy - 1 >= Concurrency THEN 0 ELSE 1

\* The caller is answered, the slot is freed and the queue drained; the operation
\* goes on to phase, if it is still under way.
Answer(r, answer, phase) ==
  LET started == {waiting[i] : i \in 1 .. Drained}
  IN  /\ caller' = [q \in Reads |-> IF q = r THEN answer
                                    ELSE IF q \in started THEN "active"
                                    ELSE caller[q]]
      /\ busy' = (busy - 1) + Drained
      /\ waiting' = SubSeq(waiting, Drained + 1, Len(waiting))
      /\ operation' = [q \in Reads |-> IF q = r THEN phase
                                       ELSE IF q \in started THEN "pause"
                                       ELSE operation[q]]
      /\ UNCHANGED <<disposed, tries>>

\* The operation is over; it is news only to a caller that still waits.
End(r, answer) ==
  IF Expired(r)
  THEN /\ GoOn(r, "none")
       /\ UNCHANGED <<caller, busy, waiting, disposed, tries>>
  ELSE Answer(r, answer, "none")

----------------------------------------------------------------------------
(* Acquisition: runTypeOrmReadWithAcquisitionRetry, the pool, the connector. *)

\* getConnection: a free connection gets its session prepared, a new one first
\* has to be connected.
Acquire(r, c) ==
  /\ operation[r] = "pause"
  /\ \/ pool[c] = "free" /\ pool' = [pool EXCEPT ![c] = "session"]
     \/ /\ pool[c] = "closed"
        /\ \A d \in Connections : pool[d] # "free"
        /\ pool' = [pool EXCEPT ![c] = "connecting"]
  /\ held' = [held EXCEPT ![r] = c]
  /\ tries' = [tries EXCEPT ![r] = @ + 1]
  /\ GoOn(r, "acquire")
  /\ UNCHANGED <<caller, busy, waiting, disposed, dirty>>

\* "No connections available.": tried again, a limited number of times.
PoolExhausted(r) ==
  /\ operation[r] = "pause"
  /\ \A c \in Connections : pool[c] \notin {"free", "closed"}
  /\ IF tries[r] + 1 < MaximumAttempts
     THEN /\ tries' = [tries EXCEPT ![r] = @ + 1]
          /\ UNCHANGED <<caller, busy, waiting, disposed, operation, held, pool, dirty>>
     ELSE /\ Answer(r, "failed", "none")
          /\ UNCHANGED <<held, pool, dirty>>

\* The callback of getConnection: the session is prepared, if the connector
\* still waits for it; otherwise the connection is destroyed.
Connected(c) ==
  /\ pool[c] = "connecting"
  /\ pool' = [pool EXCEPT ![c] = IF \E r \in Reads : held[r] = c THEN "session"
                                 ELSE "closed"]
  /\ UNCHANGED <<caller, busy, waiting, disposed, operation, tries, held, dirty>>

\* The connector gives up on the connection that r waits for.
AcquisitionFailed(r) ==
  /\ held' = [held EXCEPT ![r] = NoConnection]
  /\ End(r, "failed")

\* mysql2 fails to connect, at the latest after connectTimeout.
ConnectFails(c) ==
  /\ pool[c] = "connecting"
  /\ pool' = [pool EXCEPT ![c] = "closed"]
  /\ \/ \E r \in Reads : held[r] = c /\ AcquisitionFailed(r)
     \/ /\ \A r \in Reads : held[r] # c
        /\ UNCHANGED <<caller, busy, waiting, disposed, operation, tries, held>>
  /\ UNCHANGED dirty

\* The time of the connector is up, or the session cannot be prepared.
ConnectorGivesUp(r) ==
  /\ operation[r] = "acquire"
  /\ pool' = [pool EXCEPT ![held[r]] = IF @ = "session" THEN "closed" ELSE @]
  /\ AcquisitionFailed(r)
  /\ UNCHANGED dirty

\* The session is prepared: the operation has its connection, unless it is late.
SessionReady(r) ==
  /\ operation[r] = "acquire" /\ pool[held[r]] = "session"
  /\ IF Expired(r)
     THEN /\ Destroyed(held[r])
          /\ held' = [held EXCEPT ![r] = NoConnection]
          /\ End(r, "failed")
     ELSE /\ pool' = [pool EXCEPT ![held[r]] = "used"]
          /\ GoOn(r, IF r \in Transactional THEN "start" ELSE "query")
          /\ UNCHANGED <<caller, busy, waiting, disposed, tries, held, dirty>>

----------------------------------------------------------------------------
(* The read itself: runTypeOrmReadWithDeadline. *)

Statements == {"start", "query", "commit", "rollback"}

\* What MySQL has of r's transaction once a statement of it was executed.
Executed(r) ==
  IF operation[r] = "start" THEN dirty \cup {held[r]}
  ELSE IF operation[r] = "query" THEN dirty
  ELSE dirty \ {held[r]}

EndRead(r, answer) ==
  /\ held' = [held EXCEPT ![r] = NoConnection]
  /\ End(r, answer)

StatementDone(r) ==
  /\ operation[r] \in Statements /\ held[r] # NoConnection
  /\ \/ /\ operation[r] = "start" \/ (operation[r] = "query" /\ r \in Transactional)
        /\ GoOn(r, IF operation[r] = "start" THEN "query" ELSE "commit")
        /\ dirty' = Executed(r)
        /\ UNCHANGED <<caller, busy, waiting, disposed, tries, held, pool>>
     \/ /\ operation[r] = "commit" \/ (operation[r] = "query" /\ r \notin Transactional)
        /\ pool' = [pool EXCEPT ![held[r]] = "free"]
        /\ dirty' = Executed(r)
        /\ EndRead(r, "served")
     \/ /\ operation[r] = "rollback"
        /\ pool' = [pool EXCEPT ![held[r]] = "free"]
        /\ dirty' = Executed(r)
        /\ EndRead(r, "failed")

\* An error, after MySQL has executed the statement or without; the connection
\* may be lost with it.  A transaction is rolled back, everything else released.
StatementFails(r) ==
  /\ operation[r] \in {"start", "query", "commit"}
  /\ \E lost, executed \in BOOLEAN :
       IF r \in Transactional
       THEN /\ IF lost THEN Destroyed(held[r])
               ELSE dirty' = (IF executed THEN Executed(r) ELSE dirty) /\ UNCHANGED pool
            /\ held' = IF lost THEN [held EXCEPT ![r] = NoConnection] ELSE held
            /\ GoOn(r, "rollback")
            /\ UNCHANGED <<caller, busy, waiting, disposed, tries>>
       ELSE /\ IF lost THEN Destroyed(held[r]) ELSE ReleasedConnection(held[r])
            /\ EndRead(r, "failed")

\* Wrong: whatever became of the rollback, the connection is used again.
UnprovenReleased(r) == ReleasedConnection(held[r])

Unproven(r) == Destroyed(held[r])

\* A rollback that is not known to have worked: the connection is destroyed.
RollbackUnproven(r) ==
  /\ operation[r] = "rollback"
  /\ Unproven(r)
  /\ EndRead(r, "failed")

\* Wrong: once a read has failed, its deadline is no longer there for the rollback.
MayExpireBefore(r) == caller[r] = "active" /\ operation[r] # "rollback"

MayExpire(r) == caller[r] = "active"

\* The deadline.  A connection that the operation has is destroyed, and what it
\* still waits for fails; one it has yet to be given is not known here.
Expire(r) ==
  /\ MayExpire(r)
  /\ IF operation[r] = "acquire"
     THEN Answer(r, "failed", "acquire") /\ UNCHANGED <<held, pool, dirty>>
     ELSE /\ Answer(r, "failed", "none")
          /\ Destroyed(held[r])
          /\ held' = [held EXCEPT ![r] = NoConnection]

----------------------------------------------------------------------------
ReadInit ==
  /\ caller = [r \in Reads |-> "idle"]
  /\ busy = 0
  /\ waiting = <<>>
  /\ disposed = FALSE
  /\ operation = [r \in Reads |-> "none"]
  /\ tries = [r \in Reads |-> 0]
  /\ held = [r \in Reads |-> NoConnection]
  /\ pool = [c \in Connections |-> "closed"]
  /\ dirty = {}

ReadNext ==
  \/ \E r \in Reads :
       \/ StartTask(r) \/ QueueTask(r) \/ RefuseTask(r) \/ QueueTimeout(r)
       \/ \E c \in Connections : Acquire(r, c)
       \/ PoolExhausted(r) \/ ConnectorGivesUp(r) \/ SessionReady(r)
       \/ StatementDone(r) \/ StatementFails(r) \/ RollbackUnproven(r) \/ Expire(r)
  \/ \E c \in Connections : Connected(c) \/ ConnectFails(c)
  \/ DisposeBulkhead

ReadSpec == ReadInit /\ [][ReadNext]_readVars
============================================================================
