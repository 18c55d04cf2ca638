------------------------ MODULE ReadAdmissionProps -------------------------
(***************************************************************************)
(* What the bulkhead and the deadline promise together.                    *)
(***************************************************************************)
EXTENDS ReadAdmission

\* Type invariant of the bulkhead, the operations and the pool.
ReadTypeOK ==
  /\ caller \in [Reads -> {"idle", "queued", "active"} \cup Answers]
  /\ busy \in 0 .. Concurrency
  /\ waiting \in Seq(Reads)
  /\ disposed \in BOOLEAN
  /\ operation \in [Reads -> {"none", "pause", "acquire"} \cup Statements]
  /\ tries \in [Reads -> 0 .. MaximumAttempts]
  /\ held \in [Reads -> Connections \cup {NoConnection}]
  /\ pool \in [Connections -> {"closed", "free", "connecting", "session", "used"}]
  /\ dirty \subseteq Connections

\* The slots add up: one for each caller that is being served, given back exactly
\* once whichever of deadline, failure and success comes first; nobody waits beside
\* a free slot; and everybody who waits is in the queue, once.
SlotsAddUp ==
  /\ busy = Cardinality({r \in Reads : caller[r] = "active"})
  /\ waiting # <<>> => busy = Concurrency /\ ~disposed
  /\ Len(waiting) = Cardinality({r \in Reads : caller[r] = "queued"})
  /\ \A r \in Reads : caller[r] = "queued" => \E i \in DOMAIN waiting : waiting[i] = r

\* Connections are safe to use: nobody shares one, one in the pool belongs to nobody
\* and has no transaction left open by a read that failed half-way, none is lost, taken
\* from the pool for nobody, whichever of deadline, connector and statement gives up
\* first, and a caller that was answered has at most an acquisition left that nobody
\* could cancel.
ConnectionsAreSafe ==
  /\ \A r, q \in Reads : (held[r] = held[q] /\ held[r] # NoConnection) => r = q
  /\ \A r \in Reads : held[r] # NoConnection => pool[held[r]] \notin {"free", "closed"}
  /\ \A c \in Connections : pool[c] \in {"session", "used"} => \E r \in Reads : held[r] = c
  /\ \A c \in Connections : pool[c] = "free" => c \notin dirty
  /\ \A r \in Reads : caller[r] \in Answers => operation[r] \in {"none", "acquire"}

\* The timers: of the queue, of the deadline, of the connector, and mysql2's own
\* for a connection that is not established.
ReadFairness ==
  /\ \A r \in Reads : WF_readVars(QueueTimeout(r)) /\ WF_readVars(Expire(r))
                      /\ WF_readVars(ConnectorGivesUp(r))
  /\ \A c \in Connections : WF_readVars(ConnectFails(c))

ReadFairSpec == ReadSpec /\ ReadFairness

\* Nothing hangs, though MySQL may never answer a statement: everybody who was let
\* in is answered, and every connection that was taken is back in the pool or gone.
NothingHangs ==
  /\ \A r \in Reads : caller[r] \in {"queued", "active"} ~> caller[r] \in Answers
  /\ \A c \in Connections :
       pool[c] \notin {"free", "closed"} ~> pool[c] \in {"free", "closed"}
============================================================================
