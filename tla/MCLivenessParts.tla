-------------------------- MODULE MCLivenessParts --------------------------
(***************************************************************************)
(* Small instances for TLC, side by side, of three components that promise *)
(* progress: ReadAdmission, LiveConsumer and ScrollQueue.  They share no   *)
(* state, and in a behaviour only the one that Init chose moves.           *)
(***************************************************************************)
EXTENDS LiveConsumerProps, ReadAdmissionProps, ScrollQueueProps

VARIABLE part

MCVars == <<part, readVars, vars, scrollVars>>

Reading(A) == part = "read" /\ A /\ UNCHANGED <<part, vars, scrollVars>>

Consuming(A) == part = "consumer" /\ A /\ UNCHANGED <<part, readVars, scrollVars>>

Scrolling(A) == part = "scroll" /\ A /\ UNCHANGED <<part, readVars, vars>>

MCInit ==
  /\ part \in {"read", "consumer", "scroll"}
  /\ ReadInit /\ Init /\ ScrollInit
  /\ part # "consumer" => server = "prompt" /\ db.id = 0

MCNext ==
  \/ \E r \in Reads : Reading(StartTask(r))
  \/ \E r \in Reads : Reading(QueueTask(r))
  \/ \E r \in Reads : Reading(RefuseTask(r))
  \/ \E r \in Reads : Reading(QueueTimeout(r))
  \/ \E r \in Reads, c \in Connections : Reading(Acquire(r, c))
  \/ \E r \in Reads : Reading(PoolExhausted(r))
  \/ \E r \in Reads : Reading(ConnectorGivesUp(r))
  \/ \E r \in Reads : Reading(SessionReady(r))
  \/ \E r \in Reads : Reading(StatementDone(r))
  \/ \E r \in Reads : Reading(StatementFails(r))
  \/ \E r \in Reads : Reading(RollbackUnproven(r))
  \/ \E r \in Reads : Reading(Expire(r))
  \/ \E c \in Connections : Reading(Connected(c))
  \/ \E c \in Connections : Reading(ConnectFails(c))
  \/ Reading(DisposeBulkhead)
  \/ \E w \in Committed : Consuming(Commit(w))
  \/ \E w \in Committed : Consuming(Serve(w))
  \/ Consuming(Start)
  \/ Consuming(ReceiveStreamState)
  \/ Consuming(ReceiveEvents)
  \/ Consuming(ReceiveReset)
  \/ Consuming(ReceiveNonsense)
  \/ Consuming(ReceiveThrows)
  \/ Consuming(FailTransiently)
  \/ Consuming(RetryDelayOver)
  \/ Consuming(FailForGood)
  \/ Consuming(SettleStaleCall)
  \/ \E w \in announced : Consuming(HandleNewRevision(w))
  \/ \E w \in announced : Consuming(HandleNewEvents(w))
  \/ \E w \in announced : Consuming(HandleNewRevisionThrows(w))
  \/ Consuming(SourceOpens)
  \/ Consuming(SourceDrops)
  \/ Consuming(SourceRefused)
  \/ Consuming(Stop)
  \/ \E count \in 1 .. MaxRows - pushed, limit \in PopLimits :
       \E firsts \in SUBSET (pushed + 1 .. pushed + count) :
         Scrolling(PushSolutions(count, firsts, limit))
  \/ \E limit \in PopLimits : Scrolling(PopFromQueue(limit))
  \/ \E key \in timers : Scrolling(Dismiss(key))
  \/ Scrolling(ResetSolutions)
  \/ Scrolling(StartScrolling)
  \/ Scrolling(StopScrolling)

\* No step of a part that rests is enabled: fairness asks nothing of it.
MCSpec ==
  /\ MCInit /\ [][MCNext]_MCVars
  /\ Fairness /\ ReadFairness /\ ScrollFairness
============================================================================
