---------------------------- MODULE RedisAdapter ---------------------------
(***************************************************************************)
(* The Redis adapter of one instance (contest-event-notification.redis.ts) *)
(* between ioredis, Redis and the coordinator, which reconciles with the   *)
(* database on a timer and when the adapter is subscribed.                 *)
(*                                                                         *)
(* Other instances commit and publish.  Redis forwards a message to those  *)
(* whose SUBSCRIBE it has executed and forgets it; on one connection       *)
(* replies and messages keep their order.  ioredis is configured to        *)
(* reconnect, but neither to subscribe nor to send anything again.  A      *)
(* promise that is settled runs its continuation at any time later.        *)
(*                                                                         *)
(* An operator marked "Wrong" is a slip one could make in the operator     *)
(* that follows it; Next uses none of them, and each breaks a property.    *)
(***************************************************************************)
EXTENDS Integers, Sequences

CONSTANTS
  MaxConnections, \* bound: connections of the subscriber explored
  MaxCommits,     \* bound: commits of other instances
  MaxWire         \* bound: what Redis has sent and was not read

ASSUME RedisAdapterAssumption ==
  MaxConnections \in Nat /\ MaxCommits \in Nat /\ MaxWire \in Nat

VARIABLES
  state,       \* ContestEventNotificationRedisState
  generation,
  link,        \* the connection: "dead" when Redis has lost it, ioredis not yet
  asked,       \* a SUBSCRIBE is on its way to Redis
  served,      \* Redis: this connection is subscribed
  wire,        \* what Redis has sent on this connection
  answers,     \* settled SUBSCRIBE promises, continuation still to come
  committed,   \* the database's watermark
  unsent,      \* commits of other instances that are not published yet
  sent,        \* history: the newest watermark that got to Redis
  told,        \* the newest watermark the coordinator has for its hub
  reconciling, \* the coordinator's reconcile()
  uncovered    \* history: no reconciliation after the last acknowledgement has
               \* succeeded, because one was under way or because it failed

redis == <<link, asked, served, wire>>
others == <<committed, unsent, sent>>
coordinator == <<told, reconciling, uncovered>>
vars == <<state, generation, redis, answers, others, coordinator>>

Active == state \notin {"idle", "stopped"}

\* What the parser refuses: another version, too long, not an envelope at all.
Invalid == MaxCommits + 1

Ack(g) == [kind |-> "ack", value |-> g]

Message(w) == [kind |-> "message", value |-> w]

Idle == [state |-> "idle", mark |-> 0, fresh |-> FALSE]

Larger(a, b) == IF a < b THEN b ELSE a

----------------------------------------------------------------------------
(* The coordinator's reconcile(). *)

\* One at a time: the second is passed over.
Reconcile ==
  reconciling' = IF reconciling.state = "idle" THEN [Idle EXCEPT !.state = "reading"]
                 ELSE [reconciling EXCEPT !.fresh = FALSE]

StartReconcile ==
  /\ Active
  /\ reconciling.state = "idle"
  /\ Reconcile
  /\ UNCHANGED <<state, generation, redis, answers, others, told, uncovered>>

ReadReconcile ==
  /\ reconciling.state = "reading"
  /\ reconciling' = [state |-> "read", mark |-> committed, fresh |-> state = "subscribed"]
  /\ UNCHANGED <<state, generation, redis, answers, others, told, uncovered>>

FailReconcile ==
  /\ reconciling.state = "reading"
  /\ reconciling' = Idle
  /\ uncovered' = TRUE
  /\ UNCHANGED <<state, generation, redis, answers, others, told>>

FinishReconcile ==
  /\ reconciling.state = "read"
  /\ told' = Larger(told, reconciling.mark)
  /\ uncovered' = (uncovered /\ ~reconciling.fresh)
  /\ reconciling' = Idle
  /\ UNCHANGED <<state, generation, redis, answers, others>>

----------------------------------------------------------------------------
(* The other instances, and Redis. *)

Commit ==
  /\ committed < MaxCommits
  /\ committed' = committed + 1
  /\ unsent' = unsent \cup {committed + 1}
  /\ UNCHANGED <<state, generation, redis, answers, sent, coordinator>>

Forwarded(w) ==
  IF link = "up" /\ served THEN wire' = Append(wire, Message(w)) ELSE UNCHANGED wire

\* publishEnvelope gets through, perhaps after its caller has given up waiting.
Publish(w) ==
  /\ w \in unsent
  /\ Len(wire) < MaxWire
  /\ unsent' = unsent \ {w}
  /\ sent' = Larger(sent, w)
  /\ Forwarded(w)
  /\ UNCHANGED <<state, generation, link, asked, served, answers, committed, coordinator>>

\* The publisher is not ready, or the command fails.
FailPublish(w) ==
  /\ w \in unsent
  /\ unsent' = unsent \ {w}
  /\ UNCHANGED <<state, generation, redis, answers, committed, sent, coordinator>>

\* Somebody else publishes on the channel.
PublishInvalid ==
  /\ Len(wire) < MaxWire
  /\ Forwarded(Invalid)
  /\ link = "up" /\ served
  /\ UNCHANGED <<state, generation, link, asked, served, answers, others, coordinator>>

ExecuteSubscribe ==
  /\ link = "up" /\ asked
  /\ Len(wire) < MaxWire
  /\ asked' = FALSE
  /\ served' = TRUE
  /\ wire' = Append(wire, Ack(generation))
  /\ UNCHANGED <<state, generation, link, answers, others, coordinator>>

RejectSubscribe ==
  /\ link = "up" /\ asked
  /\ asked' = FALSE
  /\ answers' = answers \cup {[gen |-> generation, ok |-> FALSE]}
  /\ UNCHANGED <<state, generation, link, served, wire, others, coordinator>>

\* Redis restarts, or the network fails without a word to the client.
LoseConnection ==
  /\ link = "up"
  /\ link' = "dead"
  /\ served' = FALSE
  /\ UNCHANGED <<state, generation, asked, wire, answers, others, coordinator>>

----------------------------------------------------------------------------
(* The adapter. *)

Start ==
  /\ state = "idle"
  /\ state' = "connecting"
  /\ UNCHANGED <<generation, redis, answers, others, coordinator>>

\* The connection is made (again): subscribe.
HandleReady ==
  /\ Active /\ link = "down"
  /\ generation < MaxConnections
  /\ link' = "up"
  /\ generation' = generation + 1
  /\ state' = "subscribing"
  /\ asked' = TRUE
  /\ UNCHANGED <<served, wire, answers, others, coordinator>>

\* The same, but subscribe() throws.
HandleReadyThrows ==
  /\ Active /\ link = "down"
  /\ generation < MaxConnections
  /\ link' = "up"
  /\ generation' = generation + 1
  /\ state' = "degraded"
  /\ UNCHANGED <<asked, served, wire, answers, others, coordinator>>

\* Wrong: the answer to an earlier connection's command counts, too.
ExpectedOfAny(a) == Active /\ state = "subscribing"

Expected(a) == Active /\ state = "subscribing" /\ a.gen = generation

\* The continuation of subscribe(); an acknowledgement of fewer than two channels
\* counts as a failure.  Only after a good one is the coordinator told.
HandleAnswer(a) ==
  /\ a \in answers
  /\ answers' = answers \ {a}
  /\ IF Expected(a) /\ a.ok
       THEN /\ state' = "subscribed"
            /\ Reconcile
            /\ uncovered' = (reconciling.state # "idle")
       ELSE /\ state' = IF Expected(a) THEN "degraded" ELSE state
            /\ UNCHANGED <<reconciling, uncovered>>
  /\ UNCHANGED <<generation, redis, others, told>>

\* The acknowledgement settles the promise.
ReceiveAck ==
  /\ wire # << >> /\ Head(wire).kind = "ack"
  /\ wire' = Tail(wire)
  /\ \E ok \in BOOLEAN : answers' = answers \cup {[gen |-> Head(wire).value, ok |-> ok]}
  /\ UNCHANGED <<state, generation, link, asked, served, others, coordinator>>

Accepted(w) == state = "subscribed" /\ w # Invalid

\* What arrives before the acknowledgement has been handled is dropped.
HandleMessage ==
  /\ wire # << >> /\ Head(wire).kind = "message"
  /\ wire' = Tail(wire)
  /\ told' = IF Accepted(Head(wire).value) THEN Larger(told, Head(wire).value) ELSE told
  /\ UNCHANGED <<state, generation, link, asked, served, answers, others,
                 reconciling, uncovered>>

\* An error event, or the rejection of the first connect().
HandleConnectionError ==
  /\ Active
  /\ state' = "degraded"
  /\ UNCHANGED <<generation, redis, answers, others, coordinator>>

\* The promise of a command that was not answered is rejected with the connection.
Flushed ==
  IF asked \/ \E i \in 1 .. Len(wire) : wire[i].kind = "ack"
    THEN {[gen |-> generation, ok |-> FALSE]} ELSE {}

Disconnected ==
  /\ link' = "down"
  /\ asked' = FALSE
  /\ served' = FALSE
  /\ wire' = << >>
  /\ answers' = answers \cup Flushed

HandleConnectionClosed ==
  /\ Active /\ link # "down"
  /\ Disconnected
  /\ state' = "degraded"
  /\ UNCHANGED <<generation, others, coordinator>>

\* The coordinator's stop, too: the answer of its reconciliation will be ignored.
Stop ==
  /\ state # "stopped"
  /\ state' = "stopped"
  /\ generation' = generation + 1
  /\ Disconnected
  /\ reconciling' = Idle
  /\ UNCHANGED <<others, told, uncovered>>

----------------------------------------------------------------------------
Init ==
  /\ state = "idle"
  /\ generation = 0
  /\ link = "down"
  /\ asked = FALSE /\ served = FALSE
  /\ wire = << >>
  /\ answers = {}
  /\ committed = 0
  /\ unsent = {}
  /\ sent = 0
  /\ told = 0
  /\ reconciling = Idle
  /\ uncovered = FALSE

Reconciling == StartReconcile \/ ReadReconcile \/ FailReconcile \/ FinishReconcile

Others ==
  \/ Commit \/ PublishInvalid
  \/ \E w \in unsent : Publish(w) \/ FailPublish(w)

Connection == ExecuteSubscribe \/ RejectSubscribe \/ LoseConnection

Adapter ==
  \/ Start \/ HandleReady \/ HandleReadyThrows
  \/ \E a \in answers : HandleAnswer(a)
  \/ ReceiveAck \/ HandleMessage
  \/ HandleConnectionError \/ HandleConnectionClosed \/ Stop

Next == Reconciling \/ Others \/ Connection \/ Adapter

Spec == Init /\ [][Next]_vars
============================================================================
