------------------------------- MODULE SseHub ------------------------------
(***************************************************************************)
(* One server's fan-out of "events-available" frames to the SSE clients of *)
(* one contest (contest-sse-hub.ts).                                       *)
(*                                                                         *)
(* Everything runs on one thread, so each handler is a single step: a call *)
(* of the coordinator, a timer, or an event of a client's HTTP response.   *)
(* What a response does with a frame is the environment's choice:          *)
(*   "ok"    taken,  "full" taken but the buffer is full (write is FALSE), *)
(*   "gone"  the response is no longer writable, or the write throws.      *)
(* The variable scheduled tells the two production settings apart: FALSE   *)
(* delivers in the notify call, TRUE coalesces and delivers shard by shard *)
(* on timers.                                                              *)
(*                                                                         *)
(* An operator marked "Wrong" is a slip one could make in the operator     *)
(* that follows it; Next uses none of them, and each breaks a property.    *)
(***************************************************************************)
EXTENDS Watermark, Integers, FiniteSets

CONSTANTS
  Clients,      \* SSE connections, each used once
  Watermarks,   \* the watermarks that may be announced
  NumShards     \* config.fanoutShards

ASSUME HubAssumption ==
  /\ Watermarks \subseteq [rev : Nat \ {0}, id : Nat]
  /\ NumShards \in Nat \ {0}

Shards == 0 .. NumShards - 1

VARIABLES
  scheduled,  \* scheduledFanoutEnabled(), the same for the life of the hub
  client,     \* ClientState of each connection
  fan,        \* ContestFanoutState; on = FALSE: not in the map
  cycle,      \* its active FanoutCycle; on = FALSE: none
  draining,
  owed,       \* history: the newest watermark each connection must hear of
  announced   \* history: every watermark that was announced or read

vars == <<scheduled, client, fan, cycle, draining, owed, announced>>

Outcomes == {"ok", "full", "gone"}

MaybeWatermark == Watermarks \cup {NoWatermark}

Client ==
  [phase : {"absent", "open", "closed"}, paused : BOOLEAN, blocked : BOOLEAN,
   lastSent : MaybeWatermark, pending : MaybeWatermark, shard : Shards]

FanoutState ==
  [on : BOOLEAN, accepted : MaybeWatermark, queued : MaybeWatermark,
   timer : {"none", "start", "flush"}, start : Shards, ordinal : Shards]

FanoutCycle ==
  [on : BOOLEAN, watermark : MaybeWatermark, members : [Shards -> SUBSET Clients],
   first : Shards, index : Shards]

NoClient ==
  [phase |-> "absent", paused |-> FALSE, blocked |-> FALSE,
   lastSent |-> NoWatermark, pending |-> NoWatermark, shard |-> 0]

NoFanout ==
  [on |-> FALSE, accepted |-> NoWatermark, queued |-> NoWatermark,
   timer |-> "none", start |-> 0, ordinal |-> 0]

NoCycle ==
  [on |-> FALSE, watermark |-> NoWatermark, members |-> [s \in Shards |-> {}],
   first |-> 0, index |-> 0]

Open(cs) == { c \in Clients : cs[c].phase = "open" }

----------------------------------------------------------------------------
(* Delivery to one client; the response does what "out" says. *)

\* closeClient.
Closed(s) ==
  [s EXCEPT !.phase = "closed", !.pending = NoWatermark, !.blocked = FALSE]

\* writeEvent and markBlocked.
Written(s, w, out) ==
  [s EXCEPT !.lastSent = w, !.blocked = (out = "full")]

\* Wrong: writes whatever comes, old or new.
DeliveredAlways(s, w, out) ==
  CASE s.phase # "open" -> s
    [] s.phase = "open" /\ out = "gone" -> Closed(s)
    [] s.phase = "open" /\ out # "gone" /\ s.paused ->
         [s EXCEPT !.pending = Latest(@, w)]
    [] OTHER -> IF s.blocked THEN [s EXCEPT !.pending = w] ELSE Written(s, w, out)

\* sendWatermark.
Delivered(s, w, out) ==
  CASE s.phase # "open" -> s
    [] s.phase = "open" /\ out = "gone" -> Closed(s)
    [] s.phase = "open" /\ out # "gone" /\ s.paused ->
         [s EXCEPT !.pending = Latest(@, w)]
    [] OTHER ->
         IF ~Newer(w, Latest(s.lastSent, s.pending)) THEN s
         ELSE IF s.blocked THEN [s EXCEPT !.pending = w]
         ELSE Written(s, w, out)

DeliveredTo(cs, to, w, outs) ==
  [c \in Clients |-> IF c \in to THEN Delivered(cs[c], w, outs[c]) ELSE cs[c]]

\* Every closeClient of the last client of the contest also cancels the fan-out,
\* and with it forgets the newest accepted watermark.
Settle(cs, f, y) ==
  /\ client' = cs
  /\ fan' = IF Open(cs) = {} THEN NoFanout ELSE f
  /\ cycle' = IF Open(cs) = {} THEN NoCycle ELSE y

----------------------------------------------------------------------------
(* Registration. *)

\* Wrong: the registration ordinal is not reduced to a shard.
PrepareClientUnreduced(c) ==
  /\ ~draining
  /\ client[c].phase = "absent"
  /\ client' = [client EXCEPT
       ![c] = [NoClient EXCEPT !.phase = "open", !.paused = TRUE,
                               !.shard = fan.ordinal]]
  /\ fan' = IF scheduled THEN [fan EXCEPT !.on = TRUE, !.ordinal = @ + 1] ELSE fan
  /\ UNCHANGED <<scheduled, cycle, draining, owed, announced>>

\* prepareClient: registered before the database is read, and silent until then.
PrepareClient(c) ==
  /\ ~draining
  /\ client[c].phase = "absent"
  /\ client' = [client EXCEPT
       ![c] = [NoClient EXCEPT !.phase = "open", !.paused = TRUE,
                               !.shard = fan.ordinal]]
  /\ fan' = IF scheduled
              THEN [fan EXCEPT !.on = TRUE, !.ordinal = (@ + 1) % NumShards]
              ELSE fan
  /\ UNCHANGED <<scheduled, cycle, draining, owed, announced>>

\* Wrong: relies on what this connection was sent while it was paused.
ActivateFromPending(c, w, out) ==
  /\ client[c].phase = "open" /\ client[c].paused
  /\ LET s == [client[c] EXCEPT !.paused = FALSE, !.pending = NoWatermark]
         first == Latest(w, client[c].pending)
     IN  Settle([client EXCEPT ![c] = Delivered(s, first, out)], fan, cycle)
  /\ owed' = [owed EXCEPT ![c] = Latest(@, w)]
  /\ announced' = announced \cup {w}
  /\ UNCHANGED <<scheduled, draining>>

\* activateClient: the database's watermark, or a newer one heard meanwhile.
Activate(c, w, out) ==
  /\ client[c].phase = "open" /\ client[c].paused
  /\ LET s == [client[c] EXCEPT !.paused = FALSE, !.pending = NoWatermark]
         first == Latest(Latest(w, client[c].pending), fan.accepted)
     IN  Settle([client EXCEPT ![c] = Delivered(s, first, out)], fan, cycle)
  /\ owed' = [owed EXCEPT ![c] = Latest(@, w)]
  /\ announced' = announced \cup {w}
  /\ UNCHANGED <<scheduled, draining>>

CloseClient(c) ==
  /\ Settle([client EXCEPT ![c] = Closed(@)], fan, cycle)
  /\ UNCHANGED <<scheduled, draining, owed, announced>>

\* The coordinator gives the registration up.
Abort(c) == client[c].phase = "open" /\ client[c].paused /\ CloseClient(c)

\* terminalListener: close, error or finish of the response.
Disconnect(c) == client[c].phase = "open" /\ CloseClient(c)

----------------------------------------------------------------------------
(* Notification. *)

Hears(w) ==
  /\ announced' = announced \cup {w}
  /\ owed' = [c \in Clients |->
       IF client[c].phase = "open" THEN Latest(owed[c], w) ELSE owed[c]]

NotifyDirect(w, outs) ==
  /\ ~scheduled
  /\ Open(client) # {}
  /\ Settle(DeliveredTo(client, Open(client), w, outs), fan, cycle)
  /\ Hears(w)
  /\ UNCHANGED <<scheduled, draining>>

\* Wrong: restarts the timer although a cycle is running.
QueueFanoutRestart(w) ==
  /\ scheduled
  /\ Open(client) # {}
  /\ fan' = IF ~Newer(w, fan.accepted) THEN fan
            ELSE [fan EXCEPT !.accepted = w, !.queued = w, !.timer = "start"]
  /\ Hears(w)
  /\ UNCHANGED <<scheduled, client, cycle, draining>>

\* queueFanout: coalesces with what is queued; an old watermark is dropped.
QueueFanout(w) ==
  /\ scheduled
  /\ Open(client) # {}
  /\ fan' = IF ~Newer(w, fan.accepted) THEN fan
            ELSE [fan EXCEPT
                    !.accepted = w, !.queued = w,
                    !.timer = IF ~cycle.on /\ @ = "none" THEN "start" ELSE @]
  /\ Hears(w)
  /\ UNCHANGED <<scheduled, client, cycle, draining>>

\* Wrong: a watermark queued during the cycle gets no follow-up cycle.
FlushShardNoFollowup(f, y, outs) ==
  LET shard == y.members[(y.first + y.index) % NumShards]
      cs == DeliveredTo(client, shard, Latest(y.watermark, f.queued), outs)
  IN  IF y.index + 1 < NumShards
        THEN Settle(cs, [f EXCEPT !.timer = "flush"], [y EXCEPT !.index = @ + 1])
        ELSE Settle(cs, [f EXCEPT !.timer = "none"], NoCycle)

\* flushNextFanoutShard and finishFanoutCycle, on fan-out f and cycle y.
FlushShard(f, y, outs) ==
  LET shard == y.members[(y.first + y.index) % NumShards]
      cs == DeliveredTo(client, shard, Latest(y.watermark, f.queued), outs)
  IN  IF y.index + 1 < NumShards
        THEN Settle(cs, [f EXCEPT !.timer = "flush"], [y EXCEPT !.index = @ + 1])
        ELSE Settle(cs, [f EXCEPT !.timer = IF f.queued = NoWatermark
                                              THEN "none" ELSE "start"], NoCycle)

\* The coalescing timer: startFanoutCycle, which flushes the first shard itself.
StartFanoutCycle(outs) ==
  /\ fan.timer = "start"
  /\ fan.queued # NoWatermark
  /\ FlushShard(
       [fan EXCEPT !.queued = NoWatermark, !.timer = "none",
                   !.start = (@ + 1) % NumShards],
       [on |-> TRUE, watermark |-> fan.queued,
        members |-> [s \in Shards |-> { c \in Open(client) : client[c].shard = s }],
        first |-> fan.start, index |-> 0],
       outs)
  /\ UNCHANGED <<scheduled, draining, owed, announced>>

\* The timer of the next shard.
FlushNextFanoutShard(outs) ==
  /\ fan.timer = "flush"
  /\ cycle.on
  /\ FlushShard([fan EXCEPT !.timer = "none"], cycle, outs)
  /\ UNCHANGED <<scheduled, draining, owed, announced>>

----------------------------------------------------------------------------
(* Heartbeats and back-pressure. *)

\* sendHeartbeats: skips paused and blocked clients, may block the others.
Beaten(s, out) ==
  CASE s.phase # "open" \/ s.paused \/ s.blocked \/ out = "ok" -> s
    [] s.phase = "open" /\ ~s.paused /\ ~s.blocked /\ out = "gone" -> Closed(s)
    [] s.phase = "open" /\ ~s.paused /\ ~s.blocked /\ out = "full" ->
         [s EXCEPT !.blocked = TRUE]

SendHeartbeats(outs) ==
  /\ ~draining
  /\ Settle([c \in Clients |-> Beaten(client[c], outs[c])], fan, cycle)
  /\ UNCHANGED <<scheduled, draining, owed, announced>>

\* handleDrain: what was pending goes out at once.
HandleDrain(c, out) ==
  /\ client[c].phase = "open" /\ client[c].blocked
  /\ LET s == [client[c] EXCEPT !.blocked = FALSE, !.pending = NoWatermark]
     IN  Settle([client EXCEPT
           ![c] = IF @.pending = NoWatermark THEN s
                  ELSE Delivered(s, @.pending, out)], fan, cycle)
  /\ UNCHANGED <<scheduled, draining, owed, announced>>

BackpressureTimeout(c) ==
  client[c].phase = "open" /\ client[c].blocked /\ CloseClient(c)

----------------------------------------------------------------------------
(* Ends. *)

AllClosed ==
  [c \in Clients |-> IF client[c].phase = "open" THEN Closed(client[c]) ELSE client[c]]

\* closeContest, on a control message or when the contest is gone.
CloseContest ==
  /\ Open(client) # {}
  /\ Settle(AllClosed, NoFanout, NoCycle)
  /\ UNCHANGED <<scheduled, draining, owed, announced>>

\* The coordinator's stop calls beginDraining and closeAll without a pause.
Shutdown ==
  /\ ~draining
  /\ draining' = TRUE
  /\ Settle(AllClosed, NoFanout, NoCycle)
  /\ UNCHANGED <<scheduled, owed, announced>>

Init ==
  /\ scheduled \in BOOLEAN
  /\ client = [c \in Clients |-> NoClient]
  /\ fan = NoFanout
  /\ cycle = NoCycle
  /\ draining = FALSE
  /\ owed = [c \in Clients |-> NoWatermark]
  /\ announced = {}

Timer == \E outs \in [Clients -> Outcomes] :
           StartFanoutCycle(outs) \/ FlushNextFanoutShard(outs)

Attached(c) ==
  Abort(c) \/ \E w \in Watermarks, out \in Outcomes : Activate(c, w, out)

Unblocked(c) == BackpressureTimeout(c) \/ \E out \in Outcomes : HandleDrain(c, out)

Notify(w) ==
  QueueFanout(w) \/ \E outs \in [Clients -> Outcomes] : NotifyDirect(w, outs)

Next ==
  \/ \E c \in Clients : PrepareClient(c)
  \/ \E c \in Clients : Attached(c)
  \/ \E c \in Clients : Disconnect(c)
  \/ \E c \in Clients : Unblocked(c)
  \/ \E w \in Watermarks : Notify(w)
  \/ Timer
  \/ \E outs \in [Clients -> Outcomes] : SendHeartbeats(outs)
  \/ CloseContest
  \/ Shutdown

Spec == Init /\ [][Next]_vars

\* A timer that is set fires; the coordinator activates or aborts what it
\* prepared; a full response drains or runs into the back-pressure timeout.
Fairness ==
  /\ WF_vars(Timer)
  /\ \A c \in Clients : WF_vars(Attached(c)) /\ WF_vars(Unblocked(c))

LiveSpec == Spec /\ Fairness
============================================================================
