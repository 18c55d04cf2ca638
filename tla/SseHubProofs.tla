---------------------------- MODULE SseHubProofs ---------------------------
(***************************************************************************)
(* Proofs about the hub, for every set of connections, every set of        *)
(* watermarks and any number of shards.  The invariant follows a watermark *)
(* on its way to a connection: it is queued, then carried by a cycle that  *)
(* has yet to visit the connection's shard, then sent or pending there.    *)
(***************************************************************************)
EXTENDS SseHubProps, TLAPS

\* What one connection holds: nothing before it is activated, and something pending
\* only while it waits for what will send it.
ClientOK(k) ==
  /\ k.paused => k.lastSent = NoWatermark
  /\ k.phase = "absent" => k.lastSent = NoWatermark
  /\ k.pending # NoWatermark =>
       /\ k.phase = "open"
       /\ k.paused \/ k.blocked
       /\ Newer(k.pending, k.lastSent)

\* The shards that cycle y has yet to flush hold c.
Visits(y, c) ==
  /\ y.on
  /\ \E i \in y.index .. NumShards - 1 : c \in y.members[(y.first + i) % NumShards]

\* Covered, for any connection, fan-out and cycle.
CoveredBy(k, f, y, c, w) ==
  \/ AtLeast(Latest(k.lastSent, k.pending), w)
  \/ k.paused /\ AtLeast(f.accepted, w)
  \/ AtLeast(f.queued, w)
  \/ Visits(y, c) /\ AtLeast(y.watermark, w)

\* Fan-out f and cycle y: WorkHasTimer, and nothing under way is ahead of what was
\* accepted.
PathsOK(f, y) ==
  /\ f.timer = "start" <=> (f.queued # NoWatermark /\ ~y.on)
  /\ f.timer = "flush" <=> y.on
  /\ AtLeast(f.accepted, f.queued)
  /\ AtLeast(f.accepted, y.watermark)
  /\ ~f.on => f = NoFanout /\ y = NoCycle

\* Every open connection will be told what it is owed, and the newest accepted
\* watermark too: that queueFanout may drop what is not newer rests on it.
Reached(cs, f, y, o) ==
  \A c \in Open(cs) :
    CoveredBy(cs[c], f, y, c, o[c]) /\ CoveredBy(cs[c], f, y, c, f.accepted)

\* Whatever is under way was announced.
Known(cs, f, y, an) ==
  /\ \A c \in Clients : {cs[c].lastSent, cs[c].pending} \subseteq an \cup {NoWatermark}
  /\ {f.accepted, f.queued, y.watermark} \subseteq an \cup {NoWatermark}

HubInv ==
  /\ TypeOK
  /\ \A c \in Clients : ClientOK(client[c])
  /\ PathsOK(fan, cycle)
  /\ FanoutLifetime
  /\ Reached(client, fan, cycle, owed)
  /\ Known(client, fan, cycle, announced)
  /\ \A c \in Clients : client[c].phase = "absent" => owed[c] = NoWatermark

\* What a step of the hub may do to a connection: it opens once, is told something new
\* while it is open, or is closed.
Moves(k, d, an) ==
  \/ k.phase = "absent" /\ d.phase = "open" /\ d.lastSent = k.lastSent
  \/ /\ d.phase = k.phase
     /\ \/ d.lastSent = k.lastSent
        \/ k.phase = "open" /\ d.lastSent \in an /\ Newer(d.lastSent, k.lastSent)
  \/ k.phase = "open" /\ d.phase = "closed" /\ d.lastSent = k.lastSent

\* What a delivery of w to some connections leaves of all of them.
DeliveryOK(cs, to, w, an) ==
  /\ cs \in [Clients -> Client]
  /\ Open(cs) \subseteq Open(client)
  /\ \A c \in Clients :
       /\ ClientOK(cs[c]) /\ Moves(client[c], cs[c], an)
       /\ cs[c].paused = client[c].paused
       /\ {cs[c].lastSent, cs[c].pending} \subseteq an \cup {NoWatermark}
  /\ \A c \in Open(cs) :
       /\ AtLeast(Latest(cs[c].lastSent, cs[c].pending),
                  Latest(client[c].lastSent, client[c].pending))
       /\ c \in to => AtLeast(Latest(cs[c].lastSent, cs[c].pending), w)

----------------------------------------------------------------------------
\* compareContestEventWatermarks is a total order, and Latest its maximum.
LEMMA HubOrder ==
  /\ NoWatermark \in MaybeWatermark /\ NoWatermark \notin Watermarks
  /\ \A a, b \in MaybeWatermark : /\ Latest(a, b) \in {a, b}
                                  /\ AtLeast(Latest(a, b), a)
                                  /\ AtLeast(Latest(a, b), b)
  /\ \A a \in MaybeWatermark : AtLeast(a, a) /\ AtLeast(a, NoWatermark)
  /\ \A a \in MaybeWatermark : a # NoWatermark => Newer(a, NoWatermark)
  /\ \A a, b, c \in MaybeWatermark : AtLeast(a, b) /\ AtLeast(b, c) => AtLeast(a, c)
  /\ \A a, b \in MaybeWatermark : Newer(a, b) => AtLeast(a, b) /\ a # b /\ a # NoWatermark
<1>. DEFINE W == [rev : Nat, id : Nat]
<1>1. /\ NoWatermark \in W
      /\ NoWatermark \notin Watermarks
      /\ \A a \in Watermarks : a \in W /\ a.rev # 0
  BY HubAssumption DEF NoWatermark
<1>2. MaybeWatermark \subseteq W
  BY <1>1 DEF MaybeWatermark
<1>3. NoWatermark \in MaybeWatermark /\ NoWatermark \notin Watermarks
  BY <1>1 DEF MaybeWatermark
<1>4. \A a, b \in W : /\ Latest(a, b) \in {a, b}
                      /\ AtLeast(Latest(a, b), a)
                      /\ AtLeast(Latest(a, b), b)
  BY DEF AtLeast, Latest, Newer
<1>5. \A a \in W : AtLeast(a, a) /\ AtLeast(a, NoWatermark)
  BY DEF AtLeast, Newer, NoWatermark
<1>6. \A a \in Watermarks : Newer(a, NoWatermark)
  BY <1>1 DEF Newer, NoWatermark
<1>7. \A a, b, c \in W : AtLeast(a, b) /\ AtLeast(b, c) => AtLeast(a, c)
  BY DEF AtLeast, Newer
<1>8. \A a, b \in W : Newer(a, b) => AtLeast(a, b) /\ a # b /\ a # NoWatermark
  BY DEF AtLeast, Newer, NoWatermark
<1>. HIDE DEF W
<1>9. \A a \in MaybeWatermark : a # NoWatermark => a \in Watermarks
  BY DEF MaybeWatermark
<1>10. QED  BY <1>2, <1>3, <1>4, <1>5, <1>6, <1>7, <1>8, <1>9

\* What a delivery does to a connection.
LEMMA DeliveredClient ==
  ASSUME NEW k \in Client, ClientOK(k), NEW w \in MaybeWatermark, NEW out \in Outcomes,
         NEW an, w \in an \cup {NoWatermark}
  PROVE  LET d == Delivered(k, w, out)
         IN  /\ d \in Client /\ ClientOK(d) /\ Moves(k, d, an)
             /\ d.paused = k.paused /\ d.shard = k.shard
             /\ d.phase = "open" => /\ k.phase = "open"
                                    /\ AtLeast(Latest(d.lastSent, d.pending), w)
                                    /\ AtLeast(Latest(d.lastSent, d.pending),
                                               Latest(k.lastSent, k.pending))
             /\ d.lastSent \in {k.lastSent, w}
             /\ d.pending \in {k.pending, w, NoWatermark}
<1>. DEFINE d == Delivered(k, w, out)
<1>t. /\ k.lastSent \in MaybeWatermark /\ k.pending \in MaybeWatermark
      /\ k.phase \in {"absent", "open", "closed"} /\ k.paused \in BOOLEAN
  BY DEF Client
<1>1. CASE k.phase # "open"
  <2>1. d = k
    BY <1>1 DEF Delivered
  <2>. HIDE DEF d
  <2>2. QED  BY <1>1, <2>1 DEF Moves, d
<1>2. CASE k.phase = "open" /\ out = "gone"
  <2>1. d = [k EXCEPT !.phase = "closed", !.pending = NoWatermark, !.blocked = FALSE]
    BY <1>2 DEF Delivered, Closed
  <2>. HIDE DEF d
  <2>2. d \in Client /\ d.phase = "closed" /\ d.pending = NoWatermark
        /\ d.lastSent = k.lastSent /\ d.paused = k.paused /\ d.shard = k.shard
    BY <2>1, HubOrder DEF Client
  <2>3. QED  BY <1>2, <2>2 DEF Moves, ClientOK, d
<1>3. CASE k.phase = "open" /\ out # "gone" /\ k.paused
  <2>1. d = [k EXCEPT !.pending = Latest(k.pending, w)]
    BY <1>3 DEF Delivered
  <2>. HIDE DEF d
  <2>2. Latest(k.pending, w) \in {k.pending, w}
    BY <1>t, HubOrder
  <2>3. d \in Client /\ d.phase = "open" /\ d.pending = Latest(k.pending, w)
        /\ d.lastSent = k.lastSent /\ d.paused = k.paused /\ d.shard = k.shard
    BY <1>3, <1>t, <2>1, <2>2 DEF Client
  <2>4. k.lastSent = NoWatermark
    BY <1>3 DEF ClientOK
  <2>5. ClientOK(d)
    BY <1>3, <1>t, <2>2, <2>3, <2>4, HubOrder DEF ClientOK
  <2>6. /\ AtLeast(Latest(d.lastSent, d.pending), w)
        /\ AtLeast(Latest(d.lastSent, d.pending), Latest(k.lastSent, k.pending))
    <3>1. AtLeast(d.pending, w) /\ AtLeast(d.pending, k.pending) /\ d.pending \in MaybeWatermark
      BY <1>t, <2>2, <2>3, HubOrder
    <3>2. AtLeast(Latest(d.lastSent, d.pending), d.pending)
          /\ Latest(d.lastSent, d.pending) \in MaybeWatermark
      BY <1>t, <2>3, <3>1, HubOrder
    <3>3. AtLeast(d.pending, Latest(k.lastSent, k.pending))
          /\ Latest(k.lastSent, k.pending) \in MaybeWatermark
      BY <1>t, <2>4, <3>1, HubOrder
    <3>4. QED  BY <3>1, <3>2, <3>3, HubOrder
  <2>7. QED  BY <1>3, <2>2, <2>3, <2>5, <2>6 DEF Moves, d
<1>4. CASE k.phase = "open" /\ out # "gone" /\ ~k.paused
           /\ ~Newer(w, Latest(k.lastSent, k.pending))
  <2>1. d = k
    BY <1>4 DEF Delivered
  <2>. HIDE DEF d
  <2>2. AtLeast(Latest(k.lastSent, k.pending), w)
    BY <1>4 DEF AtLeast
  <2>3. AtLeast(Latest(k.lastSent, k.pending), Latest(k.lastSent, k.pending))
    BY <1>t, HubOrder
  <2>4. QED  BY <1>4, <2>1, <2>2, <2>3 DEF Moves, d
<1>5. CASE k.phase = "open" /\ out # "gone" /\ ~k.paused
           /\ Newer(w, Latest(k.lastSent, k.pending)) /\ k.blocked
  <2>1. d = [k EXCEPT !.pending = w]
    BY <1>5 DEF Delivered
  <2>. HIDE DEF d
  <2>2. d \in Client /\ d.phase = "open" /\ d.pending = w /\ d.blocked
        /\ d.lastSent = k.lastSent /\ d.paused = k.paused /\ d.shard = k.shard
    BY <1>5, <2>1 DEF Client
  <2>3. /\ Latest(k.lastSent, k.pending) \in MaybeWatermark
        /\ AtLeast(Latest(k.lastSent, k.pending), k.lastSent)
        /\ AtLeast(Latest(k.lastSent, w), w)
        /\ Latest(k.lastSent, w) \in MaybeWatermark
    BY <1>t, HubOrder
  <2>4. Newer(w, k.lastSent)
    BY <1>5, <1>t, <2>3, HubOrder DEF AtLeast
  <2>5. AtLeast(Latest(k.lastSent, w), Latest(k.lastSent, k.pending))
    BY <1>5, <2>3, HubOrder
  <2>6. ClientOK(d)
    BY <1>5, <2>2, <2>4 DEF ClientOK
  <2>7. QED  BY <1>5, <2>2, <2>3, <2>5, <2>6 DEF Moves, d
<1>6. CASE k.phase = "open" /\ out # "gone" /\ ~k.paused
           /\ Newer(w, Latest(k.lastSent, k.pending)) /\ ~k.blocked
  <2>1. d = [k EXCEPT !.lastSent = w, !.blocked = (out = "full")]
    BY <1>6 DEF Delivered, Written
  <2>. HIDE DEF d
  <2>2. d \in Client /\ d.phase = "open" /\ d.pending = k.pending
        /\ d.lastSent = w /\ d.paused = k.paused /\ d.shard = k.shard
    BY <1>6, <2>1 DEF Client
  <2>3. k.pending = NoWatermark
    BY <1>6 DEF ClientOK
  <2>4. /\ Latest(k.lastSent, k.pending) \in MaybeWatermark
        /\ AtLeast(Latest(k.lastSent, k.pending), k.lastSent)
        /\ AtLeast(Latest(w, k.pending), w)
        /\ Latest(w, k.pending) \in MaybeWatermark
    BY <1>t, HubOrder
  <2>5. Newer(w, k.lastSent) /\ w # NoWatermark
    BY <1>6, <1>t, <2>4, HubOrder DEF AtLeast
  <2>6. AtLeast(Latest(w, k.pending), Latest(k.lastSent, k.pending))
    BY <1>6, <2>4, HubOrder
  <2>7. ClientOK(d)
    BY <1>6, <2>2, <2>3 DEF ClientOK
  <2>8. QED  BY <1>6, <2>2, <2>4, <2>5, <2>6, <2>7 DEF Moves, d
<1>7. QED  BY <1>1, <1>2, <1>3, <1>4, <1>5, <1>6

\* The idle fan-out is well formed, and nothing is under way in it.
LEMMA IdleFanout ==
  /\ NoFanout \in FanoutState /\ NoCycle \in FanoutCycle
  /\ PathsOK(NoFanout, NoCycle)
  /\ NoClient \in Client /\ ClientOK(NoClient)
<1>1. 0 \in Shards
  BY HubAssumption DEF Shards
<1>2. NoFanout \in FanoutState /\ NoCycle \in FanoutCycle /\ NoClient \in Client
  BY <1>1, HubOrder DEF NoFanout, FanoutState, NoCycle, FanoutCycle, NoClient, Client
<1>3. PathsOK(NoFanout, NoCycle)
  BY HubOrder DEF PathsOK, NoFanout, NoCycle
<1>4. ClientOK(NoClient)
  BY DEF ClientOK, NoClient
<1>5. QED  BY <1>2, <1>3, <1>4

\* A step that settles connections cs, fan-out f and cycle y.
LEMMA SettleStep ==
  ASSUME HubInv,
         NEW cs \in [Clients -> Client], NEW f \in FanoutState, NEW y \in FanoutCycle,
         PathsOK(f, y), f.on = fan.on,
         Open(cs) \subseteq Open(client),
         \A c \in Clients : ClientOK(cs[c]) /\ Moves(client[c], cs[c], announced'),
         Reached(cs, f, y, owed'), Known(cs, f, y, announced'),
         \A c \in Clients : client[c].phase # "open" => owed'[c] = owed[c],
         scheduled' = scheduled, draining' \in BOOLEAN,
         owed' \in [Clients -> MaybeWatermark], announced' \subseteq Watermarks,
         Settle(cs, f, y)
  PROVE  HubInv' /\ \A c \in Clients : Moves(client[c], client'[c], announced')
<1>1. client' = cs
  BY DEF Settle
<1>2. \A c \in Clients : client'[c].phase = "absent" => owed'[c] = NoWatermark
  <2>. SUFFICES ASSUME NEW c \in Clients, cs[c].phase = "absent"
                PROVE  owed'[c] = NoWatermark
    BY <1>1
  <2>1. client[c].phase = "absent"
    BY DEF Moves
  <2>2. QED  BY <2>1 DEF HubInv
<1>3. CASE Open(cs) = {}
  <2>1. fan' = NoFanout /\ cycle' = NoCycle
    BY <1>3 DEF Settle
  <2>2. TypeOK'
    BY <1>1, <2>1, IdleFanout DEF HubInv, TypeOK
  <2>3. PathsOK(fan', cycle')
    BY <2>1, IdleFanout
  <2>4. ~fan'.on
    BY <2>1 DEF NoFanout
  <2>5. FanoutLifetime'
    BY <1>1, <1>3, <2>4 DEF FanoutLifetime, Open
  <2>6. Reached(client', fan', cycle', owed')
    BY <1>1, <1>3 DEF Reached
  <2>7. Known(client', fan', cycle', announced')
    BY <1>1, <2>1 DEF Known, NoFanout, NoCycle
  <2>8. QED  BY <1>1, <1>2, <2>2, <2>3, <2>5, <2>6, <2>7 DEF HubInv
<1>4. CASE Open(cs) # {}
  <2>1. fan' = f /\ cycle' = y
    BY <1>4 DEF Settle
  <2>2. TypeOK'
    BY <1>1, <2>1 DEF HubInv, TypeOK
  <2>3. Open(client) # {} /\ Open(client') # {}
    BY <1>1, <1>4
  <2>4. FanoutLifetime'
    BY <1>1, <2>1, <2>3 DEF HubInv, FanoutLifetime, Open
  <2>5. QED  BY <1>1, <1>2, <2>1, <2>2, <2>4 DEF HubInv
<1>5. QED  BY <1>3, <1>4

\* DeliveredTo does so.
LEMMA DeliveredToAll ==
  ASSUME HubInv, NEW to \in SUBSET Clients, NEW w \in MaybeWatermark,
         NEW outs \in [Clients -> Outcomes],
         NEW an, announced \subseteq an, w \in an \cup {NoWatermark}
  PROVE  DeliveryOK(DeliveredTo(client, to, w, outs), to, w, an)
<1>. DEFINE cs == DeliveredTo(client, to, w, outs)
<1>t. client \in [Clients -> Client]
  BY DEF HubInv, TypeOK
<1>1. \A c \in Clients :
        /\ cs[c] \in Client /\ ClientOK(cs[c]) /\ Moves(client[c], cs[c], an)
        /\ cs[c].paused = client[c].paused
        /\ {cs[c].lastSent, cs[c].pending} \subseteq an \cup {NoWatermark}
        /\ cs[c].phase = "open" =>
             /\ client[c].phase = "open"
             /\ AtLeast(Latest(cs[c].lastSent, cs[c].pending),
                        Latest(client[c].lastSent, client[c].pending))
             /\ c \in to => AtLeast(Latest(cs[c].lastSent, cs[c].pending), w)
  <2>. SUFFICES ASSUME NEW c \in Clients
                PROVE  LET d == cs[c] IN
                       /\ d \in Client /\ ClientOK(d) /\ Moves(client[c], d, an)
                       /\ d.paused = client[c].paused
                       /\ {d.lastSent, d.pending} \subseteq an \cup {NoWatermark}
                       /\ d.phase = "open" =>
                            /\ client[c].phase = "open"
                            /\ AtLeast(Latest(d.lastSent, d.pending),
                                       Latest(client[c].lastSent, client[c].pending))
                            /\ c \in to => AtLeast(Latest(d.lastSent, d.pending), w)
    OBVIOUS
  <2>1. /\ client[c] \in Client /\ ClientOK(client[c]) /\ outs[c] \in Outcomes
        /\ {client[c].lastSent, client[c].pending} \subseteq an \cup {NoWatermark}
    BY <1>t DEF HubInv, Known
  <2>2. CASE c \in to
    <3>1. cs[c] = Delivered(client[c], w, outs[c])
      BY <2>2 DEF DeliveredTo
    <3>. HIDE DEF cs
    <3>2. QED  BY <2>1, <3>1, DeliveredClient
  <2>3. CASE c \notin to
    <3>1. cs[c] = client[c]
      BY <2>3 DEF DeliveredTo
    <3>2. /\ client[c].lastSent \in MaybeWatermark
          /\ client[c].pending \in MaybeWatermark
      BY <2>1 DEF Client
    <3>3. AtLeast(Latest(client[c].lastSent, client[c].pending),
                  Latest(client[c].lastSent, client[c].pending))
      BY <3>2, HubOrder
    <3>. HIDE DEF cs
    <3>4. QED  BY <2>1, <2>3, <3>1, <3>3 DEF Moves
  <2>4. QED  BY <2>2, <2>3
<1>2. cs \in [Clients -> Client]
  <2>1. cs = [c \in Clients |-> cs[c]]
    BY DEF DeliveredTo
  <2>. HIDE DEF cs
  <2>2. QED  BY <1>1, <2>1
<1>. HIDE DEF cs
<1>3. QED  BY <1>1, <1>2 DEF Open, DeliveryOK, cs

\* What covers a connection still does when it has been told more, the fan-out has
\* accepted more and what was queued and carried is so still.
LEMMA StaysCovered ==
  ASSUME NEW k \in Client, NEW d \in Client, d.paused = k.paused,
         AtLeast(Latest(d.lastSent, d.pending), Latest(k.lastSent, k.pending)),
         NEW f \in FanoutState, NEW g \in FanoutState,
         AtLeast(g.accepted, f.accepted), AtLeast(g.queued, f.queued),
         NEW y \in FanoutCycle, NEW c, NEW w \in MaybeWatermark,
         CoveredBy(k, f, y, c, w)
  PROVE  CoveredBy(d, g, y, c, w)
<1>1. /\ Latest(d.lastSent, d.pending) \in MaybeWatermark
      /\ Latest(k.lastSent, k.pending) \in MaybeWatermark
  BY HubOrder DEF Client
<1>2. /\ f.accepted \in MaybeWatermark /\ g.accepted \in MaybeWatermark
      /\ f.queued \in MaybeWatermark /\ g.queued \in MaybeWatermark
  BY DEF FanoutState
<1>3. QED  BY <1>1, <1>2, HubOrder DEF CoveredBy

----------------------------------------------------------------------------
(* One lemma per handler. *)

\* A new connection joins its shard with nothing owed to it.
LEMMA PrepareOK ==
  ASSUME HubInv, NEW c \in Clients, PrepareClient(c)
  PROVE  HubInv' /\ \A d \in Clients : Moves(client[d], client'[d], announced')
<1>. DEFINE new == [NoClient EXCEPT !.phase = "open", !.paused = TRUE, !.shard = fan.ordinal]
<1>1. /\ client' = [client EXCEPT ![c] = new]
      /\ client[c].phase = "absent"
      /\ UNCHANGED <<scheduled, cycle, draining, owed, announced>>
  BY DEF PrepareClient
<1>2. new \in Client /\ new.phase = "open" /\ new.paused
      /\ new.lastSent = NoWatermark /\ new.pending = NoWatermark /\ ClientOK(new)
  <2>1. fan.ordinal \in Shards
    BY DEF HubInv, TypeOK, FanoutState
  <2>2. QED  BY <2>1, IdleFanout DEF NoClient, Client, ClientOK
<1>. HIDE DEF new
<1>3. /\ fan' \in FanoutState
      /\ fan'.on = (IF scheduled THEN TRUE ELSE fan.on)
      /\ fan'.accepted = fan.accepted /\ fan'.queued = fan.queued
      /\ fan'.timer = fan.timer
      /\ ~scheduled => fan' = fan
  <2>1. (fan.ordinal + 1) % NumShards \in Shards
    BY HubAssumption DEF HubInv, TypeOK, FanoutState, Shards
  <2>2. fan \in FanoutState
    BY DEF HubInv, TypeOK
  <2>3. QED  BY <2>1, <2>2 DEF PrepareClient, FanoutState
<1>4. client \in [Clients -> Client]
  BY DEF HubInv, TypeOK
<1>5. TypeOK'
  BY <1>1, <1>2, <1>3 DEF HubInv, TypeOK
<1>6. \A d \in Clients : ClientOK(client'[d]) /\ Moves(client[d], client'[d], announced')
  <2>1. client[c].lastSent = NoWatermark
    BY <1>1 DEF HubInv, ClientOK
  <2>2. QED  BY <1>1, <1>2, <1>4, <2>1 DEF HubInv, Moves
<1>7. PathsOK(fan', cycle')
  BY <1>1, <1>3 DEF HubInv, PathsOK
<1>8. FanoutLifetime'
  <2>1. c \in Open(client')
    BY <1>1, <1>2, <1>4 DEF Open
  <2>2. ~scheduled => ~fan.on
    BY DEF HubInv, FanoutLifetime
  <2>3. scheduled \in BOOLEAN /\ fan.on \in BOOLEAN
    BY DEF HubInv, TypeOK, FanoutState
  <2>4. QED  BY <1>1, <1>3, <2>1, <2>2, <2>3 DEF FanoutLifetime
<1>9. Reached(client', fan', cycle', owed')
  <2>. SUFFICES ASSUME NEW d \in Open(client')
                PROVE  /\ CoveredBy(client'[d], fan', cycle', d, owed'[d])
                       /\ CoveredBy(client'[d], fan', cycle', d, fan'.accepted)
    BY DEF Reached
  <2>1. CASE d = c
    <3>1. owed'[d] = NoWatermark /\ fan'.accepted \in MaybeWatermark
      BY <1>1, <1>3, <2>1 DEF HubInv, FanoutState
    <3>2. client'[d].paused
      BY <1>1, <1>2, <1>4, <2>1
    <3>3. QED  BY <3>1, <3>2, HubOrder DEF CoveredBy
  <2>2. CASE d # c
    <3>1. d \in Open(client) /\ client'[d] = client[d]
      BY <1>1, <1>4, <2>2 DEF Open
    <3>2. QED  BY <1>1, <1>3, <3>1 DEF HubInv, Reached, CoveredBy
  <2>3. QED  BY <2>1, <2>2
<1>10. Known(client', fan', cycle', announced')
  BY <1>1, <1>2, <1>3, <1>4 DEF HubInv, Known
<1>11. \A d \in Clients : client'[d].phase = "absent" => owed'[d] = NoWatermark
  BY <1>1, <1>2, <1>4 DEF HubInv
<1>12. QED  BY <1>5, <1>6, <1>7, <1>8, <1>9, <1>10, <1>11 DEF HubInv

\* A connection that is still silent is owed nothing beyond what it has pending and
\* what was accepted.
LEMMA PausedIsOwed ==
  ASSUME HubInv, NEW c \in Open(client), client[c].paused
  PROVE  AtLeast(Latest(client[c].pending, fan.accepted), owed[c])
<1>1. /\ client[c].pending \in MaybeWatermark /\ client[c].lastSent = NoWatermark
      /\ fan.accepted \in MaybeWatermark /\ fan.queued \in MaybeWatermark
      /\ cycle.watermark \in MaybeWatermark /\ owed[c] \in MaybeWatermark
  BY DEF HubInv, TypeOK, Open, ClientOK, Client, FanoutState, FanoutCycle
<1>2. AtLeast(fan.accepted, fan.queued) /\ AtLeast(fan.accepted, cycle.watermark)
  BY DEF HubInv, PathsOK
<1>3. CoveredBy(client[c], fan, cycle, c, owed[c])
  BY DEF HubInv, Reached
<1>4. AtLeast(client[c].pending, owed[c]) \/ AtLeast(fan.accepted, owed[c])
  <2>1. Latest(client[c].lastSent, client[c].pending) \in {NoWatermark, client[c].pending}
    BY <1>1, HubOrder
  <2>2. AtLeast(Latest(client[c].lastSent, client[c].pending), owed[c])
        => AtLeast(client[c].pending, owed[c])
    BY <1>1, <2>1, HubOrder
  <2>3. QED  BY <1>1, <1>2, <1>3, <2>2, HubOrder DEF CoveredBy
<1>5. QED  BY <1>1, <1>4, HubOrder

\* Activation sends the newer of what was read and what came in meanwhile, and so
\* everything that the silent connection is owed.
LEMMA ActivateOK ==
  ASSUME HubInv, NEW c \in Clients, NEW w \in Watermarks, NEW out \in Outcomes,
         Activate(c, w, out)
  PROVE  HubInv' /\ \A d \in Clients : Moves(client[d], client'[d], announced')
<1>. DEFINE s == [client[c] EXCEPT !.paused = FALSE, !.pending = NoWatermark]
            first == Latest(Latest(w, client[c].pending), fan.accepted)
            told == Delivered(s, first, out)
            cs == [client EXCEPT ![c] = told]
<1>1. /\ client[c].phase = "open" /\ client[c].paused
      /\ Settle(cs, fan, cycle)
      /\ owed' = [owed EXCEPT ![c] = Latest(owed[c], w)]
      /\ announced' = announced \cup {w}
      /\ UNCHANGED <<scheduled, draining>>
  BY DEF Activate
<1>2. /\ client \in [Clients -> Client] /\ client[c] \in Client
      /\ fan \in FanoutState /\ cycle \in FanoutCycle
      /\ owed \in [Clients -> MaybeWatermark] /\ announced \subseteq Watermarks
      /\ c \in Open(client) /\ w \in MaybeWatermark
  BY <1>1 DEF HubInv, TypeOK, Open, MaybeWatermark
<1>3. /\ client[c].pending \in MaybeWatermark /\ fan.accepted \in MaybeWatermark
      /\ owed[c] \in MaybeWatermark
  BY <1>2 DEF Client, FanoutState
<1>4. /\ first \in MaybeWatermark /\ first \in {w, client[c].pending, fan.accepted}
      /\ AtLeast(first, Latest(owed[c], w)) /\ AtLeast(first, fan.accepted)
  <2>1. /\ Latest(w, client[c].pending) \in {w, client[c].pending}
        /\ Latest(w, client[c].pending) \in MaybeWatermark
        /\ AtLeast(Latest(w, client[c].pending), w)
        /\ AtLeast(Latest(w, client[c].pending), client[c].pending)
    BY <1>2, <1>3, HubOrder
  <2>2. /\ first \in {Latest(w, client[c].pending), fan.accepted}
        /\ AtLeast(first, Latest(w, client[c].pending)) /\ AtLeast(first, fan.accepted)
    BY <1>3, <2>1, HubOrder
  <2>3. first \in MaybeWatermark
    BY <1>3, <2>1, <2>2
  <2>. HIDE DEF first
  <2>4. AtLeast(first, w) /\ AtLeast(first, client[c].pending)
    BY <1>2, <1>3, <2>1, <2>2, <2>3, HubOrder
  <2>5. AtLeast(first, owed[c])
    <3>1. AtLeast(Latest(client[c].pending, fan.accepted), owed[c])
          /\ Latest(client[c].pending, fan.accepted) \in {client[c].pending, fan.accepted}
      BY <1>1, <1>2, <1>3, PausedIsOwed, HubOrder
    <3>2. QED  BY <1>3, <2>2, <2>3, <2>4, <3>1, HubOrder
  <2>6. QED  BY <1>2, <1>3, <2>1, <2>2, <2>3, <2>4, <2>5, HubOrder
<1>. HIDE DEF first
<1>5. first \in announced' \cup {NoWatermark}
  BY <1>1, <1>4 DEF HubInv, Known
<1>6. /\ s \in Client /\ ClientOK(s) /\ s.phase = "open"
      /\ s.lastSent = client[c].lastSent /\ s.pending = NoWatermark
  BY <1>1, <1>2, HubOrder DEF HubInv, Client, ClientOK
<1>. HIDE DEF s
<1>7. /\ told \in Client /\ ClientOK(told) /\ Moves(s, told, announced')
      /\ told.phase = "open" => AtLeast(Latest(told.lastSent, told.pending), first)
      /\ told.lastSent \in {s.lastSent, first}
      /\ told.pending \in {s.pending, first, NoWatermark}
  BY <1>4, <1>5, <1>6, DeliveredClient
<1>. HIDE DEF told
<1>8. Moves(client[c], told, announced')
  BY <1>1, <1>6, <1>7 DEF Moves
<1>9. /\ cs \in [Clients -> Client] /\ cs[c] = told
      /\ \A d \in Clients \ {c} : cs[d] = client[d]
  BY <1>2, <1>7
<1>. HIDE DEF cs
<1>10. Open(cs) \subseteq Open(client)
  BY <1>2, <1>9 DEF Open
<1>11. \A d \in Clients : ClientOK(cs[d]) /\ Moves(client[d], cs[d], announced')
  <2>1. \A d \in Clients \ {c} : ClientOK(cs[d]) /\ Moves(client[d], cs[d], announced')
    BY <1>9 DEF HubInv, Moves
  <2>2. QED  BY <1>7, <1>8, <1>9, <2>1
<1>12. Known(cs, fan, cycle, announced')
  <2>1. {told.lastSent, told.pending} \subseteq announced' \cup {NoWatermark}
    BY <1>1, <1>5, <1>6, <1>7 DEF HubInv, Known
  <2>2. QED  BY <1>1, <1>9, <2>1 DEF HubInv, Known
<1>13. owed' \in [Clients -> MaybeWatermark] /\ owed'[c] = Latest(owed[c], w)
       /\ \A d \in Clients \ {c} : owed'[d] = owed[d]
  BY <1>1, <1>2, <1>3, HubOrder
<1>14. Reached(cs, fan, cycle, owed')
  <2>. SUFFICES ASSUME NEW d \in Open(cs)
                PROVE  /\ CoveredBy(cs[d], fan, cycle, d, owed'[d])
                       /\ CoveredBy(cs[d], fan, cycle, d, fan.accepted)
    BY DEF Reached
  <2>1. CASE d = c
    <3>1. AtLeast(Latest(told.lastSent, told.pending), first)
          /\ Latest(told.lastSent, told.pending) \in MaybeWatermark
      BY <1>7, <1>9, <2>1, HubOrder DEF Open, Client
    <3>2. /\ AtLeast(Latest(told.lastSent, told.pending), owed'[c])
          /\ AtLeast(Latest(told.lastSent, told.pending), fan.accepted)
      BY <1>3, <1>4, <1>13, <3>1, HubOrder
    <3>3. QED  BY <1>9, <2>1, <3>2 DEF CoveredBy
  <2>2. CASE d # c
    <3>1. d \in Open(client) /\ cs[d] = client[d] /\ owed'[d] = owed[d]
      BY <1>9, <1>10, <1>13, <2>2 DEF Open
    <3>2. QED  BY <3>1 DEF HubInv, Reached
  <2>3. QED  BY <2>1, <2>2
<1>15. \A d \in Clients : client[d].phase # "open" => owed'[d] = owed[d]
  BY <1>1, <1>13
<1>16. /\ PathsOK(fan, cycle) /\ scheduled' = scheduled /\ draining' \in BOOLEAN
       /\ announced' \subseteq Watermarks
  BY <1>1, <1>2 DEF HubInv, TypeOK
<1>17. QED  BY <1>1, <1>2, <1>9, <1>10, <1>11, <1>12, <1>13, <1>14, <1>15, <1>16, SettleStep

\* A step in which nothing is announced and no connection is told less.
LEMMA QuietStep ==
  ASSUME HubInv, NEW cs \in [Clients -> Client],
         \A c \in Clients :
           /\ ClientOK(cs[c]) /\ Moves(client[c], cs[c], announced)
           /\ cs[c].paused = client[c].paused
           /\ {cs[c].lastSent, cs[c].pending} \subseteq announced \cup {NoWatermark}
           /\ cs[c].phase = "open" =>
                /\ client[c].phase = "open"
                /\ AtLeast(Latest(cs[c].lastSent, cs[c].pending),
                           Latest(client[c].lastSent, client[c].pending)),
         Settle(cs, fan, cycle), UNCHANGED <<scheduled, owed, announced>>,
         draining' \in BOOLEAN
  PROVE  HubInv' /\ \A c \in Clients : Moves(client[c], client'[c], announced')
<1>1. /\ fan \in FanoutState /\ cycle \in FanoutCycle /\ client \in [Clients -> Client]
      /\ owed \in [Clients -> MaybeWatermark] /\ announced \subseteq Watermarks
  BY DEF HubInv, TypeOK
<1>2. Open(cs) \subseteq Open(client)
  BY DEF Open
<1>3. Reached(cs, fan, cycle, owed')
  <2>. SUFFICES ASSUME NEW c \in Open(cs)
                PROVE  /\ CoveredBy(cs[c], fan, cycle, c, owed[c])
                       /\ CoveredBy(cs[c], fan, cycle, c, fan.accepted)
    BY DEF Reached
  <2>1. /\ c \in Clients /\ cs[c].phase = "open" /\ c \in Open(client)
        /\ cs[c] \in Client /\ client[c] \in Client
    BY <1>1, <1>2 DEF Open
  <2>2. /\ CoveredBy(client[c], fan, cycle, c, owed[c])
        /\ CoveredBy(client[c], fan, cycle, c, fan.accepted)
    BY <2>1 DEF HubInv, Reached
  <2>3. /\ fan.accepted \in MaybeWatermark /\ fan.queued \in MaybeWatermark
        /\ AtLeast(fan.accepted, fan.accepted) /\ AtLeast(fan.queued, fan.queued)
        /\ owed[c] \in MaybeWatermark
    BY <1>1, <2>1, HubOrder DEF FanoutState
  <2>4. QED  BY <1>1, <2>1, <2>2, <2>3, StaysCovered
<1>4. Known(cs, fan, cycle, announced')
  BY DEF HubInv, Known
<1>5. PathsOK(fan, cycle)
  BY DEF HubInv
<1>6. QED  BY <1>1, <1>2, <1>3, <1>4, <1>5, SettleStep

\* closeClient tells a connection nothing more.
LEMMA ClosedClient ==
  ASSUME NEW k \in Client, ClientOK(k), k.phase = "open", NEW an
  PROVE  /\ Closed(k) \in Client /\ ClientOK(Closed(k)) /\ Moves(k, Closed(k), an)
         /\ Closed(k).phase = "closed" /\ Closed(k).paused = k.paused
         /\ Closed(k).lastSent = k.lastSent /\ Closed(k).pending = NoWatermark
<1>1. Closed(k) = [k EXCEPT !.phase = "closed", !.pending = NoWatermark, !.blocked = FALSE]
  BY DEF Closed
<1>2. /\ Closed(k) \in Client /\ Closed(k).phase = "closed"
      /\ Closed(k).paused = k.paused
      /\ Closed(k).lastSent = k.lastSent /\ Closed(k).pending = NoWatermark
  BY <1>1, HubOrder DEF Client
<1>3. QED  BY <1>2 DEF ClientOK, Moves

\* What holds of a connection that a quiet step leaves alone.
LEMMA UntouchedClient ==
  ASSUME HubInv, NEW c \in Clients
  PROVE  /\ client[c] \in Client /\ ClientOK(client[c])
         /\ Moves(client[c], client[c], announced)
         /\ {client[c].lastSent, client[c].pending} \subseteq announced \cup {NoWatermark}
         /\ AtLeast(Latest(client[c].lastSent, client[c].pending),
                    Latest(client[c].lastSent, client[c].pending))
<1>1. client[c] \in Client
  BY DEF HubInv, TypeOK
<1>2. AtLeast(Latest(client[c].lastSent, client[c].pending),
              Latest(client[c].lastSent, client[c].pending))
  BY <1>1, HubOrder DEF Client
<1>3. QED  BY <1>1, <1>2 DEF HubInv, Known, Moves

\* Closing a connection takes it out of its shard and may end the fan-out.
LEMMA CloseOK ==
  ASSUME HubInv, NEW c \in Clients, client[c].phase = "open", CloseClient(c)
  PROVE  HubInv' /\ \A d \in Clients : Moves(client[d], client'[d], announced')
<1>. DEFINE cs == [client EXCEPT ![c] = Closed(client[c])]
<1>1. /\ Settle(cs, fan, cycle)
      /\ UNCHANGED <<scheduled, draining, owed, announced>>
  BY DEF CloseClient
<1>2. /\ client \in [Clients -> Client] /\ draining' \in BOOLEAN
      /\ client[c] \in Client /\ ClientOK(client[c])
  BY <1>1 DEF HubInv, TypeOK
<1>3. /\ Closed(client[c]) \in Client /\ ClientOK(Closed(client[c]))
      /\ Moves(client[c], Closed(client[c]), announced)
      /\ Closed(client[c]).phase = "closed"
      /\ Closed(client[c]).paused = client[c].paused
      /\ Closed(client[c]).lastSent = client[c].lastSent
      /\ Closed(client[c]).pending = NoWatermark
  BY <1>2, ClosedClient
<1>4. /\ cs \in [Clients -> Client] /\ cs[c] = Closed(client[c])
      /\ \A d \in Clients \ {c} : cs[d] = client[d]
  BY <1>2, <1>3
<1>. HIDE DEF cs
<1>5. QED  BY <1>1, <1>2, <1>3, <1>4, UntouchedClient, QuietStep

\* Shutdown and deletion close every connection at once.
LEMMA CloseAllOK ==
  ASSUME HubInv, CloseContest \/ Shutdown
  PROVE  HubInv' /\ \A d \in Clients : Moves(client[d], client'[d], announced')
<1>1. /\ Settle(AllClosed, NoFanout, NoCycle)
      /\ UNCHANGED <<scheduled, owed, announced>> /\ draining' \in BOOLEAN
  BY DEF CloseContest, Shutdown, HubInv, TypeOK
<1>2. client \in [Clients -> Client]
  BY DEF HubInv, TypeOK
<1>3. \A c \in Clients : client[c].phase = "open" =>
        /\ Closed(client[c]) \in Client /\ ClientOK(Closed(client[c]))
        /\ Moves(client[c], Closed(client[c]), announced)
        /\ Closed(client[c]).phase = "closed"
        /\ Closed(client[c]).paused = client[c].paused
        /\ Closed(client[c]).lastSent = client[c].lastSent
        /\ Closed(client[c]).pending = NoWatermark
  BY <1>2, ClosedClient DEF HubInv
<1>4. \A c \in Clients : AllClosed[c] = IF client[c].phase = "open"
                                        THEN Closed(client[c]) ELSE client[c]
  BY DEF AllClosed
<1>5. AllClosed \in [Clients -> Client]
  BY <1>2, <1>3 DEF AllClosed
<1>6. Open(AllClosed) = {}
  BY <1>3, <1>4 DEF Open
<1>7. Settle(AllClosed, fan, cycle)
  BY <1>1, <1>6 DEF Settle
<1>8. QED  BY <1>1, <1>3, <1>4, <1>5, <1>7, UntouchedClient, QuietStep

\* A heartbeat may fill a buffer or end a connection, and tells nothing.
LEMMA HeartbeatsOK ==
  ASSUME HubInv, NEW outs \in [Clients -> Outcomes], SendHeartbeats(outs)
  PROVE  HubInv' /\ \A d \in Clients : Moves(client[d], client'[d], announced')
<1>. DEFINE cs == [c \in Clients |-> Beaten(client[c], outs[c])]
<1>1. /\ Settle(cs, fan, cycle)
      /\ UNCHANGED <<scheduled, owed, announced>> /\ draining' \in BOOLEAN
  BY DEF SendHeartbeats, HubInv, TypeOK
<1>2. ASSUME NEW c \in Clients
      PROVE  LET d == cs[c] IN
             /\ d \in Client /\ ClientOK(d) /\ Moves(client[c], d, announced)
             /\ d.paused = client[c].paused
             /\ {d.lastSent, d.pending} \subseteq announced \cup {NoWatermark}
             /\ d.phase = "open" =>
                  /\ client[c].phase = "open"
                  /\ AtLeast(Latest(d.lastSent, d.pending),
                             Latest(client[c].lastSent, client[c].pending))
  <2>. DEFINE k == client[c]
  <2>1. /\ k \in Client /\ ClientOK(k) /\ Moves(k, k, announced)
        /\ {k.lastSent, k.pending} \subseteq announced \cup {NoWatermark}
        /\ AtLeast(Latest(k.lastSent, k.pending), Latest(k.lastSent, k.pending))
    BY UntouchedClient
  <2>2. cs[c] = Beaten(k, outs[c]) /\ outs[c] \in Outcomes
    OBVIOUS
  <2>. HIDE DEF k, cs
  <2>3. CASE k.phase # "open" \/ k.paused \/ k.blocked \/ outs[c] = "ok"
    <3>1. cs[c] = k
      BY <2>2, <2>3 DEF Beaten
    <3>2. QED  BY <2>1, <3>1 DEF k
  <2>4. CASE k.phase = "open" /\ ~k.paused /\ ~k.blocked /\ outs[c] = "gone"
    <3>1. cs[c] = Closed(k)
      BY <2>2, <2>4 DEF Beaten
    <3>2. /\ Closed(k) \in Client /\ ClientOK(Closed(k)) /\ Moves(k, Closed(k), announced)
          /\ Closed(k).phase = "closed" /\ Closed(k).paused = k.paused
          /\ Closed(k).lastSent = k.lastSent /\ Closed(k).pending = NoWatermark
      BY <2>1, <2>4, ClosedClient
    <3>3. QED  BY <2>1, <3>1, <3>2 DEF k
  <2>5. CASE k.phase = "open" /\ ~k.paused /\ ~k.blocked /\ outs[c] = "full"
    <3>1. cs[c] = [k EXCEPT !.blocked = TRUE]
      BY <2>2, <2>5 DEF Beaten
    <3>2. /\ cs[c] \in Client /\ cs[c].phase = k.phase /\ cs[c].paused = k.paused
          /\ cs[c].lastSent = k.lastSent /\ cs[c].pending = k.pending /\ cs[c].blocked
      BY <2>1, <3>1 DEF Client
    <3>3. ClientOK(cs[c]) /\ Moves(k, cs[c], announced)
      BY <2>1, <2>5, <3>2 DEF ClientOK, Moves
    <3>4. QED  BY <2>1, <2>5, <3>2, <3>3 DEF k
  <2>6. QED  BY <2>2, <2>3, <2>4, <2>5 DEF Outcomes
<1>3. cs \in [Clients -> Client]
  BY <1>2
<1>. HIDE DEF cs
<1>4. QED  BY <1>1, <1>2, <1>3, QuietStep

\* A drained response takes up what was pending.
LEMMA DrainOK ==
  ASSUME HubInv, NEW c \in Clients, NEW out \in Outcomes, HandleDrain(c, out)
  PROVE  HubInv' /\ \A d \in Clients : Moves(client[d], client'[d], announced')
<1>. DEFINE k == client[c]
            s == [k EXCEPT !.blocked = FALSE, !.pending = NoWatermark]
            told == IF k.pending = NoWatermark THEN s ELSE Delivered(s, k.pending, out)
            cs == [client EXCEPT ![c] = told]
<1>1. /\ k.phase = "open"
      /\ Settle(cs, fan, cycle)
      /\ UNCHANGED <<scheduled, owed, announced>> /\ draining' \in BOOLEAN
  BY DEF HandleDrain, HubInv, TypeOK
<1>2. /\ k \in Client /\ ClientOK(k)
      /\ {k.lastSent, k.pending} \subseteq announced \cup {NoWatermark}
      /\ client \in [Clients -> Client]
  BY UntouchedClient DEF HubInv, TypeOK
<1>. HIDE DEF k
<1>3. /\ s \in Client /\ ClientOK(s) /\ s.phase = "open" /\ s.paused = k.paused
      /\ s.lastSent = k.lastSent /\ s.pending = NoWatermark
  BY <1>1, <1>2, HubOrder DEF Client, ClientOK
<1>. HIDE DEF s
<1>4. /\ k.lastSent \in MaybeWatermark /\ k.pending \in MaybeWatermark
  BY <1>2 DEF Client
<1>5. /\ told \in Client /\ ClientOK(told) /\ Moves(s, told, announced)
      /\ told.paused = k.paused
      /\ {told.lastSent, told.pending} \subseteq announced \cup {NoWatermark}
      /\ told.phase = "open" => AtLeast(Latest(told.lastSent, told.pending),
                                        Latest(k.lastSent, k.pending))
  <2>1. CASE k.pending = NoWatermark
    <3>1. told = s
      BY <2>1
    <3>. HIDE DEF told
    <3>2. Latest(s.lastSent, s.pending) = Latest(k.lastSent, k.pending)
      BY <1>3, <2>1
    <3>3. AtLeast(Latest(k.lastSent, k.pending), Latest(k.lastSent, k.pending))
      BY <1>4, HubOrder
    <3>4. QED  BY <1>2, <1>3, <3>1, <3>2, <3>3 DEF Moves
  <2>2. CASE k.pending # NoWatermark
    <3>1. told = Delivered(s, k.pending, out)
      BY <2>2
    <3>. HIDE DEF told
    <3>2. /\ told \in Client /\ ClientOK(told) /\ Moves(s, told, announced)
          /\ told.paused = s.paused
          /\ told.phase = "open" =>
               /\ AtLeast(Latest(told.lastSent, told.pending), k.pending)
               /\ AtLeast(Latest(told.lastSent, told.pending),
                          Latest(s.lastSent, s.pending))
          /\ told.lastSent \in {s.lastSent, k.pending}
          /\ told.pending \in {s.pending, k.pending, NoWatermark}
      BY <1>2, <1>3, <1>4, <3>1, DeliveredClient
    <3>3. told.phase = "open" => AtLeast(Latest(told.lastSent, told.pending),
                                         Latest(k.lastSent, k.pending))
      <4>. SUFFICES ASSUME told.phase = "open"
                    PROVE  AtLeast(Latest(told.lastSent, told.pending),
                                   Latest(k.lastSent, k.pending))
        OBVIOUS
      <4>1. Latest(told.lastSent, told.pending) \in MaybeWatermark
        BY <3>2, HubOrder DEF Client
      <4>2. /\ Latest(k.lastSent, NoWatermark) \in MaybeWatermark
            /\ AtLeast(Latest(k.lastSent, NoWatermark), k.lastSent)
            /\ Latest(k.lastSent, k.pending) \in {k.lastSent, k.pending}
        BY <1>4, HubOrder
      <4>3. AtLeast(Latest(told.lastSent, told.pending), k.lastSent)
        BY <1>3, <1>4, <3>2, <4>1, <4>2, HubOrder
      <4>4. QED  BY <3>2, <4>2, <4>3
    <3>4. QED  BY <1>2, <1>3, <3>2, <3>3
  <2>3. QED  BY <2>1, <2>2
<1>. HIDE DEF told
<1>6. Moves(k, told, announced)
  BY <1>1, <1>3, <1>5 DEF Moves
<1>7. /\ cs \in [Clients -> Client] /\ cs[c] = told
      /\ \A d \in Clients \ {c} : cs[d] = client[d]
  BY <1>2, <1>5
<1>. HIDE DEF cs
<1>8. \A d \in Clients :
        /\ ClientOK(cs[d]) /\ Moves(client[d], cs[d], announced)
        /\ cs[d].paused = client[d].paused
        /\ {cs[d].lastSent, cs[d].pending} \subseteq announced \cup {NoWatermark}
        /\ cs[d].phase = "open" =>
             /\ client[d].phase = "open"
             /\ AtLeast(Latest(cs[d].lastSent, cs[d].pending),
                        Latest(client[d].lastSent, client[d].pending))
  BY <1>1, <1>5, <1>6, <1>7, UntouchedClient DEF k
<1>9. QED  BY <1>1, <1>7, <1>8, QuietStep

\* A watermark that is not newer than what was accepted is on its way already; a
\* newer one takes its place in the queue.
LEMMA QueueOK ==
  ASSUME HubInv, NEW w \in Watermarks, QueueFanout(w)
  PROVE  HubInv' /\ \A d \in Clients : Moves(client[d], client'[d], announced')
<1>1. /\ client \in [Clients -> Client] /\ fan \in FanoutState /\ cycle \in FanoutCycle
      /\ owed \in [Clients -> MaybeWatermark] /\ announced \subseteq Watermarks
      /\ w \in MaybeWatermark /\ w # NoWatermark
  BY HubOrder DEF HubInv, TypeOK, MaybeWatermark
<1>2. /\ Open(client) # {}
      /\ announced' = announced \cup {w}
      /\ owed' = [c \in Clients |->
                    IF client[c].phase = "open" THEN Latest(owed[c], w) ELSE owed[c]]
      /\ UNCHANGED <<scheduled, client, cycle, draining>>
      /\ scheduled
  BY DEF QueueFanout, Hears
<1>3. fan.on
  BY <1>2 DEF HubInv, FanoutLifetime
<1>4. /\ fan.accepted \in MaybeWatermark /\ fan.queued \in MaybeWatermark
      /\ cycle.watermark \in MaybeWatermark /\ cycle.on \in BOOLEAN
  BY <1>1 DEF FanoutState, FanoutCycle
<1>5. /\ fan' \in FanoutState /\ fan'.on = fan.on
      /\ AtLeast(fan'.accepted, w)
      /\ AtLeast(fan'.accepted, fan.accepted)
      /\ AtLeast(fan'.queued, fan.queued)
      /\ fan'.accepted \in {fan.accepted, w} /\ fan'.queued \in {fan.queued, w}
      /\ fan'.accepted # fan.accepted => fan'.queued = fan'.accepted
      /\ PathsOK(fan', cycle)
  <2>1. CASE ~Newer(w, fan.accepted)
    <3>1. fan' = fan
      BY <2>1 DEF QueueFanout
    <3>2. AtLeast(fan.accepted, w)
      BY <2>1 DEF AtLeast
    <3>3. QED  BY <1>1, <1>4, <3>1, <3>2, HubOrder DEF HubInv
  <2>2. CASE Newer(w, fan.accepted)
    <3>1. fan' = [fan EXCEPT
                    !.accepted = w, !.queued = w,
                    !.timer = IF ~cycle.on /\ fan.timer = "none" THEN "start" ELSE fan.timer]
      BY <2>2 DEF QueueFanout
    <3>2. /\ fan' \in FanoutState /\ fan'.on = fan.on
          /\ fan'.accepted = w /\ fan'.queued = w
          /\ fan'.timer = IF ~cycle.on /\ fan.timer = "none" THEN "start" ELSE fan.timer
      BY <1>1, <3>1 DEF FanoutState
    <3>3. /\ AtLeast(w, fan.accepted) /\ AtLeast(fan.accepted, fan.queued)
          /\ AtLeast(fan.accepted, cycle.watermark)
      BY <1>1, <1>4, <2>2, HubOrder DEF HubInv, PathsOK
    <3>4. AtLeast(w, fan.queued) /\ AtLeast(w, cycle.watermark) /\ AtLeast(w, w)
      BY <1>1, <1>4, <3>3, HubOrder
    <3>5. fan.timer \in {"none", "start", "flush"}
      BY <1>1 DEF FanoutState
    <3>6. PathsOK(fan', cycle)
      BY <1>1, <1>3, <1>4, <3>2, <3>4, <3>5 DEF HubInv, PathsOK
    <3>7. QED  BY <3>2, <3>3, <3>4, <3>6
  <2>3. QED  BY <2>1, <2>2
<1>6. Settle(client, fan', cycle)
  BY <1>2 DEF Settle
<1>7. Reached(client, fan', cycle, owed')
  <2>. SUFFICES ASSUME NEW c \in Open(client)
                PROVE  /\ CoveredBy(client[c], fan', cycle, c, owed'[c])
                       /\ CoveredBy(client[c], fan', cycle, c, fan'.accepted)
    BY DEF Reached
  <2>1. /\ c \in Clients /\ client[c] \in Client /\ client[c].phase = "open"
        /\ owed[c] \in MaybeWatermark /\ owed'[c] = Latest(owed[c], w)
        /\ owed'[c] \in {owed[c], w}
    BY <1>1, <1>2, HubOrder DEF Open
  <2>2. AtLeast(Latest(client[c].lastSent, client[c].pending),
                Latest(client[c].lastSent, client[c].pending))
    BY <2>1, UntouchedClient
  <2>3. /\ CoveredBy(client[c], fan', cycle, c, owed[c])
        /\ CoveredBy(client[c], fan', cycle, c, fan.accepted)
    <3>1. /\ CoveredBy(client[c], fan, cycle, c, owed[c])
          /\ CoveredBy(client[c], fan, cycle, c, fan.accepted)
      BY DEF HubInv, Reached
    <3>2. QED  BY <1>1, <1>4, <1>5, <2>1, <2>2, <3>1, StaysCovered
  <2>4. CoveredBy(client[c], fan', cycle, c, fan'.accepted)
    <3>1. CASE fan'.accepted = fan.accepted
      BY <2>3, <3>1
    <3>2. CASE fan'.accepted # fan.accepted
      <4>1. AtLeast(fan'.queued, fan'.accepted)
        BY <1>4, <1>1, <1>5, <3>2, HubOrder
      <4>2. QED  BY <4>1 DEF CoveredBy
    <3>3. QED  BY <3>1, <3>2
  <2>5. CoveredBy(client[c], fan', cycle, c, w)
    <3>1. /\ fan'.accepted \in MaybeWatermark /\ fan'.queued \in MaybeWatermark
          /\ Latest(client[c].lastSent, client[c].pending) \in MaybeWatermark
      BY <1>1, <1>4, <1>5, <2>1, HubOrder DEF Client
    <3>2. QED  BY <1>1, <1>4, <1>5, <2>4, <3>1, HubOrder DEF CoveredBy
  <2>6. QED  BY <2>1, <2>3, <2>4, <2>5
<1>8. /\ owed' \in [Clients -> MaybeWatermark] /\ announced' \subseteq Watermarks
      /\ \A c \in Clients : client[c].phase # "open" => owed'[c] = owed[c]
      /\ scheduled' = scheduled /\ draining' \in BOOLEAN
  BY <1>1, <1>2, HubOrder DEF HubInv, TypeOK
<1>9. \A c \in Clients : ClientOK(client[c]) /\ Moves(client[c], client[c], announced')
  BY DEF HubInv, Moves
<1>10. Known(client, fan', cycle, announced')
  BY <1>2, <1>5 DEF HubInv, Known
<1>11. QED  BY <1>1, <1>5, <1>6, <1>7, <1>8, <1>9, <1>10, SettleStep

\* Without coalescing a watermark is sent to every open connection at once.
LEMMA NotifyDirectOK ==
  ASSUME HubInv, NEW w \in Watermarks, NEW outs \in [Clients -> Outcomes],
         NotifyDirect(w, outs)
  PROVE  HubInv' /\ \A d \in Clients : Moves(client[d], client'[d], announced')
<1>. DEFINE cs == DeliveredTo(client, Open(client), w, outs)
<1>1. /\ client \in [Clients -> Client] /\ fan \in FanoutState /\ cycle \in FanoutCycle
      /\ owed \in [Clients -> MaybeWatermark] /\ announced \subseteq Watermarks
      /\ w \in MaybeWatermark
  BY DEF HubInv, TypeOK, MaybeWatermark
<1>2. /\ Settle(cs, fan, cycle)
      /\ announced' = announced \cup {w}
      /\ owed' = [c \in Clients |->
                    IF client[c].phase = "open" THEN Latest(owed[c], w) ELSE owed[c]]
      /\ UNCHANGED <<scheduled, draining>>
  BY DEF NotifyDirect, Hears
<1>3. Open(client) \in SUBSET Clients
  BY DEF Open
<1>4. DeliveryOK(cs, Open(client), w, announced')
  <2>1. announced \subseteq announced' /\ w \in announced' \cup {NoWatermark}
    BY <1>2
  <2>2. QED  BY <1>1, <1>3, <2>1, DeliveredToAll
<1>. HIDE DEF cs
<1>5. Reached(cs, fan, cycle, owed')
  <2>. SUFFICES ASSUME NEW c \in Open(cs)
                PROVE  /\ CoveredBy(cs[c], fan, cycle, c, owed'[c])
                       /\ CoveredBy(cs[c], fan, cycle, c, fan.accepted)
    BY DEF Reached
  <2>1. /\ c \in Clients /\ c \in Open(client) /\ cs[c] \in Client /\ client[c] \in Client
        /\ owed[c] \in MaybeWatermark /\ owed'[c] \in {owed[c], w}
    BY <1>1, <1>2, <1>4, HubOrder DEF Open, DeliveryOK
  <2>2. /\ fan.accepted \in MaybeWatermark /\ fan.queued \in MaybeWatermark
        /\ AtLeast(fan.accepted, fan.accepted) /\ AtLeast(fan.queued, fan.queued)
    BY <1>1, HubOrder DEF FanoutState
  <2>3. /\ CoveredBy(client[c], fan, cycle, c, owed[c])
        /\ CoveredBy(client[c], fan, cycle, c, fan.accepted)
    BY <2>1 DEF HubInv, Reached
  <2>4. /\ CoveredBy(cs[c], fan, cycle, c, owed[c])
        /\ CoveredBy(cs[c], fan, cycle, c, fan.accepted)
    BY <1>1, <1>4, <2>1, <2>2, <2>3, StaysCovered DEF DeliveryOK
  <2>5. CoveredBy(cs[c], fan, cycle, c, w)
    BY <1>4 DEF CoveredBy, DeliveryOK
  <2>6. QED  BY <2>1, <2>4, <2>5
<1>6. /\ owed' \in [Clients -> MaybeWatermark] /\ announced' \subseteq Watermarks
      /\ \A c \in Clients : client[c].phase # "open" => owed'[c] = owed[c]
      /\ scheduled' = scheduled /\ draining' \in BOOLEAN
  BY <1>1, <1>2, HubOrder DEF HubInv, TypeOK
<1>7. Known(cs, fan, cycle, announced') /\ PathsOK(fan, cycle)
  BY <1>2, <1>4 DEF HubInv, Known, DeliveryOK
<1>8. QED  BY <1>1, <1>2, <1>4, <1>5, <1>6, <1>7, SettleStep DEF DeliveryOK

\* Flushing the next shard of cycle y: whom it visits has heard of everything that the
\* cycle carries and the queue holds, and whom it does not is visited later.
LEMMA FlushOK ==
  ASSUME HubInv, fan.on, NEW f \in FanoutState, NEW y \in FanoutCycle,
         f.on, y.on, f.timer = "none", y.index \in Shards,
         AtLeast(f.accepted, f.queued), AtLeast(f.accepted, y.watermark),
         Reached(client, f, y, owed), Known(client, f, y, announced),
         NEW outs \in [Clients -> Outcomes], FlushShard(f, y, outs),
         UNCHANGED <<scheduled, draining, owed, announced>>
  PROVE  HubInv' /\ \A d \in Clients : Moves(client[d], client'[d], announced')
<1>. DEFINE shard == y.members[(y.first + y.index) % NumShards]
            w == Latest(y.watermark, f.queued)
            cs == DeliveredTo(client, shard, w, outs)
            last == y.index + 1 >= NumShards
            g == IF last THEN [f EXCEPT !.timer = IF f.queued = NoWatermark
                                                  THEN "none" ELSE "start"]
                 ELSE [f EXCEPT !.timer = "flush"]
            z == IF last THEN NoCycle ELSE [y EXCEPT !.index = y.index + 1]
<1>1. /\ client \in [Clients -> Client] /\ y.first \in Shards
      /\ owed \in [Clients -> MaybeWatermark] /\ announced \subseteq Watermarks
      /\ y.members \in [Shards -> SUBSET Clients]
      /\ f.accepted \in MaybeWatermark /\ f.queued \in MaybeWatermark
      /\ y.watermark \in MaybeWatermark
      /\ NumShards \in Nat \ {0}
  BY HubAssumption DEF HubInv, TypeOK, FanoutState, FanoutCycle
<1>2. shard \in SUBSET Clients
  <2>1. (y.first + y.index) % NumShards \in Shards
    BY <1>1 DEF Shards
  <2>2. QED  BY <1>1, <2>1
<1>3. /\ w \in MaybeWatermark /\ w \in announced \cup {NoWatermark}
      /\ AtLeast(w, y.watermark) /\ AtLeast(w, f.queued)
  BY <1>1, HubOrder DEF Known
<1>4. Settle(cs, g, z)
  BY <1>1 DEF FlushShard, Shards
<1>5. DeliveryOK(cs, shard, w, announced)
  <2>. HIDE DEF w, shard
  <2>1. QED  BY <1>2, <1>3, DeliveredToAll
<1>. HIDE DEF cs, w
<1>6. /\ g \in FanoutState /\ g.on /\ g.accepted = f.accepted /\ g.queued = f.queued
      /\ z \in FanoutCycle
      /\ z.watermark \in {y.watermark, NoWatermark}
  <2>1. CASE last
    BY <2>1, <1>1, IdleFanout DEF FanoutState, NoCycle
  <2>2. CASE ~last
    <3>1. y.index + 1 \in Shards
      BY <1>1, <2>2 DEF Shards
    <3>2. QED  BY <1>1, <2>2, <3>1 DEF FanoutState, FanoutCycle
  <2>3. QED  BY <2>1, <2>2
<1>7. PathsOK(g, z)
  <2>1. CASE last
    <3>1. z = NoCycle /\ ~z.on /\ z.watermark = NoWatermark
      BY <2>1 DEF NoCycle
    <3>2. g.timer = IF f.queued = NoWatermark THEN "none" ELSE "start"
      BY <2>1 DEF FanoutState
    <3>3. AtLeast(f.accepted, NoWatermark)
      BY <1>1, HubOrder
    <3>. HIDE DEF g, z
    <3>4. QED  BY <1>6, <3>1, <3>2, <3>3 DEF PathsOK
  <2>2. CASE ~last
    <3>1. z.on /\ z.watermark = y.watermark
      BY <2>2 DEF FanoutCycle
    <3>2. g.timer = "flush"
      BY <2>2 DEF FanoutState
    <3>. HIDE DEF g, z
    <3>3. QED  BY <1>6, <3>1, <3>2 DEF PathsOK
  <2>3. QED  BY <2>1, <2>2
<1>8. ASSUME NEW c \in Open(cs), NEW v \in MaybeWatermark,
             CoveredBy(client[c], f, y, c, v)
      PROVE  CoveredBy(cs[c], g, z, c, v)
  <2>1. /\ c \in Clients /\ cs[c].paused = client[c].paused
        /\ Latest(cs[c].lastSent, cs[c].pending) \in MaybeWatermark
        /\ Latest(client[c].lastSent, client[c].pending) \in MaybeWatermark
    BY <1>1, <1>5, HubOrder DEF Open, Client, DeliveryOK
  <2>2. CASE AtLeast(Latest(client[c].lastSent, client[c].pending), v)
    BY <1>5, <2>1, <2>2, HubOrder DEF CoveredBy, DeliveryOK
  <2>3. CASE client[c].paused /\ AtLeast(f.accepted, v)
    BY <1>6, <2>1, <2>3 DEF CoveredBy
  <2>4. CASE AtLeast(f.queued, v)
    BY <1>6, <2>4 DEF CoveredBy
  <2>5. CASE Visits(y, c) /\ AtLeast(y.watermark, v)
    <3>1. PICK i \in y.index .. NumShards - 1 : c \in y.members[(y.first + i) % NumShards]
      BY <2>5 DEF Visits
    <3>2. CASE i = y.index
      <4>1. AtLeast(Latest(cs[c].lastSent, cs[c].pending), w)
        BY <1>5, <3>1, <3>2 DEF DeliveryOK
      <4>2. QED  BY <1>1, <1>3, <2>1, <2>5, <4>1, HubOrder DEF CoveredBy
    <3>3. CASE i # y.index
      <4>1. ~last /\ i \in y.index + 1 .. NumShards - 1
        BY <1>1, <3>1, <3>3 DEF Shards
      <4>2. /\ z.on /\ z.index = y.index + 1 /\ z.first = y.first
            /\ z.members = y.members /\ z.watermark = y.watermark
        BY <4>1 DEF FanoutCycle
      <4>. HIDE DEF z
      <4>3. Visits(z, c)
        BY <3>1, <4>1, <4>2 DEF Visits
      <4>4. QED  BY <2>5, <4>2, <4>3 DEF CoveredBy
    <3>4. QED  BY <3>2, <3>3
  <2>6. QED  BY <1>8, <2>2, <2>3, <2>4, <2>5 DEF CoveredBy
<1>. HIDE DEF g, z
<1>9. Reached(cs, g, z, owed')
  <2>. SUFFICES ASSUME NEW c \in Open(cs)
                PROVE  /\ CoveredBy(cs[c], g, z, c, owed[c])
                       /\ CoveredBy(cs[c], g, z, c, g.accepted)
    BY DEF Reached
  <2>1. c \in Open(client) /\ owed[c] \in MaybeWatermark
    BY <1>1, <1>5 DEF Open, DeliveryOK
  <2>2. QED  BY <1>1, <1>6, <1>8, <2>1 DEF Reached
<1>10. Known(cs, g, z, announced')
  BY <1>5, <1>6 DEF Known, DeliveryOK
<1>11. /\ owed' \in [Clients -> MaybeWatermark] /\ announced' \subseteq Watermarks
       /\ draining' \in BOOLEAN /\ g.on = fan.on
  BY <1>1, <1>6 DEF HubInv, TypeOK, FanoutState
<1>12. QED  BY <1>4, <1>5, <1>6, <1>7, <1>9, <1>10, <1>11, SettleStep DEF DeliveryOK

\* Every shard has its turn in a cycle, wherever the cycle begins.
LEMMA EveryShardVisited ==
  ASSUME NEW first \in Shards, NEW s \in Shards
  PROVE  \E i \in 0 .. NumShards - 1 : (first + i) % NumShards = s
<1>1. \A x \in 0 .. NumShards - 1 : x % NumShards = x /\ (x + NumShards) % NumShards = x
  BY HubAssumption
<1>2. CASE first <= s
  <2>1. (first + (s - first)) % NumShards = s /\ s - first \in 0 .. NumShards - 1
    BY <1>1, <1>2, HubAssumption DEF Shards
  <2>2. QED  BY <2>1
<1>3. CASE s < first
  <2>1. (first + (s - first + NumShards)) % NumShards = s
        /\ s - first + NumShards \in 0 .. NumShards - 1
    BY <1>1, <1>3, HubAssumption DEF Shards
  <2>2. QED  BY <2>1
<1>4. QED  BY <1>2, <1>3 DEF Shards

\* A cycle carries what was queued to every shard, the first of them at once.
LEMMA StartCycleOK ==
  ASSUME HubInv, NEW outs \in [Clients -> Outcomes], StartFanoutCycle(outs)
  PROVE  HubInv' /\ \A d \in Clients : Moves(client[d], client'[d], announced')
<1>. DEFINE f == [fan EXCEPT !.queued = NoWatermark, !.timer = "none",
                             !.start = (fan.start + 1) % NumShards]
            y == [on |-> TRUE, watermark |-> fan.queued,
                  members |-> [s \in Shards |-> { c \in Open(client) : client[c].shard = s }],
                  first |-> fan.start, index |-> 0]
<1>1. /\ fan.timer = "start" /\ FlushShard(f, y, outs)
      /\ UNCHANGED <<scheduled, draining, owed, announced>>
  BY DEF StartFanoutCycle
<1>2. /\ fan \in FanoutState /\ fan.start \in Shards /\ 0 \in Shards
      /\ fan.queued \in MaybeWatermark /\ fan.accepted \in MaybeWatermark
      /\ client \in [Clients -> Client] /\ owed \in [Clients -> MaybeWatermark]
  BY HubAssumption DEF HubInv, TypeOK, FanoutState, Shards
<1>3. fan.on /\ ~cycle.on
  BY <1>1 DEF HubInv, PathsOK, NoFanout
<1>4. /\ f \in FanoutState /\ f.on /\ f.timer = "none"
      /\ f.accepted = fan.accepted /\ f.queued = NoWatermark
  <2>1. (fan.start + 1) % NumShards \in Shards
    BY <1>2, HubAssumption DEF Shards
  <2>2. QED  BY <1>2, <1>3, <2>1, HubOrder DEF FanoutState
<1>5. /\ y \in FanoutCycle /\ y.on /\ y.index = 0 /\ y.first = fan.start
      /\ y.watermark = fan.queued
      /\ \A s \in Shards : y.members[s] = { c \in Open(client) : client[c].shard = s }
  BY <1>2 DEF FanoutCycle, Open
<1>. HIDE DEF f, y
<1>6. \A c \in Open(client) : Visits(y, c)
  <2>. SUFFICES ASSUME NEW c \in Open(client)
                PROVE  Visits(y, c)
    OBVIOUS
  <2>1. client[c].shard \in Shards
    BY <1>2 DEF Open, Client
  <2>2. PICK i \in 0 .. NumShards - 1 : (fan.start + i) % NumShards = client[c].shard
    BY <1>2, <2>1, EveryShardVisited
  <2>3. QED  BY <1>5, <2>1, <2>2 DEF Visits
<1>7. Reached(client, f, y, owed)
  <2>. SUFFICES ASSUME NEW c \in Open(client)
                PROVE  /\ CoveredBy(client[c], f, y, c, owed[c])
                       /\ CoveredBy(client[c], f, y, c, f.accepted)
    BY DEF Reached
  <2>1. /\ CoveredBy(client[c], fan, cycle, c, owed[c])
        /\ CoveredBy(client[c], fan, cycle, c, fan.accepted)
    BY DEF HubInv, Reached
  <2>2. ~Visits(cycle, c)
    BY <1>3 DEF Visits
  <2>3. QED  BY <1>4, <1>5, <1>6, <2>1, <2>2 DEF CoveredBy
<1>8. /\ AtLeast(f.accepted, f.queued) /\ AtLeast(f.accepted, y.watermark)
      /\ Known(client, f, y, announced)
  BY <1>2, <1>4, <1>5, HubOrder DEF HubInv, PathsOK, Known
<1>9. QED  BY <1>1, <1>2, <1>3, <1>4, <1>5, <1>7, <1>8, FlushOK

\* The next shard has its turn; after the last one the cycle ends or another begins.
LEMMA FlushNextOK ==
  ASSUME HubInv, NEW outs \in [Clients -> Outcomes], FlushNextFanoutShard(outs)
  PROVE  HubInv' /\ \A d \in Clients : Moves(client[d], client'[d], announced')
<1>. DEFINE f == [fan EXCEPT !.timer = "none"]
<1>1. /\ cycle.on /\ FlushShard(f, cycle, outs)
      /\ UNCHANGED <<scheduled, draining, owed, announced>>
  BY DEF FlushNextFanoutShard
<1>2. fan \in FanoutState /\ cycle \in FanoutCycle /\ cycle.index \in Shards
  BY DEF HubInv, TypeOK, FanoutCycle
<1>3. fan.on
  BY <1>1 DEF HubInv, PathsOK, NoCycle
<1>4. /\ f \in FanoutState /\ f.on /\ f.timer = "none"
      /\ f.accepted = fan.accepted /\ f.queued = fan.queued
  BY <1>2, <1>3 DEF FanoutState
<1>. HIDE DEF f
<1>5. /\ Reached(client, f, cycle, owed)
      /\ AtLeast(f.accepted, f.queued) /\ AtLeast(f.accepted, cycle.watermark)
      /\ Known(client, f, cycle, announced)
  BY <1>4 DEF HubInv, PathsOK, Known, Reached, CoveredBy
<1>6. QED  BY <1>1, <1>2, <1>3, <1>4, <1>5, FlushOK

----------------------------------------------------------------------------
(* The invariant is inductive, and no step does to a connection what Moves excludes. *)

\* The empty hub.
LEMMA HubInit == Init => HubInv
<1>. SUFFICES ASSUME Init PROVE HubInv
  OBVIOUS
<1>1. /\ scheduled \in BOOLEAN /\ client = [c \in Clients |-> NoClient]
      /\ fan = NoFanout /\ cycle = NoCycle /\ draining = FALSE
      /\ owed = [c \in Clients |-> NoWatermark] /\ announced = {}
  BY DEF Init
<1>2. TypeOK
  BY <1>1, IdleFanout, HubOrder DEF TypeOK
<1>3. Open(client) = {}
  BY <1>1 DEF Open, NoClient
<1>4. FanoutLifetime /\ Reached(client, fan, cycle, owed)
  BY <1>1, <1>3 DEF FanoutLifetime, Reached, NoFanout
<1>5. Known(client, fan, cycle, announced)
  BY <1>1 DEF Known, NoClient, NoFanout, NoCycle
<1>6. QED  BY <1>1, <1>2, <1>4, <1>5, IdleFanout DEF HubInv

\* Every action of the hub, by the lemma on its handler.
LEMMA HubStep ==
  ASSUME HubInv, [Next]_vars
  PROVE  HubInv' /\ \A d \in Clients : Moves(client[d], client'[d], announced')
<1>1. ASSUME NEW c \in Clients, PrepareClient(c)
      PROVE  HubInv' /\ \A d \in Clients : Moves(client[d], client'[d], announced')
  BY <1>1, PrepareOK
<1>2. ASSUME NEW c \in Clients, Attached(c)
      PROVE  HubInv' /\ \A d \in Clients : Moves(client[d], client'[d], announced')
  <2>1. CASE Abort(c)
    BY <2>1, CloseOK DEF Abort
  <2>2. CASE \E w \in Watermarks, out \in Outcomes : Activate(c, w, out)
    BY <2>2, ActivateOK
  <2>3. QED  BY <1>2, <2>1, <2>2 DEF Attached
<1>3. ASSUME NEW c \in Clients, Disconnect(c)
      PROVE  HubInv' /\ \A d \in Clients : Moves(client[d], client'[d], announced')
  BY <1>3, CloseOK DEF Disconnect
<1>4. ASSUME NEW c \in Clients, Unblocked(c)
      PROVE  HubInv' /\ \A d \in Clients : Moves(client[d], client'[d], announced')
  <2>1. CASE BackpressureTimeout(c)
    BY <2>1, CloseOK DEF BackpressureTimeout
  <2>2. CASE \E out \in Outcomes : HandleDrain(c, out)
    BY <2>2, DrainOK
  <2>3. QED  BY <1>4, <2>1, <2>2 DEF Unblocked
<1>5. ASSUME NEW w \in Watermarks, Notify(w)
      PROVE  HubInv' /\ \A d \in Clients : Moves(client[d], client'[d], announced')
  BY <1>5, QueueOK, NotifyDirectOK DEF Notify
<1>6. CASE Timer
  BY <1>6, StartCycleOK, FlushNextOK DEF Timer
<1>7. CASE \E outs \in [Clients -> Outcomes] : SendHeartbeats(outs)
  BY <1>7, HeartbeatsOK
<1>8. CASE CloseContest \/ Shutdown
  BY <1>8, CloseAllOK
<1>9. CASE UNCHANGED vars
  <2>1. UNCHANGED <<scheduled, client, fan, cycle, draining, owed, announced>>
    BY <1>9 DEF vars
  <2>2. HubInv'
    BY <2>1 DEF HubInv, TypeOK, FanoutLifetime, Open, Reached, Known
  <2>3. QED  BY <2>1, <2>2 DEF Moves
<1>10. QED
  BY <1>1, <1>2, <1>3, <1>4, <1>5, <1>6, <1>7, <1>8, <1>9 DEF Next

\* HubInv holds in every behaviour.
LEMMA HubInductive == Spec => []HubInv
<1>1. HubInv /\ [Next]_vars => HubInv'
  BY HubStep
<1>2. QED  BY HubInit, <1>1, PTL DEF Spec

\* Type correctness of the hub (contest-sse-hub.ts), for any number of connections and
\* shards and any watermarks.
THEOREM HubTypeCorrect == Spec => []TypeOK
<1>1. HubInv => TypeOK
  BY DEF HubInv
<1>2. QED  BY <1>1, HubInductive, PTL

\* What was announced while a connection was open has been written to it, is pending, or
\* is on a path that will still reach it (queueFanout, activateClient, sendWatermark).
THEOREM NothingIsForgotten == Spec => []NothingForgotten
<1>1. HubInv => NothingForgotten
  BY DEF HubInv, Reached, NothingForgotten, CoveredBy, Covered, Visits, StillToVisit
<1>2. QED  BY <1>1, HubInductive, PTL

\* What waits in the hub, in the queue, behind a full buffer or before an activation,
\* has somebody that ends the wait (finishFanoutCycle, handleDrain, closeClient).
THEOREM EveryWaitEnds == Spec => []WaitingEnds
<1>1. HubInv => WaitingEnds
  BY DEF HubInv, PathsOK, ClientOK, WaitingEnds, WorkHasTimer, FanoutLifetime,
         PendingHasWaker, PausedIsSilent
<1>2. QED  BY <1>1, HubInductive, PTL

----------------------------------------------------------------------------
(* The hub implements the feed, as far as safety goes. *)

\* What a step may announce, and who hears of it.
LEMMA HubAnnounces ==
  ASSUME HubInv, [Next]_vars
  PROVE  \E now \in {{}} \cup { {w} : w \in Watermarks } :
           /\ announced' = announced \cup now
           /\ \A c \in Clients :
                \/ owed'[c] = owed[c]
                \/ client[c].phase = "open" /\ \E w \in now : owed'[c] = Latest(owed[c], w)
<1>. DEFINE Heard(now) ==
       /\ announced' = announced \cup now
       /\ \A c \in Clients :
            \/ owed'[c] = owed[c]
            \/ client[c].phase = "open" /\ \E w \in now : owed'[c] = Latest(owed[c], w)
<1>t. owed \in [Clients -> MaybeWatermark]
  BY DEF HubInv, TypeOK
<1>1. ASSUME NEW w \in Watermarks, Notify(w)
      PROVE  Heard({w})
  <2>1. /\ announced' = announced \cup {w}
        /\ owed' = [c \in Clients |->
                      IF client[c].phase = "open" THEN Latest(owed[c], w) ELSE owed[c]]
    BY <1>1 DEF Notify, QueueFanout, NotifyDirect, Hears
  <2>2. QED  BY <2>1
<1>2. ASSUME NEW c \in Clients, NEW w \in Watermarks, NEW out \in Outcomes,
             Activate(c, w, out)
      PROVE  Heard({w})
  <2>1. /\ announced' = announced \cup {w} /\ client[c].phase = "open"
        /\ owed' = [owed EXCEPT ![c] = Latest(owed[c], w)]
    BY <1>2 DEF Activate
  <2>2. QED  BY <1>t, <2>1
<1>3. ASSUME UNCHANGED <<owed, announced>>
      PROVE  Heard({})
  BY <1>3
<1>4. \/ \E w \in Watermarks : Notify(w)
      \/ \E c \in Clients, w \in Watermarks, out \in Outcomes : Activate(c, w, out)
      \/ UNCHANGED <<owed, announced>>
  BY DEF Next, vars, PrepareClient, Attached, Abort, CloseClient, Disconnect, Unblocked,
         BackpressureTimeout, HandleDrain, Timer, StartFanoutCycle,
         FlushNextFanoutShard, SendHeartbeats, CloseContest, Shutdown
<1>. HIDE DEF Heard
<1>5. \E now \in {{}} \cup { {w} : w \in Watermarks } : Heard(now)
  BY <1>1, <1>2, <1>3, <1>4
<1>6. QED  BY <1>5 DEF Heard

\* The hub implements the feed its subscribers rely on, with batching, sharding and
\* back-pressure between: each connection is told an increasing sequence of watermarks
\* that were announced, once it is open and until it is closed (sendWatermark).
THEOREM HubImplementsFeed == Spec => Feed!Init /\ [][Feed!Next]_(Feed!vars)
<1>1. Init => Feed!Init
  BY DEF Init, NoClient, Feed!Init, Feed!NoWatermark, NoWatermark
<1>2. ASSUME HubInv, [Next]_vars
      PROVE  Feed!Next
  <2>1. PICK now \in {{}} \cup { {w} : w \in Watermarks } :
           /\ announced' = announced \cup now
           /\ \A c \in Clients :
                \/ owed'[c] = owed[c]
                \/ client[c].phase = "open" /\ \E w \in now : owed'[c] = Latest(owed[c], w)
    BY <1>2, HubAnnounces
  <2>2. \A c \in Clients : Moves(client[c], client'[c], announced')
    BY <1>2, HubStep
  <2>3. \A a, b : Feed!Latest(a, b) = Latest(a, b) /\ (Feed!Newer(a, b) <=> Newer(a, b))
    BY DEF Feed!Latest, Feed!Newer, Latest, Newer
  <2>4. ASSUME NEW c \in Clients
        PROVE  Feed!Evolves(c, now)
    <3>1. client[c].phase = "absent" => owed'[c] = owed[c]
      BY <2>1
    <3>2. QED  BY <2>1, <2>2, <2>3, <3>1 DEF Moves, Feed!Evolves
  <2>5. QED  BY <2>1, <2>4 DEF Feed!Next
<1>3. HubInv /\ [Next]_vars => [Feed!Next]_(Feed!vars)
  BY <1>2
<1>4. QED  BY <1>1, <1>3, HubInductive, PTL DEF Spec
============================================================================
