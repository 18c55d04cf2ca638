------------------------- MODULE RedisAdapterProofs ------------------------
(***************************************************************************)
(* An adapter that is subscribed misses nothing, for any number of         *)
(* connections, commits and messages under way.                            *)
(*                                                                         *)
(* The argument has two halves.  SubscribeInv: the adapter believes in a   *)
(* subscription only if Redis has executed it on this very connection.     *)
(* GapInv: from then on what Redis is given goes on the wire, and what it  *)
(* was given before is in the next reconciliation that reads the database. *)
(***************************************************************************)
EXTENDS RedisAdapterProps, SequenceTheorems, TLAPS

Item == [kind : {"ack", "message"}, value : Nat]

InWire(m) == \E i \in 1 .. Len(wire) : wire[i] = m

AckInWire == \E i \in 1 .. Len(wire) : wire[i].kind = "ack"

TypeInv ==
  /\ TypeOK
  /\ wire \in Seq(Item)
  /\ state # "stopped" => generation <= MaxConnections
  /\ asked => generation # 0

\* The acknowledgement is in one place at a time: asked for, on the wire, handed to
\* the continuation, or handled.
SubscribeInv ==
  /\ link = "down" => wire = << >> /\ ~asked /\ ~served
  /\ asked => ~AckInWire /\ (\A a \in answers : a.gen # generation) /\ state # "subscribed"
  /\ AckInWire => /\ \A i, j \in 1 .. Len(wire) :
                       (wire[i].kind = "ack" /\ wire[j].kind = "ack") => i = j
                  /\ \A i \in 1 .. Len(wire) :
                       wire[i].kind = "ack" => wire[i].value = generation
                  /\ \A a \in answers : a.gen # generation
                  /\ state # "subscribed"
  /\ (\E a \in answers : a.gen = generation /\ a.ok) => (link = "up" => served)
  /\ AckInWire => (link = "up" => served)
  /\ state = "subscribed" => (link = "up" => served)

\* What Redis was given last is known, will be with mark, or is on the wire.
GapInv ==
  (state = "subscribed" /\ link = "up") =>
    /\ (reconciling.state = "idle" /\ ~uncovered) =>
         told >= sent \/ InWire(Message(sent))
    /\ (reconciling.state = "read" /\ reconciling.fresh) =>
         Larger(told, reconciling.mark) >= sent \/ InWire(Message(sent))
    /\ (reconciling.state = "read" /\ ~reconciling.fresh) => uncovered

RedisInv == TypeInv /\ SubscribeInv /\ GapInv

----------------------------------------------------------------------------
(* The wire. *)

\* What Redis sends goes to the end.
LEMMA WireGrows ==
  ASSUME wire \in Seq(Item), NEW m \in Item, wire' = Append(wire, m)
  PROVE  /\ wire' \in Seq(Item) /\ Len(wire') = Len(wire) + 1
         /\ \A i \in 1 .. Len(wire) : wire'[i] = wire[i]
         /\ wire'[Len(wire) + 1] = m
         /\ InWire(m)'
         /\ \A x : InWire(x) => InWire(x)'
<1>1. /\ wire' \in Seq(Item) /\ Len(wire') = Len(wire) + 1 /\ Len(wire) \in Nat
      /\ \A i \in 1 .. Len(wire) : wire'[i] = wire[i]
      /\ wire'[Len(wire) + 1] = m
  OBVIOUS
<1>2. InWire(m)'
  <2>1. Len(wire) + 1 \in 1 .. Len(wire')
    BY <1>1
  <2>2. QED  BY <1>1, <2>1 DEF InWire
<1>3. ASSUME NEW x, InWire(x)
      PROVE  InWire(x)'
  <2>1. PICK i \in 1 .. Len(wire) : wire[i] = x
    BY <1>3 DEF InWire
  <2>2. i \in 1 .. Len(wire') /\ wire'[i] = x
    BY <1>1, <2>1
  <2>3. QED  BY <2>2 DEF InWire
<1>4. QED  BY <1>1, <1>2, <1>3

\* What the adapter reads comes from the front.
LEMMA WireShrinks ==
  ASSUME wire \in Seq(Item), wire # << >>, wire' = Tail(wire)
  PROVE  /\ wire' \in Seq(Item) /\ Len(wire') = Len(wire) - 1 /\ Len(wire) \in Nat \ {0}
         /\ \A i \in 1 .. Len(wire') : wire'[i] = wire[i + 1]
         /\ Head(wire) = wire[1] /\ Head(wire) \in Item
         /\ \A x : InWire(x) => x = Head(wire) \/ InWire(x)'
<1>1. /\ wire' \in Seq(Item) /\ Len(wire') = Len(wire) - 1 /\ Len(wire) \in Nat \ {0}
      /\ \A i \in 1 .. Len(wire') : wire'[i] = wire[i + 1]
      /\ Head(wire) = wire[1] /\ Head(wire) \in Item
  BY HeadTailProperties
<1>2. ASSUME NEW x, InWire(x), x # Head(wire)
      PROVE  InWire(x)'
  <2>1. PICK i \in 1 .. Len(wire) : wire[i] = x
    BY <1>2 DEF InWire
  <2>2. i - 1 \in 1 .. Len(wire') /\ wire'[i - 1] = x
    BY <1>1, <1>2, <2>1
  <2>3. QED  BY <2>2 DEF InWire
<1>3. QED  BY <1>1, <1>2

----------------------------------------------------------------------------
(* The coordinator and the other instances. *)

\* Reconciliation touches neither connection nor subscription.
LEMMA ReconcileSteps ==
  ASSUME RedisInv, Reconciling
  PROVE  RedisInv'
<1>. USE RedisAdapterAssumption DEF RedisInv
<1>1. /\ UNCHANGED <<state, generation, link, asked, served, wire, answers,
                     committed, unsent, sent>>
  BY DEF Reconciling, StartReconcile, ReadReconcile, FailReconcile, FinishReconcile,
         redis, others
<1>2. SubscribeInv'
  BY <1>1 DEF SubscribeInv, AckInWire
<1>3. reconciling \in [state : {"idle", "reading", "read"}, mark : 0 .. committed,
                       fresh : BOOLEAN]
  BY DEF TypeInv, TypeOK
<1>4. CASE StartReconcile
  <2>1. /\ reconciling' = [state |-> "reading", mark |-> 0, fresh |-> FALSE]
        /\ UNCHANGED <<told, uncovered>>
    BY <1>4 DEF StartReconcile, Reconcile, Idle
  <2>2. TypeInv'
    BY <1>1, <2>1 DEF TypeInv, TypeOK, Ack, Message, Invalid
  <2>3. GapInv'
    BY <1>1, <2>1 DEF GapInv
  <2>4. QED  BY <1>2, <2>2, <2>3
<1>5. CASE ReadReconcile
  <2>1. /\ reconciling' = [state |-> "read", mark |-> committed,
                           fresh |-> state = "subscribed"]
        /\ UNCHANGED <<told, uncovered>>
    BY <1>5 DEF ReadReconcile
  <2>2. TypeInv'
    BY <1>1, <2>1 DEF TypeInv, TypeOK, Ack, Message, Invalid
  <2>3. told \in Nat /\ committed \in Nat /\ sent \in Nat /\ sent <= committed
    BY DEF TypeInv, TypeOK
  <2>4. Larger(told, committed) >= sent
    BY <2>3 DEF Larger
  <2>5. GapInv'
    BY <1>1, <2>1, <2>4 DEF GapInv
  <2>6. QED  BY <1>2, <2>2, <2>5
<1>6. CASE FailReconcile
  <2>1. /\ reconciling' = [state |-> "idle", mark |-> 0, fresh |-> FALSE]
        /\ uncovered' = TRUE /\ told' = told
    BY <1>6 DEF FailReconcile, Idle
  <2>2. TypeInv'
    BY <1>1, <2>1 DEF TypeInv, TypeOK, Ack, Message, Invalid
  <2>3. GapInv'
    BY <1>1, <2>1 DEF GapInv
  <2>4. QED  BY <1>2, <2>2, <2>3
<1>7. CASE FinishReconcile
  <2>1. /\ reconciling.state = "read"
        /\ reconciling' = [state |-> "idle", mark |-> 0, fresh |-> FALSE]
        /\ told' = Larger(told, reconciling.mark)
        /\ uncovered' = (uncovered /\ ~reconciling.fresh)
    BY <1>7 DEF FinishReconcile, Idle
  <2>2. told' \in 0 .. committed /\ uncovered' \in BOOLEAN
    BY <1>3, <2>1 DEF TypeInv, TypeOK, Larger
  <2>3. TypeInv'
    BY <1>1, <2>1, <2>2 DEF TypeInv, TypeOK, Ack, Message, Invalid
  <2>4. GapInv'
    BY <1>1, <1>3, <2>1 DEF GapInv, InWire, Message
  <2>5. QED  BY <1>2, <2>3, <2>4
<1>8. QED  BY <1>4, <1>5, <1>6, <1>7 DEF Reconciling

\* A message that is forwarded, or is not because nobody here is subscribed.
LEMMA ForwardedKeeps ==
  ASSUME RedisInv, NEW w \in Nat, Len(wire) < MaxWire, Forwarded(w),
         w \in 1 .. committed \cup {Invalid},
         UNCHANGED <<state, generation, link, asked, served, answers, committed>>
  PROVE  /\ SubscribeInv'
         /\ wire' \in Seq(Item) /\ Len(wire') <= MaxWire
         /\ \A i \in 1 .. Len(wire') :
              wire'[i] \in { Ack(g) : g \in 1 .. generation }
                           \cup { Message(v) : v \in 1 .. committed \cup {Invalid} }
         /\ \A x : InWire(x) => InWire(x)'
         /\ (state = "subscribed" /\ link = "up") => InWire(Message(w))'
<1>. USE RedisAdapterAssumption DEF RedisInv
<1>1. wire \in Seq(Item) /\ Len(wire) \in Nat
  BY DEF TypeInv
<1>2. CASE link = "up" /\ served
  <2>1. wire' = Append(wire, Message(w)) /\ Message(w) \in Item
        /\ Message(w).kind = "message"
    BY <1>2 DEF Forwarded, Message, Item
  <2>2. /\ wire' \in Seq(Item) /\ Len(wire') = Len(wire) + 1
        /\ \A i \in 1 .. Len(wire) : wire'[i] = wire[i]
        /\ wire'[Len(wire) + 1] = Message(w)
        /\ InWire(Message(w))'
        /\ \A x : InWire(x) => InWire(x)'
    BY <1>1, <2>1, WireGrows
  <2>3. ASSUME NEW i \in 1 .. Len(wire'), wire'[i].kind = "ack"
        PROVE  i \in 1 .. Len(wire) /\ wire[i] = wire'[i]
    BY <1>1, <2>1, <2>2, <2>3
  <2>4. SubscribeInv'
    <3>1. AckInWire' => AckInWire
      BY <2>3 DEF AckInWire
    <3>2. AckInWire' =>
            /\ \A i, j \in 1 .. Len(wire') :
                 (wire'[i].kind = "ack" /\ wire'[j].kind = "ack") => i = j
            /\ \A i \in 1 .. Len(wire') :
                 wire'[i].kind = "ack" => wire'[i].value = generation
      BY <2>3, <3>1 DEF SubscribeInv
    <3>3. QED  BY <1>2, <3>1, <3>2 DEF SubscribeInv
  <2>5. ASSUME NEW i \in 1 .. Len(wire')
        PROVE  wire'[i] \in { Ack(g) : g \in 1 .. generation }
                            \cup { Message(v) : v \in 1 .. committed \cup {Invalid} }
    <3>1. CASE i \in 1 .. Len(wire)
      BY <2>2, <3>1 DEF TypeInv, TypeOK
    <3>2. CASE i = Len(wire) + 1
      BY <2>2, <3>2
    <3>3. QED  BY <1>1, <2>2, <3>1, <3>2
  <2>6. QED  BY <1>1, <2>2, <2>4, <2>5
<1>3. CASE ~(link = "up" /\ served)
  <2>1. wire' = wire
    BY <1>3 DEF Forwarded
  <2>2. \A x : InWire(x) => InWire(x)'
    BY <2>1 DEF InWire
  <2>3. SubscribeInv'
    BY <2>1 DEF SubscribeInv, AckInWire
  <2>4. QED  BY <1>1, <1>3, <2>1, <2>2, <2>3 DEF SubscribeInv, TypeInv, TypeOK
<1>4. QED  BY <1>2, <1>3

\* What other instances do: commit, publish, or publish nonsense.
LEMMA OtherSteps ==
  ASSUME RedisInv, Others
  PROVE  RedisInv'
<1>. USE RedisAdapterAssumption DEF RedisInv
<1>1. /\ committed \in 0 .. MaxCommits /\ unsent \subseteq 1 .. committed
      /\ sent \in 0 .. committed /\ told \in 0 .. committed /\ generation \in Nat
      /\ reconciling \in [state : {"idle", "reading", "read"}, mark : 0 .. committed,
                          fresh : BOOLEAN]
  BY DEF TypeInv, TypeOK
<1>2. CASE Commit
  <2>1. /\ committed < MaxCommits /\ committed' = committed + 1
        /\ unsent' = unsent \cup {committed + 1}
        /\ UNCHANGED <<state, generation, link, asked, served, wire, answers, sent,
                       told, reconciling, uncovered>>
    BY <1>2 DEF Commit, redis, coordinator
  <2>2. \A i \in 1 .. Len(wire) :
          wire[i] \in { Ack(g) : g \in 1 .. generation }
                      \cup { Message(w) : w \in 1 .. committed' \cup {Invalid} }
    BY <1>1, <2>1 DEF TypeInv, TypeOK
  <2>3. TypeInv'
    <3>1. /\ committed' \in 0 .. MaxCommits /\ unsent' \subseteq 1 .. committed'
          /\ sent' \in 0 .. committed' /\ told' \in 0 .. committed'
          /\ 0 .. committed \subseteq 0 .. committed'
      BY <1>1, <2>1
    <3>2. reconciling' \in [state : {"idle", "reading", "read"}, mark : 0 .. committed',
                            fresh : BOOLEAN]
      BY <1>1, <2>1, <3>1
    <3>3. QED  BY <2>1, <2>2, <3>1, <3>2 DEF TypeInv, TypeOK, Ack, Message, Invalid
  <2>4. SubscribeInv' /\ GapInv'
    BY <2>1 DEF SubscribeInv, AckInWire, GapInv, InWire
  <2>5. QED  BY <2>3, <2>4
<1>3. ASSUME NEW w \in unsent, Publish(w)
      PROVE  RedisInv'
  <2>1. /\ Len(wire) < MaxWire /\ unsent' = unsent \ {w} /\ sent' = Larger(sent, w)
        /\ Forwarded(w)
        /\ UNCHANGED <<state, generation, link, asked, served, answers, committed,
                       told, reconciling, uncovered>>
    BY <1>3 DEF Publish, coordinator
  <2>2. w \in Nat /\ w \in 1 .. committed
    BY <1>1
  <2>3. /\ SubscribeInv'
        /\ wire' \in Seq(Item) /\ Len(wire') <= MaxWire
        /\ \A i \in 1 .. Len(wire') :
             wire'[i] \in { Ack(g) : g \in 1 .. generation }
                          \cup { Message(v) : v \in 1 .. committed \cup {Invalid} }
        /\ \A x : InWire(x) => InWire(x)'
        /\ (state = "subscribed" /\ link = "up") => InWire(Message(w))'
    BY <2>1, <2>2, ForwardedKeeps
  <2>4. sent' \in 0 .. committed /\ sent' \in {sent, w}
    BY <1>1, <2>1, <2>2 DEF Larger
  <2>5. TypeInv'
    BY <1>1, <2>1, <2>3, <2>4 DEF TypeInv, TypeOK, Ack, Message, Invalid
  <2>6. GapInv'
    <3>1. CASE sent' = sent
      BY <2>1, <2>3, <3>1 DEF GapInv
    <3>2. CASE sent' = w
      <4>1. (state = "subscribed" /\ link = "up") => InWire(Message(sent))'
        BY <2>3, <3>2 DEF InWire, Message
      <4>2. QED  BY <2>1, <4>1 DEF GapInv
    <3>3. QED  BY <2>4, <3>1, <3>2
  <2>7. QED  BY <2>3, <2>5, <2>6
<1>4. ASSUME NEW w \in unsent, FailPublish(w)
      PROVE  RedisInv'
  <2>1. /\ unsent' = unsent \ {w}
        /\ UNCHANGED <<state, generation, link, asked, served, wire, answers,
                       committed, sent, told, reconciling, uncovered>>
    BY <1>4 DEF FailPublish, redis, coordinator
  <2>2. TypeInv'
    BY <2>1 DEF TypeInv, TypeOK, Ack, Message, Invalid
  <2>3. SubscribeInv' /\ GapInv'
    BY <2>1 DEF SubscribeInv, AckInWire, GapInv, InWire
  <2>4. QED  BY <2>2, <2>3
<1>5. CASE PublishInvalid
  <2>1. /\ Len(wire) < MaxWire /\ Forwarded(Invalid)
        /\ UNCHANGED <<state, generation, link, asked, served, answers, committed,
                       unsent, sent, told, reconciling, uncovered>>
    BY <1>5 DEF PublishInvalid, others, coordinator
  <2>2. Invalid \in Nat
    BY DEF Invalid
  <2>3. /\ SubscribeInv'
        /\ wire' \in Seq(Item) /\ Len(wire') <= MaxWire
        /\ \A i \in 1 .. Len(wire') :
             wire'[i] \in { Ack(g) : g \in 1 .. generation }
                          \cup { Message(v) : v \in 1 .. committed \cup {Invalid} }
        /\ \A x : InWire(x) => InWire(x)'
    BY <2>1, <2>2, ForwardedKeeps
  <2>4. TypeInv'
    BY <2>1, <2>3 DEF TypeInv, TypeOK, Ack, Message, Invalid
  <2>5. GapInv'
    BY <2>1, <2>3 DEF GapInv
  <2>6. QED  BY <2>3, <2>4, <2>5
<1>6. QED  BY <1>2, <1>3, <1>4, <1>5 DEF Others

----------------------------------------------------------------------------
(* Redis and the connection. *)

\* What Redis executes, refuses or loses.
LEMMA ConnectionSteps ==
  ASSUME RedisInv, Connection
  PROVE  RedisInv'
<1>. USE RedisAdapterAssumption DEF RedisInv
<1>1. generation \in Nat /\ wire \in Seq(Item) /\ Len(wire) \in Nat
  BY DEF TypeInv, TypeOK
<1>2. CASE ExecuteSubscribe
  <2>1. /\ link = "up" /\ asked /\ asked' = FALSE /\ served' = TRUE
        /\ Len(wire) < MaxWire /\ wire' = Append(wire, Ack(generation))
        /\ UNCHANGED <<state, generation, link, answers, committed, unsent, sent,
                       told, reconciling, uncovered>>
    BY <1>2 DEF ExecuteSubscribe, others, coordinator
  <2>2. ~AckInWire /\ (\A a \in answers : a.gen # generation) /\ state # "subscribed"
    BY <2>1 DEF SubscribeInv
  <2>3. /\ Ack(generation) \in Item /\ Ack(generation).kind = "ack"
        /\ Ack(generation).value = generation
    BY <1>1 DEF Ack, Item
  <2>4. /\ wire' \in Seq(Item) /\ Len(wire') = Len(wire) + 1
        /\ \A i \in 1 .. Len(wire) : wire'[i] = wire[i]
        /\ wire'[Len(wire) + 1] = Ack(generation)
    BY <1>1, <2>1, <2>3, WireGrows
  <2>5. ASSUME NEW i \in 1 .. Len(wire'), wire'[i].kind = "ack"
        PROVE  i = Len(wire) + 1 /\ wire'[i].value = generation
    BY <1>1, <2>2, <2>3, <2>4, <2>5 DEF AckInWire
  <2>6. SubscribeInv'
    BY <2>1, <2>2, <2>5 DEF SubscribeInv
  <2>7. generation \in 1 .. generation
    <3>1. generation # 0
      BY <2>1 DEF TypeInv
    <3>2. QED  BY <1>1, <3>1
  <2>8. ASSUME NEW i \in 1 .. Len(wire')
        PROVE  wire'[i] \in { Ack(g) : g \in 1 .. generation }
                            \cup { Message(v) : v \in 1 .. committed \cup {Invalid} }
    <3>1. CASE i \in 1 .. Len(wire)
      BY <2>4, <3>1 DEF TypeInv, TypeOK
    <3>2. CASE i = Len(wire) + 1
      BY <2>4, <2>7, <3>2
    <3>3. QED  BY <1>1, <2>4, <3>1, <3>2
  <2>9. TypeInv'
    <3>1. Len(wire') <= MaxWire
      BY <1>1, <2>1, <2>4
    <3>2. \A i \in 1 .. Len(wire') :
            wire'[i] \in { Ack(g) : g \in 1 .. generation' }
                         \cup { Message(v) : v \in 1 .. committed' \cup {Invalid} }
      BY <2>1, <2>8
    <3>3. QED  BY <2>1, <2>4, <3>1, <3>2 DEF TypeInv, TypeOK, Ack, Message, Invalid
  <2>10. GapInv'
    BY <2>1, <2>2 DEF GapInv
  <2>11. QED  BY <2>6, <2>9, <2>10
<1>3. CASE RejectSubscribe
  <2>1. /\ link = "up" /\ asked
        /\ answers' = answers \cup {[gen |-> generation, ok |-> FALSE]}
        /\ asked' = FALSE
        /\ UNCHANGED <<state, generation, link, served, wire, committed, unsent, sent,
                       told, reconciling, uncovered>>
    BY <1>3 DEF RejectSubscribe, others, coordinator
  <2>2. ~AckInWire /\ state # "subscribed"
    BY <2>1 DEF SubscribeInv
  <2>3. SubscribeInv'
    BY <2>1, <2>2 DEF SubscribeInv, AckInWire
  <2>4. generation \in 1 .. generation
    BY <1>1, <2>1 DEF TypeInv
  <2>5. answers' \subseteq [gen : 1 .. generation, ok : BOOLEAN]
    <3>1. [gen |-> generation, ok |-> FALSE] \in [gen : 1 .. generation, ok : BOOLEAN]
      BY <2>4
    <3>2. QED  BY <2>1, <3>1 DEF TypeInv, TypeOK
  <2>6. TypeInv'
    BY <2>1, <2>5 DEF TypeInv, TypeOK, Ack, Message, Invalid
  <2>7. GapInv'
    BY <2>1, <2>2 DEF GapInv
  <2>8. QED  BY <2>3, <2>6, <2>7
<1>4. CASE LoseConnection
  <2>1. /\ link = "up" /\ link' = "dead" /\ served' = FALSE
        /\ UNCHANGED <<state, generation, asked, wire, answers, committed, unsent, sent,
                       told, reconciling, uncovered>>
    BY <1>4 DEF LoseConnection, others, coordinator
  <2>2. SubscribeInv'
    BY <2>1 DEF SubscribeInv, AckInWire
  <2>3. TypeInv'
    BY <2>1 DEF TypeInv, TypeOK, Ack, Message, Invalid
  <2>4. GapInv'
    BY <2>1 DEF GapInv
  <2>5. QED  BY <2>2, <2>3, <2>4
<1>5. QED  BY <1>2, <1>3, <1>4 DEF Connection

----------------------------------------------------------------------------
(* The adapter. *)

\* A connection is made; its generation is new.
LEMMA ReadySteps ==
  ASSUME RedisInv, Start \/ HandleReady \/ HandleReadyThrows
  PROVE  RedisInv'
<1>. USE RedisAdapterAssumption DEF RedisInv
<1>1. CASE Start
  <2>1. /\ state = "idle" /\ state' = "connecting"
        /\ UNCHANGED <<generation, link, asked, served, wire, answers, committed, unsent,
                       sent, told, reconciling, uncovered>>
    BY <1>1 DEF Start, redis, others, coordinator
  <2>2. QED
    BY <2>1 DEF TypeInv, TypeOK, Ack, Message, Invalid, SubscribeInv, AckInWire, GapInv
<1>2. CASE HandleReady \/ HandleReadyThrows
  <2>1. /\ link = "down" /\ link' = "up" /\ state # "stopped"
        /\ generation < MaxConnections /\ generation' = generation + 1
        /\ \/ state' = "subscribing" /\ asked' = TRUE
           \/ state' = "degraded" /\ asked' = asked
        /\ UNCHANGED <<served, wire, answers, committed, unsent,
                       sent, told, reconciling, uncovered>>
    BY <1>2 DEF HandleReady, HandleReadyThrows, Active, others, coordinator
  <2>2. wire = << >> /\ ~asked /\ ~served
    BY <2>1 DEF SubscribeInv
  <2>3. generation \in Nat /\ \A a \in answers : a.gen \in 1 .. generation
    BY DEF TypeInv, TypeOK
  <2>4. \A a \in answers : a.gen # generation'
    BY <2>1, <2>3
  <2>5. ~AckInWire'
    BY <2>1, <2>2 DEF AckInWire
  <2>6. SubscribeInv'
    BY <2>1, <2>2, <2>4, <2>5 DEF SubscribeInv
  <2>7. /\ generation' \in 0 .. MaxConnections
        /\ answers \subseteq [gen : 1 .. generation', ok : BOOLEAN]
    BY <2>1, <2>3 DEF TypeInv, TypeOK
  <2>8. TypeInv'
    <3>1. /\ generation' # 0 /\ generation' <= MaxConnections
          /\ generation' \in 0 .. MaxConnections + 1
          /\ wire' \in Seq(Item) /\ Len(wire') = 0 /\ 1 .. Len(wire') = {}
      BY <2>1, <2>2, <2>3, <2>7
    <3>2. \A i \in 1 .. Len(wire') :
            wire'[i] \in { Ack(g) : g \in 1 .. generation' }
                         \cup { Message(w) : w \in 1 .. committed' \cup {Invalid} }
      BY <3>1
    <3>3. asked' \in BOOLEAN
      BY <2>1 DEF TypeInv, TypeOK
    <3>4. QED
      BY <2>1, <2>7, <3>1, <3>2, <3>3 DEF TypeInv, TypeOK, Ack, Message, Invalid
  <2>9. GapInv'
    BY <2>1 DEF GapInv
  <2>10. QED  BY <2>6, <2>8, <2>9
<1>3. QED  BY <1>1, <1>2

\* The continuation of subscribe() finds its own connection, or does nothing.
LEMMA AnswerStep ==
  ASSUME RedisInv, NEW a \in answers, HandleAnswer(a)
  PROVE  RedisInv'
<1>. USE RedisAdapterAssumption DEF RedisInv
<1>1. /\ answers' = answers \ {a}
      /\ UNCHANGED <<generation, link, asked, served, wire, committed, unsent, sent, told>>
  BY DEF HandleAnswer, redis, others
<1>2. reconciling \in [state : {"idle", "reading", "read"}, mark : 0 .. committed,
                       fresh : BOOLEAN]
  BY DEF TypeInv, TypeOK
<1>3. CASE Expected(a) /\ a.ok
  <2>1. /\ state' = "subscribed" /\ state = "subscribing" /\ a.gen = generation
        /\ uncovered' = (reconciling.state # "idle") /\ Reconcile
    BY <1>3 DEF HandleAnswer, Expected
  <2>2. ~asked /\ ~AckInWire /\ (link = "up" => served)
    BY <1>3, <2>1 DEF SubscribeInv
  <2>3. SubscribeInv'
    BY <1>1, <2>1, <2>2 DEF SubscribeInv, AckInWire
  <2>4. CASE reconciling.state = "idle"
    <3>1. reconciling' = [state |-> "reading", mark |-> 0, fresh |-> FALSE]
      BY <2>1, <2>4 DEF Reconcile, Idle
    <3>2. TypeInv'
      BY <1>1, <2>1, <3>1 DEF TypeInv, TypeOK, Ack, Message, Invalid
    <3>3. GapInv'
      BY <3>1 DEF GapInv
    <3>4. QED  BY <2>3, <3>2, <3>3
  <2>5. CASE reconciling.state # "idle"
    <3>1. reconciling' = [reconciling EXCEPT !.fresh = FALSE]
      BY <2>1, <2>5 DEF Reconcile
    <3>2. /\ reconciling' \in [state : {"idle", "reading", "read"}, mark : 0 .. committed,
                               fresh : BOOLEAN]
          /\ reconciling'.state = reconciling.state /\ reconciling'.fresh = FALSE
      BY <1>2, <3>1
    <3>3. TypeInv'
      BY <1>1, <2>1, <3>2 DEF TypeInv, TypeOK, Ack, Message, Invalid
    <3>4. GapInv'
      BY <2>1, <2>5, <3>2 DEF GapInv
    <3>5. QED  BY <2>3, <3>3, <3>4
  <2>6. QED  BY <2>4, <2>5
<1>4. CASE ~(Expected(a) /\ a.ok)
  <2>1. /\ state' = IF Expected(a) THEN "degraded" ELSE state
        /\ UNCHANGED <<reconciling, uncovered>>
    BY <1>4 DEF HandleAnswer
  <2>2. state' = state \/ (state' = "degraded" /\ state # "stopped")
    BY <2>1 DEF Expected, Active
  <2>3. TypeInv'
    BY <1>1, <2>1, <2>2 DEF TypeInv, TypeOK, Ack, Message, Invalid
  <2>4. SubscribeInv' /\ GapInv'
    BY <1>1, <2>1, <2>2 DEF SubscribeInv, AckInWire, GapInv, InWire
  <2>5. QED  BY <2>3, <2>4
<1>5. QED  BY <1>3, <1>4

\* What the adapter reads from the wire.
LEMMA ReadSteps ==
  ASSUME RedisInv, ReceiveAck \/ HandleMessage
  PROVE  RedisInv'
<1>. USE RedisAdapterAssumption DEF RedisInv
<1>1. /\ wire # << >> /\ wire' = Tail(wire) /\ wire \in Seq(Item)
      /\ UNCHANGED <<state, generation, link, asked, served, committed, unsent, sent,
                     reconciling, uncovered>>
  BY DEF ReceiveAck, HandleMessage, others, coordinator, TypeInv
<1>2. /\ wire' \in Seq(Item) /\ Len(wire') = Len(wire) - 1 /\ Len(wire) \in Nat \ {0}
      /\ \A i \in 1 .. Len(wire') : wire'[i] = wire[i + 1]
      /\ Head(wire) = wire[1]
      /\ \A x : InWire(x) => x = Head(wire) \/ InWire(x)'
  BY <1>1, WireShrinks
<1>3. \A i \in 1 .. Len(wire') :
        wire'[i] \in { Ack(g) : g \in 1 .. generation }
                     \cup { Message(w) : w \in 1 .. committed \cup {Invalid} }
  <2>1. ASSUME NEW i \in 1 .. Len(wire')
        PROVE  wire'[i] = wire[i + 1] /\ i + 1 \in 1 .. Len(wire)
    BY <1>2
  <2>2. QED  BY <2>1 DEF TypeInv, TypeOK
<1>4. AckInWire' => AckInWire
  BY <1>2 DEF AckInWire
<1>5. CASE ReceiveAck
  <2>1. /\ wire[1].kind = "ack" /\ told' = told
        /\ \E ok \in BOOLEAN : answers' = answers \cup {[gen |-> wire[1].value, ok |-> ok]}
    BY <1>2, <1>5 DEF ReceiveAck, coordinator
  <2>2. AckInWire /\ 1 \in 1 .. Len(wire)
    BY <1>2, <2>1 DEF AckInWire
  <2>3. /\ wire[1].value = generation /\ state # "subscribed" /\ ~asked
        /\ link = "up" => served
        /\ \A i \in 1 .. Len(wire) : wire[i].kind = "ack" => i = 1
    BY <2>1, <2>2 DEF SubscribeInv
  <2>4. ~AckInWire'
    BY <1>2, <2>3 DEF AckInWire
  <2>5. SubscribeInv'
    BY <1>1, <2>1, <2>3, <2>4 DEF SubscribeInv
  <2>6. generation \in 1 .. generation
    BY <2>1, <2>2, <2>3 DEF TypeInv, TypeOK, Ack, Message
  <2>7. answers' \subseteq [gen : 1 .. generation, ok : BOOLEAN]
    BY <2>1, <2>3, <2>6 DEF TypeInv, TypeOK
  <2>8. TypeInv'
    BY <1>1, <1>2, <1>3, <2>1, <2>7 DEF TypeInv, TypeOK, Ack, Message, Invalid
  <2>9. GapInv'
    BY <1>1, <2>3 DEF GapInv
  <2>10. QED  BY <2>5, <2>8, <2>9
<1>6. CASE HandleMessage
  <2>1. /\ wire[1].kind = "message" /\ answers' = answers
        /\ told' = IF Accepted(wire[1].value) THEN Larger(told, wire[1].value) ELSE told
    BY <1>2, <1>6 DEF HandleMessage
  <2>2. SubscribeInv'
    <3>1. AckInWire' =>
            /\ \A i, j \in 1 .. Len(wire') :
                 (wire'[i].kind = "ack" /\ wire'[j].kind = "ack") => i = j
            /\ \A i \in 1 .. Len(wire') :
                 wire'[i].kind = "ack" => wire'[i].value = generation
      <4>1. ASSUME NEW i \in 1 .. Len(wire')
            PROVE  i + 1 \in 1 .. Len(wire) /\ wire'[i] = wire[i + 1]
        BY <1>2
      <4>2. ASSUME AckInWire', NEW i \in 1 .. Len(wire'), NEW j \in 1 .. Len(wire'),
                   wire'[i].kind = "ack"
            PROVE  wire'[j].kind = "ack" => i = j
        <5>1. wire[i + 1].kind = "ack" /\ i + 1 \in 1 .. Len(wire)
          BY <4>1, <4>2
        <5>2. ASSUME wire'[j].kind = "ack"
              PROVE  i + 1 = j + 1
          BY <1>4, <4>1, <4>2, <5>1, <5>2 DEF SubscribeInv
        <5>3. QED  BY <5>2
      <4>3. ASSUME AckInWire', NEW i \in 1 .. Len(wire'), wire'[i].kind = "ack"
            PROVE  wire'[i].value = generation
        BY <1>4, <4>1, <4>3 DEF SubscribeInv
      <4>4. QED  BY <4>2, <4>3
    <3>2. link = "down" => FALSE
      BY <1>1 DEF SubscribeInv
    <3>3. QED  BY <1>1, <1>4, <2>1, <3>1, <3>2 DEF SubscribeInv
  <2>3. wire[1].value \in 1 .. committed \cup {Invalid}
    <3>1. 1 \in 1 .. Len(wire)
      BY <1>2
    <3>2. wire[1] \in { Ack(g) : g \in 1 .. generation }
                      \cup { Message(w) : w \in 1 .. committed \cup {Invalid} }
      BY <3>1 DEF TypeInv, TypeOK
    <3>3. QED  BY <2>1, <3>2 DEF Ack, Message
  <2>4. /\ told \in 0 .. committed /\ told' \in 0 .. committed /\ told' >= told
        /\ committed \in Nat /\ sent \in 0 .. committed /\ sent # Invalid
    BY <2>1, <2>3 DEF TypeInv, TypeOK, Accepted, Larger, Invalid
  <2>5. TypeInv'
    BY <1>1, <1>2, <1>3, <2>1, <2>4 DEF TypeInv, TypeOK, Ack, Message, Invalid
  <2>6. ASSUME state = "subscribed", InWire(Message(sent))
        PROVE  told' >= sent \/ InWire(Message(sent))'
    <3>1. CASE Message(sent) = wire[1]
      <4>1. wire[1].value = sent
        BY <3>1 DEF Message
      <4>2. told' = Larger(told, sent)
        BY <2>1, <2>4, <2>6, <4>1 DEF Accepted
      <4>3. QED  BY <2>4, <4>2 DEF Larger
    <3>2. CASE Message(sent) # wire[1]
      BY <1>1, <1>2, <2>6, <3>2 DEF InWire, Message
    <3>3. QED  BY <3>1, <3>2
  <2>7. reconciling \in [state : {"idle", "reading", "read"}, mark : 0 .. committed,
                         fresh : BOOLEAN]
    BY DEF TypeInv, TypeOK
  <2>8. GapInv'
    BY <1>1, <2>4, <2>6, <2>7 DEF GapInv, Larger
  <2>9. QED  BY <2>2, <2>5, <2>8
<1>7. QED  BY <1>5, <1>6

\* Errors, the end of a connection, and the end of the adapter.
LEMMA EndSteps ==
  ASSUME RedisInv, HandleConnectionError \/ HandleConnectionClosed \/ Stop
  PROVE  RedisInv'
<1>. USE RedisAdapterAssumption DEF RedisInv
<1>1. CASE HandleConnectionError
  <2>1. /\ state # "stopped" /\ state' = "degraded"
        /\ UNCHANGED <<generation, link, asked, served, wire, answers, committed, unsent,
                       sent, told, reconciling, uncovered>>
    BY <1>1 DEF HandleConnectionError, Active, redis, others, coordinator
  <2>2. QED
    BY <2>1 DEF TypeInv, TypeOK, Ack, Message, Invalid, SubscribeInv, AckInWire, GapInv
<1>2. ASSUME Disconnected
      PROVE  /\ link' = "down" /\ asked' = FALSE /\ served' = FALSE /\ wire' = << >>
             /\ answers' \subseteq [gen : 1 .. generation, ok : BOOLEAN]
             /\ \A a \in answers' : a.ok => a \in answers
  <2>1. Flushed \subseteq {[gen |-> generation, ok |-> FALSE]}
    BY DEF Flushed
  <2>2. Flushed # {} => generation \in 1 .. generation
    <3>1. ASSUME NEW i \in 1 .. Len(wire), wire[i].kind = "ack"
          PROVE  generation \in 1 .. generation
      <4>1. wire[i].value = generation
        BY <3>1 DEF SubscribeInv, AckInWire
      <4>2. QED  BY <3>1, <4>1 DEF TypeInv, TypeOK, Ack, Message
    <3>2. ASSUME asked
          PROVE  generation \in 1 .. generation
      BY <3>2 DEF TypeInv, TypeOK
    <3>3. QED  BY <3>1, <3>2 DEF Flushed
  <2>3. /\ link' = "down" /\ asked' = FALSE /\ served' = FALSE /\ wire' = << >>
        /\ answers' = answers \cup Flushed
    BY <1>2 DEF Disconnected
  <2>4. Flushed \subseteq [gen : 1 .. generation, ok : BOOLEAN]
    <3>1. CASE Flushed = {}
      BY <3>1
    <3>2. CASE Flushed # {}
      <4>1. [gen |-> generation, ok |-> FALSE] \in [gen : 1 .. generation, ok : BOOLEAN]
        BY <2>2, <3>2
      <4>2. QED  BY <2>1, <4>1
    <3>3. QED  BY <3>1, <3>2
  <2>5. QED  BY <2>1, <2>3, <2>4 DEF TypeInv, TypeOK
<1>3. ~AckInWire' <=> ~\E i \in 1 .. Len(wire') : wire'[i].kind = "ack"
  BY DEF AckInWire
<1>4. CASE HandleConnectionClosed
  <2>1. /\ Disconnected /\ state' = "degraded" /\ state # "stopped"
        /\ UNCHANGED <<generation, committed, unsent, sent, told, reconciling, uncovered>>
    BY <1>4 DEF HandleConnectionClosed, Active, others, coordinator
  <2>2. TypeInv'
    BY <1>2, <2>1 DEF TypeInv, TypeOK
  <2>3. SubscribeInv' /\ GapInv'
    BY <1>2, <1>3, <2>1 DEF SubscribeInv, GapInv
  <2>4. QED  BY <2>2, <2>3
<1>5. CASE Stop
  <2>1. /\ Disconnected /\ state' = "stopped" /\ state # "stopped"
        /\ generation' = generation + 1
        /\ reconciling' = [state |-> "idle", mark |-> 0, fresh |-> FALSE]
        /\ UNCHANGED <<committed, unsent, sent, told, uncovered>>
    BY <1>5 DEF Stop, Idle, others
  <2>2. /\ generation' \in 0 .. MaxConnections + 1
        /\ 1 .. generation \subseteq 1 .. generation'
    BY <2>1 DEF TypeInv, TypeOK
  <2>3. answers' \subseteq [gen : 1 .. generation', ok : BOOLEAN]
    BY <1>2, <2>1, <2>2
  <2>4. TypeInv'
    BY <1>2, <2>1, <2>2, <2>3 DEF TypeInv, TypeOK
  <2>5. SubscribeInv' /\ GapInv'
    BY <1>2, <1>3, <2>1 DEF SubscribeInv, GapInv
  <2>6. QED  BY <2>4, <2>5
<1>6. QED  BY <1>1, <1>4, <1>5

----------------------------------------------------------------------------
(* The theorems. *)

\* The invariant is inductive.
THEOREM RedisInductive == Spec => []RedisInv
<1>1. Init => RedisInv
  <2>. SUFFICES ASSUME Init PROVE RedisInv
    OBVIOUS
  <2>1. ~AckInWire /\ wire \in Seq(Item) /\ Len(wire) = 0
    BY DEF Init, AckInWire
  <2>2. TypeInv
    <3>1. 0 \in 0 .. MaxConnections + 1 /\ 0 \in 0 .. MaxCommits /\ 0 \in 0 .. 0
      BY RedisAdapterAssumption
    <3>2. 1 .. Len(wire) = {} /\ Len(wire) <= MaxWire /\ generation <= MaxConnections
      BY <2>1, RedisAdapterAssumption DEF Init
    <3>3. reconciling \in [state : {"idle", "reading", "read"}, mark : 0 .. committed,
                           fresh : BOOLEAN]
      BY <3>1 DEF Init, Idle
    <3>4. /\ state = "idle" /\ generation = 0 /\ link = "down" /\ asked = FALSE
          /\ served = FALSE /\ answers = {} /\ committed = 0 /\ unsent = {} /\ sent = 0
          /\ told = 0 /\ uncovered = FALSE
      BY DEF Init
    <3>5. QED  BY <2>1, <3>1, <3>2, <3>3, <3>4 DEF TypeInv, TypeOK
  <2>3. SubscribeInv /\ GapInv
    BY <2>1 DEF Init, SubscribeInv, GapInv
  <2>4. QED  BY <2>2, <2>3 DEF RedisInv
<1>2. RedisInv /\ [Next]_vars => RedisInv'
  <2>. SUFFICES ASSUME RedisInv, [Next]_vars PROVE RedisInv'
    OBVIOUS
  <2>1. CASE Next
    BY <2>1, ReconcileSteps, OtherSteps, ConnectionSteps, ReadySteps, AnswerStep,
       ReadSteps, EndSteps DEF Next, Adapter
  <2>2. CASE UNCHANGED vars
    BY <2>2 DEF vars, redis, others, coordinator, RedisInv, TypeInv, TypeOK, Ack, Message,
       Invalid, SubscribeInv, AckInWire, GapInv, InWire
  <2>3. QED  BY <2>1, <2>2
<1>3. QED  BY <1>1, <1>2, PTL DEF Spec

\* Every variable keeps to its type, and the coordinator believes only in watermarks
\* that were committed.
THEOREM AdapterTypeCorrect == Spec => []TypeOK
<1>1. RedisInv => TypeOK
  BY DEF RedisInv, TypeInv
<1>2. QED  BY <1>1, RedisInductive, PTL

\* An adapter that is subscribed on a living connection, has read what is on the way
\* and has reconciled since, is missing nothing that Redis was given
\* (contest-event-notification.redis.ts: handleReady, handleMessage).
THEOREM SubscribedMissesNothing == Spec => []NoSilentGap
<1>1. ASSUME RedisInv
      PROVE  NoSilentGap
  <2>1. wire = << >> => ~InWire(Message(sent))
    BY DEF InWire
  <2>2. QED  BY <1>1, <2>1 DEF RedisInv, GapInv, NoSilentGap
<1>2. QED  BY <1>1, RedisInductive, PTL
=============================================================================
