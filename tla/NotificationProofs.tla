------------------------- MODULE NotificationProofs ------------------------
(***************************************************************************)
(* Proofs about the notification coordinators, for every set of instances  *)
(* and connections and every bound.  Everything that is on its way to a    *)
(* connection - announcements, Redis messages, answers of the database -   *)
(* is at most the database's watermark, which only grows; and what a       *)
(* connection is owed is covered by what it will be given when activated.  *)
(* Whoever is registered is so with an instance that runs, and a handler   *)
(* that has opened a stream has found it registered.                       *)
(***************************************************************************)
EXTENDS NotificationProps, TLAPS

\* What one connection may hold while the database's watermark is m.
ConnectionOK(k, m) ==
  /\ ~Newer(k.seen, m)
  /\ ~Newer(k.pending, m)
  /\ ~Newer(k.told, m)
  /\ ~Newer(k.owed, m)
  /\ k.registration = "paused" /\ k.phase \in {"read", "prepared"} =>
       ~Newer(k.owed, Latest(k.seen, k.pending))
  /\ k.registration = "active" => ~Newer(k.owed, k.told)

\* Where a request is when the lives of the instances are up.
Attached(k, up) ==
  /\ k.registration \in {"pending", "paused", "active"} => up[k.at] = "up"
  /\ k.phase = "absent" => k.registration \notin {"pending", "paused", "active"}
  /\ k.phase = "prepared" => k.registration \in {"paused", "closed"}
  /\ k.phase = "done" /\ k.writable => k.registration = "active"

\* Nothing that is on its way to a hub is ahead of the database.
NothingAhead ==
  /\ \A a \in announcing : ~Newer(a[2], db.mark)
  /\ \A m \in published : ~Newer(m, db.mark)
  /\ \A i \in Instances : ~Newer(reconciling[i].answer, db.mark)

ConnectionsOK == \A c \in Clients : ConnectionOK(conn[c], db.mark)

AllAttached == \A c \in Clients : Attached(conn[c], inst)

IInv == TypeOK /\ NothingAhead /\ ConnectionsOK /\ AllAttached

----------------------------------------------------------------------------
\* compareContestEventWatermarks is a total order, and Latest its maximum.
LEMMA WatermarkOrder ==
  /\ \A a \in Watermark : ~Newer(a, a) /\ ~Newer(NoWatermark, a)
  /\ \A a, b, c \in Watermark : ~Newer(a, b) /\ ~Newer(b, c) => ~Newer(a, c)
  /\ \A a, b \in Watermark : /\ Latest(a, b) \in {a, b}
                             /\ ~Newer(a, Latest(a, b))
                             /\ ~Newer(b, Latest(a, b))
<1>1. \A a \in Watermark : ~Newer(a, a) /\ ~Newer(NoWatermark, a)
  BY DEF Watermark, Newer, NoWatermark
<1>2. \A a, b, c \in Watermark : ~Newer(a, b) /\ ~Newer(b, c) => ~Newer(a, c)
  BY DEF Watermark, Newer
<1>3. \A a, b \in Watermark : /\ Latest(a, b) \in {a, b}
                              /\ ~Newer(a, Latest(a, b))
                              /\ ~Newer(b, Latest(a, b))
  BY <1>1 DEF Watermark, Newer, Latest
<1>4. QED  BY <1>1, <1>2, <1>3

\* The watermarks of this model are watermarks.
LEMMA MaybeIsWatermark ==
  /\ Committed \subseteq MaybeWatermark
  /\ MaybeWatermark \subseteq Watermark
  /\ NoWatermark \in MaybeWatermark
  /\ \A a, b \in MaybeWatermark : Latest(a, b) \in MaybeWatermark
<1>1. Committed \subseteq Watermark
  BY NotificationAssumption DEF Committed, Watermark
<1>2. NoWatermark \in Watermark
  BY DEF NoWatermark, Watermark
<1>3. QED  BY <1>1, <1>2, WatermarkOrder DEF MaybeWatermark

\* A commit moves the watermark only forward.
LEMMA CommitGrows ==
  ASSUME TypeOK, NEW i \in Instances, NEW w \in Committed, Commit(i, w)
  PROVE  ~Newer(db.mark, w)
<1>1. db.mark \in Watermark
  BY MaybeIsWatermark DEF TypeOK
<1>2. \/ w = db.mark
      \/ w = [db.mark EXCEPT !.id = db.mark.id + 1]
      \/ w = [rev |-> db.mark.rev + 1, id |-> 0]
  BY DEF Commit
<1>3. QED  BY <1>1, <1>2 DEF Watermark, Newer

\* What holds of a connection holds still when the watermark has grown.
LEMMA ConnectionStaysOK ==
  ASSUME NEW k \in Connection, NEW m \in Committed, NEW n \in Committed,
         ConnectionOK(k, m), ~Newer(m, n)
  PROVE  ConnectionOK(k, n)
<1>1. /\ k.seen \in Watermark /\ k.pending \in Watermark
      /\ k.told \in Watermark /\ k.owed \in Watermark
  BY MaybeIsWatermark DEF Connection
<1>2. m \in Watermark /\ n \in Watermark
  BY MaybeIsWatermark
<1>3. QED  BY <1>1, <1>2, WatermarkOrder DEF ConnectionOK

\* A request that is over, or has not been made, holds nothing.
LEMMA EmptyIsOK ==
  ASSUME NEW m \in Committed, NEW up
  PROVE  /\ NoRequest \in Connection /\ ConnectionOK(NoRequest, m)
         /\ Over \in Connection /\ ConnectionOK(Over, m)
         /\ Attached(NoRequest, up) /\ Attached(Over, up)
<1>1. (CHOOSE i \in Instances : TRUE) \in Instances
  BY NotificationAssumption
<1>2. NoRequest \in Connection
  BY <1>1, MaybeIsWatermark DEF NoRequest, Connection
<1>3. Over \in Connection
  BY <1>1, MaybeIsWatermark DEF Over, NoRequest, Connection
<1>4. /\ NoRequest.seen = NoWatermark /\ NoRequest.pending = NoWatermark
      /\ NoRequest.told = NoWatermark /\ NoRequest.owed = NoWatermark
      /\ NoRequest.phase = "absent" /\ NoRequest.registration = "none"
      /\ Over.seen = NoWatermark /\ Over.pending = NoWatermark
      /\ Over.told = NoWatermark /\ Over.owed = NoWatermark
      /\ Over.phase = "done" /\ Over.registration = "closed" /\ Over.writable = FALSE
  BY DEF Over, NoRequest
<1>5. ~Newer(NoWatermark, m)
  BY MaybeIsWatermark, WatermarkOrder
<1>6. QED  BY <1>2, <1>3, <1>4, <1>5 DEF ConnectionOK, Attached

\* A registration that is closed is owed nothing.
LEMMA UnregisteredIsOK ==
  ASSUME NEW m \in Committed, NEW up, NEW k \in Connection,
         ConnectionOK(k, m), Attached(k, up)
  PROVE  /\ Unregistered(k) \in Connection /\ ConnectionOK(Unregistered(k), m)
         /\ Unregistered(k).at = k.at /\ Unregistered(k).phase = k.phase
         /\ Unregistered(k).registration = "closed"
         /\ Unregistered(k).writable = k.writable
<1>1. /\ Unregistered(k) \in Connection
      /\ Unregistered(k).at = k.at /\ Unregistered(k).phase = k.phase
      /\ Unregistered(k).registration = "closed"
      /\ Unregistered(k).writable = k.writable
      /\ Unregistered(k).told = k.told
      /\ Unregistered(k).seen = NoWatermark /\ Unregistered(k).pending = NoWatermark
      /\ Unregistered(k).owed = NoWatermark
  BY MaybeIsWatermark DEF Unregistered, Connection
<1>2. ~Newer(NoWatermark, m) /\ ~Newer(k.told, m)
  BY MaybeIsWatermark, WatermarkOrder DEF ConnectionOK
<1>3. QED  BY <1>1, <1>2 DEF ConnectionOK

\* closeClient leaves a stream ended, and any other response to its handler.
LEMMA DetachedIsOK ==
  ASSUME NEW m \in Committed, NEW up, NEW k \in Connection,
         ConnectionOK(k, m), Attached(k, up)
  PROVE  /\ Detached(k) \in Connection /\ ConnectionOK(Detached(k), m)
         /\ Detached(k).registration = "closed"
         /\ \A down : Attached(Detached(k), down)
<1>1. CASE k.registration = "active"
  <2>1. Detached(k) = Over /\ Over.registration = "closed"
    BY <1>1 DEF Detached, Over, NoRequest
  <2>2. QED  BY <2>1, EmptyIsOK
<1>2. CASE k.registration # "active"
  <2>1. ~(k.phase = "done" /\ k.writable)
    BY <1>2 DEF Attached
  <2>2. Detached(k) = Unregistered(k)
    BY <1>2 DEF Detached
  <2>3. QED  BY <2>1, <2>2, UnregisteredIsOK DEF Attached
<1>3. QED  BY <1>1, <1>2

\* A connection of the hub that hears of a watermark the database has reached.
LEMMA HeardIsOK ==
  ASSUME NEW c \in Clients, NEW m \in Committed, NEW w \in MaybeWatermark,
         conn \in [Clients -> Connection], ConnectionOK(conn[c], m), ~Newer(w, m)
  PROVE  /\ Heard(c, w) \in Connection
         /\ Heard(c, w).at = conn[c].at
         /\ Heard(c, w).phase = conn[c].phase
         /\ Heard(c, w).registration = conn[c].registration
         /\ Heard(c, w).writable = conn[c].writable
         /\ ConnectionOK(Heard(c, w), m)
<1>. DEFINE k == conn[c]
            h == Heard(c, w)
<1>1. /\ k \in Connection
      /\ k.seen \in MaybeWatermark /\ k.pending \in MaybeWatermark
      /\ k.told \in MaybeWatermark /\ k.owed \in MaybeWatermark
  BY DEF Connection
<1>2. \A x \in MaybeWatermark : Latest(x, w) \in MaybeWatermark
  BY MaybeIsWatermark
<1>3. /\ h \in Connection /\ h.at = k.at /\ h.phase = k.phase
      /\ h.registration = k.registration /\ h.writable = k.writable
      /\ h.seen = k.seen /\ h.owed = Latest(k.owed, w)
      /\ h.pending = IF k.registration = "active" THEN k.pending
                     ELSE Latest(k.pending, w)
      /\ h.told = IF k.registration = "active" THEN Latest(k.told, w) ELSE k.told
  BY <1>1, <1>2 DEF Heard, Connection
<1>. HIDE DEF k, h
<1>4. MaybeWatermark \subseteq Watermark /\ m \in Watermark
  BY MaybeIsWatermark
<1>5. \A x \in MaybeWatermark : ~Newer(x, m) => ~Newer(Latest(x, w), m)
  BY <1>4, WatermarkOrder
<1>6. \A x, y \in MaybeWatermark :
        ~Newer(x, y) => ~Newer(Latest(x, w), Latest(y, w))
  BY <1>2, <1>4, WatermarkOrder
<1>7. \A x, y \in MaybeWatermark :
        /\ Latest(x, y) \in MaybeWatermark
        /\ ~Newer(Latest(Latest(x, y), w), Latest(x, Latest(y, w)))
  <2>. TAKE x, y \in MaybeWatermark
  <2>1. Latest(x, y) \in MaybeWatermark /\ Latest(y, w) \in MaybeWatermark
        /\ Latest(x, Latest(y, w)) \in MaybeWatermark
    BY <1>2, MaybeIsWatermark
  <2>2. ~Newer(y, Latest(x, Latest(y, w))) /\ ~Newer(w, Latest(x, Latest(y, w)))
        /\ ~Newer(x, Latest(x, Latest(y, w)))
    BY <1>4, <2>1, WatermarkOrder
  <2>3. QED  BY <1>4, <2>1, <2>2, WatermarkOrder
<1>8. ConnectionOK(k, m)
  BY DEF k
<1>9. /\ ~Newer(h.seen, m) /\ ~Newer(h.pending, m)
      /\ ~Newer(h.told, m) /\ ~Newer(h.owed, m)
  BY <1>1, <1>3, <1>5, <1>8 DEF ConnectionOK
<1>10. h.registration = "paused" /\ h.phase \in {"read", "prepared"} =>
         ~Newer(h.owed, Latest(h.seen, h.pending))
  <2>. HAVE h.registration = "paused" /\ h.phase \in {"read", "prepared"}
  <2>. DEFINE z == Latest(k.seen, k.pending)
  <2>1. /\ ~Newer(k.owed, z) /\ h.pending = Latest(k.pending, w)
        /\ z \in MaybeWatermark
    BY <1>1, <1>3, <1>7, <1>8 DEF ConnectionOK
  <2>2. ~Newer(Latest(k.owed, w), Latest(z, w))
    BY <1>1, <1>6, <2>1
  <2>3. ~Newer(Latest(z, w), Latest(k.seen, Latest(k.pending, w)))
    BY <1>1, <1>7
  <2>4. /\ Latest(k.owed, w) \in MaybeWatermark /\ Latest(z, w) \in MaybeWatermark
        /\ Latest(k.seen, Latest(k.pending, w)) \in MaybeWatermark
    BY <1>1, <1>2, <2>1, MaybeIsWatermark
  <2>5. QED  BY <1>3, <1>4, <2>1, <2>2, <2>3, <2>4, WatermarkOrder
<1>11. h.registration = "active" => ~Newer(h.owed, h.told)
  BY <1>1, <1>3, <1>6, <1>8 DEF ConnectionOK
<1>12. QED  BY <1>3, <1>9, <1>10, <1>11 DEF ConnectionOK, h, k

----------------------------------------------------------------------------
\* What the hub of an instance does with a message keeps every connection in order.
LEMMA HandleKeeps ==
  ASSUME IInv, NEW i \in Instances, NEW m \in Message, ~Newer(m, db.mark),
         Handle(i, m) \/ NotifyHub(i, m) \/ CloseContest(i)
  PROVE  /\ conn' \in [Clients -> Connection]
         /\ \A c \in Clients : /\ ConnectionOK(conn'[c], db.mark)
                               /\ Attached(conn'[c], inst)
<1>1. /\ conn \in [Clients -> Connection] /\ db.mark \in Committed
      /\ \A c \in Clients : ConnectionOK(conn[c], db.mark) /\ Attached(conn[c], inst)
      /\ m \in MaybeWatermark
  BY DEF IInv, TypeOK, ConnectionsOK, AllAttached, Message
<1>2. \A c \in Clients : /\ Detached(conn[c]) \in Connection
                         /\ ConnectionOK(Detached(conn[c]), db.mark)
                         /\ Attached(Detached(conn[c]), inst)
  BY <1>1, DetachedIsOK
<1>3. \A c \in Clients :
        /\ Heard(c, m) \in Connection /\ ConnectionOK(Heard(c, m), db.mark)
        /\ Heard(c, m).at = conn[c].at /\ Heard(c, m).phase = conn[c].phase
        /\ Heard(c, m).registration = conn[c].registration
        /\ Heard(c, m).writable = conn[c].writable
  BY <1>1, HeardIsOK
<1>4. \A c \in Clients : Attached(Heard(c, m), inst)
  BY <1>1, <1>3 DEF Attached
<1>5. CASE NotifyHub(i, m)
  BY <1>1, <1>3, <1>4, <1>5 DEF NotifyHub
<1>6. CASE CloseContest(i)
  BY <1>1, <1>2, <1>6 DEF CloseContest
<1>7. QED  BY <1>5, <1>6 DEF Handle

\* A step in which one request goes on, everything else being as it was.
LEMMA OneRequest ==
  ASSUME IInv, NEW c \in Clients, NEW k \in Connection,
         ConnectionOK(k, db.mark), Attached(k, inst),
         conn' = [conn EXCEPT ![c] = k],
         UNCHANGED <<db, inst, announcing, published, reconciling>>
  PROVE  IInv'
<1>1. TypeOK /\ NothingAhead /\ ConnectionsOK /\ AllAttached
  BY DEF IInv
<1>2. TypeOK'
  BY <1>1 DEF TypeOK
<1>3. NothingAhead'
  BY <1>1 DEF NothingAhead
<1>4. ConnectionsOK'
  BY <1>1 DEF TypeOK, ConnectionsOK
<1>5. AllAttached'
  BY <1>1 DEF TypeOK, AllAttached
<1>6. QED  BY <1>2, <1>3, <1>4, <1>5 DEF IInv

\* What is done with one request before it is with the hub: refused, identified,
\* given up, registered.
LEMMA EarlySteps ==
  ASSUME IInv, NEW c \in Clients,
         \/ \E i \in Instances : Request(c, i)
         \/ Identify(c) \/ FailRead(c) \/ Register(c)
  PROVE  IInv'
<1>. DEFINE k == conn[c]
<1>1. /\ k \in Connection /\ ConnectionOK(k, db.mark) /\ Attached(k, inst)
      /\ conn \in [Clients -> Connection]
      /\ db.mark \in Committed /\ db.mark \in MaybeWatermark
  BY MaybeIsWatermark DEF IInv, TypeOK, ConnectionsOK, AllAttached
<1>2. Over \in Connection /\ ConnectionOK(Over, db.mark) /\ Attached(Over, inst)
  BY <1>1, EmptyIsOK
<1>3. ~Newer(db.mark, db.mark)
  BY <1>1, MaybeIsWatermark, WatermarkOrder
<1>4. ASSUME UNCHANGED <<db, inst, announcing, published, reconciling>>,
             conn' = [conn EXCEPT ![c] = Over]
      PROVE  IInv'
  BY <1>2, <1>4, OneRequest
<1>5. ASSUME NEW i \in Instances, Request(c, i)  PROVE IInv'
  <2>. DEFINE n == [k EXCEPT !.phase = "identifying", !.at = i,
                             !.registration = "pending", !.writable = TRUE]
  <2>1. CASE ~Running(i)
    BY <1>4, <1>5, <2>1 DEF Request
  <2>2. CASE Running(i)
    <3>1. conn' = [conn EXCEPT ![c] = n]
      BY <1>1, <1>5, <2>2 DEF Request
    <3>2. /\ n \in Connection /\ n.at = i /\ n.phase = "identifying"
          /\ n.registration = "pending"
          /\ n.seen = k.seen /\ n.pending = k.pending /\ n.told = k.told
          /\ n.owed = k.owed
      BY <1>1 DEF Connection
    <3>. HIDE DEF n
    <3>3. ConnectionOK(n, db.mark)
      BY <1>1, <3>2 DEF ConnectionOK
    <3>4. Attached(n, inst)
      BY <2>2, <3>2 DEF Attached, Running
    <3>5. QED  BY <1>5, <3>1, <3>2, <3>3, <3>4, OneRequest DEF Request
  <2>3. QED  BY <2>1, <2>2
<1>6. ASSUME Identify(c)  PROVE IInv'
  <2>. DEFINE n == [k EXCEPT !.phase = "identified", !.seen = db.mark]
  <2>1. CASE db.deleted
    BY <1>4, <1>6, <2>1 DEF Identify
  <2>2. CASE ~db.deleted
    <3>1. conn' = [conn EXCEPT ![c] = n]
      BY <1>1, <1>6, <2>2 DEF Identify
    <3>2. /\ n \in Connection /\ n.at = k.at /\ n.phase = "identified"
          /\ n.registration = k.registration
          /\ n.seen = db.mark /\ n.pending = k.pending /\ n.told = k.told
          /\ n.owed = k.owed
      BY <1>1 DEF Connection
    <3>. HIDE DEF n
    <3>3. ConnectionOK(n, db.mark)
      BY <1>1, <1>3, <3>2 DEF ConnectionOK
    <3>4. Attached(n, inst)
      BY <1>1, <3>2 DEF Attached
    <3>5. QED  BY <1>6, <3>1, <3>2, <3>3, <3>4, OneRequest DEF Identify
  <2>3. QED  BY <2>1, <2>2
<1>7. ASSUME FailRead(c)  PROVE IInv'
  BY <1>4, <1>7 DEF FailRead
<1>8. ASSUME Register(c)  PROVE IInv'
  <2>. DEFINE n == [k EXCEPT !.phase = "registered", !.registration = "paused",
                             !.owed = db.mark]
  <2>1. CASE ~(k.registration = "pending" /\ Running(k.at))
    BY <1>4, <1>8, <2>1 DEF Register
  <2>2. CASE k.registration = "pending" /\ Running(k.at)
    <3>1. conn' = [conn EXCEPT ![c] = n]
      BY <1>1, <1>8, <2>2 DEF Register
    <3>2. /\ n \in Connection /\ n.at = k.at /\ n.phase = "registered"
          /\ n.registration = "paused"
          /\ n.seen = k.seen /\ n.pending = k.pending /\ n.told = k.told
          /\ n.owed = db.mark
      BY <1>1 DEF Connection
    <3>. HIDE DEF n
    <3>3. ConnectionOK(n, db.mark)
      BY <1>1, <1>3, <3>2 DEF ConnectionOK
    <3>4. Attached(n, inst)
      BY <2>2, <3>2 DEF Attached, Running
    <3>5. QED  BY <1>8, <3>1, <3>2, <3>3, <3>4, OneRequest DEF Register
  <2>3. QED  BY <2>1, <2>2
<1>9. QED  BY <1>5, <1>6, <1>7, <1>8

\* What is done with it afterwards: the authority is read, the stream opened or given
\* up, and it ends.
LEMMA LateSteps ==
  ASSUME IInv, NEW c \in Clients,
         ReadAuthority(c) \/ Prepare(c) \/ Open(c) \/ Leave(c)
  PROVE  IInv'
<1>. DEFINE k == conn[c]
<1>1. /\ k \in Connection /\ ConnectionOK(k, db.mark) /\ Attached(k, inst)
      /\ conn \in [Clients -> Connection]
      /\ db.mark \in Committed /\ db.mark \in MaybeWatermark
  BY MaybeIsWatermark DEF IInv, TypeOK, ConnectionsOK, AllAttached
<1>2. /\ k.at \in Instances
      /\ k.seen \in MaybeWatermark /\ k.pending \in MaybeWatermark
      /\ k.told \in MaybeWatermark /\ k.owed \in MaybeWatermark
  BY <1>1 DEF Connection
<1>3. ASSUME UNCHANGED <<db, inst, announcing, published, reconciling>>,
             conn' = [conn EXCEPT ![c] = Over]
      PROVE  IInv'
  BY <1>1, <1>3, EmptyIsOK, OneRequest
<1>4. ~Newer(db.mark, db.mark) /\ ~Newer(NoWatermark, db.mark)
  BY <1>1, MaybeIsWatermark, WatermarkOrder
<1>5. MaybeWatermark \subseteq Watermark
  BY MaybeIsWatermark
<1>6. ASSUME ReadAuthority(c)  PROVE IInv'
  <2>. DEFINE n == [k EXCEPT !.phase = "read", !.seen = db.mark]
  <2>1. CASE db.deleted
    BY <1>3, <1>6, <2>1 DEF ReadAuthority
  <2>2. CASE ~db.deleted
    <3>1. conn' = [conn EXCEPT ![c] = n]
      BY <1>1, <1>6, <2>2 DEF ReadAuthority
    <3>2. /\ n \in Connection /\ n.at = k.at /\ n.phase = "read"
          /\ n.registration = k.registration
          /\ n.seen = db.mark /\ n.pending = k.pending /\ n.told = k.told
          /\ n.owed = k.owed
      BY <1>1 DEF Connection
    <3>. HIDE DEF n
    <3>3. ~Newer(k.owed, Latest(db.mark, k.pending))
      <4>1. ~Newer(k.owed, db.mark)
        BY <1>1 DEF ConnectionOK
      <4>2. Latest(db.mark, k.pending) \in Watermark
            /\ ~Newer(db.mark, Latest(db.mark, k.pending))
        BY <1>1, <1>2, <1>5, MaybeIsWatermark, WatermarkOrder
      <4>3. QED  BY <1>1, <1>2, <1>5, <4>1, <4>2, WatermarkOrder
    <3>4. ConnectionOK(n, db.mark)
      BY <1>1, <1>4, <3>2, <3>3 DEF ConnectionOK
    <3>5. Attached(n, inst)
      BY <1>1, <3>2 DEF Attached
    <3>6. QED  BY <1>6, <3>1, <3>2, <3>4, <3>5, OneRequest DEF ReadAuthority
  <2>3. QED  BY <2>1, <2>2
<1>7. ASSUME Prepare(c)  PROVE IInv'
  <2>. DEFINE n == [k EXCEPT !.phase = "prepared"]
  <2>1. CASE ~(Running(k.at) /\ k.registration = "paused")
    BY <1>3, <1>7, <2>1 DEF Prepare
  <2>2. CASE Running(k.at) /\ k.registration = "paused"
    <3>1. conn' = [conn EXCEPT ![c] = n] /\ k.phase = "read"
      BY <1>1, <1>7, <2>2 DEF Prepare
    <3>2. /\ n \in Connection /\ n.at = k.at /\ n.phase = "prepared"
          /\ n.registration = k.registration
          /\ n.seen = k.seen /\ n.pending = k.pending /\ n.told = k.told
          /\ n.owed = k.owed
      BY <1>1 DEF Connection
    <3>. HIDE DEF n
    <3>3. ConnectionOK(n, db.mark)
      BY <1>1, <3>1, <3>2 DEF ConnectionOK
    <3>4. Attached(n, inst)
      BY <2>2, <3>2 DEF Attached, Running
    <3>5. QED  BY <1>7, <3>1, <3>2, <3>3, <3>4, OneRequest DEF Prepare
  <2>3. QED  BY <2>1, <2>2
<1>8. ASSUME Open(c)  PROVE IInv'
  <2>. DEFINE z == Latest(k.seen, k.pending)
              n == [Activated(k) EXCEPT !.phase = "done", !.seen = NoWatermark]
  <2>1. k.phase = "prepared" /\ k.registration \in {"paused", "closed"}
    BY <1>1, <1>8 DEF Open, Attached
  <2>2. CASE k.registration = "closed"
    BY <1>3, <1>8, <2>2 DEF Open
  <2>3. CASE k.registration = "paused"
    <3>1. conn' = [conn EXCEPT ![c] = n]
      BY <1>1, <1>8, <2>3 DEF Open
    <3>2. /\ ~Newer(k.owed, z) /\ z \in MaybeWatermark /\ ~Newer(z, db.mark)
          /\ ~Newer(k.owed, db.mark)
      <4>1. /\ ~Newer(k.owed, z) /\ ~Newer(k.owed, db.mark)
            /\ ~Newer(k.seen, db.mark) /\ ~Newer(k.pending, db.mark)
        BY <1>1, <2>1, <2>3 DEF ConnectionOK
      <4>2. z \in MaybeWatermark /\ z \in {k.seen, k.pending}
        BY <1>2, <1>5, MaybeIsWatermark, WatermarkOrder
      <4>3. QED  BY <4>1, <4>2
    <3>. HIDE DEF z
    <3>3. /\ Activated(k) \in Connection
          /\ Activated(k).registration = "active" /\ Activated(k).told = z
          /\ Activated(k).pending = NoWatermark /\ Activated(k).owed = k.owed
          /\ Activated(k).at = k.at
      BY <1>1, <2>3, <3>2, MaybeIsWatermark DEF Activated, Connection, z
    <3>4. /\ n \in Connection /\ n.at = k.at /\ n.phase = "done"
          /\ n.registration = "active"
          /\ n.seen = NoWatermark /\ n.pending = NoWatermark /\ n.told = z
          /\ n.owed = k.owed
      BY <3>3, MaybeIsWatermark DEF Connection
    <3>. HIDE DEF n
    <3>5. ConnectionOK(n, db.mark)
      BY <1>4, <3>2, <3>4 DEF ConnectionOK
    <3>6. Attached(n, inst)
      BY <1>1, <2>3, <3>4 DEF Attached
    <3>7. QED  BY <1>8, <3>1, <3>4, <3>5, <3>6, OneRequest DEF Open
  <2>4. QED  BY <2>1, <2>2, <2>3
<1>9. ASSUME Leave(c)  PROVE IInv'
  <2>. DEFINE u == Unregistered(k)
              n == [u EXCEPT !.writable = FALSE]
  <2>1. CASE k.phase = "done"
    BY <1>3, <1>9, <2>1 DEF Leave
  <2>2. CASE k.phase # "done"
    <3>1. conn' = [conn EXCEPT ![c] = n]
      BY <1>1, <1>9, <2>2 DEF Leave
    <3>2. u \in Connection /\ ConnectionOK(u, db.mark) /\ u.registration = "closed"
      BY <1>1, UnregisteredIsOK
    <3>. HIDE DEF u
    <3>3. /\ n \in Connection /\ n.registration = "closed" /\ n.writable = FALSE
          /\ n.seen = u.seen /\ n.pending = u.pending /\ n.told = u.told
          /\ n.owed = u.owed
      BY <3>2 DEF Connection
    <3>. HIDE DEF n
    <3>4. ConnectionOK(n, db.mark)
      BY <3>2, <3>3 DEF ConnectionOK
    <3>5. Attached(n, inst)
      BY <3>3 DEF Attached
    <3>6. QED  BY <1>9, <3>1, <3>3, <3>4, <3>5, OneRequest DEF Leave
  <2>3. QED  BY <2>1, <2>2
<1>10. QED  BY <1>6, <1>7, <1>8, <1>9

\* Commits and deletions.
LEMMA WriteSteps ==
  ASSUME IInv, NEW i \in Instances, Write(i)
  PROVE  IInv'
<1>1. TypeOK /\ NothingAhead /\ ConnectionsOK /\ AllAttached
  BY DEF IInv
<1>2. ASSUME UNCHANGED <<inst, conn>>  PROVE AllAttached'
  BY <1>1, <1>2 DEF AllAttached
<1>3. ASSUME NEW w \in Committed, Commit(i, w)  PROVE IInv'
  <2>1. /\ db.mark \in Committed /\ db'.mark = w
        /\ db' \in [mark : Committed, deleted : BOOLEAN]
        /\ announcing' = announcing \cup {<<i, w>>}
        /\ UNCHANGED <<inst, published, reconciling, conn>>
    BY <1>1, <1>3 DEF TypeOK, Commit
  <2>2. ~Newer(db.mark, w)
    BY <1>1, <1>3, CommitGrows
  <2>3. TypeOK'
    BY <1>1, <2>1, MaybeIsWatermark DEF TypeOK, Message
  <2>4. \A x \in MaybeWatermark : ~Newer(x, db.mark) => ~Newer(x, w)
    BY <2>1, <2>2, MaybeIsWatermark, WatermarkOrder
  <2>5. ~Newer(w, w)
    BY MaybeIsWatermark, WatermarkOrder
  <2>6. /\ \A a \in announcing : a[2] \in MaybeWatermark
        /\ \A m \in published : m \in MaybeWatermark
        /\ \A j \in Instances : reconciling[j].answer \in MaybeWatermark
    BY <1>1 DEF TypeOK, Message, Reconcile
  <2>7. NothingAhead'
    <3>1. \A a \in announcing' : ~Newer(a[2], w)
      BY <1>1, <2>1, <2>4, <2>5, <2>6 DEF NothingAhead
    <3>2. \A m \in published' : ~Newer(m, w)
      BY <1>1, <2>1, <2>4, <2>6 DEF NothingAhead
    <3>3. \A j \in Instances : ~Newer(reconciling'[j].answer, w)
      BY <1>1, <2>1, <2>4, <2>6 DEF NothingAhead
    <3>4. QED  BY <2>1, <3>1, <3>2, <3>3 DEF NothingAhead
  <2>8. ConnectionsOK'
    <3>1. \A c \in Clients : conn[c] \in Connection /\ ConnectionOK(conn[c], db.mark)
      BY <1>1 DEF TypeOK, ConnectionsOK
    <3>2. \A c \in Clients : ConnectionOK(conn[c], w)
      BY <2>1, <2>2, <3>1, ConnectionStaysOK
    <3>3. QED  BY <2>1, <3>2 DEF ConnectionsOK
  <2>9. QED  BY <1>1, <1>2, <2>1, <2>3, <2>7, <2>8 DEF IInv
<1>4. ASSUME DeleteContest(i)  PROVE IInv'
  <2>1. /\ db' \in [mark : Committed, deleted : BOOLEAN] /\ db'.mark = db.mark
        /\ db.mark \in Watermark
        /\ announcing' = announcing \cup {<<i, NoWatermark>>}
        /\ UNCHANGED <<inst, published, reconciling, conn>>
    BY <1>1, <1>4, MaybeIsWatermark DEF TypeOK, DeleteContest, Deletion
  <2>2. TypeOK'
    BY <1>1, <2>1, MaybeIsWatermark DEF TypeOK, Message
  <2>3. NothingAhead'
    BY <1>1, <2>1, WatermarkOrder DEF NothingAhead
  <2>4. ConnectionsOK'
    BY <1>1, <2>1 DEF ConnectionsOK
  <2>5. QED  BY <1>1, <1>2, <2>1, <2>2, <2>3, <2>4 DEF IInv
<1>5. QED  BY <1>3, <1>4 DEF Write

\* A step that lets a hub handle a message that is not ahead of the database.
LEMMA HandlingSteps ==
  ASSUME IInv, NEW i \in Instances, NEW m \in Message, ~Newer(m, db.mark),
         \/ Handle(i, m) \/ NotifyHub(i, m) \/ CloseContest(i)
         \/ UNCHANGED conn,
         announcing' \subseteq announcing, published' \subseteq published \cup {m},
         \/ reconciling' = reconciling
         \/ reconciling' = [reconciling EXCEPT ![i] = Idle],
         UNCHANGED <<db, inst>>
  PROVE  IInv'
<1>1. TypeOK /\ NothingAhead /\ ConnectionsOK /\ AllAttached
  BY DEF IInv
<1>2. /\ conn' \in [Clients -> Connection]
      /\ \A c \in Clients : /\ ConnectionOK(conn'[c], db.mark)
                            /\ Attached(conn'[c], inst)
  <2>1. CASE UNCHANGED conn
    BY <1>1, <2>1 DEF TypeOK, ConnectionsOK, AllAttached
  <2>2. CASE ~UNCHANGED conn
    BY <2>2, HandleKeeps
  <2>3. QED  BY <2>1, <2>2
<1>3. Idle \in Reconcile /\ Idle.answer = NoWatermark /\ ~Newer(NoWatermark, db.mark)
  BY <1>1, MaybeIsWatermark, WatermarkOrder DEF TypeOK, Idle, Reconcile
<1>4. TypeOK'
  BY <1>1, <1>2, <1>3 DEF TypeOK
<1>5. NothingAhead'
  BY <1>1, <1>3 DEF NothingAhead, TypeOK
<1>6. ConnectionsOK'
  BY <1>2 DEF ConnectionsOK
<1>7. AllAttached'
  BY <1>2 DEF AllAttached
<1>8. QED  BY <1>4, <1>5, <1>6, <1>7 DEF IInv

\* Announcements and Redis messages.
LEMMA PassSteps ==
  ASSUME IInv, NEW i \in Instances, Pass(i)
  PROVE  IInv'
<1>1. NothingAhead
  BY DEF IInv
<1>2. ASSUME NEW m \in Message, Deliver(i, m)  PROVE IInv'
  <2>1. ~Newer(m, db.mark)
    BY <1>1, <1>2 DEF NothingAhead, Deliver
  <2>2. QED  BY <1>2, <2>1, HandlingSteps DEF Deliver
<1>3. ASSUME NEW m \in Message, NEW sent \in BOOLEAN, Announce(i, m, sent)
      PROVE  IInv'
  <2>1. ~Newer(m, db.mark)
    BY <1>1, <1>3 DEF NothingAhead, Announce
  <2>2. /\ Handle(i, m) \/ UNCHANGED conn
        /\ announcing' \subseteq announcing /\ published' \subseteq published \cup {m}
        /\ UNCHANGED <<db, inst, reconciling>>
    BY <1>3 DEF Announce
  <2>3. QED  BY <2>1, <2>2, HandlingSteps
<1>4. QED  BY <1>2, <1>3 DEF Pass

\* Reconciliation.
LEMMA ReconcileSteps ==
  ASSUME IInv, NEW i \in Instances, Reconciling(i)
  PROVE  IInv'
<1>1. TypeOK /\ NothingAhead /\ ConnectionsOK /\ AllAttached
  BY DEF IInv
<1>2. ASSUME NEW r \in Reconcile, ~Newer(r.answer, db.mark),
             reconciling' = [reconciling EXCEPT ![i] = r],
             UNCHANGED <<db, inst, announcing, published, conn>>
      PROVE  IInv'
  <2>1. TypeOK'
    BY <1>1, <1>2 DEF TypeOK
  <2>2. NothingAhead'
    BY <1>1, <1>2 DEF NothingAhead, TypeOK
  <2>3. ConnectionsOK'
    BY <1>1, <1>2 DEF ConnectionsOK
  <2>4. AllAttached'
    BY <1>1, <1>2 DEF AllAttached
  <2>5. QED  BY <2>1, <2>2, <2>3, <2>4 DEF IInv
<1>3. /\ reconciling \in [Instances -> Reconcile]
      /\ reconciling[i].answer \in MaybeWatermark
      /\ ~Newer(reconciling[i].answer, db.mark)
      /\ db.mark \in Committed /\ db.mark \in MaybeWatermark /\ db.deleted \in BOOLEAN
  BY <1>1, MaybeIsWatermark DEF TypeOK, NothingAhead, Reconcile
<1>4. ~Newer(db.mark, db.mark) /\ ~Newer(NoWatermark, db.mark)
  BY <1>3, MaybeIsWatermark, WatermarkOrder
<1>5. CASE StartReconcile(i)
  <2>. DEFINE r == [reconciling[i] EXCEPT !.state = "reading"]
  <2>1. r \in Reconcile /\ r.answer = reconciling[i].answer
    BY <1>3 DEF Reconcile
  <2>2. reconciling' = [reconciling EXCEPT ![i] = r]
    BY <1>5 DEF StartReconcile
  <2>. HIDE DEF r
  <2>3. QED  BY <1>2, <1>3, <1>5, <2>1, <2>2 DEF StartReconcile
<1>6. CASE ReadReconcile(i)
  <2>. DEFINE r == [state |-> "read", gone |-> db.deleted,
                    answer |-> IF db.deleted THEN NoWatermark ELSE db.mark]
  <2>1. r \in Reconcile /\ r.answer \in {NoWatermark, db.mark}
    BY <1>3, MaybeIsWatermark DEF Reconcile
  <2>2. reconciling' = [reconciling EXCEPT ![i] = r]
    BY <1>6 DEF ReadReconcile
  <2>. HIDE DEF r
  <2>3. QED  BY <1>2, <1>4, <1>6, <2>1, <2>2 DEF ReadReconcile
<1>7. CASE FailReconcile(i)
  <2>1. Idle \in Reconcile /\ Idle.answer = NoWatermark
    BY MaybeIsWatermark DEF Idle, Reconcile
  <2>2. QED  BY <1>2, <1>4, <1>7, <2>1 DEF FailReconcile
<1>8. CASE FinishReconcile(i)
  <2>. DEFINE m == reconciling[i].answer
  <2>1. m \in Message /\ ~Newer(m, db.mark)
    BY <1>3 DEF Message
  <2>2. /\ CloseContest(i) \/ NotifyHub(i, m) \/ UNCHANGED conn
        /\ reconciling' = [reconciling EXCEPT ![i] = Idle]
        /\ UNCHANGED <<db, inst, announcing, published>>
    BY <1>8 DEF FinishReconcile, Reconciled
  <2>. HIDE DEF m
  <2>3. QED  BY <2>1, <2>2, HandlingSteps
<1>9. QED  BY <1>5, <1>6, <1>7, <1>8 DEF Reconciling

\* Stops, crashes and restarts.
LEMMA LifeSteps ==
  ASSUME IInv, NEW i \in Instances, Stop(i) \/ Exit(i) \/ Restart(i)
  PROVE  IInv'
<1>1. TypeOK /\ NothingAhead /\ ConnectionsOK /\ AllAttached
  BY DEF IInv
<1>2. /\ db.mark \in Committed /\ ~Newer(NoWatermark, db.mark)
      /\ \A c \in Clients : /\ conn[c] \in Connection
                            /\ ConnectionOK(conn[c], db.mark)
                            /\ Attached(conn[c], inst)
  BY <1>1, MaybeIsWatermark, WatermarkOrder DEF TypeOK, ConnectionsOK, AllAttached
<1>3. \A up : /\ Over \in Connection /\ ConnectionOK(Over, db.mark)
              /\ Attached(Over, up) /\ Attached(NoRequest, up)
  BY <1>2, EmptyIsOK
<1>4. Idle \in Reconcile /\ Idle.answer = NoWatermark
  BY MaybeIsWatermark DEF Idle, Reconcile
<1>5. ASSUME NEW life \in {"up", "stopping", "down"},
             inst' = [inst EXCEPT ![i] = life],
             \A c \in Clients :
               \/ /\ conn'[c] \in Connection /\ ConnectionOK(conn'[c], db.mark)
                  /\ Attached(conn'[c], inst')
               \/ /\ conn'[c] = conn[c]
                  /\ \/ life = "up" \/ conn[c].at # i
                     \/ conn[c].registration \notin {"pending", "paused", "active"},
             conn' \in [Clients -> Connection], announcing' \subseteq announcing,
             \/ reconciling' = reconciling
             \/ reconciling' = [reconciling EXCEPT ![i] = Idle],
             UNCHANGED <<db, published>>
      PROVE  IInv'
  <2>1. TypeOK'
    BY <1>1, <1>4, <1>5 DEF TypeOK
  <2>2. NothingAhead'
    BY <1>1, <1>2, <1>4, <1>5 DEF NothingAhead, TypeOK
  <2>3. ConnectionsOK'
    BY <1>2, <1>5 DEF ConnectionsOK
  <2>4. AllAttached'
    <3>1. SUFFICES ASSUME NEW c \in Clients, conn'[c] = conn[c],
                          \/ life = "up" \/ conn[c].at # i
                          \/ conn[c].registration \notin {"pending", "paused", "active"}
                   PROVE  Attached(conn[c], inst')
      BY <1>5 DEF AllAttached
    <3>2. /\ inst \in [Instances -> {"up", "stopping", "down"}]
          /\ conn[c].at \in Instances
      BY <1>1, <1>2 DEF TypeOK, Connection
    <3>3. \/ inst'[conn[c].at] = inst[conn[c].at] \/ inst'[conn[c].at] = "up"
          \/ conn[c].registration \notin {"pending", "paused", "active"}
      BY <1>5, <3>1, <3>2
    <3>4. QED  BY <1>2, <3>3 DEF Attached
  <2>5. QED  BY <2>1, <2>2, <2>3, <2>4 DEF IInv
<1>6. ASSUME Stop(i)  PROVE IInv'
  <2>1. \A c \in Clients : /\ Detached(conn[c]) \in Connection
                           /\ ConnectionOK(Detached(conn[c]), db.mark)
                           /\ Attached(Detached(conn[c]), inst')
    BY <1>2, DetachedIsOK
  <2>2. /\ conn' \in [Clients -> Connection]
        /\ \A c \in Clients :
             \/ conn'[c] = Detached(conn[c])
             \/ /\ conn'[c] = conn[c]
                /\ \/ conn[c].at # i
                   \/ conn[c].registration \notin {"pending", "paused", "active"}
    BY <1>2, <1>6, <2>1 DEF Stop
  <2>3. QED  BY <1>5, <1>6, <2>1, <2>2 DEF Stop
<1>7. ASSUME Exit(i)  PROVE IInv'
  <2>1. \A c \in Clients : conn[c].phase = "absent" =>
          conn[c].registration \notin {"pending", "paused", "active"}
    BY <1>2 DEF Attached
  <2>2. /\ conn' \in [Clients -> Connection]
        /\ \A c \in Clients :
             \/ conn'[c] = Over
             \/ /\ conn'[c] = conn[c]
                /\ conn[c].at # i \/ conn[c].phase = "absent"
    BY <1>2, <1>3, <1>7 DEF Exit
  <2>3. QED  BY <1>2, <1>3, <1>5, <1>7, <2>1, <2>2 DEF Exit
<1>8. ASSUME Restart(i)  PROVE IInv'
  <2>1. conn' \in [Clients -> Connection]
    BY <1>1, <1>8 DEF TypeOK, Restart
  <2>2. QED  BY <1>5, <1>8, <2>1 DEF Restart
<1>9. QED  BY <1>6, <1>7, <1>8

----------------------------------------------------------------------------
\* The inductive invariant holds throughout.
THEOREM Inductive == Spec => []IInv
<1>1. Init => IInv
  <2>. SUFFICES ASSUME Init  PROVE IInv
    OBVIOUS
  <2>1. db.mark \in Committed /\ db \in [mark : Committed, deleted : BOOLEAN]
    BY NotificationAssumption DEF Init, Committed
  <2>2. /\ NoRequest \in Connection /\ ConnectionOK(NoRequest, db.mark)
        /\ Attached(NoRequest, inst)
    BY <2>1, EmptyIsOK
  <2>3. Idle \in Reconcile /\ Idle.answer = NoWatermark /\ ~Newer(NoWatermark, db.mark)
    BY <2>1, MaybeIsWatermark, WatermarkOrder DEF Idle, Reconcile
  <2>4. TypeOK
    BY <2>1, <2>2, <2>3 DEF Init, TypeOK
  <2>5. NothingAhead /\ ConnectionsOK
    BY <2>2, <2>3 DEF Init, NothingAhead, ConnectionsOK
  <2>6. AllAttached
    BY <2>2 DEF Init, AllAttached
  <2>7. QED  BY <2>4, <2>5, <2>6 DEF IInv
<1>2. IInv /\ [Next]_vars => IInv'
  <2>1. CASE Next
    BY <2>1, WriteSteps, PassSteps, ReconcileSteps, LifeSteps, EarlySteps, LateSteps
       DEF Next, Attaching
  <2>2. ASSUME IInv, UNCHANGED vars  PROVE IInv'
    BY <2>2 DEF vars, IInv, TypeOK, NothingAhead, ConnectionsOK, AllAttached
  <2>3. QED  BY <2>1, <2>2
<1>3. QED  BY <1>1, <1>2, PTL DEF Spec

\* Every variable has its type.
THEOREM TypeCorrect == Spec => []TypeOK
<1>1. IInv => TypeOK
  BY DEF IInv
<1>2. QED  BY <1>1, Inductive, PTL

\* What an active connection was told lies between what it is owed and what the
\* database holds.
THEOREM NoGapNoFuture == Spec => []ToldBetween
<1>1. IInv => ToldBetween
  BY DEF IInv, ConnectionsOK, ConnectionOK, ToldBetween
<1>2. QED  BY <1>1, Inductive, PTL

\* A response whose handler is done has ended, or is a stream of an instance that runs,
\* whenever the instance stops, the contest is deleted or the client goes away.
THEOREM NoResponseIsLeft == Spec => []NoResponseHangs
<1>1. IInv => NoResponseHangs
  BY DEF IInv, AllAttached, Attached, NoResponseHangs, Running
<1>2. QED  BY <1>1, Inductive, PTL

============================================================================
