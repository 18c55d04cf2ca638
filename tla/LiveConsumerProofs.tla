------------------------- MODULE LiveConsumerProofs ------------------------
(***************************************************************************)
(* What a live session shows is the log, for any stream, any page size and *)
(* any order of pages, notifications, failures and connections.  Whatever  *)
(* the handler, a session is left in one of the four states of Consistent; *)
(* the lemmas show it for the helpers that the handlers end with.  Each    *)
(* step of a session is a callback of EventCallbacks or none: a page is    *)
(* given (PagesAreGiven), a reset opens (ResetsOpen), a failure ends.      *)
(*                                                                         *)
(* Then the page: the screen follows the stream for any number of          *)
(* sessions, resets and events.  What the callbacks of $nextTick make of   *)
(* the panel is a recursion over them; UpTo is the induction that its      *)
(* facts need, for a set in place of a predicate.  Then the rows that      *)
(* scroll by: every item and the queue have the timers they need.  Last,   *)
(* the board: a heap is in order but for one place while a solution rises  *)
(* or sinks in it, the loops end within as many turns as it has places,    *)
(* and so its top is the earliest accepted solution, which the rows show.  *)
(***************************************************************************)
EXTENDS
  LiveConsumerProps, LiveViewProps, ScrollQueueProps, BoardProps,
  WellFoundedInduction, SequenceTheorems, TLAPS

Prefix(rev, n) == [k \in 1 .. n |-> [rev |-> rev, id |-> k]]

\* A live session that has shown shown.
Shows(s, shown) ==
  /\ s \in Session /\ s.phase = "live" /\ s.rev # 0
  /\ [rev |-> s.rev, id |-> s.target] \in announced
  /\ s.local <= s.target /\ s.boundary <= s.target
  /\ s.initialized \/ s.local <= s.boundary
  /\ shown = Prefix(s.rev, s.local)

\* A session with nothing left to do.
Idle(s) == s.initialized /\ s.source # "none" /\ s.local = s.target

\* What an answer that still counts may say.
Sensible(c) ==
  /\ c.answer \in EventPage
  /\ [rev |-> c.answer.rev, id |-> c.answer.latest] \in announced
  /\ c.kind = "page" =>
       /\ ~c.answer.reset => c.answer.rev = c.rev /\ c.answer.checkpoint <= c.answer.latest
       /\ server # "lagging" => IF c.answer.reset THEN c.rev < c.answer.rev
                                ELSE c.after < c.answer.checkpoint

\* How session, outstanding call and what is shown go together.
Consistent(s, c, shown) ==
  /\ s \in Session /\ c \in Call
  /\ s.phase # "live" => s.source = "none" /\ ~s.initialized /\ shown \in Seq(Committed)
  /\ s.phase \in {"new", "loading"} => shown = << >>
  /\ s.phase = "new" => c.state = "none"
  /\ s.phase = "loading" => c.state # "none" /\ c.current /\ c.kind = "stream"
  /\ s.phase = "stopped" => c.state = "none" \/ ~c.current
  /\ s.phase = "live" =>
       /\ Shows(s, shown)
       /\ c.state = "none" => server = "lagging" \/ Idle(s)
       /\ (c.state # "none" /\ ~c.current) => s.followUp
       /\ (c.state # "none" /\ c.current) =>
            c.kind = "page" /\ c.rev = s.rev /\ c.after = s.local /\ s.local < s.target
  /\ (c.state = "answered" /\ c.current) => Sensible(c)

\* db is the newest of what was announced.
ServerInv ==
  /\ server \in Servers
  /\ db \in Committed /\ db \in announced
  /\ announced \subseteq Committed
  /\ \A w \in announced : w.rev < db.rev \/ (w.rev = db.rev /\ w.id <= db.id)

ConsumerInv ==
  /\ ServerInv
  /\ Consistent(session, call, applied)
  /\ fatal \in {"none", "protocol", "callback", "refused"}
  /\ NeverNonsense

----------------------------------------------------------------------------
(* The helpers that handlers end with. *)

\* A page that continues what is shown extends it to a longer prefix.
LEMMA PrefixGrows ==
  ASSUME NEW r \in 1 .. MaxRevision, NEW i \in Nat, NEW j \in 0 .. MaxEventId, i <= j
  PROVE  /\ Prefix(r, i) \o [n \in 1 .. j - i |-> [rev |-> r, id |-> i + n]] = Prefix(r, j)
         /\ Prefix(r, j) \in Seq(Committed)
<1>. DEFINE more == [n \in 1 .. j - i |-> [rev |-> r, id |-> i + n]]
<1>1. j \in Nat /\ j - i \in Nat /\ j <= MaxEventId
  BY ConsumerAssumption
<1>2. /\ Prefix(r, i) \in Seq(Committed) /\ Len(Prefix(r, i)) = i
      /\ Prefix(r, j) \in Seq(Committed) /\ Len(Prefix(r, j)) = j
  BY <1>1, ConsumerAssumption DEF Prefix, Committed
<1>3. more \in Seq(Committed) /\ Len(more) = j - i
  BY <1>1, ConsumerAssumption DEF Committed
<1>4. /\ Prefix(r, i) \o more \in Seq(Committed)
      /\ Len(Prefix(r, i) \o more) = j
  <2>. DEFINE first == Prefix(r, i)
  <2>1. first \in Seq(Committed) /\ Len(first) = i
    BY <1>2
  <2>. HIDE DEF first, more
  <2>2. first \o more \in Seq(Committed) /\ Len(first \o more) = i + (j - i)
    BY <1>3, <2>1
  <2>3. i + (j - i) = j
    BY <1>1
  <2>4. QED  BY <2>2, <2>3 DEF first
<1>5. ASSUME NEW n \in 1 .. j
      PROVE  (Prefix(r, i) \o more)[n] = Prefix(r, j)[n]
  BY <1>1, <1>2, <1>3 DEF Prefix
<1>6. QED  BY <1>2, <1>4, <1>5, SeqEqual

\* The head of the catch-up loop.
LEMMA ProceedIsConsistent ==
  ASSUME NEW s, Shows(s, applied'), Proceed(s), UNCHANGED <<server, announced>>
  PROVE  Consistent(session, call, applied)'
<1>1. CASE s.local < s.target
  <2>1. /\ session' = s /\ call' \in Call
        /\ call'.state = "asked" /\ call'.current /\ call'.kind = "page"
        /\ call'.rev = s.rev /\ call'.after = s.local
    BY <1>1, ConsumerAssumption DEF Proceed, AskPage, NoCall, Call, NoAnswer, Shows, Session
  <2>2. QED  BY <1>1, <2>1 DEF Consistent, Shows
<1>2. CASE ~(s.local < s.target)
  <2>1. /\ session' \in Session /\ session'.phase = "live" /\ Idle(session')
        /\ session'.rev = s.rev /\ session'.local = s.local
        /\ session'.target = s.target /\ session'.boundary = s.boundary
        /\ call' = NoCall
    <3>1. session' = [Subscribed(s) EXCEPT !.followUp = FALSE] /\ call' = NoCall
      BY <1>2 DEF Proceed
    <3>2. s \in Session /\ Subscribed(s) \in Session
      BY DEF Shows, Subscribed, Session
    <3>3. /\ Subscribed(s).initialized /\ Subscribed(s).source # "none"
          /\ Subscribed(s).phase = "live" /\ Subscribed(s).rev = s.rev
          /\ Subscribed(s).local = s.local /\ Subscribed(s).target = s.target
          /\ Subscribed(s).boundary = s.boundary
      BY <3>2 DEF Shows, Subscribed, Session
    <3>4. s.local = s.target
      BY <1>2, <3>2, ConsumerAssumption DEF Shows, Session
    <3>5. QED  BY <3>1, <3>2, <3>3, <3>4 DEF Session, Idle
  <2>2. call' \in Call /\ call'.state = "none"
    BY <2>1, ConsumerAssumption DEF NoCall, Call, NoAnswer
  <2>3. QED  BY <2>1, <2>2 DEF Consistent, Shows, Idle
<1>3. QED  BY <1>1, <1>2

\* The end of a run that something was asked to follow.
LEMMA EndRunIsConsistent ==
  ASSUME NEW s, Shows(s, applied'), s.followUp \/ server = "lagging",
         EndRun(s), UNCHANGED <<server, announced>>
  PROVE  Consistent(session, call, applied)'
<1>. DEFINE t == [s EXCEPT !.followUp = FALSE]
<1>1. Shows(t, applied')
  BY DEF Shows, Session
<1>2. CASE s.followUp
  <2>1. Proceed(t)
    BY <1>2 DEF EndRun, Shows
  <2>2. QED  BY <1>1, <2>1, ProceedIsConsistent
<1>3. CASE ~s.followUp
  <2>1. session' = t /\ call' = NoCall /\ server = "lagging"
    BY <1>3 DEF EndRun
  <2>2. call' \in Call /\ call'.state = "none"
    BY <2>1, ConsumerAssumption DEF NoCall, Call, NoAnswer
  <2>3. QED  BY <1>1, <2>1, <2>2 DEF Consistent, Shows
<1>4. QED  BY <1>2, <1>3

\* One run at a time: what is outstanding goes on, or is followed by another run.
LEMMA ScheduleIsConsistent ==
  ASSUME NEW s, NEW c \in Call, Shows(s, applied'),
         (c.state # "none" /\ c.current) =>
           c.kind = "page" /\ c.rev = s.rev /\ c.after = s.local /\ s.local < s.target,
         (c.state = "answered" /\ c.current) => Sensible(c),
         Schedule(s, c), UNCHANGED <<server, announced>>
  PROVE  Consistent(session, call, applied)'
<1>1. CASE c.state = "none"
  BY <1>1, ProceedIsConsistent DEF Schedule
<1>2. CASE c.state # "none"
  <2>1. session' = [s EXCEPT !.followUp = TRUE] /\ call' = c
    BY <1>2 DEF Schedule
  <2>2. Shows(session', applied') /\ session'.followUp
    BY <2>1 DEF Shows, Session
  <2>3. /\ session'.rev = s.rev /\ session'.local = s.local
        /\ session'.target = s.target
    BY <2>1 DEF Shows, Session
  <2>4. QED  BY <1>2, <2>1, <2>2, <2>3 DEF Consistent, Shows, Sensible
<1>3. QED  BY <1>1, <1>2

\* A session that was given up has nothing outstanding that counts.
LEMMA StoppedIsConsistent ==
  ASSUME NEW s \in Session, NEW c \in Call, c.state = "none" \/ ~c.current,
         session' = Stopped(s), call' = c, applied' \in Seq(Committed)
  PROVE  Consistent(session, call, applied)'
<1>1. /\ session' \in Session /\ session'.phase = "stopped" /\ session'.source = "none"
      /\ ~session'.initialized
  BY DEF Stopped, Session
<1>2. QED  BY <1>1 DEF Consistent

----------------------------------------------------------------------------
(* The server's side. *)

\* A commit is announced and takes nothing back.
LEMMA CommitStep ==
  ASSUME ConsumerInv, NEW w \in Committed, Commit(w)
  PROVE  ConsumerInv'
<1>1. ServerInv'
  BY ConsumerAssumption DEF Commit, Committed, ConsumerInv, ServerInv, Servers
<1>2. Consistent(session, call, applied)'
  BY DEF Commit, ConsumerInv, Consistent, Shows, Sensible
<1>3. QED  BY <1>1, <1>2 DEF ConsumerInv, NeverNonsense, Commit

\* An answer is about a watermark that was announced; one from the database is not
\* older than what the session knows, and has the events it asked for.
LEMMA ServeStep ==
  ASSUME ConsumerInv, NEW w \in Committed, Serve(w)
  PROVE  ConsumerInv'
<1>1. /\ call \in Call /\ call.state = "asked" /\ w \in announced
      /\ server # "lagging" => w = db
      /\ UNCHANGED <<server, db, announced, session, applied, fatal>>
  BY DEF Serve, ConsumerInv, ServerInv, Consistent
<1>2. PageOf(w, call.rev, call.after) \in EventPage
  BY <1>1, ConsumerAssumption DEF PageOf, EventPage, Committed, Call
<1>3. [NoAnswer EXCEPT !.rev = w.rev, !.latest = w.id] \in EventPage
  <2>1. NoAnswer \in [rev : Int, latest : Int, checkpoint : {0}, reset : {FALSE}]
    BY DEF NoAnswer
  <2>2. w.rev \in 1 .. MaxRevision /\ w.id \in 0 .. MaxEventId /\ 0 \in 0 .. MaxEventId
    BY ConsumerAssumption DEF Committed
  <2>3. QED  BY <2>1, <2>2 DEF EventPage
<1>. DEFINE answer == IF call.kind = "page" THEN PageOf(w, call.rev, call.after)
                      ELSE [NoAnswer EXCEPT !.rev = w.rev, !.latest = w.id]
<1>4. answer \in EventPage
  BY <1>2, <1>3
<1>5. call' = [call EXCEPT !.state = "answered", !.answer = answer]
  BY DEF Serve
<1>. HIDE DEF answer
<1>6. /\ call' \in Call /\ call'.state = "answered" /\ call'.answer = answer
      /\ call'.kind = call.kind /\ call'.current = call.current
      /\ call'.rev = call.rev /\ call'.after = call.after
  BY <1>1, <1>4, <1>5 DEF Call
<1>7. answer.rev = w.rev /\ answer.latest = w.id
  BY DEF answer, PageOf, NoAnswer, Committed
<1>8. w = [rev |-> answer.rev, id |-> answer.latest]
  BY <1>7 DEF Committed
<1>9. ASSUME call.kind = "page", call.current
      PROVE  Sensible(call')
  <2>1. /\ session.phase = "live" /\ Shows(session, applied)
        /\ call.rev = session.rev /\ call.after = session.local
        /\ session.local < session.target
    BY <1>1, <1>9 DEF ConsumerInv, Consistent, Session
  <2>2. /\ session.rev \in Nat /\ session.target \in Nat /\ session.local \in Nat
        /\ [rev |-> session.rev, id |-> session.target] \in announced
    BY <2>1, ConsumerAssumption DEF Shows, Session
  <2>3. w.rev \in Nat /\ w.id \in Nat
    BY ConsumerAssumption DEF Committed
  <2>4. ~answer.reset =>
          answer.rev = call.rev /\ answer.checkpoint <= answer.latest
    BY <1>9, <2>1, <2>2, <2>3, ConsumerAssumption DEF answer, PageOf
  <2>5. ASSUME server # "lagging"
        PROVE  IF answer.reset THEN call.rev < answer.rev
               ELSE call.after < answer.checkpoint
    <3>1. session.rev < w.rev \/ (session.rev = w.rev /\ session.target <= w.id)
      BY <1>1, <2>2, <2>5 DEF ConsumerInv, ServerInv
    <3>2. QED
      BY <1>9, <2>1, <2>2, <2>3, <3>1, ConsumerAssumption DEF answer, PageOf
  <2>6. QED  BY <1>1, <1>4, <1>6, <1>8, <2>4, <2>5 DEF Sensible
<1>10. ASSUME call.kind # "page", call.current
       PROVE  Sensible(call')
  BY <1>1, <1>4, <1>6, <1>8, <1>10 DEF Sensible
<1>11. Consistent(session, call, applied)'
  <2>1. call'.current => Sensible(call')
    BY <1>6, <1>9, <1>10
  <2>2. call'.current => Sensible(call)'
    BY <1>1, <2>1 DEF Sensible
  <2>3. QED  BY <1>1, <1>6, <2>2 DEF ConsumerInv, Consistent, Shows
<1>12. QED  BY <1>1, <1>11 DEF ConsumerInv, ServerInv, NeverNonsense

----------------------------------------------------------------------------
(* The handlers. *)

\* What every handler leaves alone.
LEMMA ServerIsLeftAlone ==
  ASSUME ServerInv, UNCHANGED <<server, db, announced>>
  PROVE  ServerInv'
  BY DEF ServerInv

\* The empty ranklist is where every generation starts.
LEMMA EmptyPrefix ==
  ASSUME NEW r
  PROVE  Prefix(r, 0) = << >>
  BY DEF Prefix

\* A session is started, and told where the stream stands.
LEMMA StartSteps ==
  ASSUME ConsumerInv, Start \/ ReceiveStreamState
  PROVE  ConsumerInv'
<1>1. CASE Start
  <2>1. /\ session \in Session /\ session.phase = "new"
        /\ session' = [session EXCEPT !.phase = "loading"]
        /\ call' = [NoCall EXCEPT !.state = "asked", !.kind = "stream", !.current = TRUE]
        /\ UNCHANGED <<server, db, announced, applied, fatal>>
    BY <1>1 DEF Start, ConsumerInv, Consistent
  <2>2. /\ session' \in Session /\ session'.phase = "loading"
        /\ session'.source = session.source
    BY <2>1 DEF Session
  <2>3. /\ call' \in Call /\ call'.state = "asked" /\ call'.kind = "stream"
        /\ call'.current
    <3>1. call' = [state |-> "asked", kind |-> "stream", current |-> TRUE, rev |-> 0,
                   after |-> 0, answer |-> NoAnswer]
      BY <2>1 DEF NoCall
    <3>2. 0 \in 0 .. MaxRevision /\ 0 \in 0 .. MaxEventId
      BY ConsumerAssumption
    <3>3. QED  BY <3>1, <3>2 DEF Call
  <2>4. Consistent(session, call, applied)'
    BY <2>1, <2>2, <2>3 DEF ConsumerInv, Consistent
  <2>5. QED  BY <2>1, <2>4, ServerIsLeftAlone DEF ConsumerInv, NeverNonsense
<1>2. CASE ReceiveStreamState
  <2>. DEFINE s == [session EXCEPT
                      !.phase = "live", !.rev = call.answer.rev, !.local = 0,
                      !.target = call.answer.latest, !.boundary = call.answer.latest]
  <2>1. /\ session \in Session /\ call \in Call /\ session.phase = "loading"
        /\ Sensible(call) /\ Proceed(s)
        /\ UNCHANGED <<server, db, announced, applied, fatal>>
    BY <1>2 DEF ReceiveStreamState, Mine, ConsumerInv, Consistent, Session
  <2>2. /\ s \in Session /\ s.phase = "live" /\ s.rev = call.answer.rev /\ s.local = 0
        /\ s.target = call.answer.latest /\ s.boundary = call.answer.latest
        /\ s.rev # 0 /\ s.target \in Nat
    <3>1. /\ call.answer.rev \in 1 .. MaxRevision /\ call.answer.rev \in 0 .. MaxRevision
          /\ call.answer.latest \in 0 .. MaxEventId /\ 0 \in 0 .. MaxEventId
      BY <2>1, ConsumerAssumption DEF Sensible, EventPage
    <3>2. s \in Session
      BY <2>1, <3>1 DEF Session
    <3>3. /\ s.phase = "live" /\ s.rev = call.answer.rev /\ s.local = 0
          /\ s.target = call.answer.latest /\ s.boundary = call.answer.latest
      BY <2>1, <3>1 DEF Session
    <3>4. QED  BY <3>1, <3>2, <3>3, ConsumerAssumption
  <2>3. applied' = << >>
    BY <2>1 DEF ConsumerInv, Consistent
  <2>. HIDE DEF s
  <2>4. Shows(s, applied')
    <3>1. [rev |-> s.rev, id |-> s.target] \in announced
      BY <2>1, <2>2 DEF Sensible
    <3>2. s.local <= s.target /\ s.boundary <= s.target /\ s.local <= s.boundary
      BY <2>2
    <3>3. applied' = Prefix(s.rev, s.local)
      BY <2>2, <2>3, EmptyPrefix
    <3>4. QED  BY <2>2, <3>1, <3>2, <3>3 DEF Shows
  <2>5. Consistent(session, call, applied)'
    BY <2>1, <2>4, ProceedIsConsistent
  <2>6. QED  BY <2>1, <2>5, ServerIsLeftAlone DEF ConsumerInv, NeverNonsense
<1>3. QED  BY <1>1, <1>2

\* What a current page call says of its session.
LEMMA PageCall ==
  ASSUME ConsumerInv, Mine("answered", "page")
  PROVE  /\ session.phase = "live" /\ Shows(session, applied) /\ Sensible(call)
         /\ session \in Session /\ call \in Call /\ call.answer \in EventPage
         /\ call.rev = session.rev /\ call.after = session.local
         /\ session.local < session.target
  BY DEF ConsumerInv, Consistent, Mine, Session, Sensible

\* A page is shown as far as the initial boundary, or to its end.
LEMMA ReceiveEventsStep ==
  ASSUME ConsumerInv, ReceiveEvents
  PROVE  ConsumerInv'
<1>. DEFINE p == call.answer
            s == Ingested(session, p)
            t == [s EXCEPT !.target = Larger(@, p.latest)]
<1>1. /\ ~p.reset /\ p.rev = call.rev /\ Valid(p, call.after)
      /\ Proceed(t) /\ applied' = applied \o EventsOf(p, call.after, s.local)
      /\ UNCHANGED <<server, db, announced, fatal>>
  BY DEF ReceiveEvents
<1>2. /\ session.phase = "live" /\ Shows(session, applied) /\ Sensible(call)
      /\ session \in Session /\ p \in EventPage
      /\ p.rev = session.rev /\ call.after = session.local
      /\ session.local < session.target
  BY <1>1, PageCall DEF ReceiveEvents
<1>3. /\ p.rev \in 1 .. MaxRevision /\ p.latest \in 0 .. MaxEventId
      /\ p.checkpoint \in 0 .. MaxEventId
      /\ session.local \in 0 .. MaxEventId /\ session.target \in 0 .. MaxEventId
      /\ session.boundary \in 0 .. MaxEventId /\ MaxEventId \in Nat /\ MaxRevision \in Nat
  BY <1>2, ConsumerAssumption DEF EventPage, Session
<1>4. session.local < p.checkpoint /\ p.checkpoint <= p.latest
  BY <1>1, <1>2 DEF Valid
<1>5. /\ s \in Session /\ s.phase = "live" /\ s.rev = session.rev
      /\ s.target = session.target /\ s.boundary = session.boundary
      /\ s.local \in 0 .. MaxEventId /\ session.local <= s.local
      /\ s.local <= p.latest \/ s.local <= session.target
      /\ s.initialized \/ s.local <= s.boundary
  <2>1. CASE session.initialized \/ p.checkpoint < session.boundary
    <3>1. s = [session EXCEPT !.local = p.checkpoint]
      BY <2>1 DEF Ingested
    <3>2. /\ s \in Session /\ s.phase = "live" /\ s.rev = session.rev
          /\ s.target = session.target /\ s.boundary = session.boundary
          /\ s.local = p.checkpoint /\ s.initialized = session.initialized
      BY <1>2, <1>3, <3>1 DEF Session
    <3>3. QED  BY <1>3, <1>4, <2>1, <3>2
  <2>2. CASE ~(session.initialized \/ p.checkpoint < session.boundary)
    <3>1. s = [Subscribed(session) EXCEPT !.local = session.boundary]
      BY <2>2 DEF Ingested
    <3>2. /\ Subscribed(session) \in Session /\ Subscribed(session).initialized
          /\ Subscribed(session).phase = "live" /\ Subscribed(session).rev = session.rev
          /\ Subscribed(session).target = session.target
          /\ Subscribed(session).boundary = session.boundary
      BY <1>2 DEF Subscribed, Session
    <3>3. /\ s \in Session /\ s.phase = "live" /\ s.rev = session.rev
          /\ s.target = session.target /\ s.boundary = session.boundary
          /\ s.local = session.boundary /\ s.initialized
      BY <1>3, <3>1, <3>2 DEF Session
    <3>4. session.local <= session.boundary /\ session.boundary <= session.target
      BY <1>2, <2>2 DEF Shows
    <3>5. QED  BY <1>3, <1>4, <2>2, <3>3, <3>4
  <2>3. QED  BY <2>1, <2>2
<1>6. /\ t \in Session /\ t.phase = "live" /\ t.rev = session.rev /\ t.local = s.local
      /\ t.target = Larger(session.target, p.latest) /\ t.boundary = session.boundary
      /\ t.initialized = s.initialized
  <2>1. Larger(s.target, p.latest) \in 0 .. MaxEventId
    BY <1>3, <1>5 DEF Larger
  <2>. HIDE DEF s, p
  <2>2. QED  BY <1>5, <2>1 DEF Session
<1>7. /\ t.local <= t.target /\ t.boundary <= t.target
      /\ t.initialized \/ t.local <= t.boundary
  <2>1. session.boundary <= session.target
    BY <1>2 DEF Shows
  <2>. HIDE DEF s, p, t
  <2>2. QED  BY <1>3, <1>5, <1>6, <2>1 DEF Larger
<1>8. [rev |-> t.rev, id |-> t.target] \in announced
  <2>1. /\ [rev |-> p.rev, id |-> p.latest] \in announced
        /\ [rev |-> session.rev, id |-> session.target] \in announced
    BY <1>2 DEF Sensible, Shows
  <2>. HIDE DEF s, p, t
  <2>2. QED  BY <1>2, <1>6, <2>1 DEF Larger
<1>9. applied' = Prefix(t.rev, t.local)
  <2>1. applied = Prefix(session.rev, session.local)
    BY <1>2 DEF Shows
  <2>2. EventsOf(p, call.after, s.local) =
          [n \in 1 .. s.local - session.local |->
             [rev |-> session.rev, id |-> session.local + n]]
    BY <1>2 DEF EventsOf
  <2>. HIDE DEF s, p, t
  <2>3. session.rev \in 1 .. MaxRevision /\ session.local \in Nat
    BY <1>2, <1>3
  <2>4. QED  BY <1>1, <1>5, <1>6, <2>1, <2>2, <2>3, PrefixGrows
<1>10. Shows(t, applied')
  <2>1. t.rev # 0
    BY <1>2, <1>3, <1>6
  <2>. HIDE DEF t
  <2>2. QED  BY <1>6, <1>7, <1>8, <1>9, <2>1 DEF Shows
<1>11. Consistent(session, call, applied)'
  <2>. HIDE DEF t
  <2>1. QED  BY <1>1, <1>10, ProceedIsConsistent
<1>12. QED  BY <1>1, <1>11, ServerIsLeftAlone DEF ConsumerInv, NeverNonsense

\* A session that starts over with a watermark that was announced.
LEMMA ReplacedShowsNothing ==
  ASSUME NEW s \in Session, s.phase = "live",
         NEW w, w \in announced, w \in Committed
  PROVE  /\ Shows(Replaced(s, w), << >>)
         /\ Replaced(s, w) \in Session /\ Replaced(s, w).local = 0
         /\ Replaced(s, w).rev = w.rev
<1>1. /\ w.rev \in 1 .. MaxRevision /\ w.rev \in 0 .. MaxRevision /\ w.rev # 0
      /\ w.id \in 0 .. MaxEventId /\ w.id \in Nat /\ 0 \in 0 .. MaxEventId
      /\ w = [rev |-> w.rev, id |-> w.id]
  BY ConsumerAssumption DEF Committed
<1>2. /\ Replaced(s, w) \in Session /\ Replaced(s, w).phase = "live"
      /\ Replaced(s, w).rev = w.rev /\ Replaced(s, w).local = 0
      /\ Replaced(s, w).target = w.id /\ Replaced(s, w).boundary = w.id
  BY <1>1 DEF Replaced, Session
<1>3. QED  BY <1>1, <1>2, EmptyPrefix DEF Shows

\* A reset starts over, unless it is to an older revision.
LEMMA ReceiveResetStep ==
  ASSUME ConsumerInv, ReceiveReset
  PROVE  ConsumerInv'
<1>. DEFINE p == call.answer
            latest == IF p.rev = call.rev THEN Larger(session.target, p.latest)
                      ELSE p.latest
            w == [rev |-> p.rev, id |-> latest]
            t == [Replaced(session, w) EXCEPT !.followUp = TRUE]
<1>1. /\ session.phase = "live" /\ Shows(session, applied) /\ Sensible(call)
      /\ session \in Session /\ p \in EventPage /\ p.reset
      /\ call.rev = session.rev /\ UNCHANGED <<server, db, announced, fatal>>
  BY PageCall DEF ReceiveReset
<1>2. CASE p.rev < call.rev
  <2>1. EndRun(session) /\ applied' = applied
    BY <1>2 DEF ReceiveReset
  <2>2. server = "lagging"
    BY <1>1, <1>2, PageCall, ConsumerAssumption
       DEF Sensible, ReceiveReset, Mine, EventPage, Session
  <2>3. Consistent(session, call, applied)'
    BY <1>1, <2>1, <2>2, EndRunIsConsistent
  <2>4. QED  BY <1>1, <2>3, ServerIsLeftAlone DEF ConsumerInv, NeverNonsense
<1>3. CASE ~(p.rev < call.rev)
  <2>1. EndRun(t) /\ applied' = << >>
    BY <1>3 DEF ReceiveReset
  <2>2. w \in announced
    <3>1. /\ [rev |-> p.rev, id |-> p.latest] \in announced
          /\ [rev |-> session.rev, id |-> session.target] \in announced
      BY <1>1 DEF Sensible, Shows
    <3>2. QED  BY <1>1, <3>1 DEF Larger
  <2>3. w \in Committed
    BY <2>2 DEF ConsumerInv, ServerInv
  <2>. HIDE DEF w
  <2>4. Shows(Replaced(session, w), << >>) /\ Replaced(session, w) \in Session
    BY <1>1, <2>2, <2>3, ReplacedShowsNothing
  <2>5. Shows(t, << >>) /\ t.followUp
    BY <2>4 DEF Shows, Session
  <2>. HIDE DEF t
  <2>6. Consistent(session, call, applied)'
    BY <1>1, <2>1, <2>5, EndRunIsConsistent
  <2>7. QED  BY <1>1, <2>6, ServerIsLeftAlone DEF ConsumerInv, NeverNonsense
<1>4. QED  BY <1>2, <1>3

\* What is shown is a sequence of events, whatever the session does.
LEMMA ShownIsSequence ==
  ASSUME ConsumerInv
  PROVE  applied \in Seq(Committed)
<1>1. CASE session.phase = "live"
  <2>1. /\ applied = Prefix(session.rev, session.local)
        /\ session.rev \in 1 .. MaxRevision /\ session.local \in 0 .. MaxEventId
    BY <1>1, ConsumerAssumption DEF ConsumerInv, Consistent, Shows, Session
  <2>2. session.local \in Nat /\ session.local <= session.local
    BY <2>1, ConsumerAssumption
  <2>3. Prefix(session.rev, session.local) \in Seq(Committed)
    BY <2>1, <2>2, PrefixGrows
  <2>4. QED  BY <2>1, <2>3
<1>2. CASE session.phase # "live"
  BY <1>2 DEF ConsumerInv, Consistent
<1>3. QED  BY <1>1, <1>2

\* Giving up.  Nonsense is believed only of an instance that lags behind.
LEMMA FailSteps ==
  ASSUME ConsumerInv, ReceiveNonsense \/ ReceiveThrows \/ FailForGood
  PROVE  ConsumerInv'
<1>1. /\ session' = Stopped(session) /\ call' = NoCall /\ applied' = applied
      /\ session \in Session /\ fatal' \in {"none", "protocol", "callback", "refused"}
      /\ UNCHANGED <<server, db, announced>>
  BY DEF ReceiveNonsense, ReceiveThrows, FailForGood, Fail, ConsumerInv, Consistent
<1>2. NoCall \in Call /\ NoCall.state = "none"
  BY ConsumerAssumption DEF NoCall, Call, NoAnswer
<1>3. applied' \in Seq(Committed)
  BY <1>1, ShownIsSequence
<1>4. Consistent(session, call, applied)'
  BY <1>1, <1>2, <1>3, StoppedIsConsistent
<1>5. NeverNonsense'
  <2>1. CASE ReceiveNonsense
    <3>1. call.answer.rev # call.rev \/ ~Valid(call.answer, call.after)
      BY <2>1 DEF ReceiveNonsense
    <3>2. ~call.answer.reset /\ Sensible(call) /\ call.kind = "page"
      BY <2>1, PageCall DEF ReceiveNonsense, Mine
    <3>3. server = "lagging"
      BY <3>1, <3>2 DEF Sensible, Valid
    <3>4. QED  BY <1>1, <3>3 DEF NeverNonsense
  <2>2. CASE ReceiveThrows \/ FailForGood
    BY <2>2 DEF ReceiveThrows, FailForGood, Fail, NeverNonsense
  <2>3. QED  BY <2>1, <2>2
<1>6. QED  BY <1>1, <1>4, <1>5, ServerIsLeftAlone DEF ConsumerInv

\* A call fails for now, and is repeated.
LEMMA RetrySteps ==
  ASSUME ConsumerInv, FailTransiently \/ RetryDelayOver
  PROVE  ConsumerInv'
<1>1. /\ call \in Call /\ session \in Session /\ call.state # "none" /\ call.current
      /\ UNCHANGED <<server, db, announced, session, applied, fatal>>
  BY DEF FailTransiently, RetryDelayOver, ConsumerInv, Consistent
<1>2. /\ call' \in Call /\ call'.state \in {"asked", "sleeping"} /\ call'.current
      /\ call'.kind = call.kind
      /\ call.kind = "page" =>
           \/ call'.rev = call.rev /\ call'.after = call.after
           \/ call'.rev = session.rev /\ call'.after = session.local
  <2>1. CASE FailTransiently
    BY <1>1, <2>1 DEF FailTransiently, Call
  <2>2. CASE RetryDelayOver /\ call.kind = "page"
    <3>1. call' = AskPage(session)
      BY <2>2 DEF RetryDelayOver
    <3>2. NoCall \in Call /\ NoCall.kind = "page"
      BY ConsumerAssumption DEF NoCall, Call, NoAnswer
    <3>3. /\ call' \in Call /\ call'.state = "asked" /\ call'.current
          /\ call'.kind = "page" /\ call'.rev = session.rev /\ call'.after = session.local
      BY <1>1, <3>1, <3>2 DEF AskPage, Call, Session
    <3>4. QED  BY <2>2, <3>3
  <2>3. CASE RetryDelayOver /\ call.kind # "page"
    BY <1>1, <2>3 DEF RetryDelayOver, Call
  <2>4. QED  BY <2>1, <2>2, <2>3
<1>3. Consistent(session, call, applied)'
  BY <1>1, <1>2 DEF ConsumerInv, Consistent, Shows
<1>4. QED  BY <1>1, <1>3, ServerIsLeftAlone DEF ConsumerInv, NeverNonsense

\* A call that was abandoned settles: the run that the session asked for follows.
LEMMA SettleStep ==
  ASSUME ConsumerInv, SettleStaleCall
  PROVE  ConsumerInv'
<1>1. /\ EndRun(session) /\ call.state # "none" /\ ~call.current /\ session \in Session
      /\ UNCHANGED <<server, db, announced, applied, fatal>>
  BY DEF SettleStaleCall, ConsumerInv, Consistent
<1>2. CASE session.phase = "live"
  <2>1. Shows(session, applied') /\ session.followUp
    BY <1>1, <1>2 DEF ConsumerInv, Consistent
  <2>2. Consistent(session, call, applied)'
    BY <1>1, <2>1, EndRunIsConsistent
  <2>3. QED  BY <1>1, <2>2, ServerIsLeftAlone DEF ConsumerInv, NeverNonsense
<1>3. CASE session.phase # "live"
  <2>1. session' = [session EXCEPT !.followUp = FALSE] /\ call' = NoCall
    BY <1>1, <1>3 DEF EndRun
  <2>2. session.phase = "stopped"
    BY <1>1, <1>3 DEF ConsumerInv, Consistent, Session
  <2>3. /\ session' \in Session /\ session'.phase = "stopped" /\ session'.source = "none"
        /\ ~session'.initialized
    BY <1>1, <1>3, <2>1, <2>2 DEF Session, ConsumerInv, Consistent
  <2>4. call' \in Call /\ call'.state = "none"
    BY <2>1, ConsumerAssumption DEF NoCall, Call, NoAnswer
  <2>5. Consistent(session, call, applied)'
    BY <1>1, <2>3, <2>4, ShownIsSequence DEF Consistent
  <2>6. QED  BY <1>1, <2>5, ServerIsLeftAlone DEF ConsumerInv, NeverNonsense
<1>4. QED  BY <1>2, <1>3

\* Abandoning the outstanding call.
LEMMA Abandoned ==
  ASSUME NEW c \in Call
  PROVE  /\ [c EXCEPT !.current = FALSE] \in Call
         /\ ~[c EXCEPT !.current = FALSE].current
         /\ [c EXCEPT !.current = FALSE].state = c.state
  BY DEF Call

\* Notifications are of watermarks that were announced.
LEMMA HearSteps ==
  ASSUME ConsumerInv, NEW w \in announced, Hear(w) \/ HandleNewRevisionThrows(w)
  PROVE  ConsumerInv'
<1>1. /\ session \in Session /\ call \in Call /\ session.source = "open"
      /\ session.phase = "live" /\ Shows(session, applied) /\ w \in Committed
      /\ UNCHANGED <<server, db, announced>>
  BY DEF Hear, HandleNewRevision, HandleNewEvents, HandleNewRevisionThrows,
         ConsumerInv, Consistent, ServerInv
<1>. DEFINE abandoned == [call EXCEPT !.current = FALSE]
<1>2. abandoned \in Call /\ ~abandoned.current
  BY <1>1, Abandoned
<1>. HIDE DEF abandoned
<1>3. Shows(Replaced(session, w), << >>) /\ Replaced(session, w) \in Session
  BY <1>1, ReplacedShowsNothing
<1>4. CASE HandleNewRevision(w)
  <2>1. /\ Schedule(Replaced(session, w), abandoned) /\ applied' = << >> /\ fatal' = fatal
    BY <1>4 DEF HandleNewRevision, abandoned
  <2>2. Consistent(session, call, applied)'
    BY <1>1, <1>2, <1>3, <2>1, ScheduleIsConsistent
  <2>3. QED  BY <1>1, <2>1, <2>2, ServerIsLeftAlone DEF ConsumerInv, NeverNonsense
<1>5. CASE HandleNewEvents(w)
  <2>. DEFINE t == [session EXCEPT !.target = w.id]
  <2>1. /\ Schedule(t, call) /\ w.rev = session.rev /\ w.id > session.target
        /\ applied' = applied /\ fatal' = fatal
    BY <1>5 DEF HandleNewEvents
  <2>2. w.id \in 0 .. MaxEventId /\ w = [rev |-> w.rev, id |-> w.id]
    BY <1>1 DEF Committed
  <2>3. /\ t \in Session /\ t.phase = "live" /\ t.rev = session.rev
        /\ t.local = session.local /\ t.target = w.id /\ t.boundary = session.boundary
        /\ t.initialized = session.initialized
    BY <1>1, <2>2 DEF Session
  <2>. HIDE DEF t
  <2>4. /\ session.target \in Nat /\ session.local \in Nat /\ session.boundary \in Nat
        /\ w.id \in Nat
    BY <1>1, <2>2, ConsumerAssumption DEF Session
  <2>5. Shows(t, applied')
    BY <1>1, <2>1, <2>2, <2>3, <2>4 DEF Shows
  <2>6. (call.state # "none" /\ call.current) =>
          call.kind = "page" /\ call.rev = t.rev /\ call.after = t.local
          /\ t.local < t.target
    BY <1>1, <2>1, <2>3, <2>4 DEF ConsumerInv, Consistent
  <2>7. (call.state = "answered" /\ call.current) => Sensible(call)
    BY DEF ConsumerInv, Consistent
  <2>8. Consistent(session, call, applied)'
    BY <1>1, <2>1, <2>5, <2>6, <2>7, ScheduleIsConsistent
  <2>9. QED  BY <1>1, <2>1, <2>8, ServerIsLeftAlone DEF ConsumerInv, NeverNonsense
<1>6. CASE HandleNewRevisionThrows(w)
  <2>1. /\ session' = Stopped(Replaced(session, w)) /\ call' = abandoned
        /\ applied' = applied /\ fatal' = "callback"
    BY <1>6 DEF HandleNewRevisionThrows, Fail, abandoned
  <2>2. Consistent(session, call, applied)'
    BY <1>2, <1>3, <2>1, ShownIsSequence, StoppedIsConsistent
  <2>3. QED  BY <1>1, <2>1, <2>2, ServerIsLeftAlone DEF ConsumerInv, NeverNonsense
<1>7. QED  BY <1>4, <1>5, <1>6 DEF Hear

\* The browser's EventSource comes and goes.
LEMMA SourceSteps ==
  ASSUME ConsumerInv, SourceOpens \/ SourceDrops \/ SourceRefused
  PROVE  ConsumerInv'
<1>1. /\ session \in Session /\ session.source # "none" /\ session.phase = "live"
      /\ \E new \in {"open", "connecting", "failed"} :
           session' = [session EXCEPT !.source = new]
      /\ UNCHANGED <<server, db, announced, call, applied, fatal>>
  BY DEF SourceOpens, SourceDrops, SourceRefused, ConsumerInv, Consistent
<1>2. /\ session' \in Session /\ session'.source # "none" /\ session'.phase = "live"
      /\ session'.rev = session.rev /\ session'.local = session.local
      /\ session'.target = session.target /\ session'.boundary = session.boundary
      /\ session'.initialized = session.initialized
      /\ session'.followUp = session.followUp
  BY <1>1 DEF Session
<1>3. Consistent(session, call, applied)'
  BY <1>1, <1>2 DEF ConsumerInv, Consistent, Shows, Sensible, Idle
<1>4. QED  BY <1>1, <1>3, ServerIsLeftAlone DEF ConsumerInv, NeverNonsense

\* The view is left.
LEMMA StopStep ==
  ASSUME ConsumerInv, Stop
  PROVE  ConsumerInv'
<1>1. /\ session \in Session /\ call \in Call /\ session' = Stopped(session)
      /\ call' = [call EXCEPT !.current = FALSE]
      /\ UNCHANGED <<server, db, announced, applied, fatal>>
  BY DEF Stop, ConsumerInv, Consistent
<1>2. Consistent(session, call, applied)'
  BY <1>1, Abandoned, ShownIsSequence, StoppedIsConsistent
<1>3. QED  BY <1>1, <1>2, ServerIsLeftAlone DEF ConsumerInv, NeverNonsense

----------------------------------------------------------------------------
(* The theorems. *)

\* The invariant is inductive.
THEOREM ConsumerInductive == Spec => []ConsumerInv
<1>1. Init => ConsumerInv
  <2>. SUFFICES ASSUME Init PROVE ConsumerInv
    OBVIOUS
  <2>1. ServerInv
    BY ConsumerAssumption DEF Init, ServerInv, Servers, Committed
  <2>2. /\ session \in Session /\ session.phase = "new" /\ session.source = "none"
        /\ ~session.initialized
    BY ConsumerAssumption DEF Init, Session
  <2>3. call \in Call /\ call.state = "none" /\ applied = << >>
    BY ConsumerAssumption DEF Init, NoCall, Call, NoAnswer
  <2>4. Consistent(session, call, applied)
    BY <2>2, <2>3 DEF Consistent
  <2>5. QED  BY <2>1, <2>4 DEF Init, ConsumerInv, NeverNonsense
<1>2. ConsumerInv /\ [Next]_vars => ConsumerInv'
  <2>. SUFFICES ASSUME ConsumerInv, [Next]_vars PROVE ConsumerInv'
    OBVIOUS
  <2>1. CASE Next
    BY <2>1, CommitStep, ServeStep, StartSteps, ReceiveEventsStep, ReceiveResetStep,
       FailSteps, RetrySteps, SettleStep, HearSteps, SourceSteps, StopStep DEF Next
  <2>2. CASE UNCHANGED vars
    BY <2>2 DEF vars, ConsumerInv, ServerInv, Consistent, Shows, Sensible, NeverNonsense
  <2>3. QED  BY <2>1, <2>2
<1>3. QED  BY <1>1, <1>2, PTL DEF Spec

\* Every variable keeps to its type.
THEOREM ConsumerTypeCorrect == Spec => []TypeOK
<1>1. ConsumerInv => TypeOK
  BY ShownIsSequence DEF ConsumerInv, ServerInv, Consistent, TypeOK
<1>2. QED  BY <1>1, ConsumerInductive, PTL

\* What is shown is exactly the log, up to a cursor that never runs ahead of what was
\* committed, and a page from the database always makes sense
\* (contest-event-consumer: runCatchUp, handleResetPage, handleAvailability).
THEOREM ShownIsTheLog == Spec => []ShowsTheLog
<1>1. ConsumerInv => ShowsTheLog
  BY DEF ConsumerInv, Consistent, Shows, Prefix, ShowsTheLog, ExactPrefix, OnlyCommitted,
         Live
<1>2. QED  BY <1>1, ConsumerInductive, PTL

\* A session with nothing outstanding has caught up with all it was told: no
\* notification is swallowed by a run that is ending (ensureCatchUp's finally).
THEOREM NoWakeupIsLost == Spec => []NoLostWakeup
<1>1. ConsumerInv => NoLostWakeup
  BY DEF ConsumerInv, Consistent, Idle, NoLostWakeup, Live
<1>2. QED  BY <1>1, ConsumerInductive, PTL

----------------------------------------------------------------------------
(* The session's place in the stream. *)

\* The helpers that handlers end with leave the place alone.
LEMMA PlaceIsKept ==
  ASSUME NEW s \in Session, NEW c,
         Proceed(s) \/ EndRun(s) \/ Schedule(s, c)
  PROVE  session'.rev = s.rev /\ session'.local = s.local
<1>1. ASSUME NEW t \in Session, Proceed(t)
      PROVE  session'.rev = t.rev /\ session'.local = t.local
  BY <1>1 DEF Proceed, Subscribed, Session
<1>2. /\ [s EXCEPT !.followUp = FALSE] \in Session
      /\ [s EXCEPT !.followUp = FALSE].rev = s.rev
      /\ [s EXCEPT !.followUp = FALSE].local = s.local
  BY DEF Session
<1>3. CASE EndRun(s)
  BY <1>1, <1>2, <1>3 DEF EndRun
<1>4. CASE Schedule(s, c)
  BY <1>1, <1>4 DEF Schedule, Session
<1>5. QED  BY <1>1, <1>3, <1>4

\* No step takes a live session back, if pages come from the database.
LEMMA StepsGoForward ==
  ASSUME ConsumerInv, Next, server # "lagging", Live, Live'
  PROVE  \/ session'.rev > session.rev
         \/ session'.rev = session.rev /\ session'.local >= session.local
<1>1. /\ session \in Session /\ session.phase = "live" /\ Shows(session, applied)
      /\ session.rev \in Nat /\ session.local \in Nat
      /\ (session'.rev = session.rev /\ session'.local = session.local) =>
           (session'.rev = session.rev /\ session'.local >= session.local)
  BY ConsumerAssumption DEF ConsumerInv, Consistent, Live, Session
<1>2. CASE ReceiveEvents
  <2>. DEFINE p == call.answer
              s == Ingested(session, p)
              t == [s EXCEPT !.target = Larger(@, p.latest)]
  <2>1. /\ Valid(p, call.after) /\ Proceed(t) /\ call.after = session.local
        /\ p \in EventPage
    BY <1>2, PageCall DEF ReceiveEvents
  <2>2. /\ session.local < p.checkpoint /\ p.checkpoint \in 0 .. MaxEventId
        /\ session.boundary \in 0 .. MaxEventId /\ p.latest \in 0 .. MaxEventId
    BY <1>1, <2>1 DEF Valid, EventPage, Session
  <2>3. /\ s \in Session /\ s.rev = session.rev
        /\ s.local = p.checkpoint
             \/ (s.local = session.boundary /\ session.local <= session.boundary)
    BY <1>1, <2>2 DEF Ingested, Subscribed, Session, Shows
  <2>4. Larger(s.target, p.latest) \in 0 .. MaxEventId
    BY <2>2, <2>3 DEF Larger, Session
  <2>. HIDE DEF s
  <2>5. t \in Session /\ t.rev = s.rev /\ t.local = s.local
    BY <2>3, <2>4 DEF Session
  <2>. HIDE DEF t
  <2>6. session'.rev = t.rev /\ session'.local = t.local
    BY <2>1, <2>5, PlaceIsKept
  <2>. HIDE DEF p
  <2>7. QED  BY <1>1, <2>2, <2>3, <2>5, <2>6, ConsumerAssumption
<1>3. CASE ReceiveReset
  <2>. DEFINE p == call.answer
              latest == IF p.rev = call.rev THEN Larger(session.target, p.latest)
                        ELSE p.latest
              w == [rev |-> p.rev, id |-> latest]
              t == [Replaced(session, w) EXCEPT !.followUp = TRUE]
  <2>1. /\ Sensible(call) /\ p.reset /\ p \in EventPage /\ call.kind = "page"
        /\ call.rev = session.rev
    BY <1>3, PageCall DEF ReceiveReset, Mine
  <2>2. session.rev < p.rev /\ p.rev \in 1 .. MaxRevision /\ p.latest \in 0 .. MaxEventId
    BY <2>1 DEF Sensible, EventPage
  <2>3. EndRun(t)
    BY <1>1, <1>3, <2>1, <2>2, ConsumerAssumption DEF ReceiveReset
  <2>4. latest = p.latest
    BY <1>1, <2>1, <2>2, ConsumerAssumption
  <2>5. w.rev = p.rev /\ w.id = p.latest
    BY <2>4
  <2>. HIDE DEF w
  <2>6. t \in Session /\ t.rev = p.rev
    <3>1. /\ w.rev \in 0 .. MaxRevision /\ w.id \in 0 .. MaxEventId
          /\ 0 \in 0 .. MaxEventId
      BY <2>2, <2>5, ConsumerAssumption
    <3>2. Replaced(session, w) \in Session /\ Replaced(session, w).rev = w.rev
      BY <1>1, <3>1 DEF Replaced, Session
    <3>3. QED  BY <2>5, <3>2 DEF Session
  <2>. HIDE DEF t
  <2>7. session'.rev = p.rev
    BY <2>3, <2>6, PlaceIsKept
  <2>8. QED  BY <1>1, <2>2, <2>7, ConsumerAssumption
<1>4. ASSUME NEW w \in announced, HandleNewRevision(w)
      PROVE  session'.rev > session.rev
  <2>1. Replaced(session, w) \in Session /\ Replaced(session, w).rev = w.rev
    BY <1>1, ReplacedShowsNothing DEF ConsumerInv, ServerInv
  <2>2. session'.rev = w.rev
    BY <1>4, <2>1, PlaceIsKept DEF HandleNewRevision
  <2>3. QED  BY <1>4, <2>2 DEF HandleNewRevision
<1>5. ASSUME NEW w \in announced, HandleNewEvents(w)
      PROVE  session'.rev = session.rev /\ session'.local = session.local
  <2>1. w.id \in 0 .. MaxEventId
    BY DEF ConsumerInv, ServerInv, Committed
  <2>2. /\ [session EXCEPT !.target = w.id] \in Session
        /\ [session EXCEPT !.target = w.id].rev = session.rev
        /\ [session EXCEPT !.target = w.id].local = session.local
    BY <1>1, <2>1 DEF Session
  <2>3. QED  BY <1>5, <2>2, PlaceIsKept DEF HandleNewEvents
<1>6. CASE SettleStaleCall
  BY <1>1, <1>6, PlaceIsKept DEF SettleStaleCall
<1>7. CASE SourceOpens \/ SourceDrops \/ SourceRefused
  BY <1>1, <1>7 DEF SourceOpens, SourceDrops, SourceRefused, Session
<1>8. CASE FailTransiently \/ RetryDelayOver
  BY <1>1, <1>8 DEF FailTransiently, RetryDelayOver
<1>9. CASE \E w \in Committed : Commit(w) \/ Serve(w)
  BY <1>1, <1>9 DEF Commit, Serve
<1>10. CASE Start \/ ReceiveStreamState
  BY <1>1, <1>10 DEF Start, ReceiveStreamState, Mine, ConsumerInv, Consistent
<1>11. ASSUME NEW s \in Session, session' = Stopped(s)
       PROVE  FALSE
  BY <1>11 DEF Stopped, Session, Live
<1>12. CASE ReceiveNonsense \/ ReceiveThrows \/ FailForGood \/ Stop
  BY <1>1, <1>11, <1>12 DEF ReceiveNonsense, ReceiveThrows, FailForGood, Fail, Stop
<1>13. ASSUME NEW w \in announced, HandleNewRevisionThrows(w)
       PROVE  FALSE
  <2>1. Replaced(session, w) \in Session
    BY <1>1, ReplacedShowsNothing DEF ConsumerInv, ServerInv
  <2>2. QED  BY <1>11, <1>13, <2>1 DEF HandleNewRevisionThrows, Fail
<1>14. QED
  BY <1>1, <1>2, <1>3, <1>4, <1>5, <1>6, <1>7, <1>8, <1>9, <1>10, <1>12, <1>13
     DEF Next, Hear

\* A live session never goes back to an older revision and never forgets what it has
\* shown of a revision (contest-event-consumer: handleResetPage, handleAvailability).
THEOREM SessionsNeverGoBack == Spec => NeverBackwards
<1>1. ConsumerInv /\ [Next]_vars =>
        [ (server # "lagging" /\ Live /\ Live') =>
            \/ session'.rev > session.rev
            \/ session'.rev = session.rev /\ session'.local >= session.local ]_vars
  BY StepsGoForward
<1>2. QED  BY <1>1, ConsumerInductive, PTL DEF Spec, NeverBackwards

----------------------------------------------------------------------------
(* The callbacks: the session implements EventCallbacks. *)

\* A live session in the middle of a handler, and where the helpers that handlers end
\* with leave it: initialized, at the earliest, when it has given its initial events.
Underway(s) ==
  /\ s \in Session /\ s.phase = "live" /\ s.boundary <= s.target
  /\ s.initialized \/ s.local <= s.boundary

Ends(s) ==
  /\ session' \in Session /\ session'.phase = "live"
  /\ session'.rev = s.rev /\ session'.boundary = s.boundary
  /\ s.initialized => session'.initialized
  /\ session'.initialized => s.initialized \/ s.local = s.boundary

\* The loop's head, the end of a run and scheduling another.
LEMMA HandlersEnd ==
  ASSUME NEW s, NEW c, Underway(s), Proceed(s) \/ EndRun(s) \/ Schedule(s, c)
  PROVE  Ends(s)
<1>1. ASSUME NEW t, Underway(t), Proceed(t)
      PROVE  Ends(t)
  <2>1. CASE t.local < t.target
    BY <1>1, <2>1 DEF Proceed, Underway, Ends
  <2>2. CASE ~(t.local < t.target)
    <3>1. session' = [Subscribed(t) EXCEPT !.followUp = FALSE] /\ t \in Session
      BY <1>1, <2>2 DEF Proceed, Underway
    <3>2. /\ session' \in Session /\ session'.phase = t.phase /\ session'.rev = t.rev
          /\ session'.boundary = t.boundary /\ session'.initialized
      BY <3>1 DEF Subscribed, Session
    <3>3. t.initialized \/ t.local = t.boundary
      BY <1>1, <2>2, <3>1, ConsumerAssumption DEF Underway, Session
    <3>4. QED  BY <1>1, <3>2, <3>3 DEF Underway, Ends
  <2>3. QED  BY <2>1, <2>2
<1>. DEFINE quiet == [s EXCEPT !.followUp = FALSE]
            asked == [s EXCEPT !.followUp = TRUE]
<1>2. /\ Underway(quiet) /\ quiet.rev = s.rev /\ quiet.boundary = s.boundary
      /\ quiet.initialized = s.initialized /\ quiet.local = s.local
  BY DEF Underway, Session
<1>3. /\ Underway(asked) /\ asked.rev = s.rev /\ asked.boundary = s.boundary
      /\ asked.initialized = s.initialized
  BY DEF Underway, Session
<1>4. CASE EndRun(s)
  <2>1. Proceed(quiet) \/ session' = quiet
    BY <1>4 DEF EndRun
  <2>. HIDE DEF quiet
  <2>2. CASE Proceed(quiet)
    BY <1>1, <1>2, <2>2 DEF Ends
  <2>3. CASE session' = quiet
    BY <1>2, <2>3 DEF Ends, Underway
  <2>4. QED  BY <2>1, <2>2, <2>3
<1>5. CASE Schedule(s, c)
  <2>1. Proceed(s) \/ session' = asked
    BY <1>5 DEF Schedule
  <2>. HIDE DEF asked
  <2>2. CASE session' = asked
    BY <1>3, <2>2 DEF Ends, Underway
  <2>3. QED  BY <1>1, <2>1, <2>2
<1>6. QED  BY <1>1, <1>4, <1>5

\* A live session is underway.
LEMMA LiveIsUnderway ==
  ASSUME ConsumerInv, Live
  PROVE  /\ Underway(session) /\ Shows(session, applied)
         /\ applied = Prefix(session.rev, session.local)
         /\ applied \in Seq(Committed) /\ Len(applied) = session.local
         /\ session.rev \in 1 .. MaxRevision /\ session.local \in 0 .. MaxEventId
         /\ session.boundary \in 0 .. MaxEventId /\ session.initialized \in BOOLEAN
<1>1. Shows(session, applied) /\ session \in Session
  BY DEF ConsumerInv, Consistent, Live
<1>2. /\ session.rev \in 1 .. MaxRevision /\ session.local \in 0 .. MaxEventId
      /\ session.boundary \in 0 .. MaxEventId /\ session.initialized \in BOOLEAN
  BY <1>1, ConsumerAssumption DEF Shows, Session
<1>3. applied = Prefix(session.rev, session.local)
  BY <1>1 DEF Shows
<1>4. Len(applied) = session.local
  BY <1>2, <1>3, ConsumerAssumption DEF Prefix
<1>5. QED  BY <1>1, <1>2, <1>3, <1>4, ShownIsSequence DEF Underway, Shows, Live

\* Ending a run calls nobody, but for the initial events that are complete without
\* another one.
LEMMA EndsQuietly ==
  ASSUME ConsumerInv, Live, Ends(session), applied' = applied
  PROVE  [Callbacks!Next]_(Callbacks!callbackVars)
<1>1. /\ applied \in Seq(Committed) /\ Len(applied) = session.local
      /\ session.boundary \in 0 .. MaxEventId /\ session.initialized \in BOOLEAN
      /\ session.phase = "live"
  BY LiveIsUnderway DEF Live
<1>2. /\ session'.phase = "live" /\ session'.rev = session.rev
      /\ session'.boundary = session.boundary /\ session'.initialized \in BOOLEAN
      /\ session.initialized => session'.initialized
      /\ session'.initialized => session.initialized \/ session.local = session.boundary
  BY DEF Ends, Session
<1>3. CASE session'.initialized = session.initialized
  BY <1>1, <1>2, <1>3 DEF Callbacks!callbackVars, CallbackPhase, Live
<1>4. CASE session'.initialized # session.initialized
  <2>1. ~session.initialized /\ session'.initialized /\ session.local = session.boundary
    BY <1>1, <1>2, <1>4
  <2>2. CallbackPhase = "initial" /\ CallbackPhase' = "live"
    BY <1>1, <1>2, <2>1 DEF CallbackPhase, Live
  <2>3. applied \o << >> = applied
    BY <1>1
  <2>4. Callbacks!Batch(0) = << >>
    BY DEF Callbacks!Batch
  <2>5. Callbacks!OnInitialEventsComplete(0)
    BY <1>1, <1>2, <2>1, <2>2, <2>3, <2>4, ConsumerAssumption
       DEF Callbacks!OnInitialEventsComplete, Callbacks!Gives, Live
  <2>6. QED  BY <2>5, ConsumerAssumption DEF Callbacks!Next
<1>5. QED  BY <1>3, <1>4

\* A page is given on as one batch: initial events up to the boundary, the last batch of
\* them when it reaches it, or live events.
LEMMA PagesAreGiven ==
  ASSUME ConsumerInv, ReceiveEvents
  PROVE  Callbacks!Next
<1>. DEFINE p == call.answer
            s == Ingested(session, p)
            t == [s EXCEPT !.target = Larger(@, p.latest)]
<1>1. /\ Valid(p, call.after) /\ Proceed(t) /\ p.rev = call.rev
      /\ applied' = applied \o EventsOf(p, call.after, s.local)
  BY DEF ReceiveEvents
<1>2. /\ session \in Session /\ p \in EventPage /\ session.phase = "live"
      /\ call.after = session.local /\ call.rev = session.rev
  BY PageCall DEF ReceiveEvents
<1>3. /\ p.checkpoint \in 0 .. MaxEventId /\ p.latest \in 0 .. MaxEventId
      /\ session.local < p.checkpoint /\ p.checkpoint <= p.latest
  BY <1>1, <1>2 DEF EventPage, Valid
<1>4. /\ Underway(session) /\ applied = Prefix(session.rev, session.local)
      /\ applied \in Seq(Committed) /\ Len(applied) = session.local
      /\ session.rev \in 1 .. MaxRevision /\ session.local \in 0 .. MaxEventId
      /\ session.boundary \in 0 .. MaxEventId /\ session.initialized \in BOOLEAN
  BY <1>2, LiveIsUnderway DEF Live
<1>5. /\ s \in Session /\ s.phase = "live" /\ s.rev = session.rev
      /\ s.boundary = session.boundary /\ s.target = session.target
      /\ IF session.initialized \/ p.checkpoint < session.boundary
           THEN s.local = p.checkpoint /\ s.initialized = session.initialized
           ELSE s.local = session.boundary /\ s.initialized
  BY <1>2, <1>3, <1>4 DEF Ingested, Subscribed, Session
<1>6. Larger(s.target, p.latest) \in 0 .. MaxEventId /\ s.target <= Larger(s.target, p.latest)
  BY <1>3, <1>5, ConsumerAssumption DEF Larger, Session
<1>. HIDE DEF s
<1>7. /\ t \in Session /\ t.phase = "live" /\ t.rev = session.rev
      /\ t.boundary = session.boundary /\ t.local = s.local
      /\ t.initialized = s.initialized /\ t.target = Larger(s.target, p.latest)
  BY <1>5, <1>6 DEF Session
<1>. HIDE DEF t, p
<1>8. Ends(t)
  <2>1. t.boundary <= t.target
    BY <1>3, <1>4, <1>5, <1>6, <1>7, ConsumerAssumption DEF Underway, Session
  <2>2. t.initialized \/ t.local <= t.boundary
    BY <1>3, <1>4, <1>5, <1>7, ConsumerAssumption
  <2>3. QED  BY <1>1, <1>7, <2>1, <2>2, HandlersEnd DEF Underway
<1>9. /\ session'.phase = "live" /\ session'.rev = session.rev
      /\ session'.boundary = session.boundary
  BY <1>7, <1>8 DEF Ends
<1>. DEFINE count == s.local - session.local
<1>10. count \in 0 .. MaxEventId
  BY <1>3, <1>4, <1>5, ConsumerAssumption DEF Underway
<1>11. EventsOf(p, call.after, s.local) = Callbacks!Batch(count)
  BY <1>1, <1>2, <1>4 DEF EventsOf, Callbacks!Batch, Live
<1>12. Callbacks!Gives(count)
  BY <1>1, <1>2, <1>9, <1>11 DEF Callbacks!Gives, Live
<1>13. CASE session.initialized
  <2>1. session'.initialized /\ count # 0
    <3>1. s.local = p.checkpoint /\ t.initialized
      BY <1>5, <1>7, <1>13
    <3>2. count # 0
      BY <1>3, <1>4, <3>1, ConsumerAssumption
    <3>3. QED  BY <1>8, <3>1, <3>2 DEF Ends
  <2>2. CallbackPhase = "live" /\ CallbackPhase' = "live"
    BY <1>2, <1>9, <1>13, <2>1 DEF CallbackPhase, Live
  <2>3. Callbacks!OnEvents(count) /\ count \in 1 .. MaxEventId
    BY <1>10, <1>12, <2>1, <2>2, ConsumerAssumption DEF Callbacks!OnEvents
  <2>. HIDE DEF count
  <2>4. QED  BY <2>3 DEF Callbacks!Next
<1>14. CASE ~session.initialized /\ p.checkpoint < session.boundary
  <2>1. /\ ~session'.initialized /\ count # 0 /\ session.local + count < session.boundary
    BY <1>3, <1>4, <1>5, <1>7, <1>8, <1>14 DEF Ends
  <2>2. CallbackPhase = "initial" /\ CallbackPhase' = "initial"
    BY <1>2, <1>9, <1>14, <2>1 DEF CallbackPhase, Live
  <2>3. Callbacks!OnInitialEvents(count) /\ count \in 1 .. MaxEventId
    BY <1>2, <1>4, <1>10, <1>12, <2>1, <2>2, ConsumerAssumption
       DEF Callbacks!OnInitialEvents, Live
  <2>. HIDE DEF count
  <2>4. QED  BY <2>3 DEF Callbacks!Next
<1>15. CASE ~session.initialized /\ ~(p.checkpoint < session.boundary)
  <2>1. /\ session'.initialized /\ session.local + count = session.boundary
    BY <1>3, <1>4, <1>5, <1>7, <1>8, <1>15 DEF Ends
  <2>2. CallbackPhase = "initial" /\ CallbackPhase' = "live"
    BY <1>2, <1>9, <1>15, <2>1 DEF CallbackPhase, Live
  <2>3. Callbacks!OnInitialEventsComplete(count)
    BY <1>2, <1>4, <1>10, <1>12, <2>1, <2>2, ConsumerAssumption
       DEF Callbacks!OnInitialEventsComplete, Live
  <2>. HIDE DEF count
  <2>4. QED  BY <1>10, <2>3 DEF Callbacks!Next
<1>16. QED  BY <1>13, <1>14, <1>15

\* A session that starts over, or starts, begins its initial events; when there are none
\* they may be complete already.
LEMMA Openings ==
  ASSUME NEW s, Ends(s), s.rev \in 1 .. MaxRevision, s.boundary \in 0 .. MaxEventId,
         ~s.initialized, s.local = 0, applied' = << >>
  PROVE  Callbacks!Opens(s.rev, s.boundary)
<1>1. /\ session'.phase = "live" /\ session'.rev = s.rev /\ session'.boundary = s.boundary
      /\ session'.initialized => s.boundary = 0
  BY DEF Ends
<1>2. CallbackPhase' \in Callbacks!Opened(s.boundary)
  BY <1>1 DEF CallbackPhase, Live, Callbacks!Opened
<1>3. QED  BY <1>1, <1>2 DEF Callbacks!Opens, Live

\* The same for another revision, or this one again: a reset.
LEMMA ResetsOpen ==
  ASSUME ConsumerInv, Live, NEW w, w \in announced, w.rev >= session.rev, NEW c,
         \/ EndRun([Replaced(session, w) EXCEPT !.followUp = TRUE])
         \/ Schedule(Replaced(session, w), c),
         applied' = << >>
  PROVE  Callbacks!Next
<1>1. /\ session \in Session /\ session.phase = "live" /\ w \in Committed
      /\ session.rev \in 1 .. MaxRevision
  BY LiveIsUnderway DEF Live, Underway, ConsumerInv, ServerInv
<1>2. w.rev \in 1 .. MaxRevision /\ w.id \in 0 .. MaxEventId
  BY <1>1 DEF Committed
<1>. DEFINE s == Replaced(session, w)
            t == [s EXCEPT !.followUp = TRUE]
<1>3. /\ s \in Session /\ s.phase = "live" /\ s.rev = w.rev /\ s.local = 0
      /\ s.target = w.id /\ s.boundary = w.id /\ ~s.initialized
  <2>1. w.rev \in 0 .. MaxRevision /\ 0 \in 0 .. MaxEventId
    BY <1>2, ConsumerAssumption
  <2>2. QED  BY <1>1, <1>2, <2>1 DEF Replaced, Session
<1>4. EndRun(t) \/ Schedule(s, c)
  OBVIOUS
<1>. HIDE DEF s
<1>5. /\ t \in Session /\ t.phase = "live" /\ t.rev = w.rev /\ t.local = 0
      /\ t.target = w.id /\ t.boundary = w.id /\ ~t.initialized
  BY <1>3 DEF Session
<1>6. Underway(s) /\ Underway(t)
  BY <1>2, <1>3, <1>5, ConsumerAssumption DEF Underway
<1>. HIDE DEF t
<1>7. Callbacks!Opens(w.rev, w.id)
  <2>1. CASE EndRun(t)
    BY <1>2, <1>5, <1>6, <2>1, HandlersEnd, Openings
  <2>2. CASE Schedule(s, c)
    BY <1>2, <1>3, <1>6, <2>2, HandlersEnd, Openings
  <2>3. QED  BY <1>4, <2>1, <2>2
<1>8. CallbackPhase \in {"initial", "live"}
  BY DEF CallbackPhase
<1>9. Callbacks!OnReset(w.rev, w.id)
  BY <1>7, <1>8 DEF Callbacks!OnReset
<1>10. QED  BY <1>2, <1>9 DEF Callbacks!Next

\* Giving up and leaving end the session, which had not ended before.
LEMMA EndingsEnd ==
  ASSUME NEW s \in Session, session.phase \in {"loading", "live"}, session' = Stopped(s)
  PROVE  Callbacks!Next
<1>1. session'.phase = "stopped"
  BY DEF Stopped, Session
<1>2. CallbackPhase # "over" /\ CallbackPhase' = "over"
  BY <1>1 DEF CallbackPhase, Live
<1>3. Callbacks!End
  BY <1>1, <1>2 DEF Callbacks!End, Live
<1>4. QED  BY <1>3 DEF Callbacks!Next

\* Nothing that the callbacks are made of changes.
LEMMA CallsNobody ==
  ASSUME applied' = applied, session'.phase = session.phase,
         session'.rev = session.rev, session'.boundary = session.boundary,
         session'.initialized = session.initialized
  PROVE  UNCHANGED Callbacks!callbackVars
BY DEF Callbacks!callbackVars, CallbackPhase, Live

\* Every step is one of the callbacks, or none.
LEMMA StepsAreCallbacks ==
  ASSUME ConsumerInv, [Next]_vars
  PROVE  [Callbacks!Next]_(Callbacks!callbackVars)
<1>1. session \in Session /\ call \in Call
  BY DEF ConsumerInv, Consistent
<1>2. CASE \/ \E w \in Committed : Commit(w) \/ Serve(w)
           \/ FailTransiently \/ RetryDelayOver \/ UNCHANGED vars
  BY <1>2, CallsNobody DEF Commit, Serve, FailTransiently, RetryDelayOver, vars
<1>3. CASE SourceOpens \/ SourceDrops \/ SourceRefused
  <2>1. /\ applied' = applied
        /\ \E source \in {"open", "connecting", "failed"} :
             session' = [session EXCEPT !.source = source]
    BY <1>3 DEF SourceOpens, SourceDrops, SourceRefused
  <2>2. /\ session'.phase = session.phase /\ session'.rev = session.rev
        /\ session'.boundary = session.boundary
        /\ session'.initialized = session.initialized
    BY <1>1, <2>1 DEF Session
  <2>3. QED  BY <2>1, <2>2, CallsNobody
<1>4. CASE Start
  <2>1. /\ session.phase = "new" /\ session' = [session EXCEPT !.phase = "loading"]
        /\ applied' = applied
    BY <1>4 DEF Start
  <2>2. session'.phase = "loading"
    BY <1>1, <2>1 DEF Session
  <2>3. QED  BY <2>1, <2>2 DEF Callbacks!callbackVars, CallbackPhase, Live
<1>5. CASE ReceiveStreamState
  <2>. DEFINE s == [session EXCEPT
                      !.phase = "live", !.rev = call.answer.rev, !.local = 0,
                      !.target = call.answer.latest, !.boundary = call.answer.latest]
  <2>1. /\ session.phase = "loading" /\ Sensible(call) /\ Proceed(s)
        /\ applied = << >> /\ applied' = applied
    BY <1>1, <1>5 DEF ReceiveStreamState, Mine, ConsumerInv, Consistent, Session
  <2>2. /\ call.answer.rev \in 1 .. MaxRevision /\ call.answer.latest \in 0 .. MaxEventId
        /\ 0 \in 0 .. MaxEventId /\ call.answer.rev \in 0 .. MaxRevision
    BY <2>1, ConsumerAssumption DEF Sensible, EventPage
  <2>3. /\ s \in Session /\ s.phase = "live" /\ s.rev = call.answer.rev /\ s.local = 0
        /\ s.target = call.answer.latest /\ s.boundary = call.answer.latest
        /\ s.initialized = session.initialized
    BY <1>1, <2>2 DEF Session
  <2>4. ~session.initialized
    BY <2>1 DEF ConsumerInv, Consistent
  <2>. HIDE DEF s
  <2>5. Underway(s)
    BY <2>2, <2>3, ConsumerAssumption DEF Underway
  <2>6. Ends(s)
    BY <2>1, <2>5, HandlersEnd
  <2>7. Callbacks!Opens(s.rev, s.boundary)
    BY <2>1, <2>2, <2>3, <2>4, <2>6, Openings
  <2>8. CallbackPhase = "silent"
    BY <2>1 DEF CallbackPhase, Live
  <2>9. Callbacks!Begin(s.rev, s.boundary)
    BY <2>7, <2>8 DEF Callbacks!Begin
  <2>10. QED  BY <2>2, <2>3, <2>9 DEF Callbacks!Next
<1>6. CASE ReceiveEvents
  BY <1>6, PagesAreGiven
<1>7. CASE ReceiveReset
  <2>. DEFINE p == call.answer
              latest == IF p.rev = call.rev THEN Larger(session.target, p.latest)
                        ELSE p.latest
              w == [rev |-> p.rev, id |-> latest]
  <2>1. /\ Live /\ Shows(session, applied) /\ Sensible(call) /\ p \in EventPage
        /\ call.rev = session.rev /\ Underway(session)
    BY <1>7, PageCall, LiveIsUnderway DEF ReceiveReset, Live
  <2>2. CASE p.rev < call.rev
    <3>1. EndRun(session) /\ applied' = applied
      BY <1>7, <2>2 DEF ReceiveReset
    <3>2. QED  BY <2>1, <3>1, HandlersEnd, EndsQuietly
  <2>3. CASE ~(p.rev < call.rev)
    <3>1. EndRun([Replaced(session, w) EXCEPT !.followUp = TRUE]) /\ applied' = << >>
      BY <1>7, <2>3 DEF ReceiveReset
    <3>2. w \in announced
      BY <2>1 DEF Sensible, Shows, Larger
    <3>3. w.rev >= session.rev
      BY <2>1, <2>3, LiveIsUnderway, ConsumerAssumption DEF EventPage
    <3>. HIDE DEF w
    <3>4. QED  BY <2>1, <3>1, <3>2, <3>3, ResetsOpen
  <2>4. QED  BY <2>2, <2>3
<1>8. CASE ReceiveNonsense \/ ReceiveThrows \/ FailForGood \/ Stop
  <2>1. session' = Stopped(session)
    BY <1>8 DEF ReceiveNonsense, ReceiveThrows, FailForGood, Fail, Stop
  <2>2. session.phase \in {"loading", "live"}
    BY <1>1, <1>8 DEF ReceiveNonsense, ReceiveThrows, FailForGood, Stop, Mine, ConsumerInv,
         Consistent, Session
  <2>3. QED  BY <1>1, <2>1, <2>2, EndingsEnd
<1>9. CASE SettleStaleCall
  <2>1. EndRun(session) /\ applied' = applied
    BY <1>9 DEF SettleStaleCall
  <2>2. CASE Live
    BY <2>1, <2>2, LiveIsUnderway, HandlersEnd, EndsQuietly
  <2>3. CASE ~Live
    <3>1. session' = [session EXCEPT !.followUp = FALSE]
      BY <2>1, <2>3 DEF EndRun, Live
    <3>2. /\ session'.phase = session.phase /\ session'.rev = session.rev
          /\ session'.boundary = session.boundary
          /\ session'.initialized = session.initialized
      BY <1>1, <3>1 DEF Session
    <3>3. QED  BY <2>1, <3>2, CallsNobody
  <2>4. QED  BY <2>2, <2>3
<1>10. ASSUME NEW w \in announced, Hear(w) \/ HandleNewRevisionThrows(w)
       PROVE  [Callbacks!Next]_(Callbacks!callbackVars)
  <2>1. /\ Live /\ w \in Committed /\ w.rev \in 1 .. MaxRevision /\ w.id \in 0 .. MaxEventId
    BY <1>10 DEF Hear, HandleNewRevision, HandleNewEvents, HandleNewRevisionThrows,
         ConsumerInv, Consistent, ServerInv, Committed, Live
  <2>2. session.rev \in 1 .. MaxRevision /\ Underway(session)
    BY <2>1, LiveIsUnderway
  <2>3. CASE HandleNewRevision(w)
    <3>1. /\ Schedule(Replaced(session, w), [call EXCEPT !.current = FALSE])
          /\ applied' = << >> /\ w.rev >= session.rev
      BY <2>1, <2>2, <2>3, ConsumerAssumption DEF HandleNewRevision
    <3>2. QED  BY <2>1, <3>1, ResetsOpen
  <2>4. CASE HandleNewEvents(w)
    <3>. DEFINE t == [session EXCEPT !.target = w.id]
    <3>1. Schedule(t, call) /\ applied' = applied /\ w.id > session.target
      BY <2>4 DEF HandleNewEvents
    <3>2. /\ t \in Session /\ t.phase = session.phase /\ t.rev = session.rev
          /\ t.local = session.local /\ t.target = w.id /\ t.boundary = session.boundary
          /\ t.initialized = session.initialized
      BY <1>1, <2>1 DEF Session
    <3>. HIDE DEF t
    <3>3. Underway(t)
      BY <1>1, <2>1, <2>2, <3>1, <3>2, ConsumerAssumption DEF Underway, Session
    <3>4. Ends(t)
      BY <3>1, <3>3, HandlersEnd
    <3>5. Ends(session)
      BY <3>2, <3>4 DEF Ends
    <3>6. QED  BY <2>1, <3>1, <3>5, EndsQuietly
  <2>5. CASE HandleNewRevisionThrows(w)
    <3>1. session' = Stopped(Replaced(session, w))
      BY <2>5 DEF HandleNewRevisionThrows, Fail
    <3>2. Replaced(session, w) \in Session
      BY <1>1, <2>1, ReplacedShowsNothing DEF Live
    <3>3. QED  BY <2>1, <3>1, <3>2, EndingsEnd DEF Live
  <2>6. QED  BY <1>10, <2>3, <2>4, <2>5 DEF Hear
<1>11. QED
  BY <1>2, <1>3, <1>4, <1>5, <1>6, <1>7, <1>8, <1>9, <1>10 DEF Next

\* The session keeps to what the view relies on, with pages, notifications, retries and
\* late answers between: the initial events up to the boundary and no other before they
\* are complete, each batch where the last one ended, everything again after a reset and
\* nothing once it is over (contest-event-consumer: runCatchUp, finishInitial,
\* replaceGeneration, invalidateCurrentSession).
THEOREM SessionImplementsCallbacks == Spec => KeepsItsCallbacks
<1>1. Init => Callbacks!Init
  BY DEF Init, Callbacks!Init, CallbackPhase, Live
<1>2. ConsumerInv /\ [Next]_vars => [Callbacks!Next]_(Callbacks!callbackVars)
  BY StepsAreCallbacks
<1>3. QED
  BY <1>1, <1>2, ConsumerInductive, PTL DEF Spec, KeepsItsCallbacks, Callbacks!Spec

----------------------------------------------------------------------------
(* The page. *)
\* Every non-empty set of naturals has a least element.
LEMMA LeastElement ==
  ASSUME NEW T \in SUBSET Nat, T # {}
  PROVE  \E x \in T : \A y \in T : x <= y
<1>1. PICK x \in T : \A y \in T : ~ (<<y, x>> \in OpToRel(<, Nat))
  <2>. HIDE DEF OpToRel
  <2>1. IsWellFoundedOn(OpToRel(<, Nat), Nat)
    BY NatLessThanWellFounded
  <2>2. QED  BY <2>1, WFMin
<1>2. \A y \in T : ~ (y < x)
  <2>. TAKE y \in T
  <2>1. y < x => <<y, x>> \in OpToRel(<, Nat)
    BY DEF OpToRel
  <2>2. QED  BY <1>1, <2>1
<1>3. QED  BY <1>2

\* Induction up to N, for a set that stands for the claim.
LEMMA UpTo ==
  ASSUME NEW N \in Nat, NEW T, 0 \in T, \A n \in 0 .. N : n < N /\ n \in T => n + 1 \in T
  PROVE  \A n \in 0 .. N : n \in T
<1>. DEFINE U == {n \in 0 .. N : n \notin T}
<1>1. SUFFICES ASSUME U # {}
               PROVE  FALSE
  OBVIOUS
<1>2. U \in SUBSET Nat
  OBVIOUS
<1>3. PICK x \in U : \A y \in U : x <= y
  <2>. HIDE DEF U
  <2>1. QED  BY <1>1, <1>2, LeastElement
<1>4. x # 0 /\ x - 1 \in 0 .. N /\ x - 1 \in T
  BY <1>3
<1>5. QED  BY <1>3, <1>4

\* The values that a recursion takes, step by step.
Unrolled(X, first, next, N) ==
  CHOOSE f \in [0 .. N -> X] : f[0] = first /\ \A n \in 1 .. N : f[n] = next[n][f[n - 1]]

\* A recursion over 1 .. N has such values.
LEMMA Recursion ==
  ASSUME NEW N \in Nat, NEW X, NEW first \in X, NEW next \in [1 .. N -> [X -> X]]
  PROVE  LET f == Unrolled(X, first, next, N)
         IN  /\ f \in [0 .. N -> X]
             /\ f[0] = first
             /\ \A n \in 1 .. N : f[n] = next[n][f[n - 1]]
<1>. DEFINE Runs(f, m) ==
       /\ f[0] = first
       /\ \A n \in 1 .. m : f[n] = next[n][f[n - 1]]
<1>. DEFINE T == {m \in 0 .. N : \E f \in [0 .. N -> X] : Runs(f, m)}
<1>1. 0 \in T
  <2>1. [n \in 0 .. N |-> first] \in [0 .. N -> X]
    OBVIOUS
  <2>2. Runs([n \in 0 .. N |-> first], 0)
    OBVIOUS
  <2>. HIDE DEF Runs
  <2>3. 0 \in 0 .. N
    OBVIOUS
  <2>4. QED  BY <2>1, <2>2, <2>3
<1>2. ASSUME NEW m \in 0 .. N, m < N, m \in T
      PROVE  m + 1 \in T
  <2>1. PICK f \in [0 .. N -> X] : Runs(f, m)
    BY <1>2
  <2>. DEFINE v == next[m + 1][f[m]]
              g == [f EXCEPT ![m + 1] = v]
  <2>2. v \in X /\ m + 1 \in 1 .. N
    BY <2>1, <1>2
  <2>. HIDE DEF v
  <2>3. g \in [0 .. N -> X] /\ g[0] = first /\ g[m + 1] = v
    BY <2>1, <2>2
  <2>4. \A n \in 0 .. m : g[n] = f[n]
    BY <2>2
  <2>. HIDE DEF g
  <2>5. g[m + 1] = next[m + 1][g[m]]
    BY <2>3, <2>4 DEF v
  <2>6. \A n \in 1 .. m : g[n] = next[n][g[n - 1]]
    BY <2>1, <2>4
  <2>7. Runs(g, m + 1)
    BY <2>3, <2>5, <2>6
  <2>8. m + 1 \in 0 .. N
    BY <2>2
  <2>. HIDE DEF Runs
  <2>9. QED  BY <2>3, <2>7, <2>8
<1>3. \A m \in 0 .. N : m \in T
  <2>. HIDE DEF T
  <2>1. QED  BY <1>1, <1>2, UpTo
<1>4. N \in T
  <2>. HIDE DEF T
  <2>1. QED  BY <1>3
<1>5. \E f \in [0 .. N -> X] : Runs(f, N)
  BY <1>4
<1>6. QED  BY <1>5 DEF Unrolled

\* What a sequence consists of.
Elements(shelf) == {shelf[i] : i \in 1 .. Len(shelf)}

\* Callbacks of $nextTick.
Ticks == [kind : {"push", "reset"}, generation : 0 .. MaxSessions, items : Seq(ViewBoards)]

\* The values of the page's variables.
ViewTypes ==
  /\ scrolling \in BOOLEAN
  /\ page \in [key : Keys \cup {NoKey}, data : Keys \cup {NoKey}]
  /\ signature \in [key : Keys \cup {NoKey}, data : Keys \cup {NoKey}]
  /\ live \in [generation : 0 .. MaxSessions, uk : Keys \cup {NoKey},
               consumer : {"none", "initial", "live"}, rev : 1 .. MaxResets + 1,
               applied : 0 .. MaxApplied]
  /\ screen \in [board : ViewBoards, failed : BOOLEAN]
  /\ publication \in [board : ViewBoards, items : Seq(ViewBoards),
                      frame : {NoFrame} \cup 0 .. MaxSessions]
  /\ ticks \in Seq(Ticks)
  /\ panel \in Seq(ViewBoards) /\ delivered \in Seq(ViewBoards)

\* The board and the rows that wait are of the current session, which has a frame for
\* them; no callback is of a later one.
WaitingIsOwn ==
  /\ \A i \in 1 .. Len(ticks) : ticks[i].generation <= live.generation
  /\ publication # NoPublication =>
       /\ publication.frame = live.generation
       /\ live.consumer = "live"
       /\ publication.board = BoardOf(live)
       /\ \A item \in Elements(publication.items) : Current(item)

\* Before the first board of a session nothing of it is on the way.
BlankIsEmpty ==
  /\ live.consumer = "initial" => delivered = <<>>
  /\ live.consumer # "none" /\ screen.board = NoBoard /\ ~screen.failed =>
       /\ live.consumer = "initial"
       /\ \A i \in 1 .. Len(ticks) : ticks[i].generation # live.generation

\* Nothing is shown or delivered after the page was left, or without a contest.
SessionHasContest ==
  /\ live.consumer # "none" => page.key # NoKey
  /\ /\ page.key # NoKey
     /\ live.consumer # "none" \/ screen.board # NoBoard \/ publication # NoPublication
     => live.uk = signature.key /\ signature.data = signature.key

\* An unmounted panel has no rows.
PanelIsMounted == Mounted(page, screen) \/ panel = <<>>

\* What is shown, now or once the callbacks have run, is of the current revision.
RowsAreOwn ==
  page.key # NoKey =>
    /\ screen.board # NoBoard => Current(screen.board)
    /\ \A item \in Elements(PanelAfter) : Current(item)

\* What is on the panel, will be pushed to it or waits for the frame is what was delivered.
RowsAreKept ==
  scrolling /\ live.consumer # "none" /\ ~screen.failed =>
    PanelAfter \o publication.items = delivered

\* The newest board is shown or waits.
BoardIsKept ==
  live.consumer = "live" /\ ~screen.failed =>
    \/ screen.board = BoardOf(live)
    \/ publication.board = BoardOf(live)

\* The inductive invariant of the page.
ViewInv ==
  /\ ViewTypes /\ WaitingIsOwn /\ BlankIsEmpty /\ SessionHasContest
  /\ PanelIsMounted /\ RowsAreOwn /\ RowsAreKept /\ BoardIsKept

\* The rows before and after each callback.
Panels(shelf, ts, g) ==
  CHOOSE f : f = [n \in 0 .. Len(ts) |->
                    IF n = 0 THEN shelf ELSE AfterTick(f[n - 1], ts[n], g)]

\* A callback leaves a sequence of boards.
LEMMA TickType ==
  ASSUME NEW shelf \in Seq(ViewBoards), NEW t \in Ticks, NEW g
  PROVE  AfterTick(shelf, t, g) \in Seq(ViewBoards)
BY DEF AfterTick, Ticks

\* What all callbacks make of the rows, one after the other.
LEMMA TicksFacts ==
  ASSUME NEW shelf \in Seq(ViewBoards), NEW ts \in Seq(Ticks), NEW g
  PROVE  LET f == Panels(shelf, ts, g)
         IN  /\ f \in [0 .. Len(ts) -> Seq(ViewBoards)]
             /\ f[0] = shelf
             /\ \A n \in 1 .. Len(ts) : f[n] = AfterTick(f[n - 1], ts[n], g)
             /\ AfterTicks(shelf, ts, g) = f[Len(ts)]
<1>. DEFINE N == Len(ts)
            X == Seq(ViewBoards)
            Q(f) == f = [n \in 0 .. N |->
                           IF n = 0 THEN shelf ELSE AfterTick(f[n - 1], ts[n], g)]
            a == Panels(shelf, ts, g)
            T == {n \in 0 .. N : a[n] \in X}
<1>1. N \in Nat /\ shelf \in X
  OBVIOUS
<1>2. \A x \in X, i \in 1 .. N : AfterTick(x, ts[i], g) \in X
  BY TickType
<1>3. AfterTicks(shelf, ts, g) = a[N]
  BY DEF AfterTicks, Panels
<1>. HIDE DEF X
<1>4. \E f : Q(f)
  <2>. DEFINE next == [n \in 1 .. N |-> [x \in X |-> AfterTick(x, ts[n], g)]]
  <2>1. /\ next \in [1 .. N -> [X -> X]]
        /\ \A n \in 1 .. N, x \in X : next[n][x] = AfterTick(x, ts[n], g)
    BY <1>2
  <2>. HIDE DEF next
  <2>. DEFINE f == Unrolled(X, shelf, next, N)
  <2>2. /\ f \in [0 .. N -> X]
        /\ f[0] = shelf
        /\ \A n \in 1 .. N : f[n] = next[n][f[n - 1]]
    <3>. HIDE DEF N
    <3>1. QED  BY <1>1, <2>1, Recursion
  <2>. HIDE DEF f
  <2>3. \A n \in 1 .. N : n - 1 \in 0 .. N /\ f[n - 1] \in X
    BY <1>1, <2>2
  <2>4. \A n \in 1 .. N : f[n] = AfterTick(f[n - 1], ts[n], g)
    BY <2>1, <2>2, <2>3
  <2>5. Q(f)
    BY <2>2, <2>4
  <2>6. QED  BY <2>5
<1>5. Q(a)
  <2>1. a = CHOOSE f : Q(f)
    BY DEF Panels
  <2>. HIDE DEF Q, a
  <2>2. QED  BY <1>4, <2>1
<1>. HIDE DEF a, N
<1>6. 0 \in T
  BY <1>1, <1>5
<1>7. ASSUME NEW n \in 0 .. N, n < N, n \in T
      PROVE  n + 1 \in T
  BY <1>1, <1>2, <1>5, <1>7
<1>8. \A n \in 0 .. N : n \in T
  <2>. HIDE DEF T
  <2>1. QED  BY <1>1, <1>6, <1>7, UpTo
<1>9. a \in [0 .. N -> X]
  BY <1>5, <1>8
<1>10. a[0] = shelf /\ \A n \in 1 .. N : a[n] = AfterTick(a[n - 1], ts[n], g)
  BY <1>1, <1>5
<1>11. QED  BY <1>3, <1>9, <1>10 DEF X, N, a

\* One callback that has run makes no difference to what all of them make of the rows.
LEMMA TicksShift ==
  ASSUME NEW shelf \in Seq(ViewBoards), NEW ts \in Seq(Ticks), NEW g, ts # <<>>
  PROVE  AfterTicks(AfterTick(shelf, Head(ts), g), Tail(ts), g) = AfterTicks(shelf, ts, g)
<1>. DEFINE N == Len(ts)
            first == AfterTick(shelf, Head(ts), g)
            f == Panels(shelf, ts, g)
            h == Panels(first, Tail(ts), g)
<1>1. N \in Nat /\ N # 0 /\ Head(ts) \in Ticks /\ Head(ts) = ts[1]
  OBVIOUS
<1>2. /\ Tail(ts) \in Seq(Ticks) /\ Len(Tail(ts)) = N - 1
      /\ \A n \in 1 .. N - 1 : Tail(ts)[n] = ts[n + 1]
  OBVIOUS
<1>3. first \in Seq(ViewBoards)
  BY <1>1, TickType
<1>4. /\ f \in [0 .. N -> Seq(ViewBoards)]
      /\ f[0] = shelf
      /\ \A n \in 1 .. N : f[n] = AfterTick(f[n - 1], ts[n], g)
      /\ AfterTicks(shelf, ts, g) = f[N]
  BY <1>1, TicksFacts
<1>5. /\ h \in [0 .. N - 1 -> Seq(ViewBoards)]
      /\ h[0] = first
      /\ \A n \in 1 .. N - 1 : h[n] = AfterTick(h[n - 1], Tail(ts)[n], g)
      /\ AfterTicks(first, Tail(ts), g) = h[N - 1]
  <2>. HIDE DEF first, h
  <2>1. /\ h \in [0 .. Len(Tail(ts)) -> Seq(ViewBoards)]
        /\ h[0] = first
        /\ \A n \in 1 .. Len(Tail(ts)) : h[n] = AfterTick(h[n - 1], Tail(ts)[n], g)
        /\ AfterTicks(first, Tail(ts), g) = h[Len(Tail(ts))]
    <3>. DEFINE rest == Tail(ts)
    <3>1. rest \in Seq(Ticks)
      BY <1>2
    <3>. HIDE DEF rest
    <3>2. LET k == Panels(first, rest, g)
          IN  /\ k \in [0 .. Len(rest) -> Seq(ViewBoards)]
              /\ k[0] = first
              /\ \A n \in 1 .. Len(rest) : k[n] = AfterTick(k[n - 1], rest[n], g)
              /\ AfterTicks(first, rest, g) = k[Len(rest)]
      BY <1>3, <3>1, TicksFacts
    <3>3. QED  BY <3>2 DEF rest, h
  <2>. HIDE DEF N
  <2>2. QED  BY <1>2, <2>1
<1>. HIDE DEF N, first, f, h
<1>. DEFINE T == {n \in 0 .. N - 1 : h[n] = f[n + 1]}
<1>6. 0 \in T
  <2>1. f[1] = first
    BY <1>1, <1>4 DEF first
  <2>2. QED  BY <1>1, <1>5, <2>1
<1>7. ASSUME NEW n \in 0 .. N - 1, n < N - 1, n \in T
      PROVE  n + 1 \in T
  <2>1. h[n + 1] = AfterTick(h[n], ts[n + 2], g)
    BY <1>1, <1>2, <1>5, <1>7
  <2>2. f[n + 2] = AfterTick(f[n + 1], ts[n + 2], g)
    BY <1>1, <1>4, <1>7
  <2>3. QED  BY <1>1, <1>7, <2>1, <2>2
<1>8. N - 1 \in T
  <2>1. N - 1 \in Nat
    BY <1>1
  <2>. HIDE DEF T
  <2>2. \A n \in 0 .. N - 1 : n \in T
    BY <1>6, <1>7, <2>1, UpTo
  <2>3. QED  BY <2>1, <2>2
<1>9. h[N - 1] = f[N]
  BY <1>1, <1>8
<1>10. QED  BY <1>4, <1>5, <1>9 DEF first

\* A callback that is added runs last.
LEMMA TicksAppend ==
  ASSUME NEW shelf \in Seq(ViewBoards), NEW ts \in Seq(Ticks), NEW g, NEW t \in Ticks
  PROVE  AfterTicks(shelf, Append(ts, t), g) = AfterTick(AfterTicks(shelf, ts, g), t, g)
<1>. DEFINE N == Len(ts)
            more == Append(ts, t)
            f == Panels(shelf, ts, g)
            h == Panels(shelf, more, g)
<1>1. N \in Nat
  OBVIOUS
<1>2. /\ more \in Seq(Ticks) /\ Len(more) = N + 1 /\ more[N + 1] = t
      /\ \A n \in 1 .. N : more[n] = ts[n]
  OBVIOUS
<1>4. /\ f \in [0 .. N -> Seq(ViewBoards)]
      /\ f[0] = shelf
      /\ \A n \in 1 .. N : f[n] = AfterTick(f[n - 1], ts[n], g)
      /\ AfterTicks(shelf, ts, g) = f[N]
  BY <1>1, TicksFacts
<1>5. /\ h \in [0 .. N + 1 -> Seq(ViewBoards)]
      /\ h[0] = shelf
      /\ \A n \in 1 .. N + 1 : h[n] = AfterTick(h[n - 1], more[n], g)
      /\ AfterTicks(shelf, more, g) = h[N + 1]
  <2>. HIDE DEF more, h
  <2>1. /\ h \in [0 .. Len(more) -> Seq(ViewBoards)]
        /\ h[0] = shelf
        /\ \A n \in 1 .. Len(more) : h[n] = AfterTick(h[n - 1], more[n], g)
        /\ AfterTicks(shelf, more, g) = h[Len(more)]
    BY <1>2, TicksFacts DEF h
  <2>. HIDE DEF N
  <2>2. QED  BY <1>2, <2>1
<1>. HIDE DEF N, more, f, h
<1>. DEFINE T == {n \in 0 .. N : h[n] = f[n]}
<1>6. 0 \in T
  BY <1>1, <1>4, <1>5
<1>7. ASSUME NEW n \in 0 .. N, n < N, n \in T
      PROVE  n + 1 \in T
  <2>1. h[n + 1] = AfterTick(h[n], ts[n + 1], g)
    BY <1>1, <1>2, <1>5, <1>7
  <2>2. f[n + 1] = AfterTick(f[n], ts[n + 1], g)
    BY <1>1, <1>4, <1>7
  <2>3. QED  BY <1>1, <1>7, <2>1, <2>2
<1>8. N \in T
  <2>. HIDE DEF T
  <2>2. \A n \in 0 .. N : n \in T
    BY <1>1, <1>6, <1>7, UpTo
  <2>3. QED  BY <1>1, <2>2
<1>9. h[N + 1] = AfterTick(f[N], t, g)
  BY <1>1, <1>2, <1>5, <1>8
<1>10. QED  BY <1>4, <1>5, <1>9 DEF more

\* Callbacks of other sessions leave the rows as they are.
LEMMA TicksOfOthers ==
  ASSUME NEW shelf \in Seq(ViewBoards), NEW ts \in Seq(Ticks), NEW g,
         \A i \in 1 .. Len(ts) : ts[i].generation # g
  PROVE  AfterTicks(shelf, ts, g) = shelf
<1>. DEFINE N == Len(ts)
            f == Panels(shelf, ts, g)
<1>1. N \in Nat
  OBVIOUS
<1>2. /\ f \in [0 .. N -> Seq(ViewBoards)]
      /\ f[0] = shelf
      /\ \A n \in 1 .. N : f[n] = AfterTick(f[n - 1], ts[n], g)
      /\ AfterTicks(shelf, ts, g) = f[N]
  BY <1>1, TicksFacts
<1>. HIDE DEF N, f
<1>. DEFINE T == {n \in 0 .. N : f[n] = shelf}
<1>3. 0 \in T
  BY <1>1, <1>2
<1>4. ASSUME NEW n \in 0 .. N, n < N, n \in T
      PROVE  n + 1 \in T
  BY <1>1, <1>2, <1>4 DEF AfterTick, N
<1>5. N \in T
  <2>. HIDE DEF T
  <2>1. \A n \in 0 .. N : n \in T
    BY <1>1, <1>3, <1>4, UpTo
  <2>2. QED  BY <1>1, <2>1
<1>6. QED  BY <1>2, <1>5

\* What a concatenation consists of.
LEMMA ElementsOfBoth ==
  ASSUME NEW s \in Seq(ViewBoards), NEW u \in Seq(ViewBoards)
  PROVE  Elements(s \o u) = Elements(s) \cup Elements(u)
<1>1. /\ Len(s \o u) = Len(s) + Len(u) /\ Len(s) \in Nat /\ Len(u) \in Nat
      /\ \A i \in 1 .. Len(s) + Len(u) :
           (s \o u)[i] = IF i <= Len(s) THEN s[i] ELSE u[i - Len(s)]
  OBVIOUS
<1>2. \A i \in 1 .. Len(u) : (s \o u)[i + Len(s)] = u[i] /\ i + Len(s) \in 1 .. Len(s) + Len(u)
  BY <1>1
<1>3. ASSUME NEW i \in 1 .. Len(s \o u)
      PROVE  (s \o u)[i] \in Elements(s) \cup Elements(u)
  BY <1>1, <1>3 DEF Elements
<1>4. \A i \in 1 .. Len(s) : s[i] \in Elements(s \o u)
  BY <1>1 DEF Elements
<1>5. \A i \in 1 .. Len(u) : u[i] \in Elements(s \o u)
  BY <1>1, <1>2 DEF Elements
<1>6. QED  BY <1>3, <1>4, <1>5 DEF Elements

\* A panel that starts empty ends with no rows that it would not have had anyway.
LEMMA TicksFromNothing ==
  ASSUME NEW shelf \in Seq(ViewBoards), NEW ts \in Seq(Ticks), NEW g
  PROVE  Elements(AfterTicks(<<>>, ts, g)) \subseteq Elements(AfterTicks(shelf, ts, g))
<1>. DEFINE N == Len(ts)
            f == Panels(shelf, ts, g)
            none == <<>>
            h == Panels(none, ts, g)
<1>1. N \in Nat /\ none \in Seq(ViewBoards) /\ Elements(none) = {}
  BY DEF Elements
<1>. HIDE DEF none
<1>2. /\ f \in [0 .. N -> Seq(ViewBoards)]
      /\ f[0] = shelf
      /\ \A n \in 1 .. N : f[n] = AfterTick(f[n - 1], ts[n], g)
      /\ AfterTicks(shelf, ts, g) = f[N]
  BY <1>1, TicksFacts
<1>3. /\ h \in [0 .. N -> Seq(ViewBoards)]
      /\ h[0] = none
      /\ \A n \in 1 .. N : h[n] = AfterTick(h[n - 1], ts[n], g)
      /\ AfterTicks(none, ts, g) = h[N]
  BY <1>1, TicksFacts
<1>4. \A n \in 1 .. N : ts[n].items \in Seq(ViewBoards)
  <2>1. \A n \in 1 .. Len(ts) : ts[n] \in Ticks
    OBVIOUS
  <2>2. QED  BY <2>1 DEF Ticks
<1>. HIDE DEF N, f, h
<1>. DEFINE T == {n \in 0 .. N : Elements(h[n]) \subseteq Elements(f[n])}
<1>5. 0 \in T
  BY <1>1, <1>3
<1>6. ASSUME NEW n \in 0 .. N, n < N, n \in T
      PROVE  n + 1 \in T
  <2>1. /\ h[n + 1] = AfterTick(h[n], ts[n + 1], g)
        /\ f[n + 1] = AfterTick(f[n], ts[n + 1], g)
        /\ ts[n + 1].items \in Seq(ViewBoards)
    <3>1. n + 1 \in 1 .. N /\ n + 1 - 1 = n
      BY <1>1, <1>6
    <3>2. QED  BY <1>2, <1>3, <1>4, <3>1
  <2>2. /\ h[n] \in Seq(ViewBoards) /\ f[n] \in Seq(ViewBoards)
        /\ Elements(h[n]) \subseteq Elements(f[n])
    BY <1>2, <1>3, <1>6
  <2>3. \A s \in Seq(ViewBoards) :
          Elements(s \o ts[n + 1].items) = Elements(s) \cup Elements(ts[n + 1].items)
    BY <2>1, ElementsOfBoth
  <2>4. Elements(h[n + 1]) \subseteq Elements(f[n + 1])
    BY <2>1, <2>2, <2>3 DEF AfterTick
  <2>5. QED  BY <1>1, <1>6, <2>4
<1>7. N \in T
  <2>. HIDE DEF T
  <2>1. \A n \in 0 .. N : n \in T
    BY <1>1, <1>5, <1>6, UpTo
  <2>2. QED  BY <1>1, <2>1
<1>8. QED  BY <1>1, <1>2, <1>3, <1>7 DEF none

\* Values that the page starts with or puts back have their types.
LEMMA ViewConstants ==
  /\ NoBoard \in ViewBoards /\ Blank \in [board : ViewBoards, failed : BOOLEAN]
  /\ Blank.board = NoBoard /\ Blank.failed = FALSE
  /\ NoPublication \in [board : ViewBoards, items : Seq(ViewBoards),
                        frame : {NoFrame} \cup 0 .. MaxSessions]
  /\ NoPublication.board = NoBoard /\ NoPublication.items = <<>>
  /\ NoPublication.frame = NoFrame /\ NoFrame \notin Nat
  /\ <<>> \in Seq(ViewBoards) /\ Elements(<<>>) = {}
BY ViewAssumption
   DEF NoBoard, ViewBoards, Blank, NoPublication, NoFrame, Elements

\* A board says which session and revision it is of, and is not the empty one.
LEMMA BoardFacts ==
  ASSUME NEW l \in [generation : 0 .. MaxSessions, uk : Keys \cup {NoKey},
                    consumer : {"none", "initial", "live"}, rev : 1 .. MaxResets + 1,
                    applied : 0 .. MaxApplied]
  PROVE  /\ BoardOf(l) \in ViewBoards /\ BoardOf(l) # NoBoard
         /\ BoardOf(l).generation = l.generation /\ BoardOf(l).rev = l.rev
BY ViewAssumption DEF BoardOf, ViewBoards, NoBoard

\* What is on the panel once all callbacks have run is a sequence of boards.
LEMMA PanelAfterType ==
  ASSUME ViewTypes
  PROVE  PanelAfter \in Seq(ViewBoards)
<1>1. panel \in Seq(ViewBoards) /\ ticks \in Seq(Ticks)
  BY DEF ViewTypes
<1>2. LET f == Panels(panel, ticks, live.generation)
      IN  f \in [0 .. Len(ticks) -> Seq(ViewBoards)] /\ PanelAfter = f[Len(ticks)]
  BY <1>1, TicksFacts DEF PanelAfter
<1>3. Len(ticks) \in 0 .. Len(ticks)
  BY <1>1
<1>4. QED  BY <1>2, <1>3

\* An empty panel and callbacks of other sessions only: it stays empty.
LEMMA NothingComes ==
  ASSUME ViewTypes, panel = <<>>,
         \A i \in 1 .. Len(ticks) : ticks[i].generation # live.generation
  PROVE  PanelAfter = <<>>
<1>1. panel \in Seq(ViewBoards) /\ ticks \in Seq(Ticks)
  BY DEF ViewTypes
<1>2. QED  BY <1>1, TicksOfOthers DEF PanelAfter

\* The page starts with nothing on it.
LEMMA ViewStarts == ViewInit => ViewInv
<1>1. SUFFICES ASSUME ViewInit
               PROVE  ViewInv
  OBVIOUS
<1>2. ViewTypes
  BY <1>1, ViewConstants, ViewAssumption DEF ViewInit, ViewTypes
<1>3. ticks = <<>> /\ Len(ticks) = 0 /\ panel = <<>> /\ delivered = <<>>
  BY <1>1 DEF ViewInit
<1>4. PanelAfter = <<>>
  BY <1>2, <1>3, NothingComes
<1>5. /\ publication = NoPublication /\ screen = Blank /\ live.consumer = "none"
  BY <1>1 DEF ViewInit
<1>6. QED
  BY <1>2, <1>3, <1>4, <1>5, ViewConstants
     DEF ViewInv, WaitingIsOwn, BlankIsEmpty, SessionHasContest, PanelIsMounted, RowsAreOwn,
         RowsAreKept, BoardIsKept

\* stopLiveSession: whatever the session left behind is of an earlier one now.
LEMMA SessionsEnd ==
  ASSUME ViewInv, NEW uk \in Keys \cup {NoKey}, NEW consumer \in {"none", "initial"},
         NextSession(uk, consumer), panel' = <<>>, ViewTypes'
  PROVE  /\ live'.uk = uk /\ live'.consumer = consumer
         /\ publication' = NoPublication /\ delivered' = <<>>
         /\ \A i \in 1 .. Len(ticks') : ticks'[i].generation # live'.generation
         /\ WaitingIsOwn' /\ PanelAfter' = <<>>
<1>1. /\ live'.uk = uk /\ live'.consumer = consumer /\ live'.generation = live.generation + 1
      /\ publication' = NoPublication /\ delivered' = <<>> /\ ticks' = ticks
  BY DEF NextSession, ClearPending
<1>2. live.generation \in Nat /\ \A i \in 1 .. Len(ticks) : ticks[i].generation \in Nat
  <2>1. \A i \in 1 .. Len(ticks) : ticks[i] \in Ticks
    BY DEF ViewInv, ViewTypes
  <2>2. \A i \in 1 .. Len(ticks) : ticks[i].generation \in 0 .. MaxSessions
    BY <2>1 DEF Ticks
  <2>3. live.generation \in 0 .. MaxSessions
    BY DEF ViewInv, ViewTypes
  <2>4. QED  BY <2>2, <2>3, ViewAssumption
<1>3. \A i \in 1 .. Len(ticks) : ticks[i].generation <= live.generation
  BY DEF ViewInv, WaitingIsOwn
<1>4. \A i \in 1 .. Len(ticks') : /\ ticks'[i].generation # live'.generation
                                  /\ ticks'[i].generation <= live'.generation
  BY <1>1, <1>2, <1>3
<1>5. (/\ ViewTypes /\ panel = <<>>
       /\ \A i \in 1 .. Len(ticks) : ticks[i].generation # live.generation
       => PanelAfter = <<>>)'
  BY NothingComes, PTL
<1>6. QED  BY <1>1, <1>4, <1>5 DEF WaitingIsOwn

\* syncLiveState starts the session of the page, shows an error, or shows nothing.
LEMMA SyncStep == ViewInv /\ SyncLiveState => ViewInv'
<1>1. SUFFICES ASSUME ViewInv, SyncLiveState
               PROVE  ViewInv'
  OBVIOUS
<1>2. PICK uk \in Keys \cup {NoKey}, consumer \in {"none", "initial"} :
        /\ NextSession(uk, consumer)
        /\ consumer # "none" => uk = page.key /\ page.data = page.key
  BY <1>1 DEF SyncLiveState, ViewInv, ViewTypes
<1>3. /\ page' = page /\ signature' = page /\ page.key # NoKey /\ scrolling' = scrolling
      /\ screen' \in {Blank, [Blank EXCEPT !.failed = TRUE]} /\ panel' = <<>>
  <2>1. \A s : Render(page, s, <<>>) => page' = page /\ screen' = s /\ panel' = <<>>
    BY DEF Render
  <2>2. QED  BY <1>1, <2>1 DEF SyncLiveState
<1>4. screen' \in [board : ViewBoards, failed : BOOLEAN] /\ screen'.board = NoBoard
  BY <1>3, ViewConstants
<1>5. ViewTypes'
  BY <1>1, <1>2, <1>3, <1>4, ViewConstants, ViewAssumption
     DEF ViewInv, ViewTypes, NextSession, ClearPending
<1>6. /\ live'.uk = uk /\ live'.consumer = consumer
      /\ publication' = NoPublication /\ delivered' = <<>>
      /\ \A i \in 1 .. Len(ticks') : ticks'[i].generation # live'.generation
      /\ WaitingIsOwn' /\ PanelAfter' = <<>>
  BY <1>1, <1>2, <1>3, <1>5, SessionsEnd
<1>7. SessionHasContest'
  BY <1>2, <1>3, <1>4, <1>6 DEF SessionHasContest
<1>8. BlankIsEmpty' /\ PanelIsMounted' /\ BoardIsKept'
  BY <1>2, <1>3, <1>4, <1>6 DEF BlankIsEmpty, PanelIsMounted, BoardIsKept
<1>9. RowsAreOwn' /\ RowsAreKept'
  BY <1>3, <1>4, <1>6, ViewConstants DEF RowsAreOwn, RowsAreKept
<1>10. QED  BY <1>5, <1>6, <1>7, <1>8, <1>9 DEF ViewInv

\* Once the page is left nothing runs any more.
LEMMA LeaveStep == ViewInv /\ LeavePage => ViewInv'
<1>1. SUFFICES ASSUME ViewInv, LeavePage
               PROVE  ViewInv'
  OBVIOUS
<1>2. NextSession(NoKey, "none")
  BY <1>1 DEF LeavePage
<1>3. /\ page'.key = NoKey /\ page' = [key |-> NoKey, data |-> NoKey] /\ screen' = screen
      /\ panel' = <<>> /\ scrolling' = scrolling /\ signature' = signature
  BY <1>1 DEF LeavePage, Render
<1>4. ViewTypes'
  BY <1>1, <1>2, <1>3, ViewConstants, ViewAssumption
     DEF ViewInv, ViewTypes, NextSession, ClearPending
<1>5. /\ live'.consumer = "none" /\ WaitingIsOwn'
  BY <1>1, <1>2, <1>3, <1>4, SessionsEnd
<1>6. QED
  BY <1>3, <1>4, <1>5
     DEF ViewInv, BlankIsEmpty, SessionHasContest, PanelIsMounted, RowsAreOwn,
         RowsAreKept, BoardIsKept

\* The route and the data may change while the session is still the old one.
LEMMA PageStep ==
  ASSUME ViewInv, NEW p \in [key : Keys, data : Keys \cup {NoKey}], ChangePage(p)
  PROVE  ViewInv'
<1>1. /\ page' = p /\ screen' = screen /\ page.key # NoKey /\ p.key # NoKey
      /\ UNCHANGED <<scrolling, signature, live, publication, ticks, delivered>>
      /\ panel' = IF Mounted(p, screen) THEN panel ELSE <<>>
  BY DEF ChangePage, Render
<1>2. panel' = panel
  BY <1>1 DEF ViewInv, PanelIsMounted, Mounted
<1>3. ViewTypes'
  BY <1>1, <1>2 DEF ViewInv, ViewTypes
<1>4. PanelAfter' = PanelAfter
  BY <1>1, <1>2 DEF PanelAfter
<1>5. SessionHasContest'
  BY <1>1 DEF ViewInv, SessionHasContest
<1>6. WaitingIsOwn' /\ BlankIsEmpty' /\ BoardIsKept'
  BY <1>1 DEF ViewInv, WaitingIsOwn, BlankIsEmpty, BoardIsKept, Current
<1>7. PanelIsMounted' /\ RowsAreOwn' /\ RowsAreKept'
  BY <1>1, <1>2, <1>4
     DEF ViewInv, PanelIsMounted, Mounted, RowsAreOwn, RowsAreKept, Current
<1>8. QED  BY <1>3, <1>5, <1>6, <1>7 DEF ViewInv

\* The initial events bring the first board of a session or revision.
LEMMA InitialSteps == ViewInv /\ (InitialBatch \/ FinishInitialEvents) => ViewInv'
<1>1. SUFFICES ASSUME ViewInv, InitialBatch \/ FinishInitialEvents
               PROVE  ViewInv'
  OBVIOUS
<1>2. /\ live.consumer = "initial" /\ publication = NoPublication /\ delivered = <<>>
      /\ live \in [generation : 0 .. MaxSessions, uk : Keys \cup {NoKey},
                   consumer : {"none", "initial", "live"}, rev : 1 .. MaxResets + 1,
                   applied : 0 .. MaxApplied]
  BY <1>1
     DEF InitialBatch, FinishInitialEvents, ViewInv, ViewTypes, WaitingIsOwn, BlankIsEmpty
<1>3. CASE InitialBatch
  <2>1. /\ live'.generation = live.generation /\ live'.rev = live.rev
        /\ live'.consumer = live.consumer /\ live'.uk = live.uk
        /\ live' \in [generation : 0 .. MaxSessions, uk : Keys \cup {NoKey},
                      consumer : {"none", "initial", "live"}, rev : 1 .. MaxResets + 1,
                      applied : 0 .. MaxApplied]
        /\ UNCHANGED <<scrolling, page, signature, screen, publication>>
        /\ UNCHANGED <<ticks, panel, delivered>>
    BY <1>2, <1>3, ViewAssumption DEF InitialBatch
  <2>2. PanelAfter' = PanelAfter
    BY <2>1 DEF PanelAfter
  <2>3. QED
    BY <1>1, <1>2, <2>1, <2>2
       DEF ViewInv, ViewTypes, WaitingIsOwn, BlankIsEmpty, SessionHasContest, PanelIsMounted,
           Mounted, RowsAreOwn, RowsAreKept, BoardIsKept, Current
<1>4. CASE FinishInitialEvents
  <2>1. /\ live'.generation = live.generation /\ live'.rev = live.rev
        /\ live'.consumer = "live" /\ live'.uk = live.uk /\ BoardOf(live') = BoardOf(live)
        /\ live' \in [generation : 0 .. MaxSessions, uk : Keys \cup {NoKey},
                      consumer : {"none", "initial", "live"}, rev : 1 .. MaxResets + 1,
                      applied : 0 .. MaxApplied]
        /\ UNCHANGED <<scrolling, signature, publication, ticks, delivered>>
    BY <1>2, <1>4 DEF FinishInitialEvents, BoardOf
  <2>2. /\ page' = page /\ screen'.board = BoardOf(live) /\ screen'.failed = screen.failed
        /\ screen' \in [board : ViewBoards, failed : BOOLEAN]
        /\ panel' = IF Mounted(page, screen') THEN panel ELSE <<>>
    BY <1>1, <1>2, <1>4, BoardFacts DEF FinishInitialEvents, Render, ViewInv, ViewTypes
  <2>3. panel' = panel
    BY <1>1, <1>2, <2>2, BoardFacts DEF ViewInv, PanelIsMounted, Mounted
  <2>4. PanelAfter' = PanelAfter
    BY <2>1, <2>3 DEF PanelAfter
  <2>5. ViewTypes'
    BY <1>1, <2>1, <2>2, <2>3 DEF ViewInv, ViewTypes
  <2>6. /\ BoardOf(live) # NoBoard /\ BoardOf(live).generation = live.generation
        /\ BoardOf(live).rev = live.rev
    BY <1>2, BoardFacts
  <2>7. WaitingIsOwn' /\ BlankIsEmpty' /\ SessionHasContest' /\ BoardIsKept'
    BY <1>1, <1>2, <2>1, <2>2, <2>6
       DEF ViewInv, WaitingIsOwn, BlankIsEmpty, SessionHasContest, BoardIsKept
  <2>8. PanelIsMounted'
    BY <1>1, <2>1, <2>2, <2>3, <2>6 DEF ViewInv, PanelIsMounted, Mounted
  <2>9. RowsAreOwn' /\ RowsAreKept'
    BY <1>1, <1>2, <2>1, <2>2, <2>4, <2>6 DEF ViewInv, RowsAreOwn, RowsAreKept, Current
  <2>10. QED  BY <2>5, <2>7, <2>8, <2>9 DEF ViewInv
<1>5. QED  BY <1>1, <1>3, <1>4

\* Rows keep their order, however they are grouped.
LEMMA RowsInOrder ==
  ASSUME NEW a \in Seq(ViewBoards), NEW b \in Seq(ViewBoards), NEW c \in Seq(ViewBoards)
  PROVE  (a \o b) \o c = a \o (b \o c)
BY ConcatAssociative

\* A live event waits, with the row that it makes, for the frame of its session.
LEMMA LiveStep ==
  ASSUME ViewInv, NEW rolls \in BOOLEAN, DeliverLive(rolls)
  PROVE  ViewInv'
<1>. DEFINE LiveType == [generation : 0 .. MaxSessions, uk : Keys \cup {NoKey},
                         consumer : {"none", "initial", "live"}, rev : 1 .. MaxResets + 1,
                         applied : 0 .. MaxApplied]
            items == IF rolls THEN <<BoardOf(live')>> ELSE <<>>
<1>1. /\ live.consumer = "live" /\ live \in LiveType
      /\ live'.generation = live.generation /\ live'.rev = live.rev
      /\ live'.consumer = "live" /\ live'.uk = live.uk
      /\ live' \in LiveType
      /\ UNCHANGED <<scrolling, page, signature, screen, ticks, panel>>
  <2>1. /\ live.consumer = "live" /\ live.applied < MaxApplied /\ live \in LiveType
        /\ live' = [live EXCEPT !.applied = live.applied + 1]
        /\ UNCHANGED <<scrolling, page, signature, screen, ticks, panel>>
    BY DEF DeliverLive, ViewInv, ViewTypes
  <2>2. live.applied + 1 \in 0 .. MaxApplied
    BY <2>1, ViewAssumption
  <2>3. QED  BY <2>1, <2>2
<1>2. /\ publication' = Queued(publication, BoardOf(live'), items)
      /\ delivered' = delivered \o items
  BY DEF DeliverLive
<1>3. /\ BoardOf(live') \in ViewBoards /\ BoardOf(live').generation = live.generation
      /\ BoardOf(live').rev = live.rev
  BY <1>1, BoardFacts
<1>. HIDE DEF LiveType
<1>4. /\ items \in Seq(ViewBoards) /\ (\A item \in Elements(items) : Current(item))
  BY <1>3 DEF Elements, Current
<1>. HIDE DEF items
<1>5. /\ publication.items \in Seq(ViewBoards) /\ delivered \in Seq(ViewBoards)
      /\ publication.frame # NoFrame => publication.frame = live.generation
      /\ \A item \in Elements(publication.items) : Current(item)
      /\ publication.frame \in {NoFrame} \cup 0 .. MaxSessions
      /\ live.generation \in 0 .. MaxSessions /\ scrolling \in BOOLEAN
  BY ViewConstants DEF ViewInv, ViewTypes, WaitingIsOwn
<1>6. /\ publication'.board = BoardOf(live') /\ publication'.frame = live.generation
      /\ publication'.items = IF scrolling THEN publication.items \o items
                              ELSE publication.items
      /\ publication' \in [board : ViewBoards, items : Seq(ViewBoards),
                           frame : {NoFrame} \cup 0 .. MaxSessions]
  BY <1>1, <1>2, <1>3, <1>4, <1>5 DEF Queued
<1>7. \A item \in Elements(publication'.items) : Current(item)
  BY <1>4, <1>5, <1>6, ElementsOfBoth
<1>8. ViewTypes'
  BY <1>1, <1>2, <1>4, <1>5, <1>6 DEF ViewInv, ViewTypes, LiveType
<1>9. PanelAfter' = PanelAfter /\ PanelAfter \in Seq(ViewBoards)
  BY <1>1, PanelAfterType DEF PanelAfter, ViewInv
<1>10. WaitingIsOwn' /\ BlankIsEmpty' /\ BoardIsKept'
  BY <1>1, <1>3, <1>6, <1>7
     DEF ViewInv, WaitingIsOwn, BlankIsEmpty, BoardIsKept, Current
<1>11. SessionHasContest' /\ PanelIsMounted' /\ RowsAreOwn'
  BY <1>1, <1>9
     DEF ViewInv, SessionHasContest, PanelIsMounted, Mounted, RowsAreOwn, Current
<1>12. RowsAreKept'
  <2>1. SUFFICES ASSUME scrolling, ~screen.failed
                 PROVE  PanelAfter \o (publication.items \o items) = delivered \o items
    BY <1>1, <1>2, <1>6, <1>9 DEF RowsAreKept
  <2>2. PanelAfter \o publication.items = delivered
    BY <1>1, <2>1 DEF ViewInv, RowsAreKept
  <2>3. QED  BY <1>4, <1>5, <1>9, <2>2, RowsInOrder
<1>13. QED  BY <1>8, <1>10, <1>11, <1>12 DEF ViewInv

\* A reset shows an empty board, and its callback will empty the panel.
LEMMA ResetStep == ViewInv /\ DeliverReset => ViewInv'
<1>1. SUFFICES ASSUME ViewInv, DeliverReset
               PROVE  ViewInv'
  OBVIOUS
<1>. DEFINE LiveType == [generation : 0 .. MaxSessions, uk : Keys \cup {NoKey},
                         consumer : {"none", "initial", "live"}, rev : 1 .. MaxResets + 1,
                         applied : 0 .. MaxApplied]
            t == [kind |-> "reset", generation |-> live.generation, items |-> <<>>]
<1>2. /\ live.consumer # "none" /\ live \in LiveType /\ live' \in LiveType
      /\ live'.generation = live.generation /\ live'.consumer = "initial"
      /\ live'.uk = live.uk
      /\ UNCHANGED <<scrolling, signature>>
      /\ publication' = NoPublication /\ delivered' = <<>> /\ ticks' = Append(ticks, t)
  <2>1. /\ live.consumer # "none" /\ live.rev <= MaxResets /\ live \in LiveType
        /\ live' = [live EXCEPT !.consumer = "initial", !.rev = live.rev + 1, !.applied = 0]
        /\ UNCHANGED <<scrolling, signature>>
        /\ publication' = NoPublication /\ delivered' = <<>> /\ ticks' = Append(ticks, t)
    BY <1>1 DEF DeliverReset, ViewInv, ViewTypes, ClearPending
  <2>2. live.rev + 1 \in 1 .. MaxResets + 1 /\ 0 \in 0 .. MaxApplied
    BY <2>1, ViewAssumption
  <2>3. QED  BY <2>1, <2>2
<1>3. /\ BoardOf(live') \in ViewBoards /\ BoardOf(live') # NoBoard
      /\ BoardOf(live').generation = live'.generation /\ BoardOf(live').rev = live'.rev
  BY <1>2, BoardFacts
<1>4. /\ page' = page /\ screen'.board = BoardOf(live') /\ screen'.failed = screen.failed
      /\ screen' \in [board : ViewBoards, failed : BOOLEAN]
      /\ panel' = IF Mounted(page, screen') THEN panel ELSE <<>>
  BY <1>1, <1>3 DEF DeliverReset, Render, ViewInv, ViewTypes
<1>. HIDE DEF LiveType
<1>5. panel' = panel
  BY <1>1, <1>3, <1>4 DEF ViewInv, PanelIsMounted, Mounted
<1>6. /\ panel \in Seq(ViewBoards) /\ ticks \in Seq(Ticks) /\ t \in Ticks
  BY <1>1, <1>2 DEF ViewInv, ViewTypes, Ticks, LiveType
<1>7. PanelAfter' = <<>>
  <2>1. PanelAfter' = AfterTick(AfterTicks(panel, ticks, live.generation), t, live.generation)
    BY <1>2, <1>5, <1>6, TicksAppend DEF PanelAfter
  <2>2. QED  BY <2>1 DEF AfterTick
<1>8. ViewTypes'
  BY <1>1, <1>2, <1>4, <1>5, <1>6, ViewConstants DEF ViewInv, ViewTypes, LiveType
<1>9. WaitingIsOwn'
  <2>1. /\ Len(ticks') = Len(ticks) + 1 /\ Len(ticks) \in Nat
        /\ \A i \in 1 .. Len(ticks) : ticks'[i] = ticks[i]
        /\ ticks'[Len(ticks) + 1] = t
    BY <1>2, <1>6
  <2>2. live.generation \in Nat
    BY <1>2, ViewAssumption DEF LiveType
  <2>3. \A i \in 1 .. Len(ticks') : ticks'[i].generation <= live'.generation
    BY <1>1, <1>2, <2>1, <2>2 DEF ViewInv, WaitingIsOwn
  <2>4. QED  BY <1>2, <2>3 DEF WaitingIsOwn
<1>10. SessionHasContest'
  BY <1>1, <1>2, <1>4 DEF ViewInv, SessionHasContest
<1>11. BlankIsEmpty' /\ BoardIsKept'
  BY <1>2, <1>3, <1>4 DEF BlankIsEmpty, BoardIsKept
<1>12. PanelIsMounted'
  BY <1>1, <1>2, <1>3, <1>4, <1>5 DEF ViewInv, PanelIsMounted, Mounted
<1>13. RowsAreOwn' /\ RowsAreKept'
  BY <1>2, <1>3, <1>4, <1>7, ViewConstants DEF RowsAreOwn, RowsAreKept, Current
<1>14. QED  BY <1>8, <1>9, <1>10, <1>11, <1>12, <1>13 DEF ViewInv

\* A failure empties the screen, and no callback brings back what was on it.
LEMMA FailureStep ==
  ASSUME ViewInv, HandleFatalError, UNCHANGED <<scrolling, signature, delivered>>,
         ticks' = ticks \/ (ticks # <<>> /\ ticks' = Tail(ticks)),
         live' = live \/ live' = [live EXCEPT !.consumer = "none"]
  PROVE  ViewInv'
<1>1. /\ publication' = NoPublication /\ page' = page /\ panel' = <<>>
      /\ screen' = [board |-> NoBoard, failed |-> TRUE]
  BY DEF HandleFatalError, ClearPending, Render
<1>2. /\ live'.generation = live.generation /\ live'.rev = live.rev /\ live'.uk = live.uk
      /\ live'.consumer \in {live.consumer, "none"}
      /\ live' \in [generation : 0 .. MaxSessions, uk : Keys \cup {NoKey},
                    consumer : {"none", "initial", "live"}, rev : 1 .. MaxResets + 1,
                    applied : 0 .. MaxApplied]
  BY DEF ViewInv, ViewTypes
<1>3. /\ panel \in Seq(ViewBoards) /\ ticks \in Seq(Ticks) /\ ticks' \in Seq(Ticks)
      /\ Len(ticks') \in Nat
      /\ \A i \in 1 .. Len(ticks') : \E j \in 1 .. Len(ticks) : ticks'[i] = ticks[j]
  <2>1. panel \in Seq(ViewBoards) /\ ticks \in Seq(Ticks)
    BY DEF ViewInv, ViewTypes
  <2>2. CASE ticks' = ticks
    BY <2>1, <2>2
  <2>3. CASE ticks # <<>> /\ ticks' = Tail(ticks)
    <3>. DEFINE rest == Tail(ticks)
    <3>1. /\ rest \in Seq(Ticks) /\ Len(rest) = Len(ticks) - 1 /\ Len(rest) \in Nat
          /\ \A i \in 1 .. Len(ticks) - 1 : rest[i] = ticks[i + 1]
      BY <2>1, <2>3
    <3>2. ticks' = rest /\ Len(ticks) \in Nat
      BY <2>1, <2>3
    <3>. HIDE DEF rest
    <3>3. ASSUME NEW i \in 1 .. Len(ticks')
          PROVE  \E j \in 1 .. Len(ticks) : ticks'[i] = ticks[j]
      <4>1. i \in 1 .. Len(rest) /\ ticks'[i] = rest[i]
        BY <3>2
      <4>2. i + 1 \in 1 .. Len(ticks) /\ i \in 1 .. Len(ticks) - 1
        BY <3>1, <3>2, <4>1
      <4>3. rest[i] = ticks[i + 1]
        BY <3>1, <4>2
      <4>4. QED  BY <4>1, <4>2, <4>3
    <3>4. QED  BY <2>1, <3>1, <3>2, <3>3
  <2>4. QED  BY <2>2, <2>3
<1>4. ViewTypes'
  BY <1>1, <1>2, <1>3, ViewConstants DEF ViewInv, ViewTypes
<1>5. Elements(PanelAfter') \subseteq Elements(PanelAfter)
  <2>1. PanelAfter' = AfterTicks(<<>>, ticks', live.generation)
    BY <1>1, <1>2 DEF PanelAfter
  <2>2. CASE ticks' = ticks
    BY <1>3, <2>1, <2>2, TicksFromNothing DEF PanelAfter
  <2>3. CASE ticks # <<>> /\ ticks' = Tail(ticks)
    <3>. DEFINE first == AfterTick(panel, Head(ticks), live.generation)
    <3>1. Head(ticks) \in Ticks
      BY <1>3, <2>3
    <3>2. first \in Seq(ViewBoards)
      BY <1>3, <3>1, TickType
    <3>3. AfterTicks(first, ticks', live.generation) = PanelAfter
      BY <1>3, <2>3, TicksShift DEF PanelAfter
    <3>. HIDE DEF first
    <3>4. QED  BY <1>3, <2>1, <3>2, <3>3, TicksFromNothing
  <2>4. QED  BY <2>2, <2>3
<1>6. WaitingIsOwn'
  BY <1>1, <1>2, <1>3 DEF ViewInv, WaitingIsOwn
<1>7. BlankIsEmpty' /\ SessionHasContest' /\ PanelIsMounted' /\ RowsAreKept' /\ BoardIsKept'
  BY <1>1, <1>2
     DEF ViewInv, BlankIsEmpty, SessionHasContest, PanelIsMounted, RowsAreKept, BoardIsKept
<1>8. RowsAreOwn'
  BY <1>1, <1>2, <1>5 DEF ViewInv, RowsAreOwn, Current
<1>9. QED  BY <1>4, <1>6, <1>7, <1>8 DEF ViewInv

\* The frame of the session publishes its board, and its rows in a tick.
LEMMA FrameStep == ViewInv /\ PublishFrame => ViewInv'
<1>1. SUFFICES ASSUME ViewInv, PublishFrame
               PROVE  ViewInv'
  OBVIOUS
<1>. DEFINE t == [kind |-> "push", generation |-> live.generation,
                  items |-> publication.items]
<1>2. /\ publication.frame = live.generation /\ live.consumer = "live"
      /\ publication.board = BoardOf(live)
      /\ Current(publication.board)
      /\ \A item \in Elements(publication.items) : Current(item)
      /\ publication # NoPublication
  <2>1. Current(BoardOf(live))
    BY <1>1, BoardFacts DEF ViewInv, ViewTypes, Current
  <2>2. QED  BY <1>1, <2>1, ViewConstants DEF PublishFrame, ViewInv, WaitingIsOwn
<1>3. /\ UNCHANGED <<scrolling, page, signature, live, delivered>>
      /\ publication' = NoPublication
      /\ screen' = [screen EXCEPT !.board = IF publication.board = NoBoard THEN screen.board
                                            ELSE publication.board]
      /\ panel' = IF Mounted(page, screen') THEN panel ELSE <<>>
      /\ ticks' = IF publication.items = <<>> THEN ticks ELSE Append(ticks, t)
  BY <1>1, <1>2 DEF PublishFrame, IsSessionCurrent, Render
<1>4. /\ panel \in Seq(ViewBoards) /\ ticks \in Seq(Ticks)
      /\ publication.items \in Seq(ViewBoards) /\ publication.board \in ViewBoards
      /\ screen \in [board : ViewBoards, failed : BOOLEAN]
      /\ live.generation \in 0 .. MaxSessions /\ live.generation \in Nat
      /\ PanelAfter \in Seq(ViewBoards)
  BY <1>1, PanelAfterType, ViewAssumption DEF ViewInv, ViewTypes
<1>5. /\ screen' \in [board : ViewBoards, failed : BOOLEAN] /\ screen'.failed = screen.failed
      /\ screen'.board = IF publication.board = NoBoard THEN screen.board
                         ELSE publication.board
  BY <1>3, <1>4
<1>6. panel' = panel
  BY <1>1, <1>3, <1>5 DEF ViewInv, PanelIsMounted, Mounted
<1>7. t \in Ticks
  BY <1>4 DEF Ticks
<1>8. PanelAfter' = PanelAfter \o publication.items
  <2>1. CASE publication.items = <<>>
    <3>1. PanelAfter' = PanelAfter
      BY <1>3, <1>6, <2>1 DEF PanelAfter
    <3>2. QED  BY <1>4, <2>1, <3>1
  <2>2. CASE publication.items # <<>>
    <3>1. PanelAfter' = AfterTick(PanelAfter, t, live.generation)
      BY <1>3, <1>4, <1>6, <1>7, <2>2, TicksAppend DEF PanelAfter
    <3>2. QED  BY <3>1 DEF AfterTick
  <2>3. QED  BY <2>1, <2>2
<1>9. ViewTypes'
  BY <1>1, <1>3, <1>4, <1>5, <1>6, <1>7, ViewConstants DEF ViewInv, ViewTypes
<1>10. \A i \in 1 .. Len(ticks') : ticks'[i].generation <= live'.generation
  <2>1. CASE publication.items = <<>>
    BY <1>1, <1>3, <2>1 DEF ViewInv, WaitingIsOwn
  <2>2. CASE publication.items # <<>>
    <3>1. /\ Len(ticks') = Len(ticks) + 1 /\ Len(ticks) \in Nat
          /\ \A i \in 1 .. Len(ticks) : ticks'[i] = ticks[i]
          /\ ticks'[Len(ticks) + 1] = t
      BY <1>3, <1>4, <1>7, <2>2
    <3>2. QED  BY <1>1, <1>3, <1>4, <3>1 DEF ViewInv, WaitingIsOwn
  <2>3. QED  BY <2>1, <2>2
<1>11. WaitingIsOwn'
  BY <1>3, <1>10 DEF WaitingIsOwn
<1>12. SessionHasContest'
  BY <1>1, <1>2, <1>3, <1>5 DEF ViewInv, SessionHasContest
<1>13. BlankIsEmpty'
  BY <1>1, <1>2, <1>3, <1>5 DEF ViewInv, BlankIsEmpty
<1>14. PanelIsMounted'
  BY <1>3, <1>6 DEF PanelIsMounted, Mounted
<1>15. RowsAreOwn'
  <2>1. Elements(PanelAfter') = Elements(PanelAfter) \cup Elements(publication.items)
    BY <1>4, <1>8, ElementsOfBoth
  <2>2. QED  BY <1>1, <1>2, <1>3, <1>5, <2>1 DEF ViewInv, RowsAreOwn, Current
<1>16. RowsAreKept'
  <2>1. SUFFICES ASSUME scrolling, ~screen.failed
                 PROVE  PanelAfter' \o <<>> = delivered
    BY <1>2, <1>3, <1>5, ViewConstants DEF RowsAreKept
  <2>2. PanelAfter' = delivered /\ delivered \in Seq(ViewBoards)
    BY <1>1, <1>2, <1>8, <2>1 DEF ViewInv, ViewTypes, RowsAreKept
  <2>3. QED  BY <2>2
<1>17. BoardIsKept'
  <2>1. SUFFICES ASSUME ~screen.failed
                 PROVE  screen'.board = BoardOf(live)
    BY <1>3, <1>5 DEF BoardIsKept
  <2>2. BoardOf(live) # NoBoard
    BY <1>1, BoardFacts DEF ViewInv, ViewTypes
  <2>3. QED  BY <1>1, <1>2, <1>5, <2>1, <2>2 DEF ViewInv, BoardIsKept
<1>18. QED
  BY <1>9, <1>11, <1>12, <1>13, <1>14, <1>15, <1>16, <1>17 DEF ViewInv

\* A callback only does what all of them together were going to do.
LEMMA TickStep == ViewInv /\ RunTick => ViewInv'
<1>1. SUFFICES ASSUME ViewInv, RunTick
               PROVE  ViewInv'
  OBVIOUS
<1>. DEFINE first == AfterTick(panel, Head(ticks), live.generation)
            rest == Tail(ticks)
<1>2. /\ UNCHANGED <<scrolling, page, signature, live, screen, publication, delivered>>
      /\ ticks # <<>> /\ ticks' = rest
      /\ panel' = IF Mounted(page, screen) THEN first ELSE <<>>
  BY <1>1 DEF RunTick, Render
<1>3. /\ panel \in Seq(ViewBoards) /\ ticks \in Seq(Ticks) /\ Head(ticks) \in Ticks
      /\ Head(ticks) = ticks[1] /\ 1 \in 1 .. Len(ticks)
      /\ rest \in Seq(Ticks) /\ Len(rest) \in Nat /\ Len(ticks) = Len(rest) + 1
      /\ \A i \in 1 .. Len(rest) : rest[i] = ticks[i + 1]
  BY <1>1, <1>2 DEF ViewInv, ViewTypes
<1>4. first \in Seq(ViewBoards)
  BY <1>3, TickType
<1>5. AfterTicks(first, rest, live.generation) = PanelAfter
  BY <1>2, <1>3, TicksShift DEF PanelAfter
<1>6. ~Mounted(page, screen) => panel = <<>>
  BY <1>1 DEF ViewInv, PanelIsMounted
<1>. HIDE DEF first, rest
<1>7. \A i \in 1 .. Len(rest) : i + 1 \in 1 .. Len(ticks) /\ rest[i] = ticks[i + 1]
  BY <1>3
<1>8. ViewTypes'
  BY <1>1, <1>2, <1>3, <1>4, ViewConstants DEF ViewInv, ViewTypes
<1>9. WaitingIsOwn'
  BY <1>1, <1>2, <1>7 DEF ViewInv, WaitingIsOwn, Current, BoardOf
<1>10. BlankIsEmpty' /\ SessionHasContest'
  BY <1>1, <1>2, <1>7 DEF ViewInv, BlankIsEmpty, SessionHasContest
<1>11. PanelIsMounted' /\ BoardIsKept'
  BY <1>1, <1>2 DEF ViewInv, PanelIsMounted, BoardIsKept, Mounted
<1>12. PanelAfter' = AfterTicks(panel', rest, live.generation)
  BY <1>2 DEF PanelAfter
<1>13. RowsAreOwn'
  <2>1. Elements(PanelAfter') \subseteq Elements(PanelAfter)
    <3>1. CASE Mounted(page, screen)
      BY <1>2, <1>5, <1>12, <3>1
    <3>2. CASE ~Mounted(page, screen)
      BY <1>2, <1>3, <1>4, <1>5, <1>12, <3>2, TicksFromNothing
    <3>3. QED  BY <3>1, <3>2
  <2>2. QED  BY <1>1, <1>2, <2>1 DEF ViewInv, RowsAreOwn, Current
<1>14. RowsAreKept'
  <2>1. SUFFICES ASSUME scrolling, live.consumer # "none", ~screen.failed
                 PROVE  PanelAfter' = PanelAfter
    BY <1>1, <1>2 DEF ViewInv, RowsAreKept
  <2>2. CASE Mounted(page, screen)
    BY <1>2, <1>5, <1>12, <2>2
  <2>3. CASE ~Mounted(page, screen)
    <3>1. screen.board = NoBoard
      BY <1>1, <2>1, <2>3 DEF Mounted, ViewInv, SessionHasContest
    <3>2. \A i \in 1 .. Len(ticks) : ticks[i].generation # live.generation
      BY <1>1, <2>1, <3>1 DEF ViewInv, BlankIsEmpty
    <3>3. first = <<>>
      BY <1>3, <1>6, <2>3, <3>2 DEF first, AfterTick
    <3>4. QED  BY <1>2, <1>5, <1>12, <2>3, <3>3
  <2>4. QED  BY <2>2, <2>3
<1>15. QED
  BY <1>8, <1>9, <1>10, <1>11, <1>13, <1>14 DEF ViewInv

\* Every step of the page keeps what it needs to show and to queue.
LEMMA ViewKept == ViewInv /\ [ViewNext]_viewVars => ViewInv'
<1>1. SUFFICES ASSUME ViewInv, [ViewNext]_viewVars
               PROVE  ViewInv'
  OBVIOUS
<1>2. CASE \E p \in [key : Keys, data : Keys \cup {NoKey}] : ChangePage(p)
  BY <1>1, <1>2, PageStep
<1>3. CASE SyncLiveState
  BY <1>1, <1>3, SyncStep
<1>4. CASE LeavePage
  BY <1>1, <1>4, LeaveStep
<1>5. CASE InitialBatch \/ FinishInitialEvents
  BY <1>1, <1>5, InitialSteps
<1>6. CASE DeliverReset
  BY <1>1, <1>6, ResetStep
<1>7. CASE DeliverFatal
  BY <1>1, <1>7, FailureStep DEF DeliverFatal
<1>8. CASE \E rolls \in BOOLEAN : DeliverLive(rolls)
  BY <1>1, <1>8, LiveStep
<1>9. CASE PublishFrame
  BY <1>1, <1>9, FrameStep
<1>10. CASE RunTick
  BY <1>1, <1>10, TickStep
<1>11. CASE TickThrows
  BY <1>1, <1>11, FailureStep DEF TickThrows
<1>12. CASE UNCHANGED viewVars
  <2>1. PanelAfter' = PanelAfter
    BY <1>12 DEF viewVars, PanelAfter
  <2>2. QED
    BY <1>1, <1>12, <2>1
       DEF viewVars, ViewInv, ViewTypes, WaitingIsOwn, BlankIsEmpty, SessionHasContest,
           PanelIsMounted, RowsAreOwn, RowsAreKept, BoardIsKept, Mounted, Current,
           BoardOf
<1>13. QED
  BY <1>1, <1>2, <1>3, <1>4, <1>5, <1>6, <1>7, <1>8, <1>9, <1>10, <1>11, <1>12 DEF ViewNext

\* The invariant of the page holds always.
LEMMA ViewInductive == ViewSpec => []ViewInv
BY ViewStarts, ViewKept, PTL DEF ViewSpec

\* Range of a sequence is the set of its elements.
LEMMA RangeIsElements ==
  ASSUME NEW S, NEW s \in Seq(S)
  PROVE  Range(s) = Elements(s) /\ Elements(s) \subseteq S
BY DEF Range, Elements

\* The values of the page's variables have their types (live.view.vue's refs and fields).
THEOREM ViewTypeCorrect == ViewSpec => []ViewTypeOK
<1>1. ViewInv => ViewTypeOK
  <2>1. SUFFICES ASSUME ViewInv
                 PROVE  ViewTypeOK
    OBVIOUS
  <2>2. ViewTypes
    BY <2>1 DEF ViewInv
  <2>3. Range(panel) \cup Range(delivered) \cup Range(publication.items) \subseteq ViewBoards
    BY <2>2, RangeIsElements DEF ViewTypes
  <2>4. Range(ticks) \subseteq Ticks
    BY <2>2, RangeIsElements DEF ViewTypes
  <2>5. \A t \in Range(ticks) :
          t.kind \in {"push", "reset"} /\ Range(t.items) \subseteq ViewBoards
    BY <2>4, RangeIsElements DEF Ticks
  <2>6. BoardOf(live) \in ViewBoards
    BY <2>2, BoardFacts DEF ViewTypes
  <2>7. QED  BY <2>2, <2>3, <2>5, <2>6 DEF ViewTypes, ViewTypeOK
<1>2. QED  BY <1>1, ViewInductive, PTL

\* queueLivePublication, onReset, stopLiveSession: whatever frames, ticks, resets and other
\* sessions come in between, the page shows the newest board and every row of the current
\* revision once and in order, and nothing of an earlier session or revision.
THEOREM ScreenFollows == ViewSpec => []ScreenFollowsStream
<1>1. ViewInv => ScreenFollowsStream
  <2>1. SUFFICES ASSUME ViewInv
                 PROVE  ScreenFollowsStream
    OBVIOUS
  <2>2. PanelAfter \in Seq(ViewBoards) /\ publication.items \in Seq(ViewBoards)
    BY <2>1, PanelAfterType DEF ViewInv, ViewTypes
  <2>3. /\ Range(PanelAfter) = Elements(PanelAfter)
        /\ Range(publication.items) = Elements(publication.items)
    BY <2>2, RangeIsElements
  <2>4. NothingStale
    <3>1. Current(BoardOf(live))
      BY <2>1, BoardFacts DEF ViewInv, ViewTypes, Current
    <3>2. QED
      BY <2>1, <2>3, <3>1, ViewConstants DEF NothingStale, ViewInv, WaitingIsOwn, RowsAreOwn
  <2>5. OwnContest
    BY <2>1 DEF OwnContest, ViewInv, SessionHasContest, ViewTypes
  <2>6. NothingWithheld
    <3>1. SUFFICES ASSUME live.consumer = "live", ~screen.failed
                   PROVE  NothingWithheld
      BY DEF NothingWithheld
    <3>2. BoardOf(live) # NoBoard
      BY <2>1, BoardFacts DEF ViewInv, ViewTypes
    <3>3. QED
      BY <2>1, <3>1, <3>2, ViewConstants
         DEF NothingWithheld, ViewInv, WaitingIsOwn, RowsAreKept, BoardIsKept
  <2>7. QED  BY <2>4, <2>5, <2>6 DEF ScreenFollowsStream
<1>2. QED  BY <1>1, ViewInductive, PTL

----------------------------------------------------------------------------
(* The rows that scroll by. *)

\* Items, what can be said of the screen, and the fields of the queue.
Items == [key : Nat \ {0}, row : Nat]

ScreenType == [items : Seq(Items), set : SUBSET Nat, byKey : SUBSET Nat, key : Nat \ {0}]

LaneType == [queue : Seq(Nat), head : Nat, running : BOOLEAN, timer : BOOLEAN]

\* What is shown are rows up to last; each has one timer, and the newer the greater key.
ScreenOK(s, last) ==
  /\ s \in ScreenType
  /\ s.set = KeysOf(s.items) /\ s.byKey = s.set
  /\ \A i \in 1 .. Len(s.items) : s.items[i].key < s.key /\ s.items[i].row \in 1 .. last
  /\ \A i, j \in 1 .. Len(s.items) : i < j => s.items[i].key < s.items[j].key

\* What is shown has its place.
Fits(items) ==
  \A limit \in PopLimits : (\A other \in PopLimits : other <= limit) => Len(items) <= limit

\* The queue has rows up to last, the pending ones are rest, in order.
LaneOK(l, rest, last) ==
  /\ l \in LaneType /\ l.head <= Len(l.queue)
  /\ \A i \in 1 .. Len(l.queue) : l.queue[i] \in 1 .. last
  /\ ToSet(Pending(l)) = rest
  /\ \A i, j \in 1 .. Len(Pending(l)) : i < j => Pending(l)[i] < Pending(l)[j]

\* The inductive invariant of the scroll queue: a key has been spent on no row twice, nor on
\* one that is pending, and there is a timer of the queue when something is pending.
ScrollInv ==
  /\ pushed \in 0 .. MaxRows /\ gone \subseteq 1 .. pushed
  /\ ScreenOK(Screen, pushed) /\ Fits(visible)
  /\ LaneOK(lane, (1 .. pushed) \ gone, pushed)
  /\ nextKey + Len(Pending(lane)) <= pushed + 1
  /\ laneTimers = (IF lane.timer THEN 1 ELSE 0)
  /\ lane.timer <=> lane.running /\ Pending(lane) # <<>>

\* What is pending is the queue from its head.
LEMMA PendingFacts ==
  ASSUME NEW l \in LaneType, l.head <= Len(l.queue)
  PROVE  /\ Pending(l) \in Seq(Nat) /\ Len(Pending(l)) = Len(l.queue) - l.head
         /\ Len(Pending(l)) \in Nat /\ l.head \in Nat /\ Len(l.queue) \in Nat
         /\ \A i \in 1 .. Len(Pending(l)) : Pending(l)[i] = l.queue[l.head + i]
         /\ ToSet(Pending(l)) = {Pending(l)[i] : i \in 1 .. Len(Pending(l))}
<1>. DEFINE q == l.queue
            h == l.head
            p == SubSeq(q, h + 1, Len(q))
<1>1. /\ q \in Seq(Nat) /\ h \in Nat /\ h <= Len(q) /\ Len(q) \in Nat
      /\ Pending(l) = p
  BY DEF LaneType, Pending
<1>. HIDE DEF q, h
<1>2. /\ p \in Seq(Nat) /\ Len(p) = Len(q) - h
      /\ \A i \in 1 .. Len(q) - h : p[i] = q[h + i]
  <2>1. \A i \in h + 1 .. Len(q) : q[i] \in Nat
    BY <1>1
  <2>2. /\ p \in Seq(Nat) /\ Len(p) = IF h + 1 <= Len(q) THEN Len(q) - (h + 1) + 1 ELSE 0
        /\ \A i \in 1 .. Len(q) - (h + 1) + 1 : p[i] = q[(h + 1) + i - 1]
    <3>. DEFINE m == h + 1
    <3>1. m \in Int /\ Len(q) \in Int /\ p = SubSeq(q, m, Len(q))
      BY <1>1
    <3>2. \A i \in m .. Len(q) : q[i] \in Nat
      BY <2>1
    <3>. HIDE DEF m, p
    <3>3. /\ p \in Seq(Nat) /\ Len(p) = IF m <= Len(q) THEN Len(q) - m + 1 ELSE 0
          /\ \A i \in 1 .. Len(q) - m + 1 : p[i] = q[m + i - 1]
      BY <3>1, <3>2, SubSeqProperties
    <3>4. QED  BY <3>3 DEF m
  <2>. HIDE DEF p
  <2>3. Len(p) = Len(q) - h
    BY <1>1, <2>2
  <2>4. ASSUME NEW i \in 1 .. Len(q) - h
        PROVE  p[i] = q[h + i]
    <3>1. i \in 1 .. Len(q) - (h + 1) + 1 /\ (h + 1) + i - 1 = h + i
      BY <1>1
    <3>2. QED  BY <2>2, <3>1
  <2>5. QED  BY <2>2, <2>3, <2>4
<1>. HIDE DEF p
<1>3. DOMAIN p = 1 .. Len(p)
  BY <1>2
<1>4. Len(p) \in Nat
  BY <1>2
<1>5. QED  BY <1>1, <1>2, <1>3, <1>4 DEF ToSet, q, h

\* A row that is shown takes its place and a timer; those that lose theirs lose both.
LEMMA PoppedFacts ==
  ASSUME NEW last \in Nat, NEW s, ScreenOK(s, last), NEW row \in 1 .. last,
         NEW limit \in Nat \ {0}
  PROVE  /\ ScreenOK(Popped(s, row, limit), last)
         /\ Popped(s, row, limit).key = s.key + 1
         /\ Len(Popped(s, row, limit).items) <= limit
<1>. DEFINE new == [key |-> s.key, row |-> row]
            items == Append(s.items, new)
            drop == IF Len(items) > limit THEN Len(items) - limit ELSE 0
            kept == SubSeq(items, 1 + drop, Len(items))
            p == Popped(s, row, limit)
<1>1. /\ s \in ScreenType /\ s.items \in Seq(Items) /\ s.key \in Nat /\ s.key # 0
      /\ s.set = KeysOf(s.items) /\ s.byKey = s.set /\ row \in Nat /\ Len(s.items) \in Nat
      /\ DOMAIN s.items = 1 .. Len(s.items)
      /\ \A i \in 1 .. Len(s.items) : s.items[i].key < s.key /\ s.items[i].row \in 1 .. last
      /\ \A i, j \in 1 .. Len(s.items) : i < j => s.items[i].key < s.items[j].key
  BY DEF ScreenOK, ScreenType
<1>2. new \in Items
  BY <1>1 DEF Items
<1>3. /\ items \in Seq(Items) /\ Len(items) = Len(s.items) + 1
      /\ \A i \in 1 .. Len(s.items) : items[i] = s.items[i]
      /\ items[Len(s.items) + 1] = new
  BY <1>1, <1>2
<1>4. /\ p.items = kept /\ p.key = s.key + 1
      /\ p.set = (s.set \ (KeysOf(s.items) \ KeysOf(kept))) \cup {s.key}
      /\ p.byKey = (s.byKey \ (KeysOf(s.items) \ KeysOf(kept))) \cup {s.key}
      /\ p = [items |-> p.items, set |-> p.set, byKey |-> p.byKey, key |-> p.key]
  BY DEF Popped, Dropped
<1>. HIDE DEF items, p
<1>5. drop \in Nat /\ drop < Len(items) /\ Len(items) - drop <= limit
  BY <1>1, <1>3
<1>. HIDE DEF drop
<1>6. /\ kept \in Seq(Items) /\ Len(kept) = Len(items) - drop
      /\ DOMAIN kept = 1 .. Len(kept)
      /\ \A i \in 1 .. Len(kept) : kept[i] = items[i + drop]
  <2>1. kept \in Seq(Items) /\ Len(kept) = Len(items) - drop
    BY <1>1, <1>3, <1>5
  <2>2. ASSUME NEW i \in 1 .. Len(items) - drop
        PROVE  kept[i] = items[i + drop]
    BY <1>1, <1>3, <1>5
  <2>. HIDE DEF kept
  <2>3. QED  BY <2>1, <2>2
<1>. HIDE DEF kept
<1>7. \A i \in 1 .. Len(kept) : i + drop \in 1 .. Len(items)
  BY <1>1, <1>3, <1>5, <1>6
<1>. HIDE DEF new
<1>8. kept[Len(kept)] = new /\ Len(kept) \in 1 .. Len(kept)
  <2>1. Len(kept) \in 1 .. Len(kept) /\ Len(kept) + drop = Len(s.items) + 1
    BY <1>1, <1>3, <1>5, <1>6
  <2>2. kept[Len(kept)] = items[Len(kept) + drop]
    BY <1>6, <2>1
  <2>3. QED  BY <1>3, <2>1, <2>2
<1>9. new.key = s.key /\ new.row = row
  BY DEF new
<1>10. /\ \A i \in 1 .. Len(items) : items[i].key < s.key + 1 /\ items[i].row \in 1 .. last
       /\ \A i, j \in 1 .. Len(items) : i < j => items[i].key < items[j].key
  <2>1. \A i \in 1 .. Len(items) : i \in 1 .. Len(s.items) \/ i = Len(s.items) + 1
    BY <1>1, <1>3
  <2>2. \A i \in 1 .. Len(s.items) : s.items[i] \in Items
    BY <1>1
  <2>3. \A i \in 1 .. Len(s.items) : s.items[i].key \in Nat
    BY <2>2 DEF Items
  <2>4. \A i \in 1 .. Len(items) : items[i].key < s.key + 1 /\ items[i].row \in 1 .. last
    <3>1. \A i \in 1 .. Len(s.items) : s.items[i].key < s.key + 1
      BY <1>1, <2>3
    <3>2. s.key < s.key + 1
      BY <1>1
    <3>3. QED  BY <1>1, <1>3, <1>9, <2>1, <3>1, <3>2
  <2>5. SUFFICES ASSUME NEW i \in 1 .. Len(items), NEW j \in 1 .. Len(items), i < j
                 PROVE  items[i].key < items[j].key
    BY <2>4
  <2>6. i \in 1 .. Len(s.items)
    BY <1>1, <1>3, <2>5
  <2>7. QED  BY <1>1, <1>3, <1>9, <2>1, <2>5, <2>6
<1>11. /\ \A i \in 1 .. Len(kept) : kept[i].key < s.key + 1 /\ kept[i].row \in 1 .. last
       /\ \A i, j \in 1 .. Len(kept) : i < j => kept[i].key < kept[j].key
  <2>1. \A i \in 1 .. Len(kept) : kept[i].key < s.key + 1 /\ kept[i].row \in 1 .. last
    BY <1>6, <1>7, <1>10
  <2>2. \A i, j \in 1 .. Len(kept) : i < j => i + drop < j + drop
    BY <1>5, <1>6
  <2>3. \A i, j \in 1 .. Len(kept) : i < j => kept[i].key < kept[j].key
    BY <1>6, <1>7, <1>10, <2>2
  <2>4. QED  BY <2>1, <2>3
<1>12. KeysOf(kept) \subseteq KeysOf(s.items) \cup {s.key} /\ s.key \in KeysOf(kept)
  <2>1. \A i \in 1 .. Len(items) : i \in 1 .. Len(s.items) \/ i = Len(s.items) + 1
    BY <1>1, <1>3
  <2>2. \A i \in 1 .. Len(s.items) : s.items[i].key \in KeysOf(s.items)
    BY <1>1 DEF KeysOf
  <2>3. \A i \in 1 .. Len(items) : items[i].key \in KeysOf(s.items) \cup {s.key}
    BY <1>3, <1>9, <2>1, <2>2
  <2>4. \A i \in 1 .. Len(kept) : kept[i].key \in KeysOf(s.items) \cup {s.key}
    BY <1>6, <1>7, <2>3
  <2>5. KeysOf(kept) \subseteq KeysOf(s.items) \cup {s.key}
    BY <1>6, <2>4 DEF KeysOf
  <2>6. kept[Len(kept)].key = s.key /\ Len(kept) \in DOMAIN kept
    BY <1>6, <1>8, <1>9
  <2>7. s.key \in KeysOf(kept)
    BY <2>6 DEF KeysOf
  <2>8. QED  BY <2>5, <2>7
<1>13. p.set = KeysOf(kept) /\ p.byKey = KeysOf(kept)
  BY <1>1, <1>4, <1>12
<1>14. KeysOf(kept) \subseteq Nat
  <2>1. \A i \in 1 .. Len(kept) : kept[i] \in Items
    BY <1>6
  <2>2. \A i \in 1 .. Len(kept) : kept[i].key \in Nat
    BY <2>1 DEF Items
  <2>3. QED  BY <1>6, <2>2 DEF KeysOf
<1>15. p \in ScreenType
  BY <1>1, <1>4, <1>6, <1>13, <1>14 DEF ScreenType
<1>16. ScreenOK(p, last)
  BY <1>1, <1>4, <1>11, <1>13, <1>15 DEF ScreenOK
<1>17. Len(p.items) <= limit
  BY <1>4, <1>5, <1>6
<1>18. QED  BY <1>4, <1>16, <1>17 DEF p

\* A row that is queued waits behind the others.
LEMMA QueuedFacts ==
  ASSUME NEW last \in Nat, NEW rest \in SUBSET (1 .. last), NEW l, LaneOK(l, rest, last)
  PROVE  LET m == Enqueued(l, last + 1)
         IN  /\ LaneOK(m, rest \cup {last + 1}, last + 1)
             /\ Len(Pending(m)) = Len(Pending(l)) + 1
             /\ m.running = l.running /\ m.timer = l.timer
<1>. DEFINE consumed == l.head = Len(l.queue)
            q == IF consumed THEN <<>> ELSE l.queue
            h == IF consumed THEN 0 ELSE l.head
            m == Enqueued(l, last + 1)
<1>1. /\ l \in LaneType /\ l.head \in Nat /\ l.queue \in Seq(Nat) /\ l.head <= Len(l.queue)
      /\ Len(l.queue) \in Nat
      /\ \A i \in 1 .. Len(l.queue) : l.queue[i] \in 1 .. last
  BY DEF LaneOK, LaneType
<1>2. /\ q \in Seq(Nat) /\ h \in Nat /\ Len(q) \in Nat /\ h <= Len(q)
      /\ Len(q) - h = Len(l.queue) - l.head
      /\ \A i \in 1 .. Len(q) - h : q[h + i] = l.queue[l.head + i]
      /\ \A i \in 1 .. Len(q) : q[i] \in 1 .. last
  BY <1>1
<1>. HIDE DEF q, h
<1>. DEFINE more == Append(q, last + 1)
<1>3. /\ more \in Seq(Nat) /\ Len(more) = Len(q) + 1
      /\ \A i \in 1 .. Len(q) : more[i] = q[i]
      /\ more[Len(q) + 1] = last + 1
  BY <1>2
<1>. HIDE DEF more
<1>4. /\ m \in LaneType /\ m.queue = more /\ m.head = h
      /\ m.running = l.running /\ m.timer = l.timer
  <2>1. m = [l EXCEPT !.queue = more, !.head = h]
    BY DEF Enqueued, more, q, h
  <2>. HIDE DEF m
  <2>2. QED  BY <1>1, <1>2, <1>3, <2>1 DEF LaneType
<1>. HIDE DEF m
<1>5. m.head <= Len(m.queue)
  BY <1>2, <1>3, <1>4
<1>6. /\ Pending(m) \in Seq(Nat) /\ Len(Pending(m)) = Len(q) + 1 - h
      /\ \A i \in 1 .. Len(Pending(m)) : Pending(m)[i] = more[h + i]
      /\ ToSet(Pending(m)) = {Pending(m)[i] : i \in 1 .. Len(Pending(m))}
  <2>1. /\ Pending(m) \in Seq(Nat) /\ Len(Pending(m)) = Len(m.queue) - m.head
        /\ \A i \in 1 .. Len(Pending(m)) : Pending(m)[i] = m.queue[m.head + i]
        /\ ToSet(Pending(m)) = {Pending(m)[i] : i \in 1 .. Len(Pending(m))}
    BY <1>4, <1>5, PendingFacts
  <2>2. m.queue = more /\ m.head = h /\ Len(m.queue) = Len(q) + 1
    BY <1>3, <1>4
  <2>3. \A i \in 1 .. Len(Pending(m)) : Pending(m)[i] = more[h + i]
    BY <2>1, <2>2
  <2>4. Len(Pending(m)) = Len(q) + 1 - h
    BY <1>2, <2>1, <2>2
  <2>5. QED  BY ONLY <2>1, <2>3, <2>4
<1>7. /\ Pending(l) \in Seq(Nat) /\ Len(Pending(l)) = Len(q) - h
      /\ \A i \in 1 .. Len(Pending(l)) : Pending(l)[i] = q[h + i]
      /\ ToSet(Pending(l)) = {Pending(l)[i] : i \in 1 .. Len(Pending(l))}
  BY <1>1, <1>2, PendingFacts
<1>8. Len(Pending(m)) = Len(Pending(l)) + 1 /\ Len(Pending(l)) \in Nat
  BY <1>2, <1>6, <1>7
<1>9. \A i \in 1 .. Len(Pending(l)) : Pending(m)[i] = Pending(l)[i]
  <2>1. \A i \in 1 .. Len(Pending(l)) : i \in 1 .. Len(Pending(m)) /\ h + i \in 1 .. Len(q)
    BY <1>2, <1>7, <1>8
  <2>2. QED  BY <1>3, <1>6, <1>7, <2>1
<1>10. Pending(m)[Len(Pending(l)) + 1] = last + 1
  <2>1. /\ Len(Pending(l)) + 1 \in 1 .. Len(Pending(m))
        /\ h + (Len(Pending(l)) + 1) = Len(q) + 1
    BY <1>2, <1>7, <1>8
  <2>2. Pending(m)[Len(Pending(l)) + 1] = more[h + (Len(Pending(l)) + 1)]
    BY <1>6, <2>1
  <2>3. QED  BY <1>3, <2>1, <2>2
<1>11. /\ ToSet(Pending(l)) = rest
       /\ \A i, j \in 1 .. Len(Pending(l)) : i < j => Pending(l)[i] < Pending(l)[j]
  BY DEF LaneOK
<1>12. \A i \in 1 .. Len(Pending(m)) :
         i \in 1 .. Len(Pending(l)) \/ i = Len(Pending(l)) + 1
  BY <1>8
<1>13. ToSet(Pending(m)) = rest \cup {last + 1}
  <2>1. \A i \in 1 .. Len(Pending(l)) : i \in 1 .. Len(Pending(m))
    BY <1>8
  <2>2. Len(Pending(l)) + 1 \in 1 .. Len(Pending(m))
    BY <1>8
  <2>3. \A i \in 1 .. Len(Pending(m)) : Pending(m)[i] \in rest \cup {last + 1}
    BY <1>7, <1>9, <1>10, <1>11, <1>12
  <2>4. \A r \in rest : \E i \in 1 .. Len(Pending(m)) : Pending(m)[i] = r
    BY <1>7, <1>9, <1>11, <2>1
  <2>5. \E i \in 1 .. Len(Pending(m)) : Pending(m)[i] = last + 1
    BY <1>10, <2>2
  <2>6. ToSet(Pending(m)) \subseteq rest \cup {last + 1}
    BY <1>6, <2>3
  <2>7. rest \cup {last + 1} \subseteq ToSet(Pending(m))
    BY <1>6, <2>4, <2>5
  <2>8. QED  BY <2>6, <2>7
<1>14. \A i \in 1 .. Len(Pending(l)) : Pending(l)[i] \in 1 .. last
  BY <1>7, <1>11
<1>15. \A i, j \in 1 .. Len(Pending(m)) : i < j => Pending(m)[i] < Pending(m)[j]
  <2>. TAKE i, j \in 1 .. Len(Pending(m))
  <2>1. SUFFICES ASSUME i < j
                 PROVE  Pending(m)[i] < Pending(m)[j]
    OBVIOUS
  <2>2. i \in 1 .. Len(Pending(l))
    BY <1>8, <2>1
  <2>3. CASE j \in 1 .. Len(Pending(l))
    BY <1>9, <1>11, <2>1, <2>2, <2>3
  <2>4. CASE j = Len(Pending(l)) + 1
    BY <1>9, <1>10, <1>14, <2>2, <2>4
  <2>5. QED  BY <1>12, <2>3, <2>4
<1>16. \A i \in 1 .. Len(m.queue) : m.queue[i] \in 1 .. last + 1
  <2>1. \A i \in 1 .. Len(m.queue) : i \in 1 .. Len(q) \/ i = Len(q) + 1
    BY <1>2, <1>3, <1>4
  <2>2. last + 1 \in 1 .. last + 1 /\ 1 .. last \subseteq 1 .. last + 1
    OBVIOUS
  <2>3. QED  BY <1>2, <1>3, <1>4, <2>1, <2>2
<1>17. LaneOK(m, rest \cup {last + 1}, last + 1)
  BY <1>4, <1>5, <1>13, <1>15, <1>16 DEF LaneOK
<1>18. QED  BY <1>4, <1>8, <1>17 DEF m

\* One row more on the screen or in the queue, and one key or one pending row more.
LEMMA PushRowFacts ==
  ASSUME NEW last \in Nat, NEW rest \in SUBSET (1 .. last), NEW s,
         s = [lane |-> s.lane, screen |-> s.screen],
         ScreenOK(s.screen, last), Fits(s.screen.items), LaneOK(s.lane, rest, last),
         NEW first \in BOOLEAN, NEW limit \in PopLimits
  PROVE  LET t == PushRow(s, last + 1, first, limit)
         IN  /\ t = [lane |-> t.lane, screen |-> t.screen]
             /\ ScreenOK(t.screen, last + 1) /\ Fits(t.screen.items)
             /\ LaneOK(t.lane, IF first THEN rest ELSE rest \cup {last + 1}, last + 1)
             /\ t.lane.running = s.lane.running /\ t.lane.timer = s.lane.timer
             /\ t.screen.key + Len(Pending(t.lane))
                  = s.screen.key + Len(Pending(s.lane)) + 1
<1>. DEFINE t == PushRow(s, last + 1, first, limit)
<1>1. /\ limit \in Nat \ {0} /\ s.screen.key \in Nat /\ Len(Pending(s.lane)) \in Nat
      /\ last + 1 \in 1 .. last + 1
  <2>1. s.lane \in LaneType /\ s.lane.head <= Len(s.lane.queue)
    BY DEF LaneOK
  <2>2. s.screen \in ScreenType
    BY DEF ScreenOK
  <2>3. QED  BY <2>1, <2>2, PendingFacts, ScrollAssumption DEF ScreenType
<1>2. ScreenOK(s.screen, last + 1)
  <2>1. 1 .. last \subseteq 1 .. last + 1
    OBVIOUS
  <2>2. QED  BY <2>1 DEF ScreenOK
<1>3. CASE first
  <2>. DEFINE p == Popped(s.screen, last + 1, limit)
  <2>1. t = [lane |-> s.lane, screen |-> p]
    BY <1>3 DEF PushRow
  <2>2. ScreenOK(p, last + 1) /\ p.key = s.screen.key + 1 /\ Len(p.items) <= limit
    BY <1>1, <1>2, PoppedFacts
  <2>. HIDE DEF p, t
  <2>3. t.lane = s.lane /\ t.screen = p
    BY <2>1
  <2>4. LaneOK(s.lane, rest, last + 1)
    <3>1. 1 .. last \subseteq 1 .. last + 1
      OBVIOUS
    <3>2. QED  BY <3>1 DEF LaneOK
  <2>5. Fits(p.items)
    <3>1. p.items \in Seq(Items)
      BY <2>2 DEF ScreenOK, ScreenType
    <3>2. Len(p.items) \in Nat /\ \A other \in PopLimits : other \in Nat
      BY <3>1, ScrollAssumption
    <3>3. QED  BY <1>1, <2>2, <3>2 DEF Fits
  <2>6. t.screen.key + Len(Pending(t.lane)) = s.screen.key + Len(Pending(s.lane)) + 1
    BY <1>1, <2>2, <2>3
  <2>7. QED  BY <1>3, <2>1, <2>2, <2>3, <2>4, <2>5, <2>6 DEF t
<1>4. CASE ~first
  <2>. DEFINE m == Enqueued(s.lane, last + 1)
  <2>1. t = [lane |-> m, screen |-> s.screen]
    BY <1>4 DEF PushRow
  <2>2. /\ LaneOK(m, rest \cup {last + 1}, last + 1)
        /\ Len(Pending(m)) = Len(Pending(s.lane)) + 1
        /\ m.running = s.lane.running /\ m.timer = s.lane.timer
    BY QueuedFacts
  <2>. HIDE DEF m, t
  <2>3. t.lane = m /\ t.screen = s.screen
    BY <2>1
  <2>4. t.screen.key + Len(Pending(t.lane)) = s.screen.key + Len(Pending(s.lane)) + 1
    BY <1>1, <2>2, <2>3
  <2>5. QED  BY <1>2, <1>4, <2>1, <2>2, <2>3, <2>4 DEF t
<1>5. QED  BY <1>3, <1>4

\* What is shown and queued has its type, whatever is popped and pushed.
LEMMA PoppedType ==
  ASSUME NEW s \in ScreenType, NEW row \in Nat, NEW limit \in Nat \ {0}
  PROVE  Popped(s, row, limit) \in ScreenType
<1>. DEFINE items == Append(s.items, [key |-> s.key, row |-> row])
            drop == IF Len(items) > limit THEN Len(items) - limit ELSE 0
            kept == SubSeq(items, 1 + drop, Len(items))
            dropped == Dropped(s, kept)
<1>1. items \in Seq(Items) /\ Len(items) \in Nat
  BY DEF ScreenType, Items
<1>. HIDE DEF items
<1>2. drop \in Nat
  BY <1>1
<1>. HIDE DEF drop
<1>3. kept \in Seq(Items)
  BY <1>1, <1>2
<1>4. Popped(s, row, limit) = [items |-> kept, set |-> (s.set \ dropped) \cup {s.key},
                               byKey |-> (s.byKey \ dropped) \cup {s.key}, key |-> s.key + 1]
  BY DEF Popped, items, drop
<1>. HIDE DEF kept, dropped
<1>5. QED  BY <1>3, <1>4 DEF ScreenType

\* And so has the queue.
LEMMA EnqueuedType ==
  ASSUME NEW l \in LaneType, NEW row \in Nat
  PROVE  Enqueued(l, row) \in LaneType
<1>1. /\ l.queue \in Seq(Nat) /\ l.head \in Nat
  BY DEF LaneType
<1>. DEFINE q == Append(IF l.head = Len(l.queue) THEN <<>> ELSE l.queue, row)
            h == IF l.head = Len(l.queue) THEN 0 ELSE l.head
<1>2. q \in Seq(Nat) /\ h \in Nat
  BY <1>1
<1>3. Enqueued(l, row) = [l EXCEPT !.queue = q, !.head = h]
  BY DEF Enqueued
<1>. HIDE DEF q, h
<1>4. QED  BY <1>2, <1>3 DEF LaneType

\* The values that the loop of pushSolutions takes.
PushedRows(count, firsts, limit) ==
  CHOOSE f : f = [n \in 0 .. count |->
                    IF n = 0 THEN [lane |-> lane, screen |-> Screen]
                    ELSE PushRow(f[n - 1], pushed + n, pushed + n \in firsts, limit)]

\* What holds after n of its rows.
AfterSome(s, n, firsts) ==
  /\ s = [lane |-> s.lane, screen |-> s.screen]
  /\ ScreenOK(s.screen, pushed + n) /\ Fits(s.screen.items)
  /\ LaneOK(s.lane, (1 .. pushed + n) \ (gone \cup firsts), pushed + n)
  /\ s.lane.running = lane.running /\ s.lane.timer = lane.timer
  /\ s.screen.key + Len(Pending(s.lane)) = nextKey + Len(Pending(lane)) + n

\* And after all of them.
LEMMA PushedFacts ==
  ASSUME ScrollInv, NEW count \in Nat, NEW limit \in PopLimits,
         NEW firsts \in SUBSET (pushed + 1 .. pushed + count)
  PROVE  AfterSome(AfterRows(count, firsts, limit), count, firsts)
<1>. DEFINE X == [lane : LaneType, screen : ScreenType]
            start == [lane |-> lane, screen |-> Screen]
            Step(s, n) == PushRow(s, pushed + n, pushed + n \in firsts, limit)
            Q(f) == f = [n \in 0 .. count |-> IF n = 0 THEN start ELSE Step(f[n - 1], n)]
            a == PushedRows(count, firsts, limit)
            T == {n \in 0 .. count : AfterSome(a[n], n, firsts)}
<1>1. AfterRows(count, firsts, limit) = a[count]
  BY DEF AfterRows, PushedRows
<1>2. pushed \in Nat /\ gone \subseteq 1 .. pushed
  BY ScrollAssumption DEF ScrollInv
<1>3. start \in X
  BY DEF ScrollInv, ScreenOK, LaneOK
<1>4. ASSUME NEW x \in X, NEW n \in 1 .. count
      PROVE  Step(x, n) \in X
  <2>1. x.lane \in LaneType /\ x.screen \in ScreenType
    OBVIOUS
  <2>2. /\ pushed + n \in Nat /\ limit \in Nat \ {0}
    BY <1>2, ScrollAssumption
  <2>3. Popped(x.screen, pushed + n, limit) \in ScreenType
    BY <2>1, <2>2, PoppedType
  <2>4. Enqueued(x.lane, pushed + n) \in LaneType
    BY <2>1, <2>2, EnqueuedType
  <2>5. QED  BY <2>3, <2>4 DEF PushRow
<1>. HIDE DEF X, start, Step
<1>5. \E f : Q(f)
  <2>. DEFINE next == [n \in 1 .. count |-> [x \in X |-> Step(x, n)]]
  <2>1. /\ next \in [1 .. count -> [X -> X]]
        /\ \A n \in 1 .. count, x \in X : next[n][x] = Step(x, n)
    BY <1>4
  <2>. HIDE DEF next
  <2>. DEFINE f == Unrolled(X, start, next, count)
  <2>2. /\ f \in [0 .. count -> X]
        /\ f[0] = start
        /\ \A n \in 1 .. count : f[n] = next[n][f[n - 1]]
    BY <1>3, <2>1, Recursion
  <2>. HIDE DEF f
  <2>3. \A n \in 1 .. count : n - 1 \in 0 .. count /\ f[n - 1] \in X
    BY <2>2
  <2>4. \A n \in 1 .. count : f[n] = Step(f[n - 1], n)
    BY <2>1, <2>2, <2>3
  <2>5. Q(f)
    BY <2>2, <2>4
  <2>6. QED  BY <2>5
<1>6. Q(a)
  <2>1. a = CHOOSE f : Q(f)
    BY DEF PushedRows, start, Step
  <2>. HIDE DEF Q, a
  <2>2. QED  BY <1>5, <2>1
<1>. HIDE DEF a
<1>7. /\ a[0] = start
      /\ \A n \in 1 .. count : a[n] = Step(a[n - 1], n)
  BY <1>6
<1>8. 0 \in T
  <2>1. (1 .. pushed + 0) \ (gone \cup firsts) = (1 .. pushed) \ gone
    BY <1>2
  <2>2. start.lane = lane /\ start.screen = Screen /\ start = [lane |-> lane, screen |-> Screen]
    BY DEF start
  <2>3. Screen.items = visible /\ Screen.key = nextKey /\ nextKey \in Nat
    BY DEF Screen, ScrollInv, ScreenOK, ScreenType
  <2>4. Len(Pending(lane)) \in Nat
    BY PendingFacts DEF ScrollInv, LaneOK
  <2>5. pushed + 0 = pushed /\ nextKey + Len(Pending(lane)) + 0 = nextKey + Len(Pending(lane))
    BY <1>2, <2>3, <2>4
  <2>6. AfterSome(start, 0, firsts)
    BY <2>1, <2>2, <2>3, <2>5 DEF AfterSome, ScrollInv
  <2>7. QED  BY <1>7, <2>6
<1>9. ASSUME NEW n \in 0 .. count, n < count, n \in T
      PROVE  n + 1 \in T
  <2>. DEFINE last == pushed + n
              rest == (1 .. last) \ (gone \cup firsts)
              s == a[n]
              first == last + 1 \in firsts
              t == PushRow(s, last + 1, first, limit)
  <2>1. n + 1 \in 1 .. count /\ last \in Nat /\ (n + 1) - 1 = n /\ pushed + (n + 1) = last + 1
    BY <1>2, <1>9
  <2>2. a[n + 1] = t
    BY <1>7, <2>1 DEF Step
  <2>3. AfterSome(s, n, firsts)
    BY <1>9
  <2>. HIDE DEF s, last, first
  <2>4. /\ s = [lane |-> s.lane, screen |-> s.screen]
        /\ ScreenOK(s.screen, last) /\ Fits(s.screen.items) /\ LaneOK(s.lane, rest, last)
        /\ s.lane.running = lane.running /\ s.lane.timer = lane.timer
        /\ s.screen.key + Len(Pending(s.lane)) = nextKey + Len(Pending(lane)) + n
    BY <2>3 DEF AfterSome, last
  <2>5. rest \in SUBSET (1 .. last) /\ first \in BOOLEAN
    BY DEF first
  <2>. HIDE DEF rest, t
  <2>6. /\ t = [lane |-> t.lane, screen |-> t.screen]
        /\ ScreenOK(t.screen, last + 1) /\ Fits(t.screen.items)
        /\ LaneOK(t.lane, IF first THEN rest ELSE rest \cup {last + 1}, last + 1)
        /\ t.lane.running = s.lane.running /\ t.lane.timer = s.lane.timer
        /\ t.screen.key + Len(Pending(t.lane)) = s.screen.key + Len(Pending(s.lane)) + 1
    BY <2>1, <2>4, <2>5, PushRowFacts DEF t
  <2>7. (IF first THEN rest ELSE rest \cup {last + 1})
          = (1 .. pushed + (n + 1)) \ (gone \cup firsts)
    <3>1. 1 .. pushed + (n + 1) = (1 .. last) \cup {last + 1}
      BY <2>1
    <3>2. last + 1 \notin gone
      BY <1>2, <2>1 DEF last
    <3>3. QED  BY <3>1, <3>2 DEF rest, first
  <2>8. t.screen.key + Len(Pending(t.lane)) = nextKey + Len(Pending(lane)) + (n + 1)
    <3>1. nextKey \in Nat /\ Len(Pending(lane)) \in Nat
      BY PendingFacts DEF ScrollInv, ScreenOK, ScreenType, LaneOK, Screen
    <3>2. QED  BY <2>4, <2>6, <3>1
  <2>9. AfterSome(t, n + 1, firsts)
    BY <2>1, <2>4, <2>6, <2>7, <2>8 DEF AfterSome
  <2>10. QED  BY <2>1, <2>2, <2>9
<1>10. count \in T
  <2>. HIDE DEF T
  <2>1. QED  BY <1>8, <1>9, UpTo
<1>11. QED  BY <1>1, <1>10

\* The values that the filter of a dismissal takes.
Undismissing(items, key) ==
  CHOOSE f : f = [n \in 0 .. Len(items) |->
                    IF n = 0 THEN <<>>
                    ELSE IF items[n].key = key THEN f[n - 1] ELSE Append(f[n - 1], items[n])]

\* What is left of the first n items.
Left(r, items, key, n) ==
  /\ r \in Seq(Items) /\ Len(r) <= n
  /\ \A i \in 1 .. Len(r) : \E j \in 1 .. n : r[i] = items[j] /\ items[j].key # key
  /\ \A j \in 1 .. n : items[j].key # key => \E i \in 1 .. Len(r) : r[i] = items[j]
  /\ \A i, j \in 1 .. Len(r) : i < j => r[i].key < r[j].key

\* An item that is not dismissed stays, in its place.
LEMMA UndismissedFacts ==
  ASSUME NEW items \in Seq(Items), NEW key,
         \A i, j \in 1 .. Len(items) : i < j => items[i].key < items[j].key
  PROVE  Left(Undismissed(items, key), items, key, Len(items))
<1>. DEFINE N == Len(items)
            X == Seq(Items)
            Step(r, n) == IF items[n].key = key THEN r ELSE Append(r, items[n])
            Q(f) == f = [n \in 0 .. N |-> IF n = 0 THEN <<>> ELSE Step(f[n - 1], n)]
            a == Undismissing(items, key)
            T == {n \in 0 .. N : Left(a[n], items, key, n)}
<1>1. N \in Nat /\ <<>> \in X /\ \A n \in 1 .. N : items[n] \in Items /\ items[n].key \in Nat
  <2>1. N \in Nat /\ <<>> \in X /\ \A n \in 1 .. N : items[n] \in Items
    OBVIOUS
  <2>2. QED  BY <2>1 DEF Items
<1>2. Undismissed(items, key) = a[N]
  BY DEF Undismissed, Undismissing
<1>3. \A x \in X, n \in 1 .. N : Step(x, n) \in X
  BY <1>1
<1>. HIDE DEF Step
<1>4. \E f : Q(f)
  <2>. HIDE DEF X, N
  <2>. DEFINE next == [n \in 1 .. N |-> [x \in X |-> Step(x, n)]]
              none == <<>>
  <2>1. /\ next \in [1 .. N -> [X -> X]]
        /\ \A n \in 1 .. N, x \in X : next[n][x] = Step(x, n)
    BY <1>3
  <2>. HIDE DEF next
  <2>. DEFINE f == Unrolled(X, none, next, N)
  <2>2. /\ f \in [0 .. N -> X]
        /\ f[0] = none
        /\ \A n \in 1 .. N : f[n] = next[n][f[n - 1]]
    <3>1. none \in X
      BY <1>1
    <3>2. N \in Nat
      BY <1>1
    <3>. HIDE DEF none
    <3>3. QED  BY ONLY <2>1, <3>1, <3>2, Recursion DEF f
  <2>. HIDE DEF f
  <2>3. \A n \in 1 .. N : n - 1 \in 0 .. N /\ f[n - 1] \in X
    BY <1>1, <2>2
  <2>4. \A n \in 1 .. N : f[n] = Step(f[n - 1], n)
    BY <2>1, <2>2, <2>3
  <2>5. Q(f)
    <3>1. N \in Nat
      BY <1>1
    <3>2. \A n \in 0 .. N : f[n] = IF n = 0 THEN none ELSE Step(f[n - 1], n)
      <4>. HIDE DEF N, none
      <4>1. QED  BY <2>2, <2>4, <3>1
    <3>3. f = [n \in 0 .. N |-> f[n]]
      BY <2>2
    <3>4. QED  BY <3>2, <3>3
  <2>6. QED  BY <2>5
<1>5. Q(a)
  <2>1. a = CHOOSE f : Q(f)
    BY DEF Undismissing, Step
  <2>. HIDE DEF Q, a
  <2>2. QED  BY <1>4, <2>1
<1>. HIDE DEF a
<1>6. a[0] = <<>> /\ \A n \in 1 .. N : a[n] = Step(a[n - 1], n)
  BY <1>1, <1>5
<1>7. 0 \in T
  <2>1. Left(<<>>, items, key, 0)
    BY DEF Left
  <2>2. QED  BY <1>1, <1>6, <2>1
<1>8. ASSUME NEW n \in 0 .. N, n < N, n \in T
      PROVE  n + 1 \in T
  <2>. DEFINE r == a[n]
              item == items[n + 1]
  <2>1. /\ n \in Nat /\ n + 1 \in 1 .. N /\ n + 1 \in 0 .. N /\ (n + 1) - 1 = n
        /\ \A j \in 1 .. n + 1 : j \in 1 .. n \/ j = n + 1
        /\ \A j \in 1 .. n : j \in 1 .. n + 1 /\ j < n + 1 /\ j \in 1 .. N
        /\ n + 1 \in 1 .. n + 1
    BY <1>1, <1>8
  <2>2. a[n + 1] = IF item.key = key THEN r ELSE Append(r, item)
    BY <1>6, <2>1 DEF Step
  <2>3. Left(r, items, key, n)
    BY <1>8
  <2>4. item \in Items /\ item.key \in Nat
    BY <1>1, <2>1
  <2>. HIDE DEF r, item
  <2>5. CASE item.key = key
    <3>1. r \in Seq(Items) /\ Len(r) <= n + 1
      BY <2>1, <2>3 DEF Left
    <3>2. Left(r, items, key, n + 1)
      BY <2>1, <2>3, <2>5, <3>1 DEF Left, item
    <3>3. QED  BY <2>1, <2>2, <2>5, <3>2
  <2>6. CASE item.key # key
    <3>. DEFINE more == Append(r, item)
    <3>1. /\ r \in Seq(Items) /\ Len(r) <= n /\ Len(r) \in Nat
          /\ \A i \in 1 .. Len(r) : \E j \in 1 .. n : r[i] = items[j] /\ items[j].key # key
          /\ \A j \in 1 .. n : items[j].key # key => \E i \in 1 .. Len(r) : r[i] = items[j]
          /\ \A i, j \in 1 .. Len(r) : i < j => r[i].key < r[j].key
      BY <2>3 DEF Left
    <3>2. /\ more \in Seq(Items) /\ Len(more) = Len(r) + 1
          /\ \A i \in 1 .. Len(r) : more[i] = r[i]
          /\ more[Len(r) + 1] = item
      BY <2>4, <3>1
    <3>. HIDE DEF more
    <3>3. /\ \A i \in 1 .. Len(more) : i \in 1 .. Len(r) \/ i = Len(r) + 1
          /\ \A i \in 1 .. Len(r) : i \in 1 .. Len(more)
          /\ Len(r) + 1 \in 1 .. Len(more) /\ Len(more) <= n + 1
      BY <2>1, <3>1, <3>2
    <3>4. \A i \in 1 .. Len(more) :
            \E j \in 1 .. n + 1 : more[i] = items[j] /\ items[j].key # key
      <4>1. \A i \in 1 .. Len(r) :
              \E j \in 1 .. n + 1 : more[i] = items[j] /\ items[j].key # key
        BY <2>1, <3>1, <3>2
      <4>2. more[Len(r) + 1] = items[n + 1] /\ items[n + 1].key # key
        BY <2>6, <3>2 DEF item
      <4>3. QED  BY <2>1, <3>3, <4>1, <4>2
    <3>5. \A j \in 1 .. n + 1 :
            items[j].key # key => \E i \in 1 .. Len(more) : more[i] = items[j]
      BY <2>1, <3>1, <3>2, <3>3 DEF item
    <3>6. \A i \in 1 .. Len(r) : r[i].key < item.key
      <4>1. \A j \in 1 .. n : items[j].key < item.key
        BY <2>1 DEF item
      <4>2. QED  BY <3>1, <4>1
    <3>7. \A i, j \in 1 .. Len(more) : i < j => more[i].key < more[j].key
      <4>1. SUFFICES ASSUME NEW i \in 1 .. Len(more), NEW j \in 1 .. Len(more), i < j
                     PROVE  more[i].key < more[j].key
        OBVIOUS
      <4>2. i \in 1 .. Len(r)
        BY <3>1, <3>2, <4>1
      <4>3. QED  BY <3>1, <3>2, <3>3, <3>6, <4>1, <4>2
    <3>8. Left(more, items, key, n + 1)
      BY <3>2, <3>3, <3>4, <3>5, <3>7 DEF Left
    <3>9. QED  BY <2>1, <2>2, <2>6, <3>8 DEF more
  <2>7. QED  BY <2>5, <2>6
<1>9. N \in T
  <2>. HIDE DEF T
  <2>1. \A n \in 0 .. N : n \in T
    BY <1>1, <1>7, <1>8, UpTo
  <2>2. QED  BY <1>1, <2>1
<1>10. QED  BY <1>2, <1>9

\* What the invariant says of screen, queue and timers, by name.
LEMMA ScrollFacts ==
  ASSUME ScrollInv
  PROVE  /\ visible \in Seq(Items) /\ timers \in SUBSET Nat /\ dismissals = timers
         /\ nextKey \in Nat \ {0} /\ timers = KeysOf(visible)
         /\ lane \in LaneType /\ lane.head <= Len(lane.queue)
         /\ Pending(lane) \in Seq(Nat) /\ Len(Pending(lane)) \in Nat
         /\ pushed \in Nat /\ laneTimers \in Nat
<1>1. Screen \in ScreenType /\ Screen.set = KeysOf(visible) /\ Screen.byKey = Screen.set
  BY DEF ScrollInv, ScreenOK, Screen
<1>2. lane \in LaneType /\ lane.head <= Len(lane.queue)
  BY DEF ScrollInv, LaneOK
<1>3. pushed \in Nat /\ laneTimers \in Nat
  BY ScrollAssumption DEF ScrollInv
<1>4. QED  BY <1>1, <1>2, <1>3, PendingFacts DEF Screen, ScreenType

\* scheduleQueue: there is a timer afterwards when there is something for it.
LEMMA ScheduleFacts ==
  ASSUME NEW l \in LaneType, l.head <= Len(l.queue), NEW set,
         set = (IF l.timer THEN 1 ELSE 0),
         l.timer => l.running /\ Pending(l) # <<>>,
         ScheduleQueue(l, set)
  PROVE  /\ lane' \in LaneType /\ Pending(lane') = Pending(l)
         /\ lane'.queue = l.queue /\ lane'.head = l.head /\ lane'.running = l.running
         /\ laneTimers' = (IF lane'.timer THEN 1 ELSE 0)
         /\ lane'.timer <=> lane'.running /\ Pending(lane') # <<>>
<1>1. l.timer \in BOOLEAN /\ l.running \in BOOLEAN
  BY DEF LaneType
<1>2. CASE l.running /\ ~l.timer /\ Pending(l) # <<>>
  <2>1. lane' = [l EXCEPT !.timer = TRUE] /\ laneTimers' = set + 1
    BY <1>2 DEF ScheduleQueue
  <2>2. /\ lane' \in LaneType /\ lane'.queue = l.queue /\ lane'.head = l.head
        /\ lane'.running = l.running /\ lane'.timer = TRUE
    BY <2>1 DEF LaneType
  <2>3. Pending(lane') = Pending(l)
    BY <2>2 DEF Pending
  <2>4. set = 0 /\ laneTimers' = 1
    BY <1>2, <2>1
  <2>5. lane'.timer <=> lane'.running /\ Pending(lane') # <<>>
    BY <1>2, <2>2, <2>3
  <2>6. QED  BY <2>2, <2>3, <2>4, <2>5
<1>3. CASE ~(l.running /\ ~l.timer /\ Pending(l) # <<>>)
  <2>1. lane' = l /\ laneTimers' = set
    BY <1>3 DEF ScheduleQueue
  <2>2. QED  BY <1>1, <1>3, <2>1
<1>4. QED  BY <1>2, <1>3

\* The queue means the same with a timer more or less.
LEMMA SameLane ==
  ASSUME NEW l, NEW m \in LaneType, NEW rest, NEW last, LaneOK(l, rest, last),
         m.queue = l.queue, m.head = l.head
  PROVE  LaneOK(m, rest, last) /\ Pending(m) = Pending(l)
<1>1. Pending(m) = Pending(l)
  BY DEF Pending
<1>2. QED  BY <1>1 DEF LaneOK

\* The head of the queue is taken.
LEMMA TakenFacts ==
  ASSUME NEW last \in Nat, NEW rest \in SUBSET (1 .. last), NEW l, LaneOK(l, rest, last),
         Pending(l) # <<>>
  PROVE  LET m == [l EXCEPT !.head = l.head + 1]
         IN  /\ Head(Pending(l)) \in rest
             /\ LaneOK(m, rest \ {Head(Pending(l))}, last)
             /\ Len(Pending(m)) = Len(Pending(l)) - 1
             /\ m.running = l.running /\ m.timer = l.timer
<1>. DEFINE m == [l EXCEPT !.head = l.head + 1]
            row == Head(Pending(l))
            N == Len(Pending(l))
<1>1. /\ l \in LaneType /\ l.head <= Len(l.queue)
      /\ \A i \in 1 .. Len(l.queue) : l.queue[i] \in 1 .. last
      /\ ToSet(Pending(l)) = rest
      /\ \A i, j \in 1 .. Len(Pending(l)) : i < j => Pending(l)[i] < Pending(l)[j]
  BY DEF LaneOK
<1>2. /\ Pending(l) \in Seq(Nat) /\ N = Len(l.queue) - l.head
      /\ N \in Nat /\ l.head \in Nat /\ Len(l.queue) \in Nat
      /\ \A i \in 1 .. N : Pending(l)[i] = l.queue[l.head + i]
      /\ ToSet(Pending(l)) = {Pending(l)[i] : i \in 1 .. N}
  BY <1>1, PendingFacts
<1>3. N # 0 /\ row = Pending(l)[1] /\ 1 \in 1 .. N
  BY <1>2
<1>4. /\ m \in LaneType /\ m.queue = l.queue /\ m.head = l.head + 1
      /\ m.running = l.running /\ m.timer = l.timer
  <2>1. l.head + 1 \in Nat
    BY <1>2
  <2>2. QED  BY <1>1, <2>1 DEF LaneType
<1>. HIDE DEF m, row
<1>5. m.head <= Len(m.queue)
  BY <1>2, <1>3, <1>4
<1>6. /\ Pending(m) \in Seq(Nat) /\ Len(Pending(m)) = Len(m.queue) - m.head
      /\ Len(Pending(m)) \in Nat
      /\ \A i \in 1 .. Len(Pending(m)) : Pending(m)[i] = m.queue[m.head + i]
      /\ ToSet(Pending(m)) = {Pending(m)[i] : i \in 1 .. Len(Pending(m))}
  BY <1>4, <1>5, PendingFacts
<1>7. Len(Pending(m)) = N - 1
  BY <1>2, <1>4, <1>6
<1>8. \A i \in 1 .. Len(Pending(m)) :
        /\ i + 1 \in 1 .. N /\ l.head + 1 + i = l.head + (i + 1) /\ 1 < i + 1
        /\ Pending(m)[i] = Pending(l)[i + 1]
  <2>. TAKE i \in 1 .. Len(Pending(m))
  <2>1. i + 1 \in 1 .. N /\ l.head + 1 + i = l.head + (i + 1) /\ 1 < i + 1
    BY <1>2, <1>7
  <2>2. Pending(m)[i] = l.queue[l.head + 1 + i]
    BY <1>4, <1>6
  <2>3. QED  BY <1>2, <2>1, <2>2
<1>9. \A i, j \in 1 .. Len(Pending(m)) : i < j => Pending(m)[i] < Pending(m)[j]
  <2>1. SUFFICES ASSUME NEW i \in 1 .. Len(Pending(m)), NEW j \in 1 .. Len(Pending(m)), i < j
                 PROVE  Pending(m)[i] < Pending(m)[j]
    OBVIOUS
  <2>2. i + 1 < j + 1
    BY <2>1
  <2>3. QED  BY <1>1, <1>8, <2>2
<1>10. row \in rest
  BY <1>1, <1>2, <1>3
<1>11. ToSet(Pending(m)) = rest \ {row}
  <2>1. ASSUME NEW i \in 1 .. Len(Pending(m))
        PROVE  Pending(m)[i] \in rest \ {row}
    <3>1. row < Pending(l)[i + 1] /\ Pending(l)[i + 1] \in rest
      BY <1>1, <1>2, <1>3, <1>8
    <3>2. row \in Nat
      BY <1>2, <1>3
    <3>3. QED  BY <1>8, <3>1, <3>2
  <2>2. ASSUME NEW r \in rest, r # row
        PROVE  \E i \in 1 .. Len(Pending(m)) : Pending(m)[i] = r
    <3>1. PICK k \in 1 .. N : Pending(l)[k] = r
      BY <1>1, <1>2
    <3>2. k - 1 \in 1 .. Len(Pending(m)) /\ (k - 1) + 1 = k
      BY <1>2, <1>3, <1>7, <2>2, <3>1
    <3>3. QED  BY <1>8, <3>1, <3>2
  <2>3. ToSet(Pending(m)) \subseteq rest \ {row}
    BY <1>6, <2>1
  <2>4. rest \ {row} \subseteq ToSet(Pending(m))
    BY <1>6, <2>2
  <2>5. QED  BY <2>3, <2>4
<1>12. LaneOK(m, rest \ {row}, last)
  BY <1>1, <1>4, <1>5, <1>9, <1>11 DEF LaneOK
<1>13. QED  BY <1>4, <1>7, <1>10, <1>12 DEF m, row

\* compactQueue leaves what is pending as it is.
LEMMA CompactedFacts ==
  ASSUME NEW last \in Nat, NEW rest \in SUBSET (1 .. last), NEW l, LaneOK(l, rest, last)
  PROVE  LET m == Compacted(l)
         IN  /\ LaneOK(m, rest, last) /\ Pending(m) = Pending(l)
             /\ m.running = l.running /\ m.timer = l.timer
<1>. DEFINE m == [l EXCEPT !.queue = Pending(l), !.head = 0]
            p == Pending(l)
<1>1. /\ l \in LaneType /\ l.head <= Len(l.queue)
      /\ ToSet(p) = rest
      /\ \A i, j \in 1 .. Len(p) : i < j => p[i] < p[j]
  BY DEF LaneOK
<1>2. /\ p \in Seq(Nat) /\ Len(p) \in Nat
      /\ ToSet(p) = {p[i] : i \in 1 .. Len(p)}
  BY <1>1, PendingFacts
<1>. HIDE DEF p
<1>3. /\ m \in LaneType /\ m.queue = p /\ m.head = 0
      /\ m.running = l.running /\ m.timer = l.timer
  BY <1>1, <1>2 DEF LaneType, p
<1>. HIDE DEF m
<1>4. Pending(m) = p
  <2>1. /\ Pending(m) \in Seq(Nat) /\ Len(Pending(m)) = Len(m.queue) - m.head
        /\ \A i \in 1 .. Len(Pending(m)) : Pending(m)[i] = m.queue[m.head + i]
    BY <1>2, <1>3, PendingFacts
  <2>2. Len(Pending(m)) = Len(p)
    BY <1>2, <1>3, <2>1
  <2>3. \A i \in 1 .. Len(p) : 0 + i = i
    OBVIOUS
  <2>4. \A i \in 1 .. Len(p) : Pending(m)[i] = p[i]
    BY <1>3, <2>1, <2>2, <2>3
  <2>5. QED  BY <1>2, <2>1, <2>2, <2>4, SeqEqual
<1>5. \A i \in 1 .. Len(m.queue) : m.queue[i] \in 1 .. last
  BY <1>1, <1>2, <1>3
<1>6. LaneOK(m, rest, last)
  BY <1>1, <1>2, <1>3, <1>4, <1>5 DEF LaneOK
<1>7. Compacted(l) = m \/ Compacted(l) = l
  BY DEF Compacted, m
<1>8. QED  BY <1>3, <1>4, <1>6, <1>7 DEF p

\* Nothing is shown or pending, and only what could not be cleared is set.
LEMMA ClearedStep ==
  ASSUME ScrollInv, NEW running \in BOOLEAN, Cleared(running)
  PROVE  ScrollInv'
<1>1. /\ timers' = timers \ dismissals /\ dismissals' = {} /\ visible' = <<>>
      /\ laneTimers' = (IF lane.timer THEN laneTimers - 1 ELSE laneTimers)
      /\ lane' = EmptyLane(running) /\ gone' = 1 .. pushed
      /\ nextKey' = nextKey /\ pushed' = pushed
  BY DEF Cleared
<1>2. /\ timers' = {} /\ nextKey \in Nat \ {0} /\ Len(Pending(lane)) \in Nat
      /\ pushed \in Nat
  BY <1>1, ScrollFacts
<1>3. laneTimers' = 0
  BY <1>1 DEF ScrollInv
<1>4. /\ lane' \in LaneType /\ lane'.queue = <<>> /\ lane'.head = 0 /\ lane'.timer = FALSE
      /\ lane'.running = running
  BY <1>1 DEF EmptyLane, LaneType
<1>5. Pending(lane') \in Seq(Nat) /\ Len(Pending(lane')) = 0 /\ ToSet(Pending(lane')) = {}
  <2>1. lane'.head <= Len(lane'.queue) /\ Len(lane'.queue) = 0
    BY <1>4
  <2>2. /\ Pending(lane') \in Seq(Nat) /\ Len(Pending(lane')) = Len(lane'.queue) - lane'.head
        /\ ToSet(Pending(lane')) = {Pending(lane')[i] : i \in 1 .. Len(Pending(lane'))}
    BY <1>4, <2>1, PendingFacts
  <2>3. Len(Pending(lane')) = 0
    BY <1>4, <2>1, <2>2
  <2>4. QED  BY <2>2, <2>3
<1>6. LaneOK(lane', (1 .. pushed') \ gone', pushed')
  BY <1>1, <1>4, <1>5 DEF LaneOK
<1>7. ScreenOK(Screen', pushed') /\ Fits(visible')
  <2>1. Screen' = [items |-> <<>>, set |-> {}, byKey |-> {}, key |-> nextKey]
    BY <1>1, <1>2 DEF Screen
  <2>2. KeysOf(<<>>) = {}
    BY DEF KeysOf
  <2>3. Screen' \in ScreenType
    BY <1>2, <2>1 DEF ScreenType
  <2>4. ScreenOK(Screen', pushed')
    BY <2>1, <2>2, <2>3 DEF ScreenOK
  <2>5. Fits(visible')
    BY <1>1, ScrollAssumption DEF Fits
  <2>6. QED  BY <2>4, <2>5
<1>8. pushed' \in 0 .. MaxRows /\ gone' \subseteq 1 .. pushed'
  BY <1>1 DEF ScrollInv
<1>9. nextKey' + Len(Pending(lane')) <= pushed' + 1
  BY <1>1, <1>2, <1>5 DEF ScrollInv
<1>10. lane'.timer <=> lane'.running /\ Pending(lane') # <<>>
  BY <1>4, <1>5
<1>11. QED
  BY <1>3, <1>4, <1>6, <1>7, <1>8, <1>9, <1>10 DEF ScrollInv

\* Rows are pushed.
LEMMA PushStep ==
  ASSUME ScrollInv, NEW count \in Nat, NEW limit \in PopLimits,
         NEW firsts \in SUBSET (pushed + 1 .. pushed + count),
         PushSolutions(count, firsts, limit)
  PROVE  ScrollInv'
<1>. DEFINE after == AfterRows(count, firsts, limit)
            l == after.lane
<1>1. /\ lane.running /\ pushed + count <= MaxRows
      /\ ShowScreen(after.screen) /\ ScheduleQueue(l, laneTimers)
      /\ pushed' = pushed + count /\ gone' = gone \cup firsts
  BY DEF PushSolutions
<1>2. AfterSome(after, count, firsts)
  BY PushedFacts
<1>. HIDE DEF after
<1>3. /\ ScreenOK(after.screen, pushed') /\ Fits(after.screen.items)
      /\ LaneOK(l, (1 .. pushed') \ gone', pushed')
      /\ l.running = lane.running /\ l.timer = lane.timer
      /\ after.screen.key + Len(Pending(l)) = nextKey + Len(Pending(lane)) + count
  BY <1>1, <1>2 DEF AfterSome
<1>. HIDE DEF l
<1>4. l \in LaneType /\ l.head <= Len(l.queue) /\ Len(Pending(l)) \in Nat
  BY <1>3, PendingFacts DEF LaneOK
<1>5. pushed \in Nat /\ count \in Nat /\ pushed' \in Nat /\ nextKey \in Nat
      /\ Len(Pending(lane)) \in Nat
  BY <1>1, ScrollFacts
<1>6. Pending(lane) # <<>> => Pending(l) # <<>>
  <2>1. SUFFICES ASSUME Pending(lane) # <<>>, Len(Pending(l)) = 0
                 PROVE  FALSE
    BY <1>4
  <2>2. Pending(lane)[1] \in ToSet(Pending(lane))
    <3>1. Len(Pending(lane)) # 0 /\ 1 \in 1 .. Len(Pending(lane))
      BY <1>5, <2>1, ScrollFacts
    <3>2. ToSet(Pending(lane)) = {Pending(lane)[i] : i \in 1 .. Len(Pending(lane))}
      BY ScrollFacts, PendingFacts
    <3>3. QED  BY <3>1, <3>2
  <2>3. ToSet(Pending(lane)) = (1 .. pushed) \ gone
    BY DEF ScrollInv, LaneOK
  <2>4. ToSet(Pending(l)) = (1 .. pushed') \ gone'
    BY <1>3 DEF LaneOK
  <2>5. ToSet(Pending(l)) = {}
    <3>1. ToSet(Pending(l)) = {Pending(l)[i] : i \in 1 .. Len(Pending(l))}
      BY <1>4, PendingFacts
    <3>2. QED  BY <2>1, <3>1
  <2>6. (1 .. pushed) \ gone \subseteq (1 .. pushed') \ gone'
    BY <1>1, <1>5
  <2>7. QED  BY <2>2, <2>3, <2>4, <2>5, <2>6
<1>7. /\ laneTimers = (IF l.timer THEN 1 ELSE 0)
      /\ l.timer => l.running /\ Pending(l) # <<>>
  BY <1>1, <1>3, <1>6 DEF ScrollInv
<1>8. /\ lane' \in LaneType /\ Pending(lane') = Pending(l)
      /\ lane'.queue = l.queue /\ lane'.head = l.head
      /\ laneTimers' = (IF lane'.timer THEN 1 ELSE 0)
      /\ lane'.timer <=> lane'.running /\ Pending(lane') # <<>>
  BY <1>1, <1>4, <1>7, ScheduleFacts
<1>9. LaneOK(lane', (1 .. pushed') \ gone', pushed')
  BY <1>3, <1>8, SameLane
<1>10. /\ visible' = after.screen.items /\ Screen' = after.screen
       /\ nextKey' = after.screen.key
  <2>1. after.screen \in ScreenType
    BY <1>3 DEF ScreenOK
  <2>2. QED  BY <1>1, <2>1 DEF ShowScreen, Screen, ScreenType
<1>11. pushed' \in 0 .. MaxRows /\ gone' \subseteq 1 .. pushed'
  BY <1>1, <1>5, ScrollAssumption DEF ScrollInv
<1>12. nextKey' + Len(Pending(lane')) <= pushed' + 1
  <2>1. nextKey' \in Nat
    BY <1>3, <1>10 DEF ScreenOK, ScreenType
  <2>2. nextKey + Len(Pending(lane)) <= pushed + 1
    BY DEF ScrollInv
  <2>3. QED  BY <1>1, <1>3, <1>4, <1>5, <1>8, <1>10, <2>1, <2>2
<1>13. QED
  BY <1>3, <1>8, <1>9, <1>10, <1>11, <1>12 DEF ScrollInv

\* The timer of the queue fires.
LEMMA PopStep ==
  ASSUME ScrollInv, NEW limit \in PopLimits, PopFromQueue(limit)
  PROVE  ScrollInv'
<1>. DEFINE fired == [lane EXCEPT !.timer = FALSE]
            row == Head(Pending(lane))
            taken == [fired EXCEPT !.head = fired.head + 1]
            l == Compacted(taken)
            rest == (1 .. pushed) \ gone
            p == Popped(Screen, row, limit)
<1>1. /\ visible \in Seq(Items) /\ nextKey \in Nat /\ pushed \in Nat
      /\ lane \in LaneType /\ lane.head <= Len(lane.queue)
      /\ Pending(lane) \in Seq(Nat) /\ Len(Pending(lane)) \in Nat
  BY ScrollFacts
<1>2. laneTimers = 1 /\ lane.timer /\ lane.running /\ Pending(lane) # <<>>
  BY DEF ScrollInv, PopFromQueue
<1>3. /\ ShowScreen(p) /\ Reschedule(l, laneTimers - 1)
      /\ gone' = gone \cup {row} /\ pushed' = pushed
  BY <1>2 DEF PopFromQueue
<1>4. /\ LaneOK(lane, rest, pushed) /\ ScreenOK(Screen, pushed)
      /\ rest \in SUBSET (1 .. pushed)
      /\ nextKey + Len(Pending(lane)) <= pushed + 1
      /\ pushed \in 0 .. MaxRows /\ gone \subseteq 1 .. pushed
  BY DEF ScrollInv
<1>5. /\ fired \in LaneType /\ fired.queue = lane.queue /\ fired.head = lane.head
      /\ fired.running /\ ~fired.timer
  BY <1>1, <1>2 DEF LaneType
<1>. HIDE DEF fired
<1>6. LaneOK(fired, rest, pushed) /\ Pending(fired) = Pending(lane)
  BY <1>4, <1>5, SameLane
<1>7. /\ row \in rest /\ LaneOK(taken, rest \ {row}, pushed)
      /\ Len(Pending(taken)) = Len(Pending(lane)) - 1
      /\ taken.running /\ ~taken.timer
  <2>. HIDE DEF rest
  <2>1. QED  BY <1>1, <1>2, <1>4, <1>5, <1>6, TakenFacts
<1>. HIDE DEF taken
<1>8. /\ LaneOK(l, rest \ {row}, pushed) /\ Len(Pending(l)) = Len(Pending(lane)) - 1
      /\ l.running /\ ~l.timer
  <2>. DEFINE less == rest \ {row}
  <2>1. less \in SUBSET (1 .. pushed) /\ LaneOK(taken, less, pushed)
    BY <1>4, <1>7
  <2>. HIDE DEF less, l
  <2>2. /\ LaneOK(l, less, pushed) /\ Pending(l) = Pending(taken)
        /\ l.running = taken.running /\ l.timer = taken.timer
    BY <1>1, <2>1, CompactedFacts DEF l
  <2>3. QED  BY <1>7, <2>2 DEF less
<1>. HIDE DEF l
<1>9. l \in LaneType /\ l.head <= Len(l.queue)
  BY <1>8 DEF LaneOK
<1>10. laneTimers - 1 = (IF l.timer THEN 1 ELSE 0)
  BY <1>2, <1>8
<1>11. /\ lane' \in LaneType /\ Pending(lane') = Pending(l)
       /\ lane'.queue = l.queue /\ lane'.head = l.head
       /\ laneTimers' = (IF lane'.timer THEN 1 ELSE 0)
       /\ lane'.timer <=> lane'.running /\ Pending(lane') # <<>>
  BY <1>3, <1>8, <1>9, <1>10, ScheduleFacts DEF Reschedule
<1>12. (1 .. pushed') \ gone' = rest \ {row}
  BY <1>3
<1>13. LaneOK(lane', (1 .. pushed') \ gone', pushed')
  BY <1>3, <1>8, <1>11, <1>12, SameLane
<1>14. limit \in Nat \ {0} /\ row \in 1 .. pushed
  BY <1>4, <1>7, ScrollAssumption
<1>15. ScreenOK(p, pushed) /\ p.key = nextKey + 1 /\ Len(p.items) <= limit
  <2>1. Screen.key = nextKey
    BY DEF Screen
  <2>. HIDE DEF row
  <2>2. QED  BY <1>1, <1>4, <1>14, <2>1, PoppedFacts
<1>. HIDE DEF p, row
<1>16. visible' = p.items /\ Screen' = p /\ nextKey' = p.key
  <2>1. p \in ScreenType
    BY <1>15 DEF ScreenOK
  <2>2. QED  BY <1>3, <2>1 DEF ShowScreen, Screen, ScreenType
<1>17. Fits(visible')
  <2>1. p.items \in Seq(Items)
    BY <1>15 DEF ScreenOK, ScreenType
  <2>2. Len(p.items) \in Nat /\ \A other \in PopLimits : other \in Nat
    BY <2>1, ScrollAssumption
  <2>3. QED  BY <1>14, <1>15, <1>16, <2>2 DEF Fits
<1>18. nextKey' + Len(Pending(lane')) <= pushed' + 1
  BY <1>1, <1>3, <1>4, <1>8, <1>11, <1>15, <1>16
<1>19. pushed' \in 0 .. MaxRows /\ gone' \subseteq 1 .. pushed'
  BY <1>3, <1>4, <1>14
<1>20. QED
  BY <1>3, <1>11, <1>13, <1>15, <1>16, <1>17, <1>18, <1>19 DEF ScrollInv

\* An item's timer fires.
LEMMA DismissStep ==
  ASSUME ScrollInv, NEW key \in timers, Dismiss(key)
  PROVE  ScrollInv'
<1>. DEFINE r == Undismissed(visible, key)
            N == Len(visible)
<1>1. /\ timers' = timers \ {key} /\ dismissals' = dismissals \ {key} /\ visible' = r
      /\ UNCHANGED <<lane, nextKey, laneTimers, pushed, gone>>
  BY DEF Dismiss
<1>2. /\ visible \in Seq(Items) /\ timers \in SUBSET Nat /\ dismissals = timers
      /\ timers = KeysOf(visible) /\ N \in Nat
      /\ nextKey \in Nat \ {0}
      /\ \A i \in 1 .. N : visible[i].key < nextKey /\ visible[i].row \in 1 .. pushed
      /\ \A i, j \in 1 .. N : i < j => visible[i].key < visible[j].key
  BY ScrollFacts DEF ScrollInv, ScreenOK, Screen
<1>3. Left(r, visible, key, N)
  BY <1>2, UndismissedFacts
<1>. HIDE DEF r
<1>4. /\ r \in Seq(Items) /\ Len(r) <= N /\ Len(r) \in Nat
      /\ DOMAIN r = 1 .. Len(r) /\ DOMAIN visible = 1 .. N
      /\ \A i \in 1 .. Len(r) : \E j \in 1 .. N : r[i] = visible[j] /\ visible[j].key # key
      /\ \A j \in 1 .. N : visible[j].key # key => \E i \in 1 .. Len(r) : r[i] = visible[j]
      /\ \A i, j \in 1 .. Len(r) : i < j => r[i].key < r[j].key
  <2>1. /\ r \in Seq(Items) /\ Len(r) <= N
        /\ \A i \in 1 .. Len(r) : \E j \in 1 .. N : r[i] = visible[j] /\ visible[j].key # key
        /\ \A j \in 1 .. N : visible[j].key # key => \E i \in 1 .. Len(r) : r[i] = visible[j]
        /\ \A i, j \in 1 .. Len(r) : i < j => r[i].key < r[j].key
    BY <1>3 DEF Left
  <2>2. Len(r) \in Nat /\ DOMAIN r = 1 .. Len(r) /\ DOMAIN visible = 1 .. N
    BY <1>2, <2>1
  <2>3. QED  BY ONLY <2>1, <2>2
<1>5. KeysOf(r) = KeysOf(visible) \ {key}
  <2>1. ASSUME NEW k \in KeysOf(r)
        PROVE  k \in KeysOf(visible) \ {key}
    <3>1. PICK i \in 1 .. Len(r) : r[i].key = k
      BY <1>4 DEF KeysOf
    <3>2. PICK j \in 1 .. N : r[i] = visible[j] /\ visible[j].key # key
      BY <1>4
    <3>3. j \in DOMAIN visible /\ visible[j].key = k /\ k # key
      BY <1>4, <3>1, <3>2
    <3>4. QED  BY <3>3 DEF KeysOf
  <2>2. KeysOf(visible) \ {key} \subseteq KeysOf(r)
    <3>1. ASSUME NEW j \in 1 .. N, visible[j].key # key
          PROVE  visible[j].key \in KeysOf(r)
      <4>1. PICK i \in 1 .. Len(r) : r[i] = visible[j]
        BY <1>4, <3>1
      <4>2. i \in DOMAIN r /\ r[i].key = visible[j].key
        BY <1>4, <4>1
      <4>3. QED  BY <4>2 DEF KeysOf
    <3>2. ASSUME NEW k \in KeysOf(visible), k # key
          PROVE  k \in KeysOf(r)
      <4>1. PICK j \in 1 .. N : visible[j].key = k
        BY <1>4 DEF KeysOf
      <4>2. QED  BY <3>1, <3>2, <4>1
    <3>3. QED  BY <3>2
  <2>3. QED  BY <2>1, <2>2
<1>6. \A i \in 1 .. Len(r) : r[i].key < nextKey /\ r[i].row \in 1 .. pushed
  BY <1>2, <1>4
<1>7. ScreenOK(Screen', pushed')
  <2>1. Screen' = [items |-> r, set |-> timers \ {key}, byKey |-> timers \ {key},
                   key |-> nextKey]
    BY <1>1, <1>2 DEF Screen
  <2>2. Screen' \in ScreenType
    BY <1>2, <1>4, <2>1 DEF ScreenType
  <2>3. QED  BY <1>1, <1>2, <1>4, <1>5, <1>6, <2>1, <2>2 DEF ScreenOK
<1>8. Fits(visible')
  <2>1. \A limit \in PopLimits : limit \in Nat /\ (N <= limit => Len(r) <= limit)
    BY <1>2, <1>4, ScrollAssumption
  <2>2. Fits(visible)
    BY DEF ScrollInv
  <2>3. QED  BY <1>1, <2>1, <2>2 DEF Fits
<1>9. QED
  BY <1>1, <1>7, <1>8 DEF ScrollInv

\* The queue starts with what is left in it.
LEMMA StartStep == ScrollInv /\ StartScrolling => ScrollInv'
<1>1. SUFFICES ASSUME ScrollInv, StartScrolling
               PROVE  ScrollInv'
  OBVIOUS
<1>. DEFINE l == [lane EXCEPT !.running = TRUE]
<1>2. /\ ~lane.running /\ ScheduleQueue(l, laneTimers)
      /\ UNCHANGED <<visible, dismissals, nextKey, timers, pushed, gone>>
  BY <1>1 DEF StartScrolling
<1>3. /\ lane \in LaneType /\ lane.head <= Len(lane.queue)
      /\ LaneOK(lane, (1 .. pushed) \ gone, pushed) /\ ~lane.timer
      /\ laneTimers = 0
  BY <1>1, <1>2, ScrollFacts DEF ScrollInv
<1>4. /\ l \in LaneType /\ l.queue = lane.queue /\ l.head = lane.head /\ l.running
      /\ ~l.timer
  BY <1>3 DEF LaneType
<1>. HIDE DEF l
<1>5. LaneOK(l, (1 .. pushed) \ gone, pushed) /\ Pending(l) = Pending(lane)
  BY <1>3, <1>4, SameLane
<1>6. /\ lane' \in LaneType /\ Pending(lane') = Pending(l)
      /\ lane'.queue = l.queue /\ lane'.head = l.head
      /\ laneTimers' = (IF lane'.timer THEN 1 ELSE 0)
      /\ lane'.timer <=> lane'.running /\ Pending(lane') # <<>>
  <2>1. laneTimers = (IF l.timer THEN 1 ELSE 0) /\ l.head <= Len(l.queue)
    BY <1>3, <1>4
  <2>2. QED  BY <1>2, <1>4, <2>1, ScheduleFacts
<1>7. LaneOK(lane', (1 .. pushed') \ gone', pushed')
  BY <1>2, <1>5, <1>6, SameLane
<1>8. Screen' = Screen
  BY <1>2 DEF Screen
<1>9. QED
  BY <1>1, <1>2, <1>5, <1>6, <1>7, <1>8 DEF ScrollInv

\* Nothing is shown at first.
LEMMA ScrollStarts == ScrollInit => ScrollInv
<1>1. SUFFICES ASSUME ScrollInit
               PROVE  ScrollInv
  OBVIOUS
<1>2. /\ lane \in LaneType /\ lane.queue = <<>> /\ lane.head = 0 /\ ~lane.timer
      /\ ~lane.running
  BY <1>1 DEF ScrollInit, EmptyLane, LaneType
<1>3. Pending(lane) \in Seq(Nat) /\ Len(Pending(lane)) = 0 /\ ToSet(Pending(lane)) = {}
  <2>1. lane.head <= Len(lane.queue) /\ Len(lane.queue) = 0
    BY <1>2
  <2>2. /\ Pending(lane) \in Seq(Nat) /\ Len(Pending(lane)) = Len(lane.queue) - lane.head
        /\ ToSet(Pending(lane)) = {Pending(lane)[i] : i \in 1 .. Len(Pending(lane))}
    BY <1>2, <2>1, PendingFacts
  <2>3. Len(Pending(lane)) = 0
    BY <1>2, <2>1, <2>2
  <2>4. QED  BY <2>2, <2>3
<1>4. LaneOK(lane, (1 .. pushed) \ gone, pushed)
  <2>1. pushed = 0 /\ gone = {}
    BY <1>1 DEF ScrollInit
  <2>2. (1 .. pushed) \ gone = {}
    BY <2>1
  <2>3. Len(lane.queue) = 0 /\ lane.head = 0
    BY <1>2
  <2>4. QED  BY <1>2, <1>3, <2>2, <2>3 DEF LaneOK
<1>5. ScreenOK(Screen, pushed) /\ Fits(visible)
  <2>1. Screen = [items |-> <<>>, set |-> {}, byKey |-> {}, key |-> 1]
    BY <1>1 DEF Screen, ScrollInit
  <2>2. KeysOf(<<>>) = {}
    BY DEF KeysOf
  <2>3. Screen \in ScreenType
    BY <2>1 DEF ScreenType
  <2>4. ScreenOK(Screen, pushed)
    BY <2>1, <2>2, <2>3 DEF ScreenOK
  <2>5. Fits(visible)
    BY <1>1, ScrollAssumption DEF Fits, ScrollInit
  <2>6. QED  BY <2>4, <2>5
<1>6. QED
  <2>1. /\ pushed = 0 /\ gone = {} /\ nextKey = 1 /\ laneTimers = 0
    BY <1>1 DEF ScrollInit
  <2>2. pushed \in 0 .. MaxRows /\ gone \subseteq 1 .. pushed
    BY <2>1, ScrollAssumption
  <2>3. nextKey + Len(Pending(lane)) <= pushed + 1
    BY <1>3, <2>1
  <2>4. QED  BY <1>2, <1>3, <1>4, <1>5, <2>1, <2>2, <2>3 DEF ScrollInv

\* Every step keeps timers, screen and queue together.
LEMMA ScrollKept == ScrollInv /\ [ScrollNext]_scrollVars => ScrollInv'
<1>1. SUFFICES ASSUME ScrollInv, [ScrollNext]_scrollVars
               PROVE  ScrollInv'
  OBVIOUS
<1>2. ASSUME NEW count \in 1 .. MaxRows - pushed, NEW limit \in PopLimits,
             NEW firsts \in SUBSET (pushed + 1 .. pushed + count),
             PushSolutions(count, firsts, limit)
      PROVE  ScrollInv'
  <2>1. count \in Nat
    BY <1>1, ScrollFacts, ScrollAssumption
  <2>2. QED  BY <1>1, <1>2, <2>1, PushStep
<1>3. CASE \E limit \in PopLimits : PopFromQueue(limit)
  BY <1>1, <1>3, PopStep
<1>4. CASE \E key \in timers : Dismiss(key)
  BY <1>1, <1>4, DismissStep
<1>5. CASE ResetSolutions
  BY <1>1, <1>5, ClearedStep DEF ResetSolutions
<1>6. CASE StartScrolling
  BY <1>1, <1>6, StartStep
<1>7. CASE StopScrolling
  BY <1>1, <1>7, ClearedStep DEF StopScrolling
<1>8. CASE UNCHANGED scrollVars
  BY <1>1, <1>8
     DEF scrollVars, ScrollInv, ScreenOK, LaneOK, Fits, Screen, Pending, KeysOf
<1>9. QED
  BY <1>1, <1>2, <1>3, <1>4, <1>5, <1>6, <1>7, <1>8 DEF ScrollNext

\* The invariant of the scroll queue holds always.
LEMMA ScrollInductive == ScrollSpec => []ScrollInv
BY ScrollStarts, ScrollKept, PTL DEF ScrollSpec

\* The fields of the state have their types (scroll-solution-state.ts's closure).
THEOREM ScrollTypeCorrect == ScrollSpec => []ScrollTypeOK
<1>1. ScrollInv => ScrollTypeOK
  <2>1. SUFFICES ASSUME ScrollInv
                 PROVE  ScrollTypeOK
    OBVIOUS
  <2>2. /\ visible \in Seq(Items) /\ timers \in SUBSET Nat /\ dismissals = timers
        /\ nextKey \in Nat \ {0} /\ timers = KeysOf(visible) /\ lane \in LaneType
        /\ lane.head <= Len(lane.queue) /\ Len(Pending(lane)) \in Nat
        /\ pushed \in Nat /\ laneTimers \in Nat
    BY <2>1, ScrollFacts
  <2>3. /\ lane.queue \in Seq(Nat) /\ lane.head \in Nat /\ Len(lane.queue) \in Nat
        /\ lane.running \in BOOLEAN /\ lane.timer \in BOOLEAN
        /\ DOMAIN lane.queue = 1 .. Len(lane.queue) /\ DOMAIN visible = 1 .. Len(visible)
    BY <2>2 DEF LaneType
  <2>4. /\ \A i \in 1 .. Len(lane.queue) : lane.queue[i] \in 1 .. pushed
        /\ \A i \in 1 .. Len(visible) :
             visible[i].key < nextKey /\ visible[i].row \in 1 .. pushed
        /\ nextKey + Len(Pending(lane)) <= pushed + 1 /\ pushed <= MaxRows
    BY <2>1, ScrollAssumption DEF ScrollInv, LaneOK, ScreenOK, Screen
  <2>5. nextKey \in 1 .. MaxRows + 1
    BY <2>2, <2>4, ScrollAssumption
  <2>6. dismissals \subseteq 1 .. nextKey - 1
    <3>1. \A i \in 1 .. Len(visible) : visible[i] \in Items
      BY <2>2
    <3>2. \A i \in 1 .. Len(visible) : visible[i].key \in 1 .. nextKey - 1
      BY <2>2, <2>4, <3>1 DEF Items
    <3>3. QED  BY <2>2, <2>3, <3>2 DEF KeysOf
  <2>7. QED
    BY <2>1, <2>2, <2>3, <2>4, <2>5, <2>6 DEF ScrollTypeOK, ScrollInv
<1>2. QED  BY <1>1, ScrollInductive, PTL

\* NothingSticks: pop, clearTimers, popFromQueue and scheduleQueue keep one timer for
\* every item on the screen and one for a queue that has something, and lose no row.
THEOREM NothingSticksHere == ScrollSpec => []NothingSticks
<1>1. ScrollInv => NothingSticks
  <2>1. SUFFICES ASSUME ScrollInv
                 PROVE  NothingSticks
    OBVIOUS
  <2>2. /\ visible \in Seq(Items) /\ dismissals = timers /\ timers = KeysOf(visible)
        /\ Pending(lane) \in Seq(Nat) /\ lane \in LaneType
    BY <2>1, ScrollFacts
  <2>3. DOMAIN visible = 1 .. Len(visible) /\ DOMAIN Pending(lane) = 1 .. Len(Pending(lane))
    BY <2>2
  <2>4. /\ ToSet(Pending(lane)) = (1 .. pushed) \ gone
        /\ \A i, j \in 1 .. Len(Pending(lane)) : i < j => Pending(lane)[i] < Pending(lane)[j]
        /\ \A i, j \in 1 .. Len(visible) : i < j => visible[i].key < visible[j].key
    BY <2>1 DEF ScrollInv, LaneOK, ScreenOK, Screen
  <2>5. laneTimers = (IF lane.running /\ Pending(lane) # <<>> THEN 1 ELSE 0)
    BY <2>1 DEF ScrollInv
  <2>6. \A limit \in PopLimits :
          (\A other \in PopLimits : other <= limit) => Len(visible) <= limit
    BY <2>1 DEF ScrollInv, Fits
  <2>7. QED  BY <2>2, <2>3, <2>4, <2>5, <2>6 DEF NothingSticks
<1>2. QED  BY <1>1, ScrollInductive, PTL

----------------------------------------------------------------------------
(* The board.  First its heaps. *)

Sifted == [heap : Seq(SolutionIds), place : [SolutionIds -> Nat], at : Nat]

\* The solutions of S are in the heap, each in its place.
Placed(heap, place, S) ==
  /\ heap \in Seq(SolutionIds) /\ place \in [SolutionIds -> Nat]
  /\ \A i \in 1 .. Len(heap) : heap[i] \in S /\ place[heap[i]] = i
  /\ \A s \in S : place[s] \in 1 .. Len(heap) /\ heap[place[s]] = s

\* No solution precedes the one above it, but for the places in E.
OrderedBut(heap, E) ==
  \A i \in 2 .. Len(heap) : i \notin E => ~Precedes(heap[i], heap[i \div 2])

Children(heap, at) == {i \in 2 .. Len(heap) : i \div 2 = at}

\* Those below precede not what is above.
Bridged(heap, at) ==
  at > 1 => \A i \in Children(heap, at) : ~Precedes(heap[i], heap[at \div 2])

\* Half way up, and half way down.
Rising(h) == OrderedBut(h.heap, {h.at}) /\ Bridged(h.heap, h.at)

Sinking(h) == OrderedBut(h.heap, Children(h.heap, h.at)) /\ Bridged(h.heap, h.at)

\* Solutions are strictly ordered.
LEMMA PrecedesFacts ==
  /\ SolutionIds = 1 .. Len(Submissions) /\ Len(Submissions) \in Nat
  /\ \A s, t \in SolutionIds :
       /\ Precedes(s, t) => ~Precedes(t, s)
       /\ s # t => Precedes(s, t) \/ Precedes(t, s)
  /\ \A s, t, u \in SolutionIds : ~Precedes(t, s) /\ ~Precedes(u, t) => ~Precedes(u, s)
<1>1. SolutionIds = 1 .. Len(Submissions) /\ Len(Submissions) \in Nat
  BY BoardAssumption DEF SolutionIds
<1>2. \A s \in SolutionIds : s \in Nat /\ Submissions[s].time \in Nat
  <2>. DEFINE R == [user : Users, problem : Problems, time : Nat]
  <2>1. Submissions \in Seq(R) /\ \A x \in R : x.time \in Nat
    BY BoardAssumption
  <2>. HIDE DEF R
  <2>2. QED  BY <1>1, <2>1
<1>3. QED  BY <1>1, <1>2 DEF Precedes

\* g is h with the solution at j and the one at which the loop is in each other's place.
SwapOf(h, g, j, S) ==
  /\ g \in Sifted /\ Placed(g.heap, g.place, S) /\ g.at = j
  /\ Len(g.heap) = Len(h.heap)
  /\ g.heap[j] = h.heap[h.at] /\ g.heap[h.at] = h.heap[j]
  /\ \A i \in 1 .. Len(h.heap) : i # j /\ i # h.at => g.heap[i] = h.heap[i]
  /\ \A t \in SolutionIds \ S : g.place[t] = h.place[t]

\* Two solutions change places.
LEMMA SwappedPlaced ==
  ASSUME NEW h \in Sifted, NEW S \in SUBSET SolutionIds, Placed(h.heap, h.place, S),
         h.at \in 1 .. Len(h.heap), NEW j \in 1 .. Len(h.heap), j # h.at
  PROVE  SwapOf(h, Swapped(h, j), j, S)
<1>. DEFINE heap == h.heap
            place == h.place
            at == h.at
            s == heap[at]
            t == heap[j]
            heap2 == [heap EXCEPT ![at] = t, ![j] = s]
            place2 == [place EXCEPT ![s] = j, ![t] = at]
            N == Len(heap)
<1>1. /\ heap \in Seq(SolutionIds) /\ place \in [SolutionIds -> Nat] /\ at \in 1 .. N
      /\ N \in Nat /\ s \in S /\ t \in S /\ place[s] = at /\ place[t] = j /\ s # t
      /\ j \in 1 .. N /\ j # at
      /\ \A i \in 1 .. N : heap[i] \in S /\ place[heap[i]] = i
      /\ \A x \in S : place[x] \in 1 .. N /\ heap[place[x]] = x
  BY DEF Sifted, Placed
<1>2. /\ Swapped(h, j) = [heap |-> heap2, place |-> place2, at |-> j]
  BY DEF Swapped
<1>. HIDE DEF heap, place, at, N
<1>3. /\ heap2 \in Seq(SolutionIds) /\ Len(heap2) = N
      /\ heap2[at] = t /\ heap2[j] = s
      /\ \A i \in 1 .. N : i # at /\ i # j => heap2[i] = heap[i]
  <2>. DEFINE heap1 == [heap EXCEPT ![at] = t]
  <2>1. s \in SolutionIds /\ t \in SolutionIds
    BY <1>1
  <2>. HIDE DEF s, t
  <2>2. /\ heap1 \in Seq(SolutionIds) /\ Len(heap1) = N
        /\ \A i \in 1 .. N : heap1[i] = IF i = at THEN t ELSE heap[i]
    BY <1>1, <2>1, ExceptSeq DEF N
  <2>3. heap2 = [heap1 EXCEPT ![j] = s]
    OBVIOUS
  <2>. HIDE DEF heap1, heap2
  <2>4. /\ heap2 \in Seq(SolutionIds) /\ Len(heap2) = N
        /\ \A i \in 1 .. N : heap2[i] = IF i = j THEN s ELSE heap1[i]
    BY <1>1, <2>1, <2>2, <2>3, ExceptSeq
  <2>5. QED  BY <1>1, <2>2, <2>4
<1>4. /\ place2 \in [SolutionIds -> Nat]
      /\ place2[s] = j /\ place2[t] = at
      /\ \A x \in SolutionIds : x # s /\ x # t => place2[x] = place[x]
  <2>1. s \in SolutionIds /\ t \in SolutionIds /\ j \in Nat /\ at \in Nat
    BY <1>1
  <2>. HIDE DEF s, t
  <2>2. QED  BY <1>1, <2>1
<1>. HIDE DEF heap2, place2
<1>5. \A i \in 1 .. N : heap2[i] \in S /\ place2[heap2[i]] = i
  <2>1. \A i \in 1 .. N : i # at /\ i # j => heap[i] # s /\ heap[i] # t
    BY <1>1
  <2>2. ASSUME NEW i \in 1 .. N, i # at, i # j
        PROVE  heap2[i] \in S /\ place2[heap2[i]] = i
    <3>1. heap2[i] = heap[i] /\ heap[i] \in S /\ heap[i] \in SolutionIds /\ place[heap[i]] = i
      BY <1>1, <1>3, <2>2
    <3>2. heap[i] # s /\ heap[i] # t
      BY <2>1, <2>2
    <3>. HIDE DEF s, t
    <3>3. QED  BY <1>4, <3>1, <3>2
  <2>. HIDE DEF s, t
  <2>3. QED  BY <1>1, <1>3, <1>4, <2>2
<1>6. \A x \in S : place2[x] \in 1 .. N /\ heap2[place2[x]] = x
  <2>1. \A x \in S : x # s /\ x # t => place[x] # at /\ place[x] # j
    BY <1>1
  <2>2. ASSUME NEW x \in S, x # s, x # t
        PROVE  place2[x] \in 1 .. N /\ heap2[place2[x]] = x
    <3>1. place[x] \in 1 .. N /\ heap[place[x]] = x /\ place[x] # at /\ place[x] # j
      BY <1>1, <2>1, <2>2
    <3>2. x \in SolutionIds
      OBVIOUS
    <3>. HIDE DEF s, t
    <3>3. place2[x] = place[x]
      BY <1>4, <2>2, <3>2
    <3>4. QED  BY <1>3, <3>1, <3>3
  <2>. HIDE DEF s, t
  <2>3. place2[s] \in 1 .. N /\ heap2[place2[s]] = s
    BY <1>1, <1>3, <1>4
  <2>4. place2[t] \in 1 .. N /\ heap2[place2[t]] = t
    BY <1>1, <1>3, <1>4
  <2>5. QED  BY <2>2, <2>3, <2>4
<1>7. Placed(heap2, place2, S)
  BY <1>3, <1>4, <1>5, <1>6 DEF Placed
<1>8. /\ Swapped(h, j).heap = heap2 /\ Swapped(h, j).place = place2 /\ Swapped(h, j).at = j
      /\ Swapped(h, j) \in Sifted
  <2>1. j \in Nat
    BY <1>1
  <2>2. QED  BY <1>2, <1>3, <1>4, <2>1 DEF Sifted
<1>9. \A x \in SolutionIds \ S : place2[x] = place[x]
  BY <1>1, <1>4
<1>. HIDE DEF s, t
<1>10. heap2[j] = heap[at] /\ heap2[at] = heap[j]
  BY <1>3 DEF s, t
<1>11. QED  BY <1>3, <1>7, <1>8, <1>9, <1>10 DEF SwapOf, heap, place, at, N

\* To precede is asymmetric, and irreflexive.
LEMMA Precedence ==
  ASSUME NEW s \in SolutionIds, NEW t \in SolutionIds
  PROVE  ~Precedes(s, s) /\ (Precedes(s, t) => ~Precedes(t, s))
BY PrecedesFacts

\* Not to precede is transitive.
LEMMA NotBefore ==
  ASSUME NEW s \in SolutionIds, NEW t \in SolutionIds, NEW u \in SolutionIds,
         ~Precedes(t, s), ~Precedes(u, t)
  PROVE  ~Precedes(u, s)
BY PrecedesFacts

\* Above a place.
LEMMA Halves ==
  ASSUME NEW i \in Nat, i > 1
  PROVE  /\ i \div 2 \in Nat /\ 1 <= i \div 2 /\ i \div 2 < i
         /\ \A at \in Nat : i \div 2 = at <=> i = 2 * at \/ i = 2 * at + 1
OBVIOUS

\* What becomes of a heap in a loop: the solutions stay the same.
Moved(h, g, S) ==
  /\ g \in Sifted /\ Placed(g.heap, g.place, S) /\ g.at \in 1 .. Len(g.heap)
  /\ Len(g.heap) = Len(h.heap)
  /\ \A t \in SolutionIds \ S : g.place[t] = h.place[t]

\* A turn upwards: either the heap is in order, or the loop is closer to the top.
LEMMA RiseTurn ==
  ASSUME NEW h \in Sifted, NEW S \in SUBSET SolutionIds, Placed(h.heap, h.place, S),
         h.at \in 1 .. Len(h.heap), Rising(h)
  PROVE  LET g == Rise(h)
         IN  Moved(h, g, S) /\ Rising(g) /\ (OrderedBut(g.heap, {}) \/ g.at < h.at)
<1>. DEFINE heap == h.heap
            at == h.at
            up == at \div 2
            g == Rise(h)
<1>1. /\ heap \in Seq(SolutionIds) /\ Len(heap) \in Nat /\ at \in Nat /\ at \in 1 .. Len(heap)
      /\ \A i \in 1 .. Len(heap) : heap[i] \in SolutionIds
  BY DEF Sifted
<1>2. CASE ~(at > 1 /\ Precedes(heap[at], heap[up]))
  <2>1. g = h
    BY <1>2 DEF Rise
  <2>2. OrderedBut(heap, {})
    BY <1>1, <1>2 DEF Rising, OrderedBut
  <2>3. QED  BY <1>1, <2>1, <2>2 DEF Moved
<1>3. CASE at > 1 /\ Precedes(heap[at], heap[up])
  <2>1. up \in 1 .. Len(heap) /\ up < at /\ up # at
    BY <1>1, <1>3
  <2>2. g = Swapped(h, up)
    BY <1>3 DEF Rise
  <2>. HIDE DEF g, up
  <2>3. /\ g \in Sifted /\ Placed(g.heap, g.place, S) /\ g.at = up
        /\ Len(g.heap) = Len(heap)
        /\ g.heap[up] = heap[at] /\ g.heap[at] = heap[up]
        /\ \A i \in 1 .. Len(heap) : i # up /\ i # at => g.heap[i] = heap[i]
        /\ \A t \in SolutionIds \ S : g.place[t] = h.place[t]
    <3>1. h.at \in 1 .. Len(h.heap) /\ up \in 1 .. Len(h.heap) /\ up # h.at
      BY <1>1, <2>1
    <3>2. SwapOf(h, Swapped(h, up), up, S)
      BY <3>1, SwappedPlaced
    <3>3. QED  BY <2>2, <3>2 DEF SwapOf
  <2>. USE DEF up
  <2>4. \A i \in 2 .. Len(heap) :
          i \div 2 \in 1 .. Len(heap) /\ i \div 2 < i /\ i \in 1 .. Len(heap)
    BY <1>1
  <2>5. /\ \A i \in 2 .. Len(heap) : i # at => ~Precedes(heap[i], heap[i \div 2])
        /\ \A i \in 2 .. Len(heap) : i \div 2 = at => ~Precedes(heap[i], heap[up])
    BY <1>3 DEF Rising, OrderedBut, Bridged, Children
  <2>6. ASSUME NEW i \in 2 .. Len(heap), i # up
        PROVE  ~Precedes(g.heap[i], g.heap[i \div 2])
    <3>1. CASE i = at
      <4>1. g.heap[i] = heap[up] /\ g.heap[i \div 2] = heap[at]
        BY <2>3, <3>1
      <4>2. heap[up] \in SolutionIds /\ heap[at] \in SolutionIds
        BY <1>1, <2>1
      <4>. HIDE DEF up, heap, at
      <4>3. QED  BY <1>3, <4>1, <4>2, Precedence
    <3>2. CASE i # at /\ i \div 2 = at
      <4>1. g.heap[i] = heap[i] /\ g.heap[i \div 2] = heap[up]
        BY <2>3, <2>4, <2>6, <3>2
      <4>2. QED  BY <2>5, <3>2, <4>1
    <3>3. CASE i # at /\ i \div 2 = up
      <4>1. g.heap[i] = heap[i] /\ g.heap[i \div 2] = heap[at]
        BY <2>3, <2>4, <2>6, <3>3
      <4>2. ~Precedes(heap[i], heap[up])
        BY <2>5, <3>3
      <4>3. heap[i] \in SolutionIds /\ heap[up] \in SolutionIds /\ heap[at] \in SolutionIds
        BY <1>1, <2>1, <2>4
      <4>. HIDE DEF up, heap, at
      <4>4. ~Precedes(heap[up], heap[at])
        BY <1>3, <4>3, Precedence
      <4>5. QED  BY <4>1, <4>2, <4>3, <4>4, NotBefore
    <3>4. CASE i # at /\ i \div 2 # at /\ i \div 2 # up
      <4>1. g.heap[i] = heap[i] /\ g.heap[i \div 2] = heap[i \div 2]
        BY <2>3, <2>4, <2>6, <3>4
      <4>2. QED  BY <2>5, <3>4, <4>1
    <3>5. QED  BY <3>1, <3>2, <3>3, <3>4
  <2>7. ASSUME up > 1, NEW i \in 2 .. Len(heap), i \div 2 = up
        PROVE  ~Precedes(g.heap[i], g.heap[up \div 2])
    <3>1. /\ up \in 2 .. Len(heap) /\ up \div 2 \in 1 .. Len(heap) /\ up \div 2 # up
          /\ up \div 2 # at /\ i # up
      BY <1>1, <2>1, <2>7
    <3>2. g.heap[up \div 2] = heap[up \div 2]
      BY <2>3, <3>1
    <3>3. ~Precedes(heap[up], heap[up \div 2])
      BY <2>1, <2>5, <3>1
    <3>4. CASE i = at
      BY <2>3, <3>2, <3>3, <3>4
    <3>5. CASE i # at
      <4>1. g.heap[i] = heap[i] /\ ~Precedes(heap[i], heap[up])
        BY <2>3, <2>4, <2>5, <2>7, <3>1, <3>5
      <4>2. /\ heap[i] \in SolutionIds /\ heap[up] \in SolutionIds
            /\ heap[up \div 2] \in SolutionIds
        BY <1>1, <2>1, <2>4, <3>1
      <4>. HIDE DEF up, heap, at
      <4>3. QED  BY <3>2, <3>3, <4>1, <4>2, NotBefore
    <3>6. QED  BY <3>4, <3>5
  <2>8. Rising(g)
    BY <2>3, <2>6, <2>7 DEF Rising, OrderedBut, Bridged, Children
  <2>9. Moved(h, g, S) /\ Rising(g) /\ g.at < h.at
    BY <2>1, <2>3, <2>8 DEF Moved
  <2>10. QED  BY <2>9 DEF g
<1>4. QED  BY <1>2, <1>3

\* A turn downwards: either the heap is in order, or the loop is closer to the end.
LEMMA SinkTurn ==
  ASSUME NEW h \in Sifted, NEW S \in SUBSET SolutionIds, Placed(h.heap, h.place, S),
         h.at \in 1 .. Len(h.heap), Sinking(h)
  PROVE  LET g == Sink(h)
         IN  Moved(h, g, S) /\ Sinking(g) /\ (OrderedBut(g.heap, {}) \/ h.at < g.at)
<1>. DEFINE heap == h.heap
            at == h.at
            left == 2 * at
            child == IF left + 1 <= Len(heap) /\ Precedes(heap[left + 1], heap[left])
                     THEN left + 1 ELSE left
            g == Sink(h)
<1>1. /\ heap \in Seq(SolutionIds) /\ Len(heap) \in Nat /\ at \in Nat /\ at \in 1 .. Len(heap)
      /\ \A i \in 1 .. Len(heap) : heap[i] \in SolutionIds
  BY DEF Sifted
<1>2. \A i \in 2 .. Len(heap) :
        /\ i \div 2 \in 1 .. Len(heap) /\ i \div 2 < i /\ i \in 1 .. Len(heap)
        /\ i \div 2 = at <=> i = left \/ i = left + 1
  <2>. TAKE i \in 2 .. Len(heap)
  <2>1. i \in Nat /\ i > 1 /\ i <= Len(heap)
    BY <1>1
  <2>2. /\ i \div 2 \in Nat /\ 1 <= i \div 2 /\ i \div 2 < i
        /\ i \div 2 = at <=> i = left \/ i = left + 1
    BY <1>1, <2>1, Halves
  <2>3. QED  BY <1>1, <2>1, <2>2
<1>3. /\ \A i \in 2 .. Len(heap) : i \div 2 # at => ~Precedes(heap[i], heap[i \div 2])
      /\ at > 1 =>
           \A i \in 2 .. Len(heap) : i \div 2 = at => ~Precedes(heap[i], heap[at \div 2])
  BY DEF Sinking, OrderedBut, Bridged, Children
<1>4. left <= Len(heap) =>
        /\ child \in 2 .. Len(heap) /\ child \in 1 .. Len(heap) /\ child \div 2 = at
        /\ at < child /\ left \in 2 .. Len(heap)
        /\ \A i \in 2 .. Len(heap) : i \div 2 = at => ~Precedes(heap[i], heap[child])
  <2>. SUFFICES ASSUME left <= Len(heap)
                PROVE  /\ child \in 2 .. Len(heap) /\ child \in 1 .. Len(heap)
                       /\ child \div 2 = at /\ at < child /\ left \in 2 .. Len(heap)
                       /\ \A i \in 2 .. Len(heap) :
                            i \div 2 = at => ~Precedes(heap[i], heap[child])
    OBVIOUS
  <2>1. /\ child \in 2 .. Len(heap) /\ child \in 1 .. Len(heap) /\ child \div 2 = at
        /\ at < child /\ left \in 2 .. Len(heap)
    <3>1. child \in 2 .. Len(heap) /\ left \in 2 .. Len(heap) /\ at < child
      BY <1>1
    <3>2. child = left \/ child = left + 1
      OBVIOUS
    <3>. HIDE DEF child
    <3>3. QED  BY <1>1, <1>2, <3>1, <3>2
  <2>2. ASSUME NEW i \in 2 .. Len(heap), i = left \/ i = left + 1
        PROVE  ~Precedes(heap[i], heap[child])
    <3>1. i \in 1 .. Len(heap) /\ left \in 1 .. Len(heap)
      BY <1>1
    <3>2. heap[i] \in SolutionIds /\ heap[left] \in SolutionIds
      BY <1>1, <3>1
    <3>3. /\ ~Precedes(heap[i], heap[i])
          /\ Precedes(heap[i], heap[left]) => ~Precedes(heap[left], heap[i])
      BY <3>2, PrecedesFacts
    <3>4. CASE child = left
      <4>1. left + 1 <= Len(heap) => ~Precedes(heap[left + 1], heap[left])
        BY <3>4, <1>1
      <4>2. left + 1 \in Int /\ Len(heap) \in Int /\ i <= Len(heap)
        BY <1>1
      <4>. HIDE DEF child, left, heap
      <4>3. QED  BY <2>2, <3>3, <3>4, <4>1, <4>2
    <3>5. CASE child # left
      <4>1. child = left + 1 /\ Precedes(heap[left + 1], heap[left])
        BY <3>5
      <4>2. left + 1 \in 1 .. Len(heap)
        BY <1>1, <2>1, <4>1
      <4>3. heap[left + 1] \in SolutionIds
        BY <1>1, <4>2
      <4>. HIDE DEF child, left, heap
      <4>4. ~Precedes(heap[left], heap[left + 1]) /\ ~Precedes(heap[left + 1], heap[left + 1])
        BY <3>2, <4>1, <4>3, PrecedesFacts
      <4>5. QED  BY <2>2, <4>1, <4>4
    <3>6. QED  BY <3>4, <3>5
  <2>3. QED  BY <1>2, <2>1, <2>2
<1>. HIDE DEF child
<1>5. CASE ~(left <= Len(heap) /\ Precedes(heap[child], heap[at]))
  <2>1. g = h
    BY <1>5 DEF Sink, child
  <2>2. ASSUME NEW i \in 2 .. Len(heap), i \div 2 = at
        PROVE  ~Precedes(heap[i], heap[at])
    <3>1. left <= Len(heap)
      BY <1>1, <1>2, <2>2
    <3>2. ~Precedes(heap[child], heap[at]) /\ ~Precedes(heap[i], heap[child])
      BY <1>4, <1>5, <2>2, <3>1
    <3>3. heap[i] \in SolutionIds /\ heap[child] \in SolutionIds /\ heap[at] \in SolutionIds
      BY <1>1, <1>2, <1>4, <3>1
    <3>4. QED  BY <3>2, <3>3, PrecedesFacts
  <2>3. OrderedBut(heap, {})
    BY <1>3, <2>2 DEF OrderedBut
  <2>4. QED  BY <1>1, <2>1, <2>3 DEF Moved
<1>6. CASE left <= Len(heap) /\ Precedes(heap[child], heap[at])
  <2>1. /\ child \in 2 .. Len(heap) /\ child \in 1 .. Len(heap) /\ child \div 2 = at
        /\ at < child /\ child # at
        /\ \A i \in 2 .. Len(heap) : i \div 2 = at => ~Precedes(heap[i], heap[child])
    BY <1>1, <1>4, <1>6
  <2>2. g = Swapped(h, child)
    BY <1>6 DEF Sink, child
  <2>. HIDE DEF g
  <2>3. /\ g \in Sifted /\ Placed(g.heap, g.place, S) /\ g.at = child
        /\ Len(g.heap) = Len(heap)
        /\ g.heap[child] = heap[at] /\ g.heap[at] = heap[child]
        /\ \A i \in 1 .. Len(heap) : i # child /\ i # at => g.heap[i] = heap[i]
        /\ \A t \in SolutionIds \ S : g.place[t] = h.place[t]
    <3>1. h.at \in 1 .. Len(h.heap) /\ child \in 1 .. Len(h.heap) /\ child # h.at
      BY <1>1, <2>1
    <3>2. SwapOf(h, Swapped(h, child), child, S)
      BY <3>1, SwappedPlaced
    <3>3. QED  BY <2>2, <3>2 DEF SwapOf
  <2>4. ASSUME NEW i \in 2 .. Len(heap), i \div 2 # child
        PROVE  ~Precedes(g.heap[i], g.heap[i \div 2])
    <3>0. i \in 1 .. Len(heap) /\ i \div 2 \in 1 .. Len(heap) /\ i \div 2 # i
      BY <1>1, <1>2
    <3>1. CASE i = child
      <4>1. g.heap[i] = heap[at] /\ g.heap[i \div 2] = heap[child]
        BY <2>1, <2>3, <3>1
      <4>2. heap[child] \in SolutionIds /\ heap[at] \in SolutionIds
        BY <1>1, <2>1
      <4>. HIDE DEF heap, at
      <4>3. QED  BY <1>6, <4>1, <4>2, Precedence
    <3>2. CASE i # child /\ i \div 2 = at
      <4>1. i # at /\ g.heap[i] = heap[i] /\ g.heap[i \div 2] = heap[child]
        BY <2>3, <3>0, <3>2
      <4>2. QED  BY <2>1, <3>2, <4>1
    <3>3. CASE i = at
      <4>1. /\ g.heap[i] = heap[child] /\ g.heap[i \div 2] = heap[i \div 2]
            /\ at > 1
        BY <2>3, <2>4, <3>0, <3>3
      <4>2. QED  BY <1>3, <2>1, <3>3, <4>1
    <3>4. CASE i # child /\ i # at /\ i \div 2 # at
      <4>1. g.heap[i] = heap[i] /\ g.heap[i \div 2] = heap[i \div 2]
        BY <2>3, <2>4, <3>0, <3>4
      <4>2. QED  BY <1>3, <3>4, <4>1
    <3>5. QED  BY <3>1, <3>2, <3>3, <3>4
  <2>5. ASSUME NEW i \in 2 .. Len(heap), i \div 2 = child
        PROVE  ~Precedes(g.heap[i], g.heap[child \div 2])
    <3>1. i \in 1 .. Len(heap) /\ child < i /\ at < i
      BY <1>1, <1>2, <2>1, <2>5
    <3>2. g.heap[i] = heap[i] /\ g.heap[child \div 2] = heap[child]
      BY <1>1, <2>1, <2>3, <3>1
    <3>3. i \div 2 # at
      BY <2>1, <2>5
    <3>4. ~Precedes(heap[i], heap[i \div 2])
      BY <1>3, <3>3
    <3>5. QED  BY <2>5, <3>2, <3>4
  <2>6. Sinking(g)
    BY <2>3, <2>4, <2>5 DEF Sinking, OrderedBut, Bridged, Children
  <2>7. Moved(h, g, S) /\ Sinking(g) /\ h.at < g.at
    BY <2>1, <2>3, <2>6 DEF Moved
  <2>8. QED  BY <2>7 DEF g
<1>7. QED  BY <1>5, <1>6

\* The loop upwards puts the heap in order.
LEMMA SiftUpFacts ==
  ASSUME NEW h \in Sifted, NEW S \in SUBSET SolutionIds, Placed(h.heap, h.place, S),
         h.at \in 1 .. Len(h.heap), Rising(h)
  PROVE  Moved(h, SiftUp(h), S) /\ OrderedBut(SiftUp(h).heap, {})
<1>. DEFINE N == Len(h.heap)
            X == {g \in Sifted : Moved(h, g, S) /\ Rising(g)}
            next == [n \in 1 .. N |-> [g \in X |-> Rise(g)]]
            Q(f) == f = [n \in 0 .. N |-> IF n = 0 THEN h ELSE Rise(f[n - 1])]
            turn == CHOOSE f : Q(f)
            T == {n \in 0 .. N : turn[n] \in X /\ (OrderedBut(turn[n].heap, {})
                                                    \/ turn[n].at + n <= N)}
<1>1. N \in Nat /\ h.at \in Nat /\ h.at <= N
  BY DEF Sifted
<1>2. h \in X
  BY DEF Moved
<1>3. ASSUME NEW g \in X
      PROVE  /\ Rise(g) \in X
             /\ OrderedBut(Rise(g).heap, {}) \/ Rise(g).at < g.at
             /\ OrderedBut(g.heap, {}) => Rise(g) = g
             /\ g.at \in Nat /\ Rise(g).at \in Nat
  <2>1. /\ g \in Sifted /\ Placed(g.heap, g.place, S) /\ g.at \in 1 .. Len(g.heap) /\ Rising(g)
        /\ Len(g.heap) = N /\ \A t \in SolutionIds \ S : g.place[t] = h.place[t]
    BY DEF Moved
  <2>2. Moved(g, Rise(g), S) /\ Rising(Rise(g))
        /\ (OrderedBut(Rise(g).heap, {}) \/ Rise(g).at < g.at)
    BY <2>1, RiseTurn
  <2>3. Rise(g) \in X
    BY <2>1, <2>2 DEF Moved
  <2>4. OrderedBut(g.heap, {}) => Rise(g) = g
    BY <1>1, <2>1 DEF OrderedBut, Rise
  <2>5. QED  BY <2>2, <2>3, <2>4 DEF Sifted
<1>. HIDE DEF X
<1>4. \E f : Q(f)
  <2>1. next \in [1 .. N -> [X -> X]] /\ \A n \in 1 .. N, g \in X : next[n][g] = Rise(g)
    BY <1>3
  <2>. HIDE DEF next
  <2>. DEFINE f == Unrolled(X, h, next, N)
  <2>2. f \in [0 .. N -> X] /\ f[0] = h /\ \A n \in 1 .. N : f[n] = next[n][f[n - 1]]
    <3>. HIDE DEF N
    <3>1. QED  BY <1>1, <1>2, <2>1, Recursion
  <2>. HIDE DEF f
  <2>3. \A n \in 1 .. N : n - 1 \in 0 .. N /\ f[n - 1] \in X
    BY <1>1, <2>2
  <2>4. \A n \in 1 .. N : f[n] = Rise(f[n - 1])
    BY <2>1, <2>2, <2>3
  <2>5. Q(f)
    BY <2>2, <2>4
  <2>6. QED  BY <2>5
<1>5. SiftUp(h) = turn[N]
  BY DEF SiftUp
<1>6. Q(turn)
  <2>. HIDE DEF Q
  <2>1. QED  BY <1>4
<1>. HIDE DEF turn, N
<1>7. turn[0] = h /\ \A n \in 1 .. N : turn[n] = Rise(turn[n - 1])
  BY <1>1, <1>6
<1>8. 0 \in T
  BY <1>1, <1>2, <1>7
<1>9. ASSUME NEW n \in 0 .. N, n < N, n \in T
      PROVE  n + 1 \in T
  <2>1. n + 1 \in 1 .. N /\ n + 1 \in 0 .. N /\ n + 1 - 1 = n
    BY <1>1, <1>9
  <2>2. turn[n + 1] = Rise(turn[n]) /\ turn[n] \in X
    BY <1>7, <1>9, <2>1
  <2>3. /\ turn[n + 1] \in X /\ turn[n].at \in Nat /\ turn[n + 1].at \in Nat
        /\ OrderedBut(turn[n + 1].heap, {}) \/ turn[n + 1].at < turn[n].at
        /\ OrderedBut(turn[n].heap, {}) => turn[n + 1] = turn[n]
    BY <1>3, <2>2
  <2>4. OrderedBut(turn[n].heap, {}) \/ turn[n].at + n <= N
    BY <1>9
  <2>5. OrderedBut(turn[n + 1].heap, {}) \/ turn[n + 1].at + (n + 1) <= N
    BY <1>1, <2>1, <2>3, <2>4
  <2>6. QED  BY <2>1, <2>3, <2>5
<1>10. N \in T
  <2>1. \A n \in 0 .. N : n \in T
    <3>. HIDE DEF T
    <3>1. QED  BY <1>1, <1>8, <1>9, UpTo
  <2>2. QED  BY <1>1, <2>1
<1>11. turn[N] \in X /\ OrderedBut(turn[N].heap, {})
  <2>1. turn[N] \in X /\ turn[N].at \in Nat /\ turn[N].at \in 1 .. N
    <3>1. turn[N] \in X
      BY <1>10
    <3>2. QED  BY <3>1, <1>3 DEF X, Moved, N
  <2>2. ~(turn[N].at + N <= N)
    BY <1>1, <2>1
  <2>3. QED  BY <1>10, <2>1, <2>2
<1>12. QED  BY <1>5, <1>11 DEF X

\* So does the loop downwards.
LEMMA SiftDownFacts ==
  ASSUME NEW h \in Sifted, NEW S \in SUBSET SolutionIds, Placed(h.heap, h.place, S),
         h.at \in 1 .. Len(h.heap), Sinking(h)
  PROVE  Moved(h, SiftDown(h), S) /\ OrderedBut(SiftDown(h).heap, {})
<1>. DEFINE N == Len(h.heap)
            X == {g \in Sifted : Moved(h, g, S) /\ Sinking(g)}
            next == [n \in 1 .. N |-> [g \in X |-> Sink(g)]]
            Q(f) == f = [n \in 0 .. N |-> IF n = 0 THEN h ELSE Sink(f[n - 1])]
            turn == CHOOSE f : Q(f)
            T == {n \in 0 .. N : turn[n] \in X /\ (OrderedBut(turn[n].heap, {})
                                                    \/ n < turn[n].at)}
<1>1. N \in Nat /\ h.at \in Nat /\ 0 < h.at
  BY DEF Sifted
<1>2. h \in X
  BY DEF Moved
<1>3. ASSUME NEW g \in X
      PROVE  /\ Sink(g) \in X
             /\ OrderedBut(Sink(g).heap, {}) \/ g.at < Sink(g).at
             /\ OrderedBut(g.heap, {}) => Sink(g) = g
             /\ g.at \in Nat /\ Sink(g).at \in Nat
  <2>1. /\ g \in Sifted /\ Placed(g.heap, g.place, S) /\ g.at \in 1 .. Len(g.heap) /\ Sinking(g)
        /\ Len(g.heap) = N /\ \A t \in SolutionIds \ S : g.place[t] = h.place[t]
    BY DEF Moved
  <2>2. Moved(g, Sink(g), S) /\ Sinking(Sink(g))
        /\ (OrderedBut(Sink(g).heap, {}) \/ g.at < Sink(g).at)
    BY <2>1, SinkTurn
  <2>3. Sink(g) \in X
    BY <2>1, <2>2 DEF Moved
  <2>4. OrderedBut(g.heap, {}) => Sink(g) = g
    <3>. SUFFICES ASSUME OrderedBut(g.heap, {})
                  PROVE  Sink(g) = g
      OBVIOUS
    <3>. DEFINE left == 2 * g.at
    <3>1. g.at \in Nat /\ 1 <= g.at /\ Len(g.heap) \in Nat
      BY <1>1, <2>1
    <3>2. \A i \in {left, left + 1} :
            i <= Len(g.heap) => i \in 2 .. Len(g.heap) /\ i \div 2 = g.at
      BY <3>1
    <3>3. \A i \in {left, left + 1} : i <= Len(g.heap) => ~Precedes(g.heap[i], g.heap[g.at])
      BY <3>2 DEF OrderedBut
    <3>4. QED  BY <3>3 DEF Sink
  <2>5. QED  BY <2>2, <2>3, <2>4 DEF Sifted
<1>. HIDE DEF X
<1>4. \E f : Q(f)
  <2>1. next \in [1 .. N -> [X -> X]] /\ \A n \in 1 .. N, g \in X : next[n][g] = Sink(g)
    BY <1>3
  <2>. HIDE DEF next
  <2>. DEFINE f == Unrolled(X, h, next, N)
  <2>2. f \in [0 .. N -> X] /\ f[0] = h /\ \A n \in 1 .. N : f[n] = next[n][f[n - 1]]
    <3>. HIDE DEF N
    <3>1. QED  BY <1>1, <1>2, <2>1, Recursion
  <2>. HIDE DEF f
  <2>3. \A n \in 1 .. N : n - 1 \in 0 .. N /\ f[n - 1] \in X
    BY <1>1, <2>2
  <2>4. \A n \in 1 .. N : f[n] = Sink(f[n - 1])
    BY <2>1, <2>2, <2>3
  <2>5. Q(f)
    BY <2>2, <2>4
  <2>6. QED  BY <2>5
<1>5. SiftDown(h) = turn[N]
  BY DEF SiftDown
<1>6. Q(turn)
  <2>. HIDE DEF Q
  <2>1. QED  BY <1>4
<1>. HIDE DEF turn, N
<1>7. turn[0] = h /\ \A n \in 1 .. N : turn[n] = Sink(turn[n - 1])
  BY <1>1, <1>6
<1>8. 0 \in T
  BY <1>1, <1>2, <1>7
<1>9. ASSUME NEW n \in 0 .. N, n < N, n \in T
      PROVE  n + 1 \in T
  <2>1. n + 1 \in 1 .. N /\ n + 1 \in 0 .. N /\ n + 1 - 1 = n
    BY <1>1, <1>9
  <2>2. turn[n + 1] = Sink(turn[n]) /\ turn[n] \in X
    BY <1>7, <1>9, <2>1
  <2>3. /\ turn[n + 1] \in X /\ turn[n].at \in Nat /\ turn[n + 1].at \in Nat
        /\ OrderedBut(turn[n + 1].heap, {}) \/ turn[n].at < turn[n + 1].at
        /\ OrderedBut(turn[n].heap, {}) => turn[n + 1] = turn[n]
    BY <1>3, <2>2
  <2>4. OrderedBut(turn[n].heap, {}) \/ n < turn[n].at
    BY <1>9
  <2>5. OrderedBut(turn[n + 1].heap, {}) \/ n + 1 < turn[n + 1].at
    BY <1>1, <2>1, <2>3, <2>4
  <2>6. QED  BY <2>1, <2>3, <2>5
<1>10. N \in T
  <2>1. \A n \in 0 .. N : n \in T
    <3>. HIDE DEF T
    <3>1. QED  BY <1>1, <1>8, <1>9, UpTo
  <2>2. QED  BY <1>1, <2>1
<1>11. turn[N] \in X /\ OrderedBut(turn[N].heap, {})
  <2>1. turn[N] \in X /\ turn[N].at \in Nat /\ turn[N].at \in 1 .. N
    <3>1. turn[N] \in X
      BY <1>10
    <3>2. QED  BY <3>1, <1>3 DEF X, Moved, N
  <2>2. ~(N < turn[N].at)
    BY <1>1, <2>1
  <2>3. QED  BY <1>10, <2>1, <2>2
<1>12. QED  BY <1>5, <1>11 DEF X

\* The top precedes all others.
LEMMA TopFacts ==
  ASSUME NEW heap \in Seq(SolutionIds), OrderedBut(heap, {})
  PROVE  \A i \in 1 .. Len(heap) : ~Precedes(heap[i], heap[1])
<1>. DEFINE U == {i \in 1 .. Len(heap) : Precedes(heap[i], heap[1])}
<1>1. SUFFICES ASSUME U # {}
               PROVE  FALSE
  OBVIOUS
<1>2. U \in SUBSET Nat
  OBVIOUS
<1>3. PICK x \in U : \A y \in U : x <= y
  <2>. HIDE DEF U
  <2>1. QED  BY <1>1, <1>2, LeastElement
<1>4. x \in 1 .. Len(heap) /\ heap[x] \in SolutionIds /\ heap[1] \in SolutionIds
  OBVIOUS
<1>5. x # 1
  BY <1>4, PrecedesFacts
<1>6. x \in 2 .. Len(heap) /\ x \div 2 \in 1 .. Len(heap) /\ x \div 2 < x
  BY <1>4, <1>5, Halves
<1>7. ~Precedes(heap[x], heap[x \div 2])
  BY <1>6 DEF OrderedBut
<1>8. ~Precedes(heap[x \div 2], heap[1]) /\ heap[x \div 2] \in SolutionIds
  <2>1. x \div 2 \notin U
    BY <1>3, <1>6
  <2>2. QED  BY <1>6, <2>1
<1>9. ~Precedes(heap[x], heap[1])
  BY <1>4, <1>7, <1>8, NotBefore
<1>10. QED  BY <1>3, <1>9

\* Solutions of S are in a heap that is in order.
HeapOf(heap, place, S) == Placed(heap, place, S) /\ OrderedBut(heap, {})

\* One solution more is accepted.
LEMMA AddFacts ==
  ASSUME NEW h \in Sifted, NEW S \in SUBSET SolutionIds, HeapOf(h.heap, h.place, S),
         NEW s \in SolutionIds, s \notin S
  PROVE  LET g == AddAccepted(h, s)
         IN  /\ HeapOf(g.heap, g.place, S \cup {s})
             /\ \A t \in SolutionIds : t \notin S \cup {s} => g.place[t] = h.place[t]
<1>. DEFINE heap == h.heap
            end == Len(heap) + 1
            heap2 == Append(heap, s)
            place2 == [h.place EXCEPT ![s] = end]
            a == [heap |-> heap2, place |-> place2, at |-> end]
            W == S \cup {s}
<1>1. /\ heap \in Seq(SolutionIds) /\ h.place \in [SolutionIds -> Nat] /\ Len(heap) \in Nat
      /\ \A i \in 1 .. Len(heap) : heap[i] \in S /\ h.place[heap[i]] = i
      /\ \A t \in S : h.place[t] \in 1 .. Len(heap) /\ heap[h.place[t]] = t
      /\ \A i \in 2 .. Len(heap) : ~Precedes(heap[i], heap[i \div 2])
  BY DEF Sifted, HeapOf, Placed, OrderedBut
<1>2. AddAccepted(h, s) = SiftUp(a)
  BY DEF AddAccepted
<1>. HIDE DEF heap
<1>3. /\ heap2 \in Seq(SolutionIds) /\ Len(heap2) = end /\ heap2[end] = s
      /\ \A i \in 1 .. Len(heap) : heap2[i] = heap[i]
  BY <1>1
<1>4. /\ place2 \in [SolutionIds -> Nat] /\ place2[s] = end
      /\ \A t \in SolutionIds : t # s => place2[t] = h.place[t]
  BY <1>1
<1>. HIDE DEF heap2, place2
<1>5. Placed(heap2, place2, W)
  <2>1. ASSUME NEW i \in 1 .. Len(heap2)
        PROVE  heap2[i] \in W /\ place2[heap2[i]] = i
    <3>1. CASE i = end
      BY <1>3, <1>4, <3>1
    <3>2. CASE i # end
      <4>1. i \in 1 .. Len(heap)
        BY <1>1, <1>3, <3>2
      <4>2. heap2[i] = heap[i] /\ heap[i] \in S /\ heap[i] # s /\ h.place[heap[i]] = i
        BY <1>1, <1>3, <4>1
      <4>3. heap[i] \in SolutionIds
        BY <4>2
      <4>4. QED  BY <1>4, <4>2, <4>3
    <3>3. QED  BY <3>1, <3>2
  <2>2. ASSUME NEW t \in W
        PROVE  place2[t] \in 1 .. Len(heap2) /\ heap2[place2[t]] = t
    <3>1. CASE t = s
      BY <1>1, <1>3, <1>4, <3>1
    <3>2. CASE t # s
      <4>1. t \in S /\ t \in SolutionIds
        BY <3>2
      <4>2. h.place[t] \in 1 .. Len(heap) /\ heap[h.place[t]] = t /\ place2[t] = h.place[t]
        BY <1>1, <1>4, <3>2, <4>1
      <4>3. QED  BY <1>1, <1>3, <4>2
    <3>3. QED  BY <3>1, <3>2
  <2>3. QED  BY <1>3, <1>4, <2>1, <2>2 DEF Placed
<1>6. a.heap = heap2 /\ a.place = place2 /\ a.at = end /\ a \in Sifted
  BY <1>1, <1>3, <1>4 DEF Sifted
<1>7. Rising(a)
  <2>1. ASSUME NEW i \in 2 .. Len(heap2), i # end
        PROVE  ~Precedes(heap2[i], heap2[i \div 2])
    <3>1. i \in 2 .. Len(heap) /\ i \in 1 .. Len(heap) /\ i \div 2 \in 1 .. Len(heap)
      BY <1>1, <1>3, <2>1, Halves
    <3>2. QED  BY <1>1, <1>3, <3>1
  <2>2. Children(heap2, end) = {}
    BY <1>1, <1>3 DEF Children
  <2>3. QED  BY <1>6, <2>1, <2>2 DEF Rising, OrderedBut, Bridged
<1>. HIDE DEF a
<1>8. Moved(a, SiftUp(a), W) /\ OrderedBut(SiftUp(a).heap, {})
  <2>1. W \in SUBSET SolutionIds /\ a.at \in 1 .. Len(a.heap) /\ Placed(a.heap, a.place, W)
    BY <1>1, <1>3, <1>5, <1>6
  <2>. HIDE DEF W
  <2>2. QED  BY <1>6, <1>7, <2>1, SiftUpFacts
<1>9. QED  BY <1>2, <1>4, <1>6, <1>8 DEF Moved, HeapOf

\* The last solution in place of the one that is removed.
LastMoved(h, s) ==
  LET i == h.place[s]
      last == h.heap[Len(h.heap)]
  IN  [heap |-> [SubSeq(h.heap, 1, Len(h.heap) - 1) EXCEPT ![i] = last],
       place |-> [[h.place EXCEPT ![s] = 0] EXCEPT ![last] = i], at |-> i]

\* It may have to rise or to sink.
LEMMA LastMoves ==
  ASSUME NEW h \in Sifted, NEW S \in SUBSET SolutionIds, HeapOf(h.heap, h.place, S),
         NEW s \in S, h.place[s] # Len(h.heap)
  PROVE  LET a == LastMoved(h, s)
         IN  /\ a \in Sifted /\ a.at \in 1 .. Len(a.heap) /\ Placed(a.heap, a.place, S \ {s})
             /\ \A t \in SolutionIds : t \notin S => a.place[t] = h.place[t]
             /\ IF a.at > 1 /\ Precedes(a.heap[a.at], a.heap[a.at \div 2])
                THEN Rising(a) ELSE Sinking(a)
<1>. DEFINE heap == h.heap
            place == h.place
            N == Len(heap)
            i == place[s]
            last == heap[N]
            shorter == SubSeq(heap, 1, N - 1)
            heap2 == [shorter EXCEPT ![i] = last]
            vacated == [place EXCEPT ![s] = 0]
            place2 == [vacated EXCEPT ![last] = i]
            a == [heap |-> heap2, place |-> place2, at |-> i]
            W == S \ {s}
<1>1. /\ heap \in Seq(SolutionIds) /\ place \in [SolutionIds -> Nat] /\ N \in Nat
      /\ \A k \in 1 .. N : heap[k] \in S /\ heap[k] \in SolutionIds /\ place[heap[k]] = k
      /\ \A t \in S : place[t] \in 1 .. N /\ heap[place[t]] = t
      /\ \A k \in 2 .. N : ~Precedes(heap[k], heap[k \div 2])
      /\ i \in 1 .. N /\ i # N /\ heap[i] = s /\ s \in SolutionIds
  BY DEF Sifted, HeapOf, Placed, OrderedBut
<1>. HIDE DEF heap, place, N
<1>2. i \in 1 .. N - 1 /\ N - 1 \in Nat /\ N \in 1 .. N
  BY <1>1
<1>3. last \in S /\ last # s /\ last \in SolutionIds /\ place[last] = N
  BY <1>1, <1>2
<1>. HIDE DEF i, last
<1>4. /\ shorter \in Seq(SolutionIds) /\ Len(shorter) = N - 1
      /\ \A k \in 1 .. N - 1 : shorter[k] = heap[k]
  <2>1. \A k \in 1 .. N - 1 : heap[k] \in SolutionIds
    BY <1>1
  <2>2. QED  BY <1>1, <1>2, <2>1, SubSeqProperties DEF N
<1>. HIDE DEF shorter
<1>5. /\ heap2 \in Seq(SolutionIds) /\ Len(heap2) = N - 1
      /\ heap2[i] = last
      /\ \A k \in 1 .. N - 1 : k # i => heap2[k] = heap[k]
  BY <1>2, <1>3, <1>4, ExceptSeq
<1>6. /\ place2 \in [SolutionIds -> Nat] /\ place2[last] = i
      /\ \A t \in SolutionIds : t # s /\ t # last => place2[t] = place[t]
  BY <1>1, <1>2, <1>3
<1>. HIDE DEF heap2, vacated, place2
<1>7. Placed(heap2, place2, W)
  <2>1. ASSUME NEW k \in 1 .. N - 1
        PROVE  heap2[k] \in W /\ place2[heap2[k]] = k
    <3>1. CASE k = i
      BY <1>3, <1>5, <1>6, <3>1
    <3>2. CASE k # i
      <4>1. k \in 1 .. N /\ k # N /\ heap2[k] = heap[k]
        BY <1>1, <1>2, <1>5, <3>2
      <4>2. heap[k] \in S /\ heap[k] \in SolutionIds /\ place[heap[k]] = k
        BY <1>1, <4>1
      <4>3. heap[k] # s /\ heap[k] # last
        BY <1>3, <3>2, <4>1, <4>2 DEF i
      <4>4. QED  BY <1>6, <4>1, <4>2, <4>3
    <3>3. QED  BY <3>1, <3>2
  <2>2. ASSUME NEW t \in W
        PROVE  place2[t] \in 1 .. N - 1 /\ heap2[place2[t]] = t
    <3>1. CASE t = last
      BY <1>2, <1>5, <1>6, <3>1
    <3>2. CASE t # last
      <4>1. t \in S /\ t \in SolutionIds /\ t # s
        OBVIOUS
      <4>2. place[t] \in 1 .. N /\ heap[place[t]] = t /\ place2[t] = place[t]
        BY <1>1, <1>6, <3>2, <4>1
      <4>3. place[t] # N /\ place[t] # i
        BY <1>1, <3>2, <4>1, <4>2 DEF last
      <4>4. place[t] \in 1 .. N - 1
        BY <1>2, <4>2, <4>3
      <4>5. QED  BY <1>5, <4>2, <4>3, <4>4
    <3>3. QED  BY <3>1, <3>2
  <2>3. QED  BY <1>5, <1>6, <2>1, <2>2 DEF Placed
<1>8. a.heap = heap2 /\ a.place = place2 /\ a.at = i /\ a \in Sifted
  <2>1. i \in Nat
    BY <1>2
  <2>2. QED  BY <1>5, <1>6, <2>1 DEF Sifted
<1>9. \A t \in SolutionIds : t \notin S => place2[t] = place[t]
  BY <1>1, <1>3, <1>6
<1>10. \A k \in 2 .. N - 1 : /\ k \in 1 .. N - 1 /\ k \div 2 \in 1 .. N - 1 /\ k \div 2 < k
                             /\ k \in 2 .. N /\ k \div 2 # k
  <2>. TAKE k \in 2 .. N - 1
  <2>1. k \in Nat /\ k > 1 /\ k <= N - 1
    BY <1>2
  <2>2. QED  BY <1>2, <2>1, Halves
\* What is below the place precedes not what is above it.
<1>11. ASSUME i > 1, NEW k \in 2 .. N - 1, k \div 2 = i
       PROVE  ~Precedes(heap2[k], heap2[i \div 2])
  <2>1. i \in 2 .. N - 1 /\ k # i
    BY <1>2, <1>10, <1>11
  <2>2. heap2[k] = heap[k] /\ heap2[i \div 2] = heap[i \div 2]
    BY <1>5, <1>10, <2>1
  <2>3. /\ heap[k] \in SolutionIds /\ heap[i] \in SolutionIds /\ heap[i \div 2] \in SolutionIds
        /\ i \div 2 \in 1 .. N
    BY <1>1, <1>2, <1>10, <2>1
  <2>4. ~Precedes(heap[k], heap[i]) /\ ~Precedes(heap[i], heap[i \div 2])
    BY <1>1, <1>10, <1>11, <2>1
  <2>5. QED  BY <2>2, <2>3, <2>4, NotBefore
<1>12. \A k \in 2 .. N - 1 : k # i /\ k \div 2 # i => ~Precedes(heap2[k], heap2[k \div 2])
  BY <1>1, <1>5, <1>10
<1>13. Bridged(heap2, i)
  BY <1>5, <1>11 DEF Bridged, Children
<1>14. CASE i > 1 /\ Precedes(heap2[i], heap2[i \div 2])
  <2>1. ASSUME NEW k \in 2 .. N - 1, k \div 2 = i
        PROVE  ~Precedes(heap2[k], heap2[i])
    <3>1. ~Precedes(heap2[k], heap2[i \div 2])
      BY <1>11, <1>14, <2>1
    <3>2. i \in 2 .. N - 1 /\ i \div 2 \in 1 .. N - 1 /\ k \in 1 .. N - 1
      BY <1>2, <1>10, <1>14
    <3>3. /\ heap2[k] \in SolutionIds /\ heap2[i] \in SolutionIds
          /\ heap2[i \div 2] \in SolutionIds
      BY <1>2, <1>5, <3>2
    <3>4. ~Precedes(heap2[i \div 2], heap2[i])
      BY <1>14, <3>3, PrecedesFacts
    <3>5. QED  BY <3>1, <3>3, <3>4, NotBefore
  <2>2. Rising(a)
    BY <1>5, <1>8, <1>12, <1>13, <2>1 DEF Rising, OrderedBut
  <2>3. QED  BY <1>1, <1>2, <1>5, <1>7, <1>8, <1>9, <1>14, <2>2
             DEF LastMoved, a, heap2, place2, vacated, shorter, i, last, heap, place, N
<1>15. CASE ~(i > 1 /\ Precedes(heap2[i], heap2[i \div 2]))
  <2>1. Sinking(a)
    <3>1. \A k \in 2 .. N - 1 : k \div 2 # i => ~Precedes(heap2[k], heap2[k \div 2])
      BY <1>12, <1>15
    <3>2. QED  BY <1>5, <1>8, <1>13, <3>1 DEF Sinking, OrderedBut, Children
  <2>2. QED  BY <1>1, <1>2, <1>5, <1>7, <1>8, <1>9, <1>15, <2>1
             DEF LastMoved, a, heap2, place2, vacated, shorter, i, last, heap, place, N
<1>16. QED  BY <1>14, <1>15

\* A solution is accepted no more.
LEMMA RemoveFacts ==
  ASSUME NEW h \in Sifted, NEW S \in SUBSET SolutionIds, HeapOf(h.heap, h.place, S),
         NEW s \in S
  PROVE  LET g == RemoveAccepted(h, s)
         IN  /\ HeapOf(g.heap, g.place, S \ {s})
             /\ \A t \in SolutionIds : t \notin S => g.place[t] = h.place[t]
<1>. DEFINE N == Len(h.heap)
            i == h.place[s]
            shorter == SubSeq(h.heap, 1, N - 1)
            last == h.heap[N]
            vacated == [h.place EXCEPT ![s] = 0]
            a == LastMoved(h, s)
            g == RemoveAccepted(h, s)
<1>1. /\ h.heap \in Seq(SolutionIds) /\ h.place \in [SolutionIds -> Nat] /\ N \in Nat
      /\ \A k \in 1 .. N :
           h.heap[k] \in S /\ h.heap[k] \in SolutionIds /\ h.place[h.heap[k]] = k
      /\ \A t \in S : h.place[t] \in 1 .. N /\ h.heap[h.place[t]] = t
      /\ \A k \in 2 .. N : ~Precedes(h.heap[k], h.heap[k \div 2])
      /\ i \in 1 .. N /\ h.heap[i] = s /\ s \in SolutionIds
  BY DEF Sifted, HeapOf, Placed, OrderedBut
<1>2. /\ shorter \in Seq(SolutionIds) /\ Len(shorter) = N - 1
      /\ \A k \in 1 .. N - 1 : shorter[k] = h.heap[k]
  <2>1. \A k \in 1 .. N - 1 : h.heap[k] \in SolutionIds
    BY <1>1
  <2>2. QED  BY <1>1, <2>1, SubSeqProperties
<1>3. CASE i = N
  <2>1. g = [heap |-> shorter, place |-> vacated, at |-> i]
    BY <1>1, <1>2, <1>3 DEF RemoveAccepted
  <2>2. /\ vacated \in [SolutionIds -> Nat]
        /\ \A t \in SolutionIds : t # s => vacated[t] = h.place[t]
    BY <1>1
  <2>3. g.heap = shorter /\ g.place = vacated
    BY <2>1
  <2>. HIDE DEF shorter, vacated, g
  <2>4. \A k \in 1 .. N - 1 : shorter[k] \in S \ {s} /\ vacated[shorter[k]] = k
    <3>. TAKE k \in 1 .. N - 1
    <3>1. k \in 1 .. N /\ k # N
      BY <1>1
    <3>2. shorter[k] = h.heap[k] /\ h.heap[k] \in S /\ h.heap[k] # s
      BY <1>1, <1>2, <1>3, <3>1
    <3>3. QED  BY <1>1, <2>2, <3>1, <3>2
  <2>5. \A t \in S \ {s} : vacated[t] \in 1 .. N - 1 /\ shorter[vacated[t]] = t
    <3>. TAKE t \in S \ {s}
    <3>1. h.place[t] \in 1 .. N /\ h.heap[h.place[t]] = t /\ h.place[t] # N
      BY <1>1, <1>3
    <3>2. h.place[t] \in 1 .. N - 1 /\ vacated[t] = h.place[t]
      BY <1>1, <2>2, <3>1
    <3>3. QED  BY <1>2, <3>1, <3>2
  <2>6. Placed(shorter, vacated, S \ {s})
    BY <1>2, <2>2, <2>4, <2>5 DEF Placed
  <2>7. OrderedBut(shorter, {})
    <3>1. ASSUME NEW k \in 2 .. N - 1
          PROVE  ~Precedes(shorter[k], shorter[k \div 2])
      <4>1. k \in 2 .. N /\ k \in 1 .. N - 1 /\ k \div 2 \in 1 .. N - 1
        BY <1>1, <3>1, Halves
      <4>2. QED  BY <1>1, <1>2, <4>1
    <3>2. QED  BY <1>2, <3>1 DEF OrderedBut
  <2>8. QED  BY <2>2, <2>3, <2>6, <2>7 DEF HeapOf, g
<1>4. CASE i # N
  <2>1. /\ a \in Sifted /\ a.at \in 1 .. Len(a.heap) /\ Placed(a.heap, a.place, S \ {s})
        /\ \A t \in SolutionIds : t \notin S => a.place[t] = h.place[t]
        /\ IF a.at > 1 /\ Precedes(a.heap[a.at], a.heap[a.at \div 2])
           THEN Rising(a) ELSE Sinking(a)
    BY <1>4, LastMoves
  <2>2. g = Settled(a)
    BY <1>1, <1>2, <1>4 DEF RemoveAccepted, LastMoved
  <2>. HIDE DEF a, g
  <2>3. S \ {s} \in SUBSET SolutionIds
    OBVIOUS
  <2>4. Moved(a, g, S \ {s}) /\ OrderedBut(g.heap, {})
    <3>1. CASE a.at > 1 /\ Precedes(a.heap[a.at], a.heap[a.at \div 2])
      <4>1. g = SiftUp(a) /\ Rising(a)
        BY <2>1, <2>2, <3>1 DEF Settled
      <4>2. QED  BY <2>1, <2>3, <4>1, SiftUpFacts
    <3>2. CASE ~(a.at > 1 /\ Precedes(a.heap[a.at], a.heap[a.at \div 2]))
      <4>1. g = SiftDown(a) /\ Sinking(a)
        BY <2>1, <2>2, <3>2 DEF Settled
      <4>2. QED  BY <2>1, <2>3, <4>1, SiftDownFacts
    <3>3. QED  BY <3>1, <3>2
  <2>5. QED  BY <2>1, <2>4 DEF Moved, HeapOf, g
<1>5. QED  BY <1>3, <1>4

----------------------------------------------------------------------------
(* The board: its projection. *)

Verdicts == {"none", "?", "AC", "RJ"}

Projections ==
  [known : 0 .. Len(Submissions), result : [SolutionIds -> Verdicts],
   frozen : [SolutionIds -> BOOLEAN], heap : [Problems -> Seq(SolutionIds)],
   place : [SolutionIds -> Nat], first : [Problems -> SolutionIds \cup {0}]]

AcceptedOf(result, p) ==
  {s \in SolutionIds : Submissions[s].problem = p /\ result[s] = "AC"}

\* The heap of every problem holds its accepted solutions, and its top is first blood.
ProjectionOK(b) ==
  /\ b \in Projections
  /\ \A s \in SolutionIds : s > b.known => b.result[s] = "none"
  /\ \A p \in Problems :
       /\ HeapOf(b.heap[p], b.place, AcceptedOf(b.result, p))
       /\ b.first[p] = IF b.heap[p] = <<>> THEN 0 ELSE b.heap[p][1]

\* What a submission is.
LEMMA SubmissionFacts ==
  \A s \in SolutionIds : Submissions[s].user \in Users /\ Submissions[s].problem \in Problems
<1>. DEFINE R == [user : Users, problem : Problems, time : Nat]
<1>1. Submissions \in Seq(R) /\ \A x \in R : x.user \in Users /\ x.problem \in Problems
  BY BoardAssumption
<1>. HIDE DEF R
<1>2. QED  BY <1>1, PrecedesFacts

\* A heap does not depend on the places of what is not in it.
LEMMA PlacedElsewhere ==
  ASSUME NEW heap, NEW place, NEW S \in SUBSET SolutionIds, HeapOf(heap, place, S),
         NEW place2 \in [SolutionIds -> Nat], \A t \in S : place2[t] = place[t]
  PROVE  HeapOf(heap, place2, S)
BY DEF HeapOf, Placed

\* A solution gets another result, and the heap of its problem follows.
LEMMA UpdateFacts ==
  ASSUME NEW b, ProjectionOK(b), NEW s \in SolutionIds, s <= b.known, NEW result \in Verdicts
  PROVE  LET c == UpdateAcceptedIndex(b, s, result)
         IN  /\ ProjectionOK(c) /\ c.known = b.known /\ c.frozen = b.frozen
             /\ c.result = [b.result EXCEPT ![s] = result]
<1>. DEFINE p == Submissions[s].problem
            old == [heap |-> b.heap[p], place |-> b.place, at |-> 0]
            new == IF b.result[s] = "AC" /\ result # "AC" THEN RemoveAccepted(old, s)
                   ELSE IF b.result[s] # "AC" /\ result = "AC" THEN AddAccepted(old, s)
                   ELSE old
            result2 == [b.result EXCEPT ![s] = result]
            top == IF new.heap = <<>> THEN 0 ELSE new.heap[1]
            heap2 == [b.heap EXCEPT ![p] = new.heap]
            first2 == [b.first EXCEPT ![p] = top]
            A == AcceptedOf(b.result, p)
            c == UpdateAcceptedIndex(b, s, result)
<1>1. /\ b \in Projections
      /\ b.known \in 0 .. Len(Submissions) /\ b.result \in [SolutionIds -> Verdicts]
      /\ b.frozen \in [SolutionIds -> BOOLEAN] /\ b.heap \in [Problems -> Seq(SolutionIds)]
      /\ b.place \in [SolutionIds -> Nat] /\ b.first \in [Problems -> SolutionIds \cup {0}]
      /\ \A t \in SolutionIds : t > b.known => b.result[t] = "none"
      /\ \A q \in Problems :
           /\ HeapOf(b.heap[q], b.place, AcceptedOf(b.result, q))
           /\ b.first[q] = IF b.heap[q] = <<>> THEN 0 ELSE b.heap[q][1]
  BY DEF ProjectionOK, Projections
<1>2. p \in Problems
  BY SubmissionFacts
<1>3. /\ old \in Sifted /\ old.heap = b.heap[p] /\ old.place = b.place
      /\ A \in SUBSET SolutionIds /\ HeapOf(old.heap, old.place, A)
  BY <1>1, <1>2 DEF Sifted, AcceptedOf
<1>4. /\ result2 \in [SolutionIds -> Verdicts] /\ result2[s] = result
      /\ \A t \in SolutionIds : t # s => result2[t] = b.result[t]
  BY <1>1
<1>5. c = [known |-> b.known, result |-> result2, frozen |-> b.frozen, heap |-> heap2,
           place |-> new.place, first |-> first2]
  BY DEF UpdateAcceptedIndex
<1>. HIDE DEF old, result2, c
<1>6. /\ HeapOf(new.heap, new.place, AcceptedOf(result2, p))
      /\ \A t \in SolutionIds : t \notin A /\ t # s => new.place[t] = b.place[t]
  <2>1. CASE b.result[s] = "AC" /\ result # "AC"
    <3>1. new = RemoveAccepted(old, s)
      BY <2>1
    <3>2. s \in A /\ AcceptedOf(result2, p) = A \ {s}
      BY <1>4, <2>1 DEF AcceptedOf
    <3>. HIDE DEF A, new
    <3>3. /\ HeapOf(RemoveAccepted(old, s).heap, RemoveAccepted(old, s).place, A \ {s})
          /\ \A t \in SolutionIds : t \notin A => RemoveAccepted(old, s).place[t] = old.place[t]
      BY <1>3, <3>2, RemoveFacts
    <3>4. QED  BY <1>3, <3>1, <3>2, <3>3
  <2>2. CASE b.result[s] # "AC" /\ result = "AC"
    <3>1. new = AddAccepted(old, s)
      BY <2>2
    <3>2. s \notin A /\ AcceptedOf(result2, p) = A \cup {s}
      BY <1>4, <2>2 DEF AcceptedOf
    <3>. HIDE DEF A, new
    <3>3. QED  BY <1>3, <3>1, <3>2, AddFacts
  <2>3. CASE (b.result[s] = "AC") = (result = "AC")
    <3>1. new = old
      BY <2>3
    <3>2. AcceptedOf(result2, p) = A
      BY <1>4, <2>3 DEF AcceptedOf
    <3>. HIDE DEF A, new
    <3>3. QED  BY <1>3, <3>1, <3>2
  <2>4. QED  BY <2>1, <2>2, <2>3
<1>. HIDE DEF new
<1>7. /\ new.heap \in Seq(SolutionIds) /\ new.place \in [SolutionIds -> Nat]
      /\ top \in SolutionIds \cup {0}
  BY <1>6 DEF HeapOf, Placed
<1>. HIDE DEF top
<1>8. /\ heap2 \in [Problems -> Seq(SolutionIds)] /\ heap2[p] = new.heap
      /\ first2 \in [Problems -> SolutionIds \cup {0}] /\ first2[p] = top
      /\ \A q \in Problems : q # p => heap2[q] = b.heap[q] /\ first2[q] = b.first[q]
  BY <1>1, <1>2, <1>7
<1>. HIDE DEF heap2, first2
<1>9. ASSUME NEW q \in Problems
      PROVE  /\ HeapOf(heap2[q], new.place, AcceptedOf(result2, q))
             /\ first2[q] = IF heap2[q] = <<>> THEN 0 ELSE heap2[q][1]
  <2>1. CASE q = p
    BY <1>6, <1>8, <2>1 DEF top
  <2>2. CASE q # p
    <3>1. AcceptedOf(result2, q) = AcceptedOf(b.result, q)
      BY <1>4, <2>2 DEF AcceptedOf
    <3>2. \A t \in AcceptedOf(b.result, q) : new.place[t] = b.place[t]
      BY <1>6, <2>2 DEF AcceptedOf
    <3>3. AcceptedOf(b.result, q) \in SUBSET SolutionIds
      BY DEF AcceptedOf
    <3>4. HeapOf(b.heap[q], b.place, AcceptedOf(b.result, q))
      BY <1>1
    <3>5. HeapOf(b.heap[q], new.place, AcceptedOf(b.result, q))
      BY <1>7, <3>2, <3>3, <3>4, PlacedElsewhere
    <3>6. QED  BY <1>1, <1>8, <2>2, <3>1, <3>5
  <2>3. QED  BY <2>1, <2>2
<1>10. c \in Projections
  BY <1>1, <1>4, <1>5, <1>7, <1>8 DEF Projections
<1>11. \A t \in SolutionIds : t > b.known => result2[t] = "none"
  BY <1>1, <1>4, PrecedesFacts
<1>12. /\ c.known = b.known /\ c.frozen = b.frozen /\ c.result = result2 /\ c.heap = heap2
       /\ c.place = new.place /\ c.first = first2
  BY <1>5
<1>13. ProjectionOK(c)
  BY <1>9, <1>10, <1>11, <1>12 DEF ProjectionOK
<1>14. QED  BY <1>12, <1>13 DEF c, result2

\* SETTLE and CHANGE: only the result of that solution is another.
LEMMA SettleFacts ==
  ASSUME NEW b, ProjectionOK(b), NEW s \in SolutionIds, s <= b.known, NEW result \in Results
  PROVE  LET c == Settle(b, s, result)
         IN  /\ ProjectionOK(c)
             /\ \A t \in SolutionIds : t # s => c.result[t] = b.result[t]
<1>. DEFINE projected == IF result = "none" /\ b.frozen[s] THEN "?" ELSE result
            frozen == (result = "?" \/ (result = "none" /\ b.frozen[s]))
            u == UpdateAcceptedIndex(b, s, projected)
            c == Settle(b, s, result)
<1>1. c = [u EXCEPT !.frozen = [u.frozen EXCEPT ![s] = frozen]]
  BY DEF Settle
<1>2. projected \in Verdicts
  BY BoardAssumption DEF Verdicts
<1>. HIDE DEF projected, c
<1>3. ProjectionOK(u) /\ u.result = [b.result EXCEPT ![s] = projected]
  BY <1>2, UpdateFacts
<1>4. frozen \in BOOLEAN
  OBVIOUS
<1>. HIDE DEF frozen, u
<1>5. u \in Projections /\ b.result \in [SolutionIds -> Verdicts]
  BY <1>3 DEF ProjectionOK, Projections
<1>6. [u.frozen EXCEPT ![s] = frozen] \in [SolutionIds -> BOOLEAN]
  BY <1>4, <1>5 DEF Projections
<1>7. /\ c \in Projections /\ c.known = u.known /\ c.result = u.result /\ c.heap = u.heap
      /\ c.place = u.place /\ c.first = u.first
  BY <1>1, <1>5, <1>6 DEF Projections
<1>8. ProjectionOK(c)
  BY <1>3, <1>7 DEF ProjectionOK
<1>9. \A t \in SolutionIds : t # s => c.result[t] = b.result[t]
  BY <1>3, <1>5, <1>7
<1>10. QED  BY <1>8, <1>9 DEF c

\* NEW: a solution becomes known, judged not yet or frozen.
LEMMA NewFacts ==
  ASSUME NEW b, ProjectionOK(b), NEW s \in SolutionIds, s > b.known
  PROVE  LET c == New(b, s)
         IN  /\ ProjectionOK(c)
             /\ c.frozen[s] \in BOOLEAN
             /\ ~c.frozen[s] => c.result[s] = b.result[s]
             /\ \A t \in SolutionIds : t # s => c.result[t] = b.result[t]
<1>. DEFINE frozen == Submissions[s].time >= FreezeTime
            verdict == IF frozen THEN "?" ELSE "none"
            result2 == [b.result EXCEPT ![s] = verdict]
            frozen2 == [b.frozen EXCEPT ![s] = frozen]
            c == New(b, s)
<1>1. c = [b EXCEPT !.known = s, !.frozen = frozen2, !.result = result2]
  BY DEF New
<1>. HIDE DEF c
<1>2. /\ b \in Projections
      /\ b.known \in 0 .. Len(Submissions) /\ b.result \in [SolutionIds -> Verdicts]
      /\ b.frozen \in [SolutionIds -> BOOLEAN]
      /\ \A t \in SolutionIds : t > b.known => b.result[t] = "none"
      /\ \A q \in Problems :
           /\ HeapOf(b.heap[q], b.place, AcceptedOf(b.result, q))
           /\ b.first[q] = IF b.heap[q] = <<>> THEN 0 ELSE b.heap[q][1]
  BY DEF ProjectionOK, Projections
<1>3. verdict \in Verdicts /\ verdict # "AC" /\ (~frozen => verdict = "none")
  BY DEF Verdicts
<1>4. frozen \in BOOLEAN
  OBVIOUS
<1>. HIDE DEF verdict, frozen
<1>5. /\ result2 \in [SolutionIds -> Verdicts] /\ result2[s] = verdict
      /\ \A t \in SolutionIds : t # s => result2[t] = b.result[t]
  BY <1>2, <1>3
<1>6. frozen2 \in [SolutionIds -> BOOLEAN] /\ frozen2[s] = frozen
  BY <1>2, <1>4
<1>. HIDE DEF result2, frozen2
<1>7. s \in 1 .. Len(Submissions) /\ b.result[s] = "none"
  BY <1>2, PrecedesFacts
<1>8. c \in Projections
  <2>. DEFINE c1 == [b EXCEPT !.known = s]
              c2 == [c1 EXCEPT !.frozen = frozen2]
              c3 == [c2 EXCEPT !.result = result2]
  <2>1. c1 \in Projections
    <3>1. s \in 0 .. Len(Submissions)
      BY <1>7, PrecedesFacts
    <3>2. QED  BY <1>2, <3>1 DEF Projections
  <2>2. c = c3
    BY <1>1
  <2>. HIDE DEF c1
  <2>3. c2 \in Projections
    BY <1>6, <2>1 DEF Projections
  <2>. HIDE DEF c2
  <2>4. c3 \in Projections
    BY <1>5, <2>3 DEF Projections
  <2>5. QED  BY <2>2, <2>4
<1>9. /\ c.known = s /\ c.result = result2 /\ c.heap = b.heap /\ c.frozen = frozen2
      /\ c.place = b.place /\ c.first = b.first
  BY <1>1, <1>2 DEF Projections
<1>10. \A t \in SolutionIds : t > s => result2[t] = "none"
  BY <1>2, <1>5, PrecedesFacts
<1>11. \A q \in Problems : AcceptedOf(result2, q) = AcceptedOf(b.result, q)
  BY <1>3, <1>5, <1>7 DEF AcceptedOf
<1>12. ProjectionOK(c)
  BY <1>2, <1>8, <1>9, <1>10, <1>11 DEF ProjectionOK
<1>13. QED  BY <1>3, <1>4, <1>5, <1>6, <1>7, <1>9, <1>12 DEF c

\* The row of a user, and that it depends on the results of this user only.
LEMMA RowFacts ==
  ASSUME NEW b, ProjectionOK(b), NEW user
  PROVE  /\ RowOf(b, user) \subseteq SolutionIds \X {"?", "AC", "RJ"}
         /\ \A s \in SolutionIds :
              <<s, "AC">> \in RowOf(b, user)
                <=> (Submissions[s].user = user /\ b.result[s] = "AC")
         /\ RowOf(b, user) = {<<s, b.result[s]>> : s \in {t \in SolutionIds :
                                Submissions[t].user = user /\ b.result[t] # "none"}}
<1>1. /\ b.known \in 0 .. Len(Submissions) /\ b.result \in [SolutionIds -> Verdicts]
      /\ \A s \in SolutionIds : s > b.known => b.result[s] = "none"
  BY DEF ProjectionOK, Projections
<1>2. 1 .. b.known \subseteq SolutionIds
  BY <1>1, PrecedesFacts
<1>. DEFINE T == {t \in SolutionIds : Submissions[t].user = user /\ b.result[t] # "none"}
            U == {t \in 1 .. b.known : Submissions[t].user = user /\ b.result[t] # "none"}
<1>3. U = T
  <2>1. \A t \in SolutionIds : t \notin 1 .. b.known => b.result[t] = "none"
    BY <1>1, PrecedesFacts
  <2>2. QED  BY <1>2, <2>1
<1>4. RowOf(b, user) = {<<s, b.result[s]>> : s \in U}
  BY DEF RowOf
<1>5. RowOf(b, user) = {<<s, b.result[s]>> : s \in T}
  <2>. HIDE DEF T, U
  <2>1. QED  BY <1>3, <1>4
<1>6. \A t \in T : t \in SolutionIds /\ b.result[t] \in {"?", "AC", "RJ"}
  BY <1>1 DEF Verdicts
<1>7. RowOf(b, user) \subseteq SolutionIds \X {"?", "AC", "RJ"}
  <2>. HIDE DEF T
  <2>1. QED  BY <1>5, <1>6
<1>8. ASSUME NEW s \in SolutionIds
      PROVE  <<s, "AC">> \in RowOf(b, user)
               <=> (Submissions[s].user = user /\ b.result[s] = "AC")
  <2>1. <<s, "AC">> \in RowOf(b, user) <=> s \in T /\ b.result[s] = "AC"
    <3>. HIDE DEF T
    <3>1. QED  BY <1>5
  <2>2. QED  BY <2>1
<1>9. QED  BY <1>5, <1>7, <1>8

\* A row changes only with the results of its user.
LEMMA RowStays ==
  ASSUME NEW b, NEW c, ProjectionOK(b), ProjectionOK(c), NEW user,
         \A t \in SolutionIds : Submissions[t].user = user => c.result[t] = b.result[t]
  PROVE  RowOf(c, user) = RowOf(b, user)
<1>. DEFINE T(d) == {t \in SolutionIds : Submissions[t].user = user /\ d.result[t] # "none"}
<1>1. RowOf(b, user) = {<<s, b.result[s]>> : s \in T(b)}
  BY RowFacts
<1>2. RowOf(c, user) = {<<s, c.result[s]>> : s \in T(c)}
  BY RowFacts
<1>3. T(c) = T(b) /\ \A s \in T(b) : c.result[s] = b.result[s]
  OBVIOUS
<1>. HIDE DEF T
<1>4. {<<s, c.result[s]>> : s \in T(b)} = {<<s, b.result[s]>> : s \in T(b)}
  BY <1>3
<1>5. QED  BY <1>1, <1>2, <1>3, <1>4

Earliest(s, S) == s \in S /\ \A t \in S \ {s} : Precedes(s, t)

\* There is one earliest solution at most.
LEMMA OneEarliest ==
  ASSUME NEW S \in SUBSET SolutionIds, NEW s, NEW t, Earliest(s, S), Earliest(t, S)
  PROVE  s = t
BY PrecedesFacts DEF Earliest

\* First blood is the earliest of the accepted solutions, if there are any.
LEMMA FirstFacts ==
  ASSUME NEW b, ProjectionOK(b), NEW p \in Problems
  PROVE  LET S == AcceptedOf(b.result, p)
         IN  /\ S \in SUBSET SolutionIds
             /\ IF S = {} THEN b.first[p] = 0 ELSE Earliest(b.first[p], S)
             /\ b.first[p] \in SolutionIds \cup {0}
<1>. DEFINE S == AcceptedOf(b.result, p)
            heap == b.heap[p]
            top == heap[1]
<1>1. /\ HeapOf(heap, b.place, S) /\ S \in SUBSET SolutionIds
      /\ b.first[p] = IF heap = <<>> THEN 0 ELSE top
      /\ b.first[p] \in SolutionIds \cup {0}
  BY DEF ProjectionOK, AcceptedOf, Projections
<1>2. /\ heap \in Seq(SolutionIds) /\ OrderedBut(heap, {})
      /\ \A i \in 1 .. Len(heap) : heap[i] \in S
      /\ \A s \in S : b.place[s] \in 1 .. Len(heap) /\ heap[b.place[s]] = s
  BY <1>1 DEF HeapOf, Placed
<1>. HIDE DEF S, heap
<1>3. CASE heap = <<>>
  <2>1. S = {}
    BY <1>2, <1>3
  <2>2. QED  BY <1>1, <1>3, <2>1 DEF S
<1>4. CASE heap # <<>>
  <2>1. 1 \in 1 .. Len(heap) /\ top \in S /\ b.first[p] = top
    BY <1>1, <1>2, <1>4
  <2>2. \A i \in 1 .. Len(heap) : ~Precedes(heap[i], top)
    BY <1>2, TopFacts
  <2>3. ASSUME NEW t \in S \ {top}
        PROVE  Precedes(top, t)
    <3>1. ~Precedes(t, top)
      BY <1>2, <2>2
    <3>2. QED  BY <1>1, <2>1, <3>1, PrecedesFacts
  <2>4. Earliest(top, S)
    BY <2>1, <2>3 DEF Earliest
  <2>5. QED  BY <1>1, <2>1, <2>4 DEF S
<1>5. QED  BY <1>3, <1>4

\* What may have been read from b on: rows of users that are not touched stay.
ReadFrom(b, users) ==
  {c \in [projection : Projections, touched : SUBSET Users, drafts : SUBSET SolutionIds] :
     /\ ProjectionOK(c.projection)
     /\ users \subseteq c.touched
     /\ \A u \in Users \ c.touched : RowOf(c.projection, u) = RowOf(b, u)}

\* One event more.
LEMMA ConsumeFacts ==
  ASSUME NEW b, NEW users, NEW c \in ReadFrom(b, users), NEW e \in Events
  PROVE  Consume1(c, e) \in ReadFrom(b, users)
<1>. DEFINE a == c.projection
            s == e.solution
            user == Submissions[s].user
            d == Consume1(c, e)
<1>1. /\ a \in Projections /\ c.touched \in SUBSET Users /\ c.drafts \in SUBSET SolutionIds
      /\ ProjectionOK(a) /\ users \subseteq c.touched /\ a.known \in Nat
      /\ \A u \in Users \ c.touched : RowOf(a, u) = RowOf(b, u)
  BY PrecedesFacts DEF ReadFrom, Projections
<1>2. /\ s \in SolutionIds /\ s \in Nat /\ user \in Users
      /\ e.type = "settle" => e.result \in Results
  BY PrecedesFacts, SubmissionFacts DEF Events
<1>3. ASSUME ProjectionOK(d.projection), d.touched \in SUBSET Users,
             c.touched \subseteq d.touched, d.drafts \in SUBSET SolutionIds,
             d = [projection |-> d.projection, touched |-> d.touched, drafts |-> d.drafts],
             \A t \in SolutionIds :
               d.projection.result[t] = a.result[t] \/ Submissions[t].user \in d.touched
      PROVE  d \in ReadFrom(b, users)
  <2>1. ASSUME NEW u \in Users \ d.touched
        PROVE  RowOf(d.projection, u) = RowOf(b, u)
    <3>1. \A t \in SolutionIds : Submissions[t].user = u => d.projection.result[t] = a.result[t]
      BY <1>3, <2>1
    <3>2. RowOf(d.projection, u) = RowOf(a, u)
      BY <1>1, <1>3, <3>1, RowStays
    <3>3. QED  BY <1>1, <1>3, <2>1, <3>2
  <2>2. d.projection \in Projections
    BY <1>3 DEF ProjectionOK
  <2>. HIDE DEF d
  <2>3. QED  BY <1>1, <1>3, <2>1, <2>2 DEF ReadFrom
<1>4. CASE e.type = "new" /\ s > a.known
  <2>. DEFINE a2 == New(a, s)
              touched2 == c.touched \cup (IF a2.frozen[s] THEN {user} ELSE {})
  <2>1. d = [projection |-> a2, touched |-> touched2, drafts |-> c.drafts]
    BY <1>4 DEF Consume1
  <2>. HIDE DEF a, s, d
  <2>2. /\ ProjectionOK(a2) /\ a2.frozen[s] \in BOOLEAN
        /\ ~a2.frozen[s] => a2.result[s] = a.result[s]
        /\ \A t \in SolutionIds : t # s => a2.result[t] = a.result[t]
    BY <1>1, <1>2, <1>4, NewFacts
  <2>. HIDE DEF a2
  <2>3. touched2 \in SUBSET Users /\ c.touched \subseteq touched2
    BY <1>1, <1>2
  <2>4. \A t \in SolutionIds : a2.result[t] = a.result[t] \/ Submissions[t].user \in touched2
    BY <2>2
  <2>. HIDE DEF touched2
  <2>5. d.projection = a2 /\ d.touched = touched2 /\ d.drafts = c.drafts
    BY <2>1
  <2>6. d \in ReadFrom(b, users)
    BY <1>1, <1>3, <2>1, <2>2, <2>3, <2>4, <2>5
  <2>7. QED  BY <2>6 DEF d
<1>5. CASE e.type = "settle" /\ s <= a.known
  <2>. DEFINE a2 == Settle(a, s, e.result)
              touched2 == c.touched \cup {user}
              drafts2 == c.drafts \cup (IF e.result = "AC" THEN {s} ELSE {})
  <2>1. d = [projection |-> a2, touched |-> touched2, drafts |-> drafts2]
    BY <1>5 DEF Consume1
  <2>2. touched2 \in SUBSET Users /\ c.touched \subseteq touched2
    BY <1>1, <1>2
  <2>3. drafts2 \in SUBSET SolutionIds
    BY <1>1, <1>2
  <2>. HIDE DEF a, s, d
  <2>4. ProjectionOK(a2) /\ \A t \in SolutionIds : t # s => a2.result[t] = a.result[t]
    BY <1>1, <1>2, <1>5, SettleFacts
  <2>. HIDE DEF a2, drafts2
  <2>5. \A t \in SolutionIds : a2.result[t] = a.result[t] \/ Submissions[t].user \in touched2
    BY <2>4
  <2>. HIDE DEF touched2
  <2>6. d.projection = a2 /\ d.touched = touched2 /\ d.drafts = drafts2
    BY <2>1
  <2>7. d \in ReadFrom(b, users)
    BY <1>3, <2>1, <2>2, <2>3, <2>4, <2>5, <2>6
  <2>8. QED  BY <2>7 DEF d
<1>6. CASE ~(e.type = "new" /\ s > a.known) /\ ~(e.type = "settle" /\ s <= a.known)
  <2>1. d = c
    BY <1>6 DEF Consume1
  <2>2. QED  BY <2>1
<1>7. QED  BY <1>4, <1>5, <1>6

\* A whole batch.
LEMMA ConsumedFacts ==
  ASSUME NEW b, ProjectionOK(b), NEW users \in SUBSET Users, NEW n \in Nat,
         NEW batch \in [1 .. n -> Events]
  PROVE  Consumed1(b, users, batch) \in ReadFrom(b, users)
<1>. DEFINE N == Len(batch)
            X == ReadFrom(b, users)
            first == [projection |-> b, touched |-> users, drafts |-> {}]
            next == [i \in 1 .. N |-> [c \in X |-> Consume1(c, batch[i])]]
            f == Unrolled(X, first, next, N)
            read[i \in 0 .. N] == IF i = 0 THEN first ELSE Consume1(read[i - 1], batch[i])
<1>1. N \in Nat /\ batch \in [1 .. N -> Events]
  BY SeqDef
<1>2. first \in X
  BY DEF ReadFrom, ProjectionOK
<1>. HIDE DEF N, X, first
<1>3. /\ next \in [1 .. N -> [X -> X]]
      /\ \A i \in 1 .. N : \A c \in X : next[i][c] = Consume1(c, batch[i])
  <2>1. \A i \in 1 .. N : \A c \in X : Consume1(c, batch[i]) \in X
    BY <1>1, ConsumeFacts DEF X
  <2>2. QED  BY <2>1
<1>. HIDE DEF next
<1>4. f \in [0 .. N -> X] /\ f[0] = first /\ \A i \in 1 .. N : f[i] = next[i][f[i - 1]]
  BY <1>1, <1>2, <1>3, Recursion
<1>. HIDE DEF f
<1>5. \A i \in 1 .. N : f[i] = Consume1(f[i - 1], batch[i])
  <2>1. \A i \in 1 .. N : i - 1 \in 0 .. N /\ f[i - 1] \in X
    BY <1>1, <1>4
  <2>2. QED  BY <1>3, <1>4, <2>1
<1>6. f = [i \in 0 .. N |-> IF i = 0 THEN first ELSE Consume1(f[i - 1], batch[i])]
  BY <1>1, <1>4, <1>5
<1>7. read = [i \in 0 .. N |-> IF i = 0 THEN first ELSE Consume1(read[i - 1], batch[i])]
  <2>. DEFINE Recursive(r) ==
         r = [i \in 0 .. N |-> IF i = 0 THEN first ELSE Consume1(r[i - 1], batch[i])]
  <2>1. Recursive(f)
    BY <1>6
  <2>2. read = CHOOSE r : Recursive(r)
    OBVIOUS
  <2>. HIDE DEF Recursive
  <2>3. Recursive(read)
    BY <2>1, <2>2
  <2>4. QED  BY <2>3 DEF Recursive
<1>. HIDE DEF read
<1>8. \A i \in 0 .. N : i \in {j \in 0 .. N : read[j] = f[j]}
  <2>. DEFINE T == {j \in 0 .. N : read[j] = f[j]}
  <2>1. 0 \in T
    BY <1>1, <1>4, <1>7
  <2>2. ASSUME NEW i \in 0 .. N, i < N, i \in T
        PROVE  i + 1 \in T
    <3>1. read[i + 1] = Consume1(read[i], batch[i + 1])
      BY <1>1, <1>7, <2>2
    <3>2. f[i + 1] = Consume1(f[i], batch[i + 1])
      BY <1>1, <1>6, <2>2
    <3>3. QED  BY <1>1, <2>2, <3>1, <3>2
  <2>. HIDE DEF T
  <2>3. \A i \in 0 .. N : i \in T
    BY <1>1, <2>1, <2>2, UpTo
  <2>4. QED  BY <2>3 DEF T
<1>9. Consumed1(b, users, batch) = read[N]
  BY DEF Consumed1, read, first, N
<1>10. QED  BY <1>1, <1>4, <1>8, <1>9 DEF X

\* The marks in rows that are up to date are first blood.
LEMMA MarkFacts ==
  ASSUME NEW b, ProjectionOK(b), NEW r, \A u \in Users : r[u] = RowOf(b, u), NEW p \in Problems
  PROVE  ApplyFirstBlood(b, r)[p] = b.first[p]
<1>. DEFINE S == AcceptedOf(b.result, p)
            f == b.first[p]
            row == r[Submissions[f].user]
            accepted == {s \in SolutionIds : <<s, "AC">> \in row /\ Submissions[s].problem = p}
            least == CHOOSE s \in accepted : \A t \in accepted \ {s} : Precedes(s, t)
<1>1. S \in SUBSET SolutionIds /\ IF S = {} THEN f = 0 ELSE Earliest(f, S)
  BY FirstFacts
<1>2. ApplyFirstBlood(b, r)[p] = IF f = 0 THEN 0 ELSE IF accepted = {} THEN 0 ELSE least
  BY DEF ApplyFirstBlood
<1>3. CASE S = {}
  BY <1>1, <1>2, <1>3
<1>4. CASE S # {}
  <2>1. f \in S /\ f \in SolutionIds /\ f # 0 /\ Earliest(f, S)
    BY <1>1, <1>4, PrecedesFacts DEF Earliest
  <2>2. Submissions[f].user \in Users
    BY <2>1, SubmissionFacts
  <2>3. \A s \in SolutionIds :
          <<s, "AC">> \in row
            <=> (Submissions[s].user = Submissions[f].user /\ b.result[s] = "AC")
    <3>. DEFINE user == Submissions[f].user
    <3>1. row = RowOf(b, user)
      BY <2>2
    <3>. HIDE DEF row, user
    <3>2. \A s \in SolutionIds : <<s, "AC">> \in RowOf(b, user)
                                   <=> (Submissions[s].user = user /\ b.result[s] = "AC")
      BY RowFacts
    <3>3. QED  BY <3>1, <3>2 DEF user
  <2>4. accepted \in SUBSET S /\ f \in accepted
    BY <2>1, <2>3 DEF AcceptedOf
  <2>5. Earliest(f, accepted)
    BY <2>1, <2>4 DEF Earliest
  <2>6. least = CHOOSE s : Earliest(s, accepted)
    BY DEF Earliest
  <2>. HIDE DEF accepted, least
  <2>7. Earliest(least, accepted)
    BY <2>5, <2>6
  <2>8. least = f
    BY <1>1, <2>4, <2>5, <2>7, OneEarliest
  <2>9. accepted # {}
    BY <2>4
  <2>. HIDE DEF f
  <2>10. QED  BY <1>2, <2>1, <2>8, <2>9 DEF f
<1>5. QED  BY <1>3, <1>4

\* Rows determine first blood.
LEMMA SameFirst ==
  ASSUME NEW b, NEW c, ProjectionOK(b), ProjectionOK(c), NEW p \in Problems,
         \A u \in Users : RowOf(b, u) = RowOf(c, u)
  PROVE  b.first[p] = c.first[p]
<1>1. AcceptedOf(b.result, p) = AcceptedOf(c.result, p)
  <2>1. ASSUME NEW s \in SolutionIds
        PROVE  b.result[s] = "AC" <=> c.result[s] = "AC"
    <3>. DEFINE user == Submissions[s].user
    <3>1. RowOf(b, user) = RowOf(c, user)
      BY SubmissionFacts
    <3>2. <<s, "AC">> \in RowOf(b, user) <=> b.result[s] = "AC"
      BY RowFacts
    <3>3. <<s, "AC">> \in RowOf(c, user) <=> c.result[s] = "AC"
      BY RowFacts
    <3>4. QED  BY <3>1, <3>2, <3>3
  <2>2. QED  BY <2>1 DEF AcceptedOf
<1>. DEFINE S == AcceptedOf(b.result, p)
<1>2. S \in SUBSET SolutionIds /\ IF S = {} THEN b.first[p] = 0 ELSE Earliest(b.first[p], S)
  BY FirstFacts
<1>3. IF S = {} THEN c.first[p] = 0 ELSE Earliest(c.first[p], S)
  BY <1>1, FirstFacts
<1>. HIDE DEF S
<1>4. QED  BY <1>2, <1>3, OneEarliest

Rows == [Users -> SUBSET (SolutionIds \X {"?", "AC", "RJ"})]

\* What is published once everything is rebuilt that was touched.
LEMMA PublishedFacts ==
  ASSUME NEW b, ProjectionOK(b), NEW users \in SUBSET Users, rows \in Rows,
         \A u \in Users \ users : rows[u] = RowOf(b, u)
  PROVE  /\ RebuildUsers(b, users) \in Rows
         /\ \A u \in Users : RebuildUsers(b, users)[u] = RowOf(b, u)
         /\ \A p \in Problems : ApplyFirstBlood(b, RebuildUsers(b, users))[p] = b.first[p]
         /\ ApplyFirstBlood(b, RebuildUsers(b, users)) \in [Problems -> SolutionIds \cup {0}]
<1>. DEFINE r == RebuildUsers(b, users)
<1>1. \A u \in Users : r[u] = RowOf(b, u)
  BY DEF RebuildUsers
<1>2. r \in Rows
  <2>1. r = [u \in Users |-> r[u]]
    BY DEF RebuildUsers
  <2>2. \A u \in Users : RowOf(b, u) \subseteq SolutionIds \X {"?", "AC", "RJ"}
    BY RowFacts
  <2>. HIDE DEF r
  <2>3. QED  BY <1>1, <2>1, <2>2 DEF Rows
<1>. HIDE DEF r
<1>3. \A p \in Problems : ApplyFirstBlood(b, r)[p] = b.first[p]
  BY <1>1, MarkFacts
<1>4. \A p \in Problems : b.first[p] \in SolutionIds \cup {0}
  BY FirstFacts
<1>5. ApplyFirstBlood(b, r) \in [Problems -> SolutionIds \cup {0}]
  <2>1. ApplyFirstBlood(b, r) = [p \in Problems |-> ApplyFirstBlood(b, r)[p]]
    BY DEF ApplyFirstBlood
  <2>2. QED  BY <1>3, <1>4, <2>1
<1>6. QED  BY <1>1, <1>2, <1>3, <1>5 DEF r

\* Rows lag behind by the users that are touched only; once the board follows, marks and
\* what scrolls by are first blood.
BoardInv ==
  /\ ProjectionOK(projection)
  /\ touched \in SUBSET Users /\ rolled \in SUBSET SolutionIds
  /\ rows \in Rows /\ marked \in [Problems -> SolutionIds \cup {0}]
  /\ \A u \in Users \ touched : rows[u] = RowOf(projection, u)
  /\ following =>
       /\ touched = {}
       /\ \A p \in Problems : marked[p] = projection.first[p]
       /\ \A s \in rolled : projection.first[Submissions[s].problem] = s
  /\ ~following =>
       /\ \A u \in Users : rows[u] = {}
       /\ \A p \in Problems : marked[p] = 0
       /\ rolled = {}

\* The blank board.
LEMMA BlankFacts ==
  ProjectionOK(BlankProjection) /\ \A u : RowOf(BlankProjection, u) = {}
<1>. DEFINE b == BlankProjection
<1>1. /\ b.known = 0 /\ b.result = [s \in SolutionIds |-> "none"]
      /\ b.heap = [p \in Problems |-> <<>>] /\ b.place = [s \in SolutionIds |-> 0]
      /\ b.first = [p \in Problems |-> 0]
  BY DEF BlankProjection
<1>2. b \in Projections
  BY PrecedesFacts DEF BlankProjection, Projections, Verdicts
<1>3. ASSUME NEW p \in Problems
      PROVE  HeapOf(<<>>, b.place, AcceptedOf(b.result, p))
  <2>1. AcceptedOf(b.result, p) = {}
    BY <1>1 DEF AcceptedOf
  <2>2. QED  BY <1>1, <2>1 DEF HeapOf, Placed, OrderedBut
<1>. HIDE DEF b
<1>4. ProjectionOK(b)
  BY <1>1, <1>2, <1>3 DEF ProjectionOK
<1>5. \A u : RowOf(b, u) = {}
  BY <1>1 DEF RowOf
<1>6. QED  BY <1>4, <1>5 DEF b

\* The invariant holds initially,
LEMMA BoardInvInit ==
  BoardInit => BoardInv
<1>. SUFFICES ASSUME BoardInit
              PROVE  BoardInv
  OBVIOUS
<1>1. rows \in Rows
  BY DEF BoardInit, Rows
<1>. HIDE DEF Rows
<1>2. QED  BY <1>1, BlankFacts DEF BoardInit, BoardInv

\* Every batch leaves the rows of untouched users as they are.
LEMMA BatchFacts ==
  ASSUME NEW b, ProjectionOK(b), NEW users \in SUBSET Users, NEW batch \in Batches
  PROVE  Consumed1(b, users, batch) \in ReadFrom(b, users)
<1>1. PICK n \in 1 .. MaxBatch : batch \in [1 .. n -> Events]
  BY DEF Batches
<1>2. n \in Nat
  BY <1>1, BoardAssumption
<1>3. QED  BY <1>1, <1>2, ConsumedFacts

\* it is kept by every action,
LEMMA BoardInvStep ==
  BoardInv /\ [BoardNext]_boardVars => BoardInv'
<1>. SUFFICES ASSUME BoardInv, [BoardNext]_boardVars
              PROVE  BoardInv'
  OBVIOUS
<1>1. /\ ProjectionOK(projection)
      /\ touched \in SUBSET Users /\ rolled \in SUBSET SolutionIds
      /\ rows \in Rows /\ marked \in [Problems -> SolutionIds \cup {0}]
      /\ \A u \in Users \ touched : rows[u] = RowOf(projection, u)
  BY DEF BoardInv
<1>. DEFINE a == projection
<1>2. ASSUME NEW batch \in Batches, IngestInitial(batch)
      PROVE  BoardInv'
  <2>. DEFINE c == Consumed1(a, touched, batch)
  <2>1. c \in ReadFrom(a, touched)
    BY <1>1, BatchFacts
  <2>2. /\ ~following /\ projection' = c.projection /\ touched' = c.touched
        /\ rows' = rows /\ marked' = marked /\ rolled' = rolled /\ following' = following
    BY <1>2 DEF IngestInitial
  <2>. HIDE DEF c
  <2>3. /\ ProjectionOK(c.projection)
        /\ touched \subseteq c.touched /\ c.touched \in SUBSET Users
        /\ \A u \in Users \ c.touched : RowOf(c.projection, u) = RowOf(a, u)
    BY <2>1 DEF ReadFrom
  <2>4. ProjectionOK(projection')
    BY <2>2, <2>3
  <2>5. \A u \in Users \ touched' : rows'[u] = RowOf(projection', u)
    BY <1>1, <2>2, <2>3
  <2>6. QED  BY <1>1, <2>2, <2>3, <2>4, <2>5 DEF BoardInv, ProjectionOK, RowOf
<1>3. CASE FinishInitial
  <2>1. /\ ~following /\ following' /\ touched' = {} /\ a' = a /\ rolled' = rolled
        /\ rows' = RebuildUsers(a, touched)
        /\ marked' = IF touched = {} THEN marked
                     ELSE ApplyFirstBlood(a, RebuildUsers(a, touched))
    BY <1>3 DEF FinishInitial, Published
  <2>2. /\ rows' \in Rows /\ \A u \in Users : rows'[u] = RowOf(a, u)
        /\ \A p \in Problems : ApplyFirstBlood(a, RebuildUsers(a, touched))[p] = a.first[p]
        /\ ApplyFirstBlood(a, RebuildUsers(a, touched)) \in [Problems -> SolutionIds \cup {0}]
    BY <1>1, <2>1, PublishedFacts
  <2>3. /\ marked' \in [Problems -> SolutionIds \cup {0}]
        /\ \A p \in Problems : marked'[p] = a.first[p]
    <3>1. CASE touched = {}
      <4>1. \A u \in Users : RowOf(a, u) = RowOf(BlankProjection, u)
        BY <1>1, <2>1, <3>1, BlankFacts DEF BoardInv
      <4>2. \A p \in Problems : a.first[p] = BlankProjection.first[p]
        BY <1>1, <4>1, BlankFacts, SameFirst
      <4>3. \A p \in Problems : BlankProjection.first[p] = 0 /\ marked[p] = 0
        BY <2>1 DEF BlankProjection, BoardInv
      <4>4. QED  BY <1>1, <2>1, <3>1, <4>2, <4>3
    <3>2. CASE touched # {}
      BY <2>1, <2>2, <3>2
    <3>3. QED  BY <3>1, <3>2
  <2>4. rolled' = {}
    BY <2>1 DEF BoardInv
  <2>5. QED  BY <1>1, <2>1, <2>2, <2>3, <2>4 DEF BoardInv, ProjectionOK, RowOf
<1>4. ASSUME NEW batch \in Batches, ApplyLive(batch)
      PROVE  BoardInv'
  <2>. DEFINE c == Consumed1(a, {}, batch)
              r == RebuildUsers(c.projection, c.touched)
  <2>1. c \in ReadFrom(a, {})
    BY <1>1, BatchFacts
  <2>2. /\ following /\ following' = following /\ touched' = touched
        /\ projection' = c.projection /\ rows' = r
        /\ marked' = IF c.touched = {} THEN marked ELSE ApplyFirstBlood(c.projection, r)
        /\ rolled' = DisplayedFirstBlood(c.projection, c.drafts)
    BY <1>4 DEF ApplyLive, Published
  <2>. HIDE DEF c
  <2>3. /\ ProjectionOK(c.projection)
        /\ c.touched \in SUBSET Users /\ c.drafts \in SUBSET SolutionIds
        /\ \A u \in Users \ c.touched : RowOf(c.projection, u) = RowOf(a, u)
    BY <2>1 DEF ReadFrom
  <2>4. /\ touched = {} /\ \A u \in Users : rows[u] = RowOf(a, u)
        /\ \A p \in Problems : marked[p] = a.first[p]
    BY <1>1, <2>2 DEF BoardInv
  <2>5. /\ r \in Rows /\ \A u \in Users : r[u] = RowOf(c.projection, u)
        /\ \A p \in Problems : ApplyFirstBlood(c.projection, r)[p] = c.projection.first[p]
        /\ ApplyFirstBlood(c.projection, r) \in [Problems -> SolutionIds \cup {0}]
    BY <1>1, <2>3, <2>4, PublishedFacts
  <2>6. /\ marked' \in [Problems -> SolutionIds \cup {0}]
        /\ \A p \in Problems : marked'[p] = c.projection.first[p]
    <3>1. CASE c.touched = {}
      <4>1. \A p \in Problems : a.first[p] = c.projection.first[p]
        <5>1. \A u \in Users : RowOf(a, u) = RowOf(c.projection, u)
          BY <2>3, <3>1
        <5>2. QED  BY <1>1, <2>3, <5>1, SameFirst
      <4>2. QED  BY <1>1, <2>2, <2>4, <3>1, <4>1
    <3>2. CASE c.touched # {}
      BY <2>2, <2>5, <3>2
    <3>3. QED  BY <3>1, <3>2
  <2>7. /\ rolled' \in SUBSET SolutionIds
        /\ \A s \in rolled' : c.projection.first[Submissions[s].problem] = s
    BY <2>2, <2>3 DEF DisplayedFirstBlood
  <2>. HIDE DEF r
  <2>8. ProjectionOK(projection')
    BY <2>2, <2>3
  <2>9. QED  BY <1>1, <2>2, <2>4, <2>5, <2>6, <2>7, <2>8 DEF BoardInv, ProjectionOK, RowOf
<1>5. CASE ResetBoard
  BY <1>5, BlankFacts DEF ResetBoard, BoardInv, Rows, ProjectionOK, RowOf
<1>6. CASE UNCHANGED boardVars
  BY <1>1, <1>6 DEF BoardInv, boardVars, ProjectionOK, RowOf
<1>7. QED  BY <1>2, <1>3, <1>4, <1>5, <1>6 DEF BoardNext

\* and so it holds always.
LEMMA BoardSound == BoardSpec => []BoardInv
BY BoardInvInit, BoardInvStep, PTL DEF BoardSpec

\* The projection, the rows and the marks have their types.
THEOREM BoardTypeCorrect == BoardSpec => []BoardTypeOK
<1>1. BoardInv => BoardTypeOK
  BY DEF BoardInv, BoardTypeOK, ProjectionOK, Projections, Verdicts, Rows
<1>2. QED  BY <1>1, BoardSound, PTL

\* Rows and marks are those of all events at once, whatever the batches: nothing of what
\* was touched gets lost, first blood is the earliest accepted solution, whatever was
\* judged again, and what scrolls by as first blood is.
THEOREM BoardShowsProjection == BoardSpec => []BoardIsProjection
<1>1. BoardInv => BoardIsProjection
  <2>. SUFFICES ASSUME BoardInv, following
                PROVE  /\ \A u \in Users : rows[u] = RowOf(projection, u)
                       /\ \A p \in Problems :
                            IF AcceptedFor(p) = {} THEN marked[p] = 0
                            ELSE /\ marked[p] \in AcceptedFor(p)
                                 /\ \A s \in AcceptedFor(p) \ {marked[p]} :
                                      Precedes(marked[p], s)
                       /\ \A s \in rolled : marked[Submissions[s].problem] = s
    BY DEF BoardIsProjection
  <2>1. /\ ProjectionOK(projection) /\ touched = {} /\ rolled \in SUBSET SolutionIds
        /\ \A u \in Users \ touched : rows[u] = RowOf(projection, u)
        /\ \A p \in Problems : marked[p] = projection.first[p]
        /\ \A s \in rolled : projection.first[Submissions[s].problem] = s
    BY DEF BoardInv
  <2>2. ASSUME NEW p \in Problems
        PROVE  AcceptedFor(p) = AcceptedOf(projection.result, p)
    <3>1. /\ projection.known \in 0 .. Len(Submissions)
          /\ \A s \in SolutionIds : s > projection.known => projection.result[s] = "none"
      BY <2>1 DEF ProjectionOK, Projections
    <3>2. \A s \in SolutionIds : projection.result[s] = "AC" => s \in 1 .. projection.known
      BY <3>1, PrecedesFacts
    <3>3. 1 .. projection.known \subseteq SolutionIds
      BY <3>1, PrecedesFacts
    <3>4. QED  BY <3>2, <3>3 DEF AcceptedFor, AcceptedOf
  <2>3. ASSUME NEW p \in Problems
        PROVE  IF AcceptedFor(p) = {} THEN marked[p] = 0
               ELSE Earliest(marked[p], AcceptedFor(p))
    BY <2>1, <2>2, FirstFacts
  <2>4. \A s \in rolled : marked[Submissions[s].problem] = s
    BY <2>1, SubmissionFacts
  <2>5. QED  BY <2>1, <2>3, <2>4 DEF Earliest
<1>2. QED  BY <1>1, BoardSound, PTL
=============================================================================
