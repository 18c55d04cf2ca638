---------------------------- MODULE LiveConsumer ---------------------------
(***************************************************************************)
(* The browser's live session: ContestEventConsumer with the projector of  *)
(* live.view.vue behind it, against an event stream that grows and is      *)
(* reset, availability notifications that may be lost, repeated and        *)
(* reordered, and the browser's EventSource.                               *)
(*                                                                         *)
(* The consumer is single threaded: each step is what runs between two     *)
(* awaits.  A session has at most one transport call outstanding; whether  *)
(* the call still belongs to the current generation is kept with it, which *)
(* is all that generation numbers, abort controllers and isRequestCurrent  *)
(* decide.  An operator marked "Wrong" is a slip one could make in the     *)
(* operator that follows it; Next uses none of them.                       *)
(***************************************************************************)
EXTENDS Watermark, Integers, Sequences

CONSTANTS
  MaxRevision, MaxEventId,  \* bounds on the stream explored
  PageLimit                 \* events per page

ASSUME ConsumerAssumption ==
  /\ MaxRevision \in Nat \ {0}
  /\ MaxEventId \in Nat
  /\ PageLimit \in Nat \ {0}

VARIABLES
  server,    \* what the server is like, which never changes: "lagging" when pages may
             \* come from an instance that lags behind, "refusing" when it may answer
             \* an SSE request with 503, else "prompt"
  db,        \* the stream's watermark in the database
  announced, \* every watermark that was committed
  session,   \* the consumer's fields
  call,      \* the outstanding transport call or retry delay
  applied,   \* what the projector has been given since it was last reset
  fatal      \* history: why the session was given up, if it was

vars == <<server, db, announced, session, call, applied, fatal>>

Servers == {"prompt", "lagging", "refusing"}

Committed == [rev : 1 .. MaxRevision, id : 0 .. MaxEventId]

\* boundary is initialTargetLatestEventId, target targetLatestEventId; source is
\* the subscription's EventSource, failed when it will not reconnect any more.
Session ==
  [phase : {"new", "loading", "live", "stopped"}, rev : 0 .. MaxRevision,
   local : 0 .. MaxEventId, target : 0 .. MaxEventId, boundary : 0 .. MaxEventId,
   initialized : BOOLEAN, followUp : BOOLEAN,
   source : {"none", "connecting", "open", "failed"}]

EventPage ==
  [rev : 1 .. MaxRevision, latest : 0 .. MaxEventId, checkpoint : 0 .. MaxEventId,
   reset : BOOLEAN]

NoAnswer == [rev |-> 0, latest |-> 0, checkpoint |-> 0, reset |-> FALSE]

Call ==
  [state : {"none", "asked", "answered", "sleeping"}, kind : {"stream", "page"},
   current : BOOLEAN, rev : 0 .. MaxRevision, after : 0 .. MaxEventId,
   answer : EventPage \cup {NoAnswer}]

NoCall ==
  [state |-> "none", kind |-> "page", current |-> FALSE, rev |-> 0, after |-> 0,
   answer |-> NoAnswer]

Larger(a, b) == IF a < b THEN b ELSE a

----------------------------------------------------------------------------
(* The server's side. *)

\* Producers append and administrators drop; EventStream has the details.
Commit(w) ==
  /\ w = [db EXCEPT !.id = @ + 1] \/ w = [rev |-> db.rev + 1, id |-> 0]
  /\ w \in Committed
  /\ db' = w
  /\ announced' = announced \cup {w}
  /\ UNCHANGED <<server, session, call, applied, fatal>>

\* getClientEventsAtFence, on one database snapshot.
PageOf(w, rev, after) ==
  IF rev # w.rev \/ after > w.id
    THEN [rev |-> w.rev, latest |-> w.id, checkpoint |-> 0, reset |-> TRUE]
    ELSE [rev |-> w.rev, latest |-> w.id, reset |-> FALSE,
          checkpoint |-> IF after + PageLimit < w.id THEN after + PageLimit ELSE w.id]

\* The watermark the answering instance knows: the database's, or, with the read
\* cache on another instance, any the database has had (an over-approximation).
Serve(w) ==
  /\ call.state = "asked"
  /\ IF server = "lagging" THEN w \in announced ELSE w = db
  /\ call' = [call EXCEPT
       !.state = "answered",
       !.answer = IF call.kind = "page" THEN PageOf(w, call.rev, call.after)
                  ELSE [NoAnswer EXCEPT !.rev = w.rev, !.latest = w.id]]
  /\ UNCHANGED <<server, db, announced, session, applied, fatal>>

----------------------------------------------------------------------------
(* The consumer's catch-up loop. *)

AskPage(s) ==
  [NoCall EXCEPT !.state = "asked", !.current = TRUE, !.rev = s.rev, !.after = s.local]

\* Wrong: never subscribes.
SubscribedNot(s) == [s EXCEPT !.initialized = TRUE]

\* openSubscription: there is one EventSource per session.
Subscribed(s) ==
  [s EXCEPT !.initialized = TRUE, !.source = IF @ = "none" THEN "connecting" ELSE @]

\* The head of runCatchUp's loop: ask for the next page, or finish the initial
\* phase, open the subscription and end the run.
Proceed(s) ==
  IF s.local < s.target
    THEN session' = s /\ call' = AskPage(s)
    ELSE /\ session' = [Subscribed(s) EXCEPT !.followUp = FALSE]
         /\ call' = NoCall

\* Wrong: what was heard during the run is left to the next notification.
EndRunQuietly(s) == session' = [s EXCEPT !.followUp = FALSE] /\ call' = NoCall

\* The run is over: ensureCatchUp's finally starts the follow-up asked for.
EndRun(s) ==
  IF s.followUp /\ s.phase = "live"
    THEN Proceed([s EXCEPT !.followUp = FALSE])
    ELSE session' = [s EXCEPT !.followUp = FALSE] /\ call' = NoCall

\* scheduleCatchUp: one run at a time.
Schedule(s, outstanding) ==
  IF outstanding.state = "none"
    THEN Proceed(s)
    ELSE session' = [s EXCEPT !.followUp = TRUE] /\ call' = outstanding

\* invalidateCurrentSession.
Stopped(s) ==
  [s EXCEPT !.phase = "stopped", !.initialized = FALSE, !.source = "none",
            !.followUp = FALSE]

\* fail, with what becomes of the outstanding call.
Fail(s, outstanding, why) ==
  /\ session' = Stopped(s)
  /\ call' = outstanding
  /\ fatal' = why
  /\ UNCHANGED applied

\* Wrong: keeps the place in the stream when the revision changes.
ReplacedInPlace(s, w) ==
  [s EXCEPT !.rev = w.rev, !.target = w.id, !.boundary = w.id, !.initialized = FALSE]

\* replaceGeneration, up to onReset.
Replaced(s, w) ==
  [s EXCEPT !.rev = w.rev, !.local = 0, !.target = w.id, !.boundary = w.id,
            !.initialized = FALSE]

\* The events (after, upTo] of a page as the projector is given them.
EventsOf(p, after, upTo) ==
  [n \in 1 .. upTo - after |-> [rev |-> p.rev, id |-> after + n]]

Valid(p, after) == after < p.checkpoint /\ p.checkpoint <= p.latest

\* Wrong: the page that reaches the boundary is given as a whole.
IngestedWhole(s, p) ==
  IF s.initialized \/ p.checkpoint < s.boundary
    THEN [s EXCEPT !.local = p.checkpoint]
    ELSE [Subscribed(s) EXCEPT !.local = p.checkpoint]

\* Where a page leaves the session: the initial phase stops at its boundary and
\* what lies beyond is read again, live.
Ingested(s, p) ==
  IF s.initialized \/ p.checkpoint < s.boundary
    THEN [s EXCEPT !.local = p.checkpoint]
    ELSE [Subscribed(s) EXCEPT !.local = s.boundary]

----------------------------------------------------------------------------
(* Handlers. *)

Start ==
  /\ session.phase = "new"
  /\ session' = [session EXCEPT !.phase = "loading"]
  /\ call' = [NoCall EXCEPT !.state = "asked", !.kind = "stream", !.current = TRUE]
  /\ UNCHANGED <<server, db, announced, applied, fatal>>

Mine(state, kind) ==
  call.state = state /\ call.kind = kind /\ call.current

\* start, from the stream state on.
ReceiveStreamState ==
  /\ Mine("answered", "stream")
  /\ Proceed([session EXCEPT
       !.phase = "live", !.rev = call.answer.rev, !.local = 0,
       !.target = call.answer.latest, !.boundary = call.answer.latest])
  /\ UNCHANGED <<server, db, announced, applied, fatal>>

ReceiveEvents ==
  /\ Mine("answered", "page")
  /\ ~call.answer.reset /\ call.answer.rev = call.rev /\ Valid(call.answer, call.after)
  /\ LET p == call.answer
         s == Ingested(session, p)
     IN  /\ Proceed([s EXCEPT !.target = Larger(@, p.latest)])
         /\ applied' = applied \o EventsOf(p, call.after, s.local)
  /\ UNCHANGED <<server, db, announced, fatal>>

\* handleResetPage: the next generation follows in a new run; a reset to an
\* older revision ends the run and nothing else.
ReceiveReset ==
  /\ Mine("answered", "page")
  /\ call.answer.reset
  /\ LET p == call.answer
         latest == IF p.rev = call.rev THEN Larger(session.target, p.latest) ELSE p.latest
     IN  IF p.rev < call.rev
           THEN EndRun(session) /\ UNCHANGED applied
           ELSE /\ EndRun([Replaced(session, [rev |-> p.rev, id |-> latest])
                             EXCEPT !.followUp = TRUE])
                /\ applied' = << >>
  /\ UNCHANGED <<server, db, announced, fatal>>

\* A page the consumer cannot make sense of ends the session.
ReceiveNonsense ==
  /\ Mine("answered", "page")
  /\ ~call.answer.reset
  /\ call.answer.rev # call.rev \/ ~Valid(call.answer, call.after)
  /\ Fail(session, NoCall, "protocol")
  /\ UNCHANGED <<server, db, announced>>

\* The projector throws on what it is given, or the answer cannot be decoded.
ReceiveThrows ==
  /\ call.state = "answered" /\ call.current
  /\ call.kind = "stream" \/ call.answer.reset \/ Valid(call.answer, call.after)
  /\ Fail(session, NoCall, "callback")
  /\ UNCHANGED <<server, db, announced>>

\* A transient failure: wait, then ask again (loadStreamState, runCatchUp).
FailTransiently ==
  /\ call.state = "asked" /\ call.current
  /\ call' = [call EXCEPT !.state = "sleeping"]
  /\ UNCHANGED <<server, db, announced, session, applied, fatal>>

RetryDelayOver ==
  /\ call.state = "sleeping" /\ call.current
  /\ call' = IF call.kind = "page" THEN AskPage(session) ELSE [call EXCEPT !.state = "asked"]
  /\ UNCHANGED <<server, db, announced, session, applied, fatal>>

FailForGood ==
  /\ call.state = "asked" /\ call.current
  /\ Fail(session, NoCall, "refused")
  /\ UNCHANGED <<server, db, announced>>

\* The rejection or late answer of a call that was abandoned.
SettleStaleCall ==
  /\ call.state # "none" /\ ~call.current
  /\ EndRun(session)
  /\ UNCHANGED <<server, db, announced, applied, fatal>>

\* Wrong: takes any other revision for a new one.
HandleAvailabilityOfOther(w) ==
  /\ session.source = "open"
  /\ w.rev # session.rev
  /\ Schedule(Replaced(session, w), [call EXCEPT !.current = FALSE])
  /\ applied' = << >>
  /\ UNCHANGED <<server, db, announced, fatal>>

\* handleAvailability with a newer revision.
HandleNewRevision(w) ==
  /\ session.source = "open"
  /\ w.rev > session.rev
  /\ Schedule(Replaced(session, w), [call EXCEPT !.current = FALSE])
  /\ applied' = << >>
  /\ UNCHANGED <<server, db, announced, fatal>>

\* onReset throws while the new generation is set up.
HandleNewRevisionThrows(w) ==
  /\ session.source = "open"
  /\ w.rev > session.rev
  /\ Fail(Replaced(session, w), [call EXCEPT !.current = FALSE], "callback")
  /\ UNCHANGED <<server, db, announced>>

\* handleAvailability with more events of this revision; older ones are ignored.
HandleNewEvents(w) ==
  /\ session.source = "open"
  /\ w.rev = session.rev /\ w.id > session.target
  /\ Schedule([session EXCEPT !.target = w.id], call)
  /\ UNCHANGED <<server, db, announced, applied, fatal>>

Hear(w) == HandleNewRevision(w) \/ HandleNewEvents(w)

\* The browser's EventSource: it reconnects after a connection is lost or
\* ended, and gives up when the answer is not a 200 event stream.
SourceOpens ==
  /\ session.source = "connecting"
  /\ session' = [session EXCEPT !.source = "open"]
  /\ UNCHANGED <<server, db, announced, call, applied, fatal>>

SourceDrops ==
  /\ session.source = "open"
  /\ session' = [session EXCEPT !.source = "connecting"]
  /\ UNCHANGED <<server, db, announced, call, applied, fatal>>

\* prepareClient fails before the response is committed: HTTP 503.  The
\* consumer's onError only logs.
SourceRefused ==
  /\ server = "refusing"
  /\ session.source = "connecting"
  /\ session' = [session EXCEPT !.source = "failed"]
  /\ UNCHANGED <<server, db, announced, call, applied, fatal>>

\* stop: the view is left.
Stop ==
  /\ session.phase \in {"loading", "live"}
  /\ session' = Stopped(session)
  /\ call' = [call EXCEPT !.current = FALSE]
  /\ UNCHANGED <<server, db, announced, applied, fatal>>

----------------------------------------------------------------------------
Init ==
  /\ server \in Servers
  /\ db \in { w \in Committed : w.rev = 1 }
  /\ announced = { w \in Committed : w.rev = 1 /\ w.id <= db.id }
  /\ session = [phase |-> "new", rev |-> 0, local |-> 0, target |-> 0,
                boundary |-> 0, initialized |-> FALSE, followUp |-> FALSE,
                source |-> "none"]
  /\ call = NoCall
  /\ applied = << >>
  /\ fatal = "none"

Next ==
  \/ \E w \in Committed : Commit(w)
  \/ \E w \in Committed : Serve(w)
  \/ Start
  \/ ReceiveStreamState
  \/ ReceiveEvents
  \/ ReceiveReset
  \/ ReceiveNonsense
  \/ ReceiveThrows
  \/ FailTransiently
  \/ RetryDelayOver
  \/ FailForGood
  \/ SettleStaleCall
  \/ \E w \in announced : Hear(w) \/ HandleNewRevisionThrows(w)
  \/ SourceOpens
  \/ SourceDrops
  \/ SourceRefused
  \/ Stop

Spec == Init /\ [][Next]_vars

\* Local steps and timers happen; a call that is repeated is answered in the
\* end; an EventSource that keeps connecting gets through, and a session whose
\* source is open again and again hears of the newest watermark, which is what
\* the initial notification of each connection and SseHub provide.
Fairness ==
  /\ WF_vars(ReceiveStreamState)
  /\ WF_vars(ReceiveEvents \/ ReceiveReset)
  /\ WF_vars(RetryDelayOver)
  /\ WF_vars(SettleStaleCall)
  /\ SF_vars(\E w \in Committed : Serve(w))
  /\ SF_vars(SourceOpens)
  /\ SF_vars(Hear(db))

LiveSpec == Spec /\ Fairness
============================================================================
