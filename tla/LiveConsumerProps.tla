-------------------------- MODULE LiveConsumerProps ------------------------
(***************************************************************************)
(* What the spectator of a live contest may rely on.                       *)
(***************************************************************************)
EXTENDS LiveConsumer

Live == session.phase = "live"

\* Type invariant.
TypeOK ==
  /\ server \in Servers
  /\ db \in Committed
  /\ announced \subseteq Committed
  /\ session \in Session
  /\ call \in Call
  /\ \A i \in 1 .. Len(applied) : applied[i] \in Committed
  /\ fatal \in {"none", "protocol", "callback", "refused"}

\* The ranklist shown is computed from exactly the first events of the current
\* revision, in order and each once, up to the consumer's cursor, across page
\* boundaries, the initial boundary, retries, resets and abandoned calls.
ExactPrefix ==
  Live => applied = [n \in 1 .. session.local |-> [rev |-> session.rev, id |-> n]]

\* A session only believes in watermarks that were committed, so its cursor
\* never runs ahead of the log of its revision.
OnlyCommitted ==
  Live => /\ [rev |-> session.rev, id |-> session.target] \in announced
          /\ session.local <= session.target
          /\ session.boundary <= session.target

\* When nothing is outstanding, the session has caught up with everything it
\* was told, if pages are read from the database: no notification that came
\* during a run was swallowed.
NoLostWakeup ==
  (server # "lagging" /\ Live /\ call.state = "none") =>
    session.initialized /\ session.source # "none" /\ session.local = session.target

\* Pages read from the database never end a session as nonsense: the request is
\* always for events that exist.
NeverNonsense == server = "lagging" \/ fatal # "protocol"

\* What is shown is the log: exactly as far as the cursor says, of a watermark that
\* was committed, and no page that comes from the database is taken for nonsense.
ShowsTheLog == ExactPrefix /\ OnlyCommitted /\ NeverNonsense

\* A live session never goes back to an older revision and, within a revision,
\* never forgets events it has shown, if pages are read from the database.
NeverBackwards ==
  [][ (server # "lagging" /\ Live /\ Live') =>
        \/ session'.rev > session.rev
        \/ session'.rev = session.rev /\ session'.local >= session.local ]_vars

\* The session is over, or shows all of the stream.
CaughtUp ==
  \/ session.phase \in {"new", "stopped"}
  \/ /\ Live /\ session.initialized
     /\ session.rev = db.rev /\ session.local = db.id

\* What the session's callbacks have said so far: see EventCallbacks.  A session that is
\* not live calls nobody, so what it last gave is nothing any more.
CallbackPhase ==
  IF Live THEN IF session.initialized THEN "live" ELSE "initial"
  ELSE IF session.phase = "stopped" THEN "over" ELSE "silent"

Callbacks == INSTANCE EventCallbacks WITH
  phase <- CallbackPhase,
  revision <- IF Live THEN session.rev ELSE 0,
  boundary <- IF Live THEN session.boundary ELSE 0,
  given <- IF Live THEN applied ELSE << >>

\* The session keeps to what the view relies on: each batch continues the one before,
\* the initial events end exactly where the stream ended when the session, or the new
\* revision, began, no live event comes before they are complete, a reset starts over
\* and nothing comes once the session is over, also when pages, notifications and
\* late answers of an earlier revision cross.
KeepsItsCallbacks == Callbacks!Spec

\* Once the stream is quiet, a session that is neither stopped nor failed shows
\* all of it and stays there, if pages are read from the database and every
\* request for notifications is attached.
Converges == <>[](server # "prompt" \/ CaughtUp)

\* What the producer/consumer guide says of EventSource: a session recovers from a
\* lost connection by itself, also when the server cannot attach it at once.
ConvergesAfterRefusal == <>[](server = "lagging" \/ CaughtUp)
============================================================================
