------------------------- MODULE RedisAdapterProps -------------------------
(***************************************************************************)
(* What an instance may rely on while its adapter says "subscribed".       *)
(***************************************************************************)
EXTENDS RedisAdapter

\* Type invariant; the coordinator believes in nothing that was not committed.
TypeOK ==
  /\ state \in {"idle", "connecting", "subscribing", "subscribed", "degraded", "stopped"}
  /\ generation \in 0 .. MaxConnections + 1
  /\ link \in {"up", "dead", "down"}
  /\ asked \in BOOLEAN /\ served \in BOOLEAN
  /\ Len(wire) <= MaxWire
  /\ \A i \in 1 .. Len(wire) :
       wire[i] \in { Ack(g) : g \in 1 .. generation }
                     \cup { Message(w) : w \in 1 .. committed \cup {Invalid} }
  /\ answers \subseteq [gen : 1 .. generation, ok : BOOLEAN]
  /\ committed \in 0 .. MaxCommits
  /\ unsent \subseteq 1 .. committed
  /\ sent \in 0 .. committed
  /\ told \in 0 .. committed
  /\ reconciling \in [state : {"idle", "reading", "read"}, mark : 0 .. committed,
                      fresh : BOOLEAN]
  /\ uncovered \in BOOLEAN

\* While the adapter is subscribed and its connection lives, nothing that Redis was
\* given is missing, once what is on the way has been read and the reconciliation
\* that the acknowledgement started is over: neither what was published while there
\* was no connection, nor between the execution of SUBSCRIBE and the handling of its
\* acknowledgement, when messages are dropped, nor because the answer to an earlier
\* connection's command came late.
NoSilentGap ==
  (/\ state = "subscribed" /\ link = "up" /\ wire = << >>
   /\ reconciling.state = "idle" /\ ~uncovered)
  => told >= sent
============================================================================
