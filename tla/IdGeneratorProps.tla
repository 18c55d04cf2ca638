-------------------------- MODULE IdGeneratorProps -------------------------
(***************************************************************************)
(* What the rest of the server relies on when it takes an id.              *)
(***************************************************************************)
EXTENDS IdGenerator

SnowflakeId == [worker : Slots, time : Nat, seq : 0 .. MaxSequence]

\* Type invariant.
IdTypeOK ==
  /\ state \in [Procs -> {"uninitialized", "ready", "lost", "closed"}]
  /\ step \in [Procs -> {"start", "claim", "read", "reserve", "reserved",
                         "done", "failed"}]
  /\ worker \in [Procs -> Slots \cup {None}]
  /\ first \in [Procs -> Time]
  /\ offset \in [Procs -> Nat]
  /\ reserved \in [Procs -> Time]
  /\ last \in [Procs -> Time]
  /\ sequence \in [Procs -> 0 .. MaxSequence]
  /\ requested \in [Procs -> Time]
  /\ renewal \in [Procs -> {"idle", "check", "update", "updated"}]
  /\ target \in [Procs -> Time]
  /\ connected \in [Procs -> BOOLEAN]
  /\ lock \in [Slots -> Procs \cup {None}]
  /\ row \in [Procs -> [worker : Slots \cup {None}, until : Time]]
  /\ issued \subseteq SnowflakeId
  /\ twice \subseteq SnowflakeId

\* No id is generated twice, by one process or by two, although an owner that has
\* lost its connection goes on generating beside its successor, clocks disagree and
\* jump, and a renewal may be executed that its process never hears of
\* (id-generator.service.ts, the comment of the class).
UniqueIds == twice = {}

\* A renewal that is asked for while another one is under way is never left behind:
\* as long as one is asked for, one is under way that will look at the mailbox.
NoRequestStranded ==
  \A p \in Procs : requested[p] # Undefined => renewal[p] # "idle"
============================================================================
