---------------------------- MODULE MCWriteParts ----------------------------
(***************************************************************************)
(* Small instances for TLC, side by side, of the two components that write *)
(* to the database on their own account: EventStream and IdGenerator.      *)
(* They share no state, and in a behaviour only the one that Init chose    *)
(* moves.                                                                  *)
(***************************************************************************)
EXTENDS EventStreamProps, IdGeneratorProps, TLC

CONSTANTS MaxEventId, MaxBatch

\* One solution, with two times that a NEW may give it, a progress and a verdict.
SolutionEvents ==
  { [type |-> "NEW", sol |-> s, time |-> t, judged |-> FALSE] :
      s \in Solutions, t \in Times }
  \cup { [type |-> "PROGRESS", sol |-> s, time |-> 0, judged |-> FALSE] :
      s \in Solutions }
  \cup { [type |-> "SETTLE", sol |-> s, time |-> 0, judged |-> TRUE] :
      s \in Solutions }

\* A configuration event, if there is one, opens the stream.
Payloads(id) ==
  SolutionEvents \cup
  { [type |-> "CONFIG", sol |-> NoSolution, time |-> 0, judged |-> FALSE] :
      n \in {1} \cap {id} }

MCEvent(n, c) ==
  [id |-> n, type |-> c.type, sol |-> c.sol, time |-> c.time, judged |-> c.judged]

Events(id) == { MCEvent(id, c) : c \in Payloads(id) }

MCBatches ==
  { << e >> : e \in UNION { Events(n) : n \in 1 .. MaxEventId } }
  \cup (IF MaxBatch < 2 THEN {} ELSE
    UNION { { << e, f >> : e \in Events(nm[1]), f \in Events(nm[2]) } :
              nm \in { x \in (1 .. MaxEventId) \X (1 .. MaxEventId) : x[1] < x[2] } })

----------------------------------------------------------------------------
\* Readings of the clock that ids are generated from.
MCClock == 0 .. 2

\* Producers are interchangeable, and so are lives of processes.
MCSymmetry == Permutations(Producers) \cup Permutations(Procs)

----------------------------------------------------------------------------
VARIABLE part

MCVars == <<part, vars, idVars>>

MCInit == part \in {"log", "ids"} /\ Init /\ IdInit

Logging(A) == part = "log" /\ A /\ UNCHANGED <<part, idVars>>

Numbering(A) == part = "ids" /\ A /\ UNCHANGED <<part, vars>>

MCNext ==
  \/ \E freeze \in FreezeStarts \cup {NoFreeze} : Logging(CreateContest(freeze))
  \/ Logging(AppendSome)
  \/ Logging(ReleaseProducerLock)
  \/ Logging(DropEvents)
  \/ \E freeze \in FreezeStarts \cup {NoFreeze} : Logging(UpdateFreeze(freeze))
  \/ \E freeze \in FreezeStarts \cup {NoFreeze} : Logging(AttachArchive(freeze))
  \/ Logging(Finalize)
  \/ Logging(DeleteContest)
  \/ \E p \in Procs : Numbering(Starting(p))
  \/ \E p \in Procs : Numbering(Generating(p))
  \/ \E p \in Procs : Numbering(Renewing(p))
  \/ \E p \in Procs : Numbering(Ending(p))

MCSpec == MCInit /\ [][MCNext]_MCVars
=============================================================================
