---------------------------- MODULE MCIdGenerator ---------------------------
(* Small instance of IdGenerator for TLC. *)
EXTENDS IdGeneratorProps, TLC

\* Lives of processes are interchangeable.
MCSymmetry == Permutations(Procs)

MCClock == 0 .. 2

============================================================================
