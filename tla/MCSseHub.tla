------------------------------ MODULE MCSseHub -----------------------------
(* Small instance of SseHub for TLC, with direct and with sharded fan-out. *)
EXTENDS SseHubProps, TLC

\* Two ids of one revision and a new, still empty revision.
MCWatermarks ==
  { [rev |-> 1, id |-> 1], [rev |-> 1, id |-> 2], [rev |-> 2, id |-> 0] }
============================================================================
