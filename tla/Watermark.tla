----------------------------- MODULE Watermark -----------------------------
(***************************************************************************)
(* Watermarks of one contest's event stream: (stream revision, last event  *)
(* id), ordered lexicographically (contest-event-watermark.ts).            *)
(***************************************************************************)
EXTENDS Naturals

Watermark == [rev : Nat, id : Nat]

\* compareContestEventWatermarks(a, b) > 0.
Newer(a, b) == a.rev > b.rev \/ (a.rev = b.rev /\ a.id > b.id)

Latest(a, b) == IF Newer(b, a) THEN b ELSE a

\* Stands for an undefined watermark: less than any the stream row can hold,
\* because a revision starts at 1.
NoWatermark == [rev |-> 0, id |-> 0]
============================================================================
