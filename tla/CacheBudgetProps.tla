-------------------------- MODULE CacheBudgetProps --------------------------
(***************************************************************************)
(* What holds of the memory of the read cache.                             *)
(***************************************************************************)
EXTENDS CacheBudget

\* Type correctness; no reference count and no counter is ever below zero, which
\* the code would hide (Math.max) or answer with an exception.
BudgetTypeOK ==
  /\ ledger \in [snapshot : [Contests -> SUBSET Parts], behind : [Contests -> BOOLEAN],
                 retired : SUBSET SUBSET Parts,
                 refs : [Parts -> [resident : Nat, retired : Nat]],
                 total : Nat, byContest : [Contests -> Nat]]
  /\ \A s \in DOMAIN pins : pins[s] \in 1 .. Cardinality(Responses)
  /\ \A f \in Flights :
       /\ flight[f].reserved >= flight[f].buffered
       /\ flight[f].phase = "idle" <=> flight[f] = IdleFlight

Answering == {responses[r].parts : r \in Responses} \ {NoParts}

Resident == {ledger.snapshot[c] : c \in Contests} \ {NoParts}

\* Units of memory, as many as hydrations of F have reserved.
Reserved(F) == Cardinality(UNION {{f} \X (1 .. flight[f].reserved) : f \in F})

\* What the counters say is what is there, and no more than the budgets allow: each part
\* of a resident snapshot, or of one that an answer still needs, counts once, and so does
\* what hydrations have reserved, detached ones too, until they know.
\* (Snapshots that share parts are pinned, superseded and released in any order.)
MemoryIsAccounted ==
  LET held == UNION (Resident \cup Answering)
      Held(c) == ledger.snapshot[c] \cup
                 UNION {responses[r].parts : r \in {r \in Responses : responses[r].contest = c}}
  IN  /\ ledger.total = Cardinality(held) + Reserved(Flights)
      /\ ledger.total <= MaxBytes
      /\ \A c \in Contests :
           /\ ledger.byContest[c] = Cardinality(Held(c)) + Reserved(Underway(c, flight))
           /\ ledger.byContest[c] <= MaxEntryBytes
      /\ \A p \in Parts : IsAccounted(ledger.refs[p]) <=> p \in held

\* What is built fits what was reserved for it, and is installed: no append or
\* hydration does its work, and drops the old snapshot, in vain.  For that a hydration
\* that still counts, the only one of its contest, extends a snapshot that is still there.
\* (Between reservation and publication others evict, pin, release and reserve.)
ReservationsSuffice ==
  /\ ~overrun
  /\ \A f \in Flights : flight[f].phase \notin {"idle", "cancelled", "detached"} =>
       /\ entry[flight[f].contest].hydration = f
       /\ flight[f].base # NoParts => flight[f].base = ledger.snapshot[flight[f].contest]
=============================================================================
