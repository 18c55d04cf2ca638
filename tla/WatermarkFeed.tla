--------------------------- MODULE WatermarkFeed ---------------------------
(***************************************************************************)
(* What a subscriber of the live stream may rely on, whatever batching,    *)
(* sharding and back-pressure lie between: each connection is told an      *)
(* increasing sequence of watermarks that were really announced, and one   *)
(* that stays open is told the newest it is owed.                          *)
(***************************************************************************)
EXTENDS Watermark

CONSTANTS Clients, Watermarks

VARIABLES
  state,      \* absent, open or closed
  told,       \* the last watermark each connection was told
  owed,       \* the newest announced to it while it was open
  announced   \* every watermark announced so far

vars == <<state, told, owed, announced>>

Init ==
  /\ state = [c \in Clients |-> "absent"]
  /\ told = [c \in Clients |-> NoWatermark]
  /\ owed = [c \in Clients |-> NoWatermark]
  /\ announced = {}

\* One connection in a step that announces the watermarks in "now".
Evolves(c, now) ==
  \/ /\ state[c] = "absent" /\ state'[c] = "open"
     /\ told'[c] = told[c] /\ owed'[c] = owed[c]
  \/ /\ state'[c] = state[c]
     /\ \/ told'[c] = told[c]
        \/ /\ state[c] = "open"
           /\ told'[c] \in announced' /\ Newer(told'[c], told[c])
     /\ \/ owed'[c] = owed[c]
        \/ /\ state[c] = "open"
           /\ \E w \in now : owed'[c] = Latest(owed[c], w)
  \/ /\ state[c] = "open" /\ state'[c] = "closed" /\ told'[c] = told[c]
     /\ \/ owed'[c] = owed[c]
        \/ \E w \in now : owed'[c] = Latest(owed[c], w)

Next ==
  \E now \in {{}} \cup { {w} : w \in Watermarks } :
    /\ announced' = announced \cup now
    /\ \A c \in Clients : Evolves(c, now)

Lagging(c) == state[c] = "open" /\ Newer(owed[c], told[c])

Spec ==
  /\ Init
  /\ [][Next]_vars
  /\ \A c \in Clients : []<>(~Lagging(c))
============================================================================
