----------------------------- MODULE MCTrackers -----------------------------
(* Trackers, with the history of Roaming, for TLC.  The first router owns  *)
(* every tracker; the signals of the first two routers tie, and the third  *)
(* does not know the client's.                                             *)
EXTENDS Roaming
CONSTANTS c1

OwnedByFirst == [c \in Clients |-> 1]
SignalTied == [r \in 1..N |-> [c \in Clients |-> IF r = 3 THEN 0 ELSE -60]]
Each1 == [r \in 1..N |-> 1]
Each4 == [r \in 1..N |-> 4]
SecondTwice == [r \in 1..N |-> IF r = 2 THEN 2 ELSE 1]
FirstTwo == [r \in 1..N |-> IF r = 1 THEN 2 ELSE 3]

\* Entries set up in turn after Home Assistant has started, never reloaded, with two
\* polls each that do not fail; the client is not near the second.
ThreeInTurn ==
  /\ running /\ \A c \in Clients : where[c] # 2
  /\ \A r \in 2..N : entry[r] # "unloaded" => entry[r - 1] = "loaded"
  /\ \A r \in Routers : gen[r] <= 1 /\ polls_started[r] <= 2 /\ ok[r]

\* bound: the first routers are explored in full while the last has no entry and no
\* client
LastUnused == gen[N] = 0 /\ \A c \in Clients : where[c] # N
Explored == LastUnused \/ ThreeInTurn
=============================================================================
