------------------------------- MODULE Roaming ------------------------------
(***************************************************************************)
(* Trackers with two history variables, which say what a client did since  *)
(* every list and its tracker last agreed with where it is.  They state    *)
(* what the confirmation is for: a client that roams is not shown not_home.*)
(***************************************************************************)
EXTENDS Trackers

VARIABLES
  moves,     \* moves[c]: how often c moved since then; 2 for "twice or more"
  absent     \* absent[c]: since then c was connected to none of the routers for a
             \* while, or a list that was read lacked it, or some router was not
             \* loaded or not answering

hvars == <<vars, moves, absent>>

\* the routers that have an entry: it has been set up at some time
Configured == {r \in Routers : gen[r] > 0}

AllAnswer == \A r \in Configured : entry[r] = "loaded" /\ ok[r]

\* a list is read that lacks c although c is associated to the router
Missed(c) ==
  \E r \in Routers : poll[r] = "sent" /\ poll'[r] = "read" /\ where[c] = r /\ c \notin got'[r]

Settled(c) ==
  /\ AllAnswer
  /\ \A r \in Routers :
       /\ c \in data[r] <=> where[c] = r
       /\ poll[r] = "read" => (c \in got[r] <=> where[c] = r)
  /\ seen[c] = where[c] /\ confirming[c] = {}

HInit ==
  /\ Init
  /\ moves = [c \in Clients |-> 2]
  /\ absent = [c \in Clients |-> TRUE]

\* the history of the step taken
Recorded ==
  /\ moves' = [c \in Clients |->
       IF Settled(c)' THEN 0
       ELSE IF where'[c] # where[c] /\ moves[c] < 2 THEN moves[c] + 1 ELSE moves[c]]
  /\ absent' = [c \in Clients |->
       /\ ~Settled(c)'
       /\ absent[c] \/ where'[c] \notin Configured' \/ ~AllAnswer' \/ Missed(c)]

HNext == Next /\ Recorded

HSpec == HInit /\ [][HNext]_hvars

-----------------------------------------------------------------------------
\* the tracker of c, which stays in place, turns from home to not_home although the
\* client is associated
TurnsNotHome(c) ==
  /\ seen[c] # NoRouter /\ seen'[c] = NoRouter
  /\ where'[c] # NoRouter
  /\ Connected(c) /\ Connected(c)'

(* A client that moves from one router to another, once, is not shown      *)
(* not_home while the polls catch up, in whatever order the routers poll   *)
(* (device_tracker.py, OpenWrtClientTracker: "every other router polls     *)
(* once before the tracker shows not_home").                               *)
OneMoveIsNotLeaving ==
  [][\A c \in Clients : TurnsNotHome(c) => absent'[c] \/ moves[c] = 2]_hvars

(* CHANGELOG.md: "so roaming does not flap".  A client that has been       *)
(* connected to one router or another all the time, while every router     *)
(* answered, is not shown not_home, however often it moved.                *)
RoamingDoesNotFlap ==
  [][\A c \in Clients : TurnsNotHome(c) => absent'[c]]_hvars
=============================================================================
