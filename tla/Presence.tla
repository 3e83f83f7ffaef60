------------------------------ MODULE Presence ------------------------------
(***************************************************************************)
(* What the client trackers promise, without poll numbers, debouncers or   *)
(* coordinator objects: each router polls from time to time; a tracker     *)
(* shows a router that lists the client; when no router lists it any more  *)
(* the tracker first waits for the other routers, each of which must start *)
(* and finish a poll after the departure was noticed.                      *)
(*                                                                         *)
(* Module Trackers, the code's own bookkeeping, is checked to implement    *)
(* this one.  Nothing here is bounded, so the liveness of the promise is   *)
(* checked here.                                                           *)
(***************************************************************************)
EXTENDS Naturals, FiniteSets

CONSTANTS Routers,      \* the configured routers, one config entry each
          Clients,      \* the Wi-Fi clients that have a tracker
          NoRouter,     \* what a tracker shows when it is not_home
          Owner         \* Owner[c]: the router whose entry owns c's tracker

ASSUME PresenceAssumption ==
  /\ NoRouter \notin Routers
  /\ Owner \in [Clients -> Routers]

VARIABLES
  running,   \* Home Assistant has started
  up,        \* up[r]: how far the set-up of r's entry is
  ok,        \* ok[r]: r's last poll succeeded
  halted,    \* halted[r]: r's last poll ended with a rejected login, and the
             \* update interval starts no further one
  lists,     \* lists[r]: the clients in the last list read from r
  busy,      \* busy[r]: a poll of r is in flight
  seen,      \* seen[c]: the router the tracker shows, NoRouter for not_home
  noticed,   \* noticed[c]: the departure of c waits to be confirmed
  wait       \* wait[c][r]: how far r is with the confirming poll

pvars == <<running, up, ok, halted, lists, busy, seen, noticed, wait>>

Stages == {"down", "shown", "added", "hooked"}
Levels == {"none", "asked", "started", "done"}
NoWait == [r \in Routers |-> "none"]

PTypeOK ==
  /\ running \in BOOLEAN
  /\ up \in [Routers -> Stages]
  /\ ok \in [Routers -> BOOLEAN]
  /\ halted \in [Routers -> BOOLEAN]
  /\ lists \in [Routers -> SUBSET Clients]
  /\ busy \in [Routers -> BOOLEAN]
  /\ seen \in [Clients -> Routers \cup {NoRouter}]
  /\ noticed \in [Clients -> BOOLEAN]
  /\ wait \in [Clients -> [Routers -> Levels]]

PInit ==
  /\ running \in BOOLEAN
  /\ up = [r \in Routers |-> "down"]
  /\ ok = [r \in Routers |-> TRUE]
  /\ halted = [r \in Routers |-> FALSE]
  /\ lists = [r \in Routers |-> {}]
  /\ busy = [r \in Routers |-> FALSE]
  /\ seen = [c \in Clients |-> NoRouter]
  /\ noticed = [c \in Clients |-> FALSE]
  /\ wait = [c \in Clients |-> NoWait]

-----------------------------------------------------------------------------
(* The trackers, judged on the routers' new state.                         *)

Exists(c) == up[Owner[c]] \in {"added", "hooked"}
Everyone == {c \in Clients : Exists(c)}

Holders(c) == {r \in Routers : up'[r] # "down" /\ c \in lists'[r]}
Others(c) == {r \in Routers : up'[r] # "down" /\ r # seen[c]}

\* mutant: every look begins the confirmation anew
AskedAnew(c, w) == [r \in Routers |-> IF r \in Others(c) THEN "asked" ELSE "none"]

\* wait[c] once the departure is noticed, w being how far the polls are now
Asked(c, w) ==
  IF noticed[c] THEN w[c]
  ELSE [r \in Routers |-> IF r \in Others(c) THEN "asked" ELSE "none"]

Outstanding(c, w) ==
  {r \in Routers : ok'[r] /\ Asked(c, w)[r] \in {"asked", "started"}}

MustWait(c, w) == Holders(c) = {} /\ seen[c] # NoRouter /\ Outstanding(c, w) # {}

\* every tracker in L looks at the lists; w is the progress of the polls
Look(L, w) ==
  \E pick \in [Clients -> Routers \cup {NoRouter}] :
    /\ \A c \in Clients :
         IF Holders(c) = {} THEN pick[c] = NoRouter ELSE pick[c] \in Holders(c)
    /\ seen' = [c \in Clients |->
                  IF c \in L /\ ~MustWait(c, w) THEN pick[c] ELSE seen[c]]
    /\ noticed' = [c \in Clients |-> IF c \in L THEN MustWait(c, w) ELSE noticed[c]]
    /\ wait' = [c \in Clients |->
                  CASE c \notin L                     -> w[c]
                    [] c \in L /\ MustWait(c, w)      -> Asked(c, w)
                    [] c \in L /\ ~MustWait(c, w)     -> NoWait]

\* the progress of the confirming polls when r moves from a level in `from` to `to`
Progress(r, from, to) ==
  [c \in Clients |-> [wait[c] EXCEPT ![r] = IF @ \in from THEN to ELSE @]]

-----------------------------------------------------------------------------
(* The routers.                                                            *)

Start(r) ==
  /\ running /\ up[r] # "down" /\ ~busy[r]
  /\ busy' = [busy EXCEPT ![r] = TRUE]
  /\ wait' = Progress(r, {"asked"}, "started")
  /\ UNCHANGED <<running, up, ok, halted, lists, seen, noticed>>

\* the update interval starts polls until a login is rejected; a tracker that asks
\* may start one after that
Scheduled(r) == ~halted[r] /\ Start(r)

\* the list is read and published; the trackers look if the entry is hooked up
Finish(r) ==
  /\ up[r] # "down" /\ busy[r]
  /\ busy' = [busy EXCEPT ![r] = FALSE]
  /\ ok' = [ok EXCEPT ![r] = TRUE]
  /\ halted' = [halted EXCEPT ![r] = FALSE]
  /\ \E list \in SUBSET Clients : lists' = [lists EXCEPT ![r] = list]
  /\ UNCHANGED <<running, up>>
  /\ Look(IF up[r] = "hooked" THEN Everyone ELSE {}, Progress(r, {"started"}, "done"))

\* a failed poll, rejected or not, keeps the list; only the first failure in a row
\* is announced
Fail(r, rejected) ==
  /\ up[r] # "down" /\ busy[r]
  /\ busy' = [busy EXCEPT ![r] = FALSE]
  /\ ok' = [ok EXCEPT ![r] = FALSE]
  /\ halted' = [halted EXCEPT ![r] = rejected]
  /\ UNCHANGED <<running, up, lists>>
  /\ Look(IF up[r] = "hooked" /\ ok[r] THEN Everyone ELSE {}, wait)

\* while Home Assistant starts a poll answers with the data it has, and counts
Skip(r) ==
  /\ ~running /\ up[r] # "down" /\ ~busy[r]
  /\ ok' = [ok EXCEPT ![r] = TRUE]
  /\ halted' = [halted EXCEPT ![r] = FALSE]
  /\ UNCHANGED <<running, up, lists, busy>>
  /\ Look(IF up[r] = "hooked" THEN Everyone ELSE {},
          Progress(r, {"asked", "started"}, "done"))

\* the first refresh of a set-up succeeded: the router's data is visible
Came(r) ==
  /\ up[r] = "down"
  /\ up' = [up EXCEPT ![r] = "shown"]
  /\ ok' = [ok EXCEPT ![r] = TRUE]
  /\ \E list \in SUBSET Clients : lists' = [lists EXCEPT ![r] = list]
  /\ UNCHANGED <<running, halted, busy, seen, noticed, wait>>

\* the entities of the entry are added: its trackers look for the first time
Add(r) ==
  /\ up[r] = "shown"
  /\ up' = [up EXCEPT ![r] = "added"]
  /\ UNCHANGED <<running, ok, halted, lists, busy>>
  /\ Look({c \in Clients : Owner[c] = r}, wait)

\* the entry's listener is in place, and every tracker looks
HookUp(r) ==
  /\ up[r] = "added"
  /\ up' = [up EXCEPT ![r] = "hooked"]
  /\ UNCHANGED <<running, ok, halted, lists, busy>>
  /\ Look(Everyone, wait)

\* mutant: the trackers go on waiting for the unloaded router
DownAwaited(r) ==
  /\ up[r] = "hooked"
  /\ up' = [up EXCEPT ![r] = "down"]
  /\ ok' = [ok EXCEPT ![r] = TRUE]
  /\ halted' = [halted EXCEPT ![r] = FALSE]
  /\ lists' = [lists EXCEPT ![r] = {}]
  /\ busy' = [busy EXCEPT ![r] = FALSE]
  /\ seen' = [c \in Clients |-> IF Owner[c] = r THEN NoRouter ELSE seen[c]]
  /\ noticed' = [c \in Clients |-> Owner[c] # r /\ noticed[c]]
  /\ wait' = [c \in Clients |-> IF Owner[c] = r THEN NoWait ELSE wait[c]]
  /\ UNCHANGED running

\* the entry is unloaded: its trackers go, nobody waits for it any more
Down(r) ==
  /\ up[r] = "hooked"
  /\ up' = [up EXCEPT ![r] = "down"]
  /\ ok' = [ok EXCEPT ![r] = TRUE]
  /\ halted' = [halted EXCEPT ![r] = FALSE]
  /\ lists' = [lists EXCEPT ![r] = {}]
  /\ busy' = [busy EXCEPT ![r] = FALSE]
  /\ seen' = [c \in Clients |-> IF Owner[c] = r THEN NoRouter ELSE seen[c]]
  /\ noticed' = [c \in Clients |-> Owner[c] # r /\ noticed[c]]
  /\ wait' = [c \in Clients |-> IF Owner[c] = r THEN NoWait
                                ELSE [wait[c] EXCEPT ![r] = "none"]]
  /\ UNCHANGED running

StartHA ==
  /\ ~running
  /\ running' = TRUE
  /\ UNCHANGED <<up, ok, halted, lists, busy>>
  /\ Look(Everyone, wait)

PNext ==
  \/ StartHA
  \/ \E r \in Routers : \/ Start(r) \/ Finish(r) \/ Skip(r)
                        \/ \E rejected \in BOOLEAN : Fail(r, rejected)
                        \/ Came(r) \/ Add(r) \/ HookUp(r) \/ Down(r)

Promise == PInit /\ [][PNext]_pvars

(* Home Assistant starts in the end; a set-up that got its first data runs *)
(* to its end; the update interval starts polls again and again, but for a *)
(* router whose login was rejected.  That a router polled for ever does    *)
(* not fail for ever is an assumption about the network.                   *)
Fairness ==
  /\ WF_pvars(StartHA)
  /\ \A r \in Routers : /\ WF_pvars(Scheduled(r)) /\ SF_pvars(Finish(r))
                        /\ WF_pvars(Add(r)) /\ WF_pvars(HookUp(r))

FairPromise == Promise /\ Fairness

-----------------------------------------------------------------------------
\* how far the wait for one router is; one that need not be asked is done
Rank(level) == CASE level = "asked" -> 0 [] level = "started" -> 1 [] OTHER -> 2

(* While a departure waits, no router is asked for a second poll, and none *)
(* that came later is asked at all: every look goes on from the snapshot   *)
(* that the first one took (device_tracker.py, _gone_confirmed).           *)
NeverAskedAgain ==
  [][\A c \in Clients : noticed[c] /\ noticed'[c] =>
       \A r \in Routers : Rank(wait'[c][r]) >= Rank(wait[c][r])]_pvars

\* some router that is hooked up goes on being polled: without one, after rejected
\* logins and unloads, nothing makes a tracker look
Polling == \E r \in Routers : up[r] = "hooked" /\ ~halted[r]

(* A departure never waits for ever as long as routers go on being polled: *)
(* the tracker decides, whatever polls fail or are rejected and whatever   *)
(* entries are unloaded or reloaded in between (device_tracker.py,         *)
(* _gone_confirmed).                                                       *)
DepartureDecided ==
  []<>Polling => \A c \in Clients : noticed[c] ~> ~noticed[c]

(* A client that left every list for good is shown not_home in the end,    *)
(* and stays so, as long as routers go on being polled.                    *)
GoneIsShown ==
  []<>Polling =>
    \A c \in Clients : <>[](\A r \in Routers : c \notin lists[r]) => <>[](seen[c] = NoRouter)
=============================================================================
