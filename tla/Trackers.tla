------------------------------ MODULE Trackers ------------------------------
(***************************************************************************)
(* The Wi-Fi client trackers: clients.py and device_tracker.py, on top of  *)
(* the poll counters of coordinator.py, the set-up and unload of the       *)
(* config entries (__init__.py) and Home Assistant's update coordinator    *)
(* and debouncer, which decide when a poll runs and who hears of it.       *)
(*                                                                         *)
(* A client is associated to at most one router at a time and moves        *)
(* freely.  A router's list is read at one moment of its poll and          *)
(* published at the end of it.  A client's signal at a router is fixed.    *)
(* Trackers are registered already (module Claims says how they come to    *)
(* be), so that one exists whenever its owner's entities do.               *)
(***************************************************************************)
EXTENDS Integers, FiniteSets

CONSTANTS
  N,            \* number of config entries, one router each
  Clients,      \* the Wi-Fi clients
  Owner,        \* Owner[c]: the router whose entry owns c's tracker
  Signal,       \* Signal[r][c]: dBm of c at r, 0 when the driver reports none
  Faults,       \* polls may fail
  Lossy,        \* a list read may miss interfaces (get_clients answers an error)
  PollLimit,    \* PollLimit[r], bound: polls started by one coordinator object
  GenLimit      \* GenLimit[r], bound: coordinator objects made for the entry

Routers == 1..N       \* in the order of hass.config_entries
NoRouter == 0

ASSUME TrackersAssumption ==
  /\ N \in Nat \ {0}
  /\ Owner \in [Clients -> Routers]
  /\ Signal \in [Routers -> [Clients -> Int]]
  /\ Faults \in BOOLEAN /\ Lossy \in BOOLEAN
  /\ PollLimit \in [Routers -> Nat] /\ GenLimit \in [Routers -> Nat]

VARIABLES
  where,          \* where[c]: the router c is associated to, or NoRouter
  running,        \* hass.state is CoreState.running
  entry,          \* entry[r]: how far the set-up of the config entry is
  gen,            \* gen[r]: which DeviceCoordinator object the entry has
  poll,           \* poll[r]: the poll in flight
  requested,      \* requested[r]: that poll was started by the debouncer
  timer,          \* timer[r]: the debouncer's cooldown; "again": poll at its end
  asked,          \* routers with a queued async_request_refresh task
  got,            \* got[r]: the client list read by the poll in flight
  data,           \* data[r]: the client list in coordinator.data
  ok,             \* ok[r]: coordinator.last_update_success
  halted,         \* halted[r]: the last poll ended with a rejected login, after
                  \* which Home Assistant schedules no further one
  polls_started,  \* polls_started[r]
  data_poll,      \* data_poll[r]: start number of the poll that produced data
  seen,           \* seen[c]: router of the tracker's _seen, NoRouter for None
  confirming      \* confirming[c]: the tracker's _confirming, {} for None

rvars == <<entry, gen, poll, requested, timer, got, data, ok, halted, polls_started, data_poll>>
tvars == <<seen, confirming, asked>>
vars == <<where, running, rvars, tvars>>

Stages == {"unloaded", "first", "shown", "added", "loaded"}

TypeOK ==
  /\ where \in [Clients -> Routers \cup {NoRouter}]
  /\ running \in BOOLEAN
  /\ entry \in [Routers -> Stages]
  /\ gen \in [Routers -> Nat]
  /\ poll \in [Routers -> {"idle", "sent", "read"}]
  /\ requested \in [Routers -> BOOLEAN]
  /\ timer \in [Routers -> {"off", "cool", "again"}]
  /\ asked \in SUBSET Routers
  /\ got \in [Routers -> SUBSET Clients]
  /\ data \in [Routers -> SUBSET Clients]
  /\ ok \in [Routers -> BOOLEAN]
  /\ halted \in [Routers -> BOOLEAN]
  /\ polls_started \in [Routers -> Nat]
  /\ data_poll \in [Routers -> Nat]
  /\ seen \in [Clients -> Routers \cup {NoRouter}]
  /\ confirming \in [Clients -> SUBSET [router: Routers, gen: Nat, started: Nat]]

Init ==
  /\ where \in [Clients -> Routers \cup {NoRouter}]
  /\ running \in BOOLEAN
  /\ entry = [r \in Routers |-> "unloaded"]
  /\ gen = [r \in Routers |-> 0]
  /\ poll = [r \in Routers |-> "idle"]
  /\ requested = [r \in Routers |-> FALSE]
  /\ timer = [r \in Routers |-> "off"]
  /\ asked = {}
  /\ got = [r \in Routers |-> {}]
  /\ data = [r \in Routers |-> {}]
  /\ ok = [r \in Routers |-> TRUE]
  /\ halted = [r \in Routers |-> FALSE]
  /\ polls_started = [r \in Routers |-> 0]
  /\ data_poll = [r \in Routers |-> 0]
  /\ seen = [c \in Clients |-> NoRouter]
  /\ confirming = [c \in Clients |-> {}]

-----------------------------------------------------------------------------
(* The tracker's refresh, on the routers' new state: every tracker that is *)
(* told of an update reads the merged lists in the same step.              *)

\* the entry has a coordinator in runtime_data: coordinators() returns it
HasRuntimeData(stage) == stage \in {"shown", "added", "loaded"}
Coordinators == {r \in Routers : HasRuntimeData(entry[r])}

\* the tracker of c is added to Home Assistant and connected to the signal
Connected(c) == entry[Owner[c]] \in {"added", "loaded"}
Trackers == {c \in Clients : Connected(c)}

Level(r, c) == IF Signal[r][c] = 0 THEN -999 ELSE Signal[r][c]

\* a duplicate goes to the strongest signal, a tie to the first entry
ConnectedOn(c) ==
  LET on == {r \in Coordinators' : c \in data'[r]}
      Beats(r, q) == Level(r, c) > Level(q, c) \/ (Level(r, c) = Level(q, c) /\ r <= q)
  IN  IF on = {} THEN NoRouter ELSE CHOOSE r \in on : \A q \in on : Beats(r, q)

\* mutant: counts finished polls, so that one in flight confirms
SnapshotOfData(c) ==
  IF confirming[c] # {} THEN confirming[c]
  ELSE {[router |-> r, gen |-> gen'[r], started |-> data_poll'[r]] :
          r \in (Coordinators' \ {seen[c]})}

\* the snapshot taken when the departure was noticed, or the one taken now
Snapshot(c) ==
  IF confirming[c] # {} THEN confirming[c]
  ELSE {[router |-> r, gen |-> gen'[r], started |-> polls_started'[r]] :
          r \in (Coordinators' \ {seen[c]})}

\* mutant: a poll that started before the departure was noticed confirms
WaitedForNewData(w) ==
  /\ w.router \in Coordinators /\ gen[w.router] = w.gen
  /\ ok[w.router]
  /\ ~(data_poll[w.router] >= w.started)

\* mutant: the coordinator is looked up by the router, not by identity
WaitedForAnyObject(w) ==
  /\ w.router \in Coordinators
  /\ ok[w.router]
  /\ ~(data_poll[w.router] > w.started)

\* a confirming poll that is waited for: same coordinator object, last poll good,
\* and no data yet from a poll started after the departure was noticed
WaitedFor(w) ==
  /\ w.router \in Coordinators /\ gen[w.router] = w.gen
  /\ ok[w.router]
  /\ ~(data_poll[w.router] > w.started)

\* mutant: off by one, a router nobody polled is not asked again
UnstartedBefore(w) == polls_started[w.router] < w.started

\* no poll was started since: the request may have been dropped, ask again
Unstarted(w) == polls_started[w.router] <= w.started

Pending(c) ==
  IF seen[c] = NoRouter \/ ConnectedOn(c) # NoRouter THEN {}
  ELSE {w \in Snapshot(c) : WaitedFor(w)'}

\* mutant: the router that is shown is asked as well, and there may be none
ToAskShown(T) ==
  {w.router : w \in {v \in UNION {Pending(c) : c \in T} : Unstarted(v)'}}
    \cup {seen[c] : c \in T}

\* the routers that the trackers in T ask for a poll
ToAsk(T) == {w.router : w \in {v \in UNION {Pending(c) : c \in T} : Unstarted(v)'}}

\* every tracker in T refreshes; queued are the requests not yet served, and those to
\* the routers in dropped never are.  The requests are tasks: they run when every
\* tracker has taken its snapshot
Refresh(T, queued, dropped) ==
  /\ seen' = [c \in Clients |->
                IF c \in T /\ Pending(c) = {} THEN ConnectedOn(c) ELSE seen[c]]
  /\ confirming' = [c \in Clients |->
                CASE c \notin T                     -> confirming[c]
                  [] c \in T /\ Pending(c) = {}     -> {}
                  [] c \in T /\ Pending(c) # {}     -> Snapshot(c)]
  /\ asked' = (queued \cup ToAsk(T)) \ dropped

\* the coordinator's listeners run: only a loaded entry has the one that dispatches
Notify(r, queued, dropped) ==
  Refresh(IF entry[r] = "loaded" THEN Trackers ELSE {}, queued, dropped)

-----------------------------------------------------------------------------
(* The clients and Home Assistant's start.                                 *)

Move(c, r) ==
  /\ where[c] # r
  /\ where' = [where EXCEPT ![c] = r]
  /\ UNCHANGED <<running, rvars, tvars>>

\* async_at_started: each tracker refreshes and writes its state
HAStarted ==
  /\ ~running
  /\ running' = TRUE
  /\ UNCHANGED <<where, rvars>>
  /\ Refresh(Trackers, asked, {})

-----------------------------------------------------------------------------
(* Polls.  _async_refresh of Home Assistant cancels the cooldown first;    *)
(* one poll of a coordinator runs at a time.                               *)

\* the first call of a real poll is sent
Send(r, byRequest) ==
  /\ running
  /\ poll' = [poll EXCEPT ![r] = "sent"]
  /\ requested' = [requested EXCEPT ![r] = byRequest]
  /\ timer' = [timer EXCEPT ![r] = "off"]
  /\ polls_started' = [polls_started EXCEPT ![r] = @ + 1]
  /\ UNCHANGED <<where, running, entry, gen, got, data, ok, halted, data_poll, seen,
                 confirming>>

\* Home Assistant is starting: the poll returns the data it has, at once
Skip(r, byRequest, queued) ==
  /\ ~running
  /\ polls_started' = [polls_started EXCEPT ![r] = @ + 1]
  /\ data_poll' = [data_poll EXCEPT ![r] = polls_started[r] + 1]
  /\ ok' = [ok EXCEPT ![r] = TRUE]
  /\ halted' = [halted EXCEPT ![r] = FALSE]
  /\ timer' = [timer EXCEPT ![r] = IF byRequest THEN "cool" ELSE "off"]
  /\ UNCHANGED <<where, running, entry, gen, poll, requested, got, data>>
  /\ Notify(r, queued, {})

StartPoll(r, byRequest, queued) ==
  /\ polls_started[r] < PollLimit[r]
  /\ \/ Send(r, byRequest) /\ asked' = queued
     \/ Skip(r, byRequest, queued)

\* the update interval is over; none runs after a rejected login
IntervalPoll(r) ==
  /\ HasRuntimeData(entry[r]) /\ poll[r] = "idle" /\ ~halted[r]
  /\ StartPoll(r, FALSE, asked)

\* a queued async_request_refresh reaches the debouncer
RunRequest(r) ==
  /\ r \in asked
  /\ \/ /\ timer[r] # "off"
        /\ timer' = [timer EXCEPT ![r] = "again"]
        /\ asked' = asked \ {r}
        /\ UNCHANGED <<where, running, entry, gen, poll, requested, got, data, ok, halted,
                       polls_started, data_poll, seen, confirming>>
     \/ /\ timer[r] = "off" /\ poll[r] # "idle"       \* dropped
        /\ asked' = asked \ {r}
        /\ UNCHANGED <<where, running, rvars, seen, confirming>>
     \/ /\ timer[r] = "off" /\ poll[r] = "idle"
        /\ StartPoll(r, TRUE, asked \ {r})

\* the cooldown of 10 s is over
TimerEnd(r) ==
  \/ /\ \/ timer[r] = "cool"
        \/ timer[r] = "again" /\ poll[r] # "idle"
     /\ timer' = [timer EXCEPT ![r] = "off"]
     /\ UNCHANGED <<where, running, entry, gen, poll, requested, got, data, ok, halted,
                    polls_started, data_poll, tvars>>
  \/ /\ timer[r] = "again" /\ poll[r] = "idle"
     /\ StartPoll(r, TRUE, asked)

\* the router answers get_clients; an interface whose call fails is left out
ReadList(r) ==
  /\ poll[r] = "sent"
  /\ poll' = [poll EXCEPT ![r] = "read"]
  /\ LET here == {c \in Clients : where[c] = r}
     IN  \E list \in SUBSET here :
           /\ Lossy \/ list = here
           /\ got' = [got EXCEPT ![r] = list]
  /\ UNCHANGED <<where, running, entry, gen, requested, timer, data, ok, halted, polls_started,
                 data_poll, tvars>>

(* The debouncer's lock is held by the task that awaits a requested poll,  *)
(* until that task goes on and sets the cooldown.  The event loop takes up *)
(* tasks in turn, so the requests that were queued by then, those of the   *)
(* poll's own listeners included, run before and find the lock held and no *)
(* timer: they are dropped.  Nothing else of this router runs in between,  *)
(* so the end of the poll, the drop and the cooldown are one step.         *)

\* the timer that a finished requested poll leaves behind
Cooldown(r) == timer' = [timer EXCEPT ![r] = IF requested[r] THEN "cool" ELSE "off"]

\* the requests that find the lock of a requested poll held
Drops(r) == IF requested[r] THEN {r} ELSE {}

FinishOk(r) ==
  /\ poll[r] = "read"
  /\ poll' = [poll EXCEPT ![r] = "idle"]
  /\ got' = [got EXCEPT ![r] = {}]
  /\ data' = [data EXCEPT ![r] = got[r]]
  /\ data_poll' = [data_poll EXCEPT ![r] = polls_started[r]]
  /\ ok' = [ok EXCEPT ![r] = TRUE]
  /\ halted' = [halted EXCEPT ![r] = FALSE]
  /\ Cooldown(r)
  \* the first refresh: async_setup_entry goes on to set runtime_data
  /\ entry' = [entry EXCEPT ![r] = IF @ = "first" THEN "shown" ELSE @]
  /\ UNCHANGED <<where, running, gen, requested, polls_started>>
  /\ Notify(r, asked, Drops(r))

\* a failed poll keeps the data, and a second failure in a row tells nobody; a
\* rejected login ends the schedule
FinishFail(r, rejected) ==
  /\ Faults /\ poll[r] # "idle" /\ entry[r] # "first"
  /\ poll' = [poll EXCEPT ![r] = "idle"]
  /\ got' = [got EXCEPT ![r] = {}]
  /\ ok' = [ok EXCEPT ![r] = FALSE]
  /\ halted' = [halted EXCEPT ![r] = rejected]
  /\ Cooldown(r)
  /\ UNCHANGED <<where, running, entry, gen, requested, data, polls_started, data_poll>>
  /\ Refresh(IF ok[r] /\ entry[r] = "loaded" THEN Trackers ELSE {}, asked, Drops(r))

-----------------------------------------------------------------------------
(* Set-up and unload of a config entry.                                    *)

\* what a coordinator object that is gone leaves behind
Blank(r) ==
  /\ requested' = [requested EXCEPT ![r] = FALSE]
  /\ timer' = [timer EXCEPT ![r] = "off"]
  /\ got' = [got EXCEPT ![r] = {}]
  /\ data' = [data EXCEPT ![r] = {}]
  /\ ok' = [ok EXCEPT ![r] = TRUE]
  /\ halted' = [halted EXCEPT ![r] = FALSE]
  /\ data_poll' = [data_poll EXCEPT ![r] = 0]

\* a new coordinator; its first refresh runs even while Home Assistant starts
Setup(r) ==
  /\ entry[r] = "unloaded" /\ gen[r] < GenLimit[r]
  /\ entry' = [entry EXCEPT ![r] = "first"]
  /\ gen' = [gen EXCEPT ![r] = @ + 1]
  /\ poll' = [poll EXCEPT ![r] = "sent"]
  /\ polls_started' = [polls_started EXCEPT ![r] = 1]
  /\ Blank(r)
  /\ UNCHANGED <<where, running, tvars>>

\* the first refresh fails: the set-up is tried again later
SetupFails(r) ==
  /\ Faults /\ entry[r] = "first"
  /\ entry' = [entry EXCEPT ![r] = "unloaded"]
  /\ poll' = [poll EXCEPT ![r] = "idle"]
  /\ polls_started' = [polls_started EXCEPT ![r] = 0]
  /\ Blank(r)
  /\ UNCHANGED <<where, running, gen, tvars>>

\* the platforms are forwarded: the entry's registered trackers are added
AddTrackers(r) ==
  /\ entry[r] = "shown"
  /\ entry' = [entry EXCEPT ![r] = "added"]
  /\ UNCHANGED <<where, running, gen, poll, requested, timer, got, data, ok, halted,
                 polls_started, data_poll>>
  /\ Refresh({c \in Clients : Owner[c] = r}, asked, {})

\* mutant: the list read before the listener was added is not announced
HookUpSilent(r) ==
  /\ entry[r] = "added"
  /\ entry' = [entry EXCEPT ![r] = "loaded"]
  /\ UNCHANGED <<where, running, gen, poll, requested, timer, got, data, ok, halted,
                 polls_started, data_poll, tvars>>

\* the listener is added, and async_setup_entry sends the signal once itself
HookUp(r) ==
  /\ entry[r] = "added"
  /\ entry' = [entry EXCEPT ![r] = "loaded"]
  /\ UNCHANGED <<where, running, gen, poll, requested, timer, got, data, ok, halted,
                 polls_started, data_poll>>
  /\ Refresh(Trackers, asked, {})

\* entities, runtime_data, polls and queued requests go; nobody is told
Unload(r) ==
  /\ entry[r] = "loaded"
  /\ entry' = [entry EXCEPT ![r] = "unloaded"]
  /\ poll' = [poll EXCEPT ![r] = "idle"]
  /\ polls_started' = [polls_started EXCEPT ![r] = 0]
  /\ Blank(r)
  /\ asked' = asked \ {r}
  /\ seen' = [c \in Clients |-> IF Owner[c] = r THEN NoRouter ELSE seen[c]]
  /\ confirming' = [c \in Clients |-> IF Owner[c] = r THEN {} ELSE confirming[c]]
  /\ UNCHANGED <<where, running, gen>>

RouterStep(r) ==
  \/ IntervalPoll(r) \/ RunRequest(r) \/ TimerEnd(r)
  \/ ReadList(r) \/ FinishOk(r) \/ \E rejected \in BOOLEAN : FinishFail(r, rejected)
  \/ Setup(r) \/ SetupFails(r) \/ AddTrackers(r) \/ HookUp(r) \/ Unload(r)

Next ==
  \/ \E c \in Clients, r \in Routers \cup {NoRouter} : Move(c, r)
  \/ HAStarted
  \/ \E r \in Routers : RouterStep(r)

Spec == Init /\ [][Next]_vars

-----------------------------------------------------------------------------
(* Properties.                                                             *)

(* While a tracker waits for a router, the router's schedule goes on, and  *)
(* sooner than that something is under way that makes the tracker look     *)
(* again: a queued request, a cooldown that ends in a poll, a poll in      *)
(* flight, or the signal at the end of the set-up.  The debouncer drops    *)
(* requests made while a poll runs, so this holds only because             *)
(* _gone_confirmed asks again, and it does not hold when the poll that     *)
(* ended last was a requested one: that poll's listeners ask while the     *)
(* debouncer's lock is held, and only the schedule goes on.                *)
WaitingIsDriven ==
  \A c \in Clients : \A w \in confirming[c] :
    WaitedFor(w) =>
      /\ ~halted[w.router]
      /\ \/ w.router \in asked
         \/ timer[w.router] = "again"
         \/ poll[w.router] # "idle"
         \/ entry[w.router] # "loaded"
         \/ requested[w.router]

(* The poll counters never mix the objects of a reloaded entry: a snapshot *)
(* is of this entry's past, and data is never newer than the last start.   *)
CountersAgree ==
  /\ \A r \in Routers : data_poll[r] <= polls_started[r]
  /\ \A c \in Clients : \A w \in confirming[c] :
       /\ w.gen <= gen[w.router]
       /\ WaitedFor(w) => w.started <= polls_started[w.router]

(* What a tracker shows is what the routers published: the router it       *)
(* shows, once its entry is loaded, lists the client, or the departure is  *)
(* noticed and waits to be confirmed; and a client on the list of a loaded *)
(* entry is not shown not_home and its departure is not awaited.  The      *)
(* listener, the signal at the end of the set-up and async_added_to_hass   *)
(* together tell every tracker of every list, although a second failure in *)
(* a row and an unload tell nobody.                                        *)
ShownIsPublished ==
  \A c \in Trackers : \A r \in Routers : entry[r] = "loaded" =>
    /\ seen[c] = r => c \in data[r] \/ confirming[c] # {}
    /\ c \in data[r] => seen[c] # NoRouter /\ confirming[c] = {}

\* how far router r is with the confirming poll the tracker of c waits for
Progress(c, r) ==
  LET mine == {w \in confirming[c] :
                 w.router = r /\ HasRuntimeData(entry[r]) /\ w.gen = gen[r]}
  IN  IF mine = {} THEN "none"
      ELSE LET started == (CHOOSE w \in mine : TRUE).started
           IN  IF data_poll[r] > started THEN "done"
               ELSE IF polls_started[r] > started THEN "started" ELSE "asked"

\* the variables of Presence
Up == [r \in Routers |-> IF ~HasRuntimeData(entry[r]) THEN "down"
                         ELSE IF entry[r] = "loaded" THEN "hooked" ELSE entry[r]]
Busy == [r \in Routers |-> HasRuntimeData(entry[r]) /\ poll[r] # "idle"]
Noticed == [c \in Clients |-> confirming[c] # {}]
Wait == [c \in Clients |-> [r \in Routers |-> Progress(c, r)]]

P == INSTANCE Presence WITH
       up <- Up, lists <- data, busy <- Busy, noticed <- Noticed, wait <- Wait

(* The counters, the coordinator identity and the requests implement the   *)
(* promise of Presence: a tracker turns not_home only when every other     *)
(* router it must wait for has started and finished a poll since the       *)
(* departure was noticed, and no list has the client.                      *)
ImplementsPresence == P!Promise
=============================================================================
