# Verification of the OpenWrt integration for Home Assistant

TLA+ models of `custom_components/openwrt`, the TLC runs that check them on small
instances, and TLAPS proofs of their safety properties for every value of the constants.
File names below are relative to `custom_components/openwrt`.

## The system

One config entry stands for one router. Everything runs on Home Assistant's event loop:
code between two `await`s is atomic, and tasks interleave at each `await`.

| Component | State | Operations | Talks to |
| --- | --- | --- | --- |
| ubus client (`ubus.py`) | session id, ACL, login lock | `api_call`, `login` | the router over HTTP; its callers share the session |
| coordinator (`coordinator.py`) | last data, `_apis`, `_wireless_via_uci`, board, last uptime, `polls_started`, `data_poll` | a poll; commands (WPS, reboot, exec, rc, ubus) | ubus client; Home Assistant's update coordinator and debouncer |
| entry life (`__init__.py`) | `runtime_data`, listeners | set-up, unload | coordinator; the dispatcher signal of the trackers |
| services (`__init__.py`) | the coordinators a call has still to ask | reboot, exec, init, ubus | the coordinators of the targeted entries |
| client ownership (`clients.py`) | claim table in `hass.data`, `known` of each entry; the entity registry | `owned_macs`, `claim`, `release_claims`, `_add_new` | every entry's set-up and every poll |
| client trackers (`clients.py`, `device_tracker.py`) | `_seen`, `_confirming` of each client | refresh on every router's update | all coordinators: reads their data and counters, requests polls |
| uptime sensor (`sensor.py`) | boot time, last uptime, last data object | update | coordinator |
| other entities (`sensor.py`, `binary_sensor.py`, `switch.py`) | the interfaces known, the list that is summed | set-up of three platforms, state on every update | coordinator |
| configuration flow (`config_flow.py`) | the entry's data | user, reconfigure, reauth | a ubus client of its own; reloads the entry |
| modem-stats collector (`openwrt-modem-stats`) | a JSON file on the router | rewrite it periodically | read by a poll through rpcd |

What is hard about it:

* **Several routers, one truth.** Routers poll at their own times; a client that roams leaves
  one list before it is in the next, or is in two. A tracker must neither flap nor stay home.
* **Requests that get lost.** The debouncer drops a refresh requested while a poll runs, or
  by the listeners of a requested poll; a second failed poll in a row notifies nobody.
* **Schedules that end.** After a rejected login no poll follows until the user has entered
  new credentials, while trackers may be waiting for that router.
* **Clocks.** The boot time is told by a clock that may be set, from an uptime as old as the
  poll is slow.
* **Identity over time.** Coordinators are replaced on reload, sessions by logins, claim
  tables by restarts, while others hold snapshots of them.
* **Concurrent calls on one session.** Five branches of a poll, and commands, discover at
  once that the session is stale; a late refusal can clear a session that is new.
* **Partial failure.** An answered error empties one branch; a connection error fails the
  poll and leaves its siblings running; a service call stops at the first router that fails.
* **Things that come and go.** Interfaces vanish, return, and change their source between
  polls, and between the set-ups of the platforms; the modem's file is rewritten in place.
* **Flows that overlap.** A configuration is read, a login awaited, and the result stored,
  while another flow, a set-up or a poll of the same entry does the same.

Each hazard is listed, with its line and the properties that watch it, in `PROJECT.json`.
Two smaller ones are only named here: the attributes of the total sensor are keyed by SSID,
so access points that share one hide each other (`sensor.py:296`), and of two flows that
change different fields of an entry the later one stores the older value of the other's
(`config_flow.py:78`).

## The modules

| Module | What it models | Composes |
| --- | --- | --- |
| `Presence` | what the trackers promise: abstract, unbounded, with fairness | |
| `Trackers` | the code's bookkeeping behind it: polls, counters, debouncer, snapshots, set-up and unload | instantiates `Presence` |
| `Roaming` | `Trackers` with a history of the client's moves (checked with it, by `MCTrackers`) | extends `Trackers` |
| `Claims` | who owns the tracker of a client | uses `Lines` |
| `ApiCalls` | what `api_call` promises to its callers: abstract, without lock and router | |
| `Ubus` | concurrent calls and logins on one session | uses `Lines`, instantiates `ApiCalls` |
| `Poll` | the calls of a poll, its errors, and what it remembers | |
| `BootTime` | the boot time shown by the uptime sensor | |
| `Discovery` | which wireless interfaces a poll finds, by either source: pure operators | |
| `ModemStats` | the collector's service, its loop and its file on the router | |
| `Entities` | the three platforms over the polls of one router | extends `Discovery`, `ModemStats` |
| `ConfigFlow` | the flows, and the entries they create, change and reload | |
| `Services` | service calls while flows change their targets | extends `ConfigFlow` |
| `Lines` | waiting lines: sequences left from any place | |
| `*_proofs` | theorems and lemmas | extend the above |
| `MC*` | constants, symmetry and constraints for TLC | extend the above |

### Trackers and Presence

`Trackers` gives every entry the stages of `async_setup_entry`: `first` (the first refresh
runs), `shown` (`runtime_data` is set, so `coordinators()` returns it), `added` (the
platforms are forwarded and its trackers exist) and `loaded` (the listener that dispatches
is in place). A poll is `sent`, then `read` when the router answers `get_clients`, then
finished; between the last two the client may roam. `Refresh` is one dispatch of
`SIGNAL_CLIENTS_UPDATED`: every tracker runs `_gone_confirmed` and `_async_refresh` on the
new state, and the refresh requests (tasks that do not start eagerly) are queued in `asked`
until `RunRequest` hands them to the debouncer. The debouncer's task holds its lock until it
resumes after the poll and sets the cooldown; the requests that the poll's own listeners
queue run before that and find the lock held. So the end of a requested poll drops what is
queued for its router (`Drops`) and sets the cooldown in one step: nothing else of that
router runs in between. `halted` is a schedule that a rejected login has ended: a failed
poll is rejected or not, `IntervalPoll` needs a schedule, and a requested poll that ends
well restores it. Home Assistant's parts (interval, debouncer with its 10 s cooldown, first
refresh) are modelled from how the integration uses them and marked external in the map.
`gen` is the identity of the coordinator object.

`Presence` has the same set-up stages but neither counters nor requests: a departure that is
noticed waits for a level per router (`asked`, `started`, `done`) and is decided when no
router is left to wait for. `Trackers!ImplementsPresence` substitutes the levels by what the
snapshot and the counters say. `Scheduled` is a start by the update interval, the one that
fairness is about; a start of a halted router is a request.

### Claims

`_add_new` of every connected entry runs, in the order of connection, on each dispatch;
`AddNew` is one such dispatch. `Claimed` is `claim()`: a claim stands while its entry
exists, then the registry decides, then the first that asks. `Register` is apart from the
claim, because `async_add_entities` registers later. A restart empties the claim table and
keeps the registry; a deleted entry that was not loaded releases nothing.

### Ubus and ApiCalls

One variable per local of `api_call`: where it is, the session its request carries, the
answer on its way, the session of its first try. `queue` is the `asyncio.Lock`: its first
element holds it or is about to. The router opens sessions when it handles a login, which
may be long before the client sees the reply, and forgets any set of them at any time.
`Broken` is every way a request ends without an answer; `Cancel` is a cancelled task.

`ApiCalls` has neither the line nor the requests nor the router: a call is idle, in its first
try, waiting, logging in or in its second try. One call logs in at a time, and none while
there is a session; who waited goes on with a session younger than the one it was refused
with; a call ends with an error only where the docstring of `api_call` allows that error.
`Ubus!ImplementsApiCalls` maps a call in the lock to one that waits, and keeps the rest.

### Poll

`system.info` and `system.board` in turn, then one task per branch; a branch's call is one
step that asks (`Ask`: an answer, an answered error, no answer, a rejected login, each with
what it does to the session) and continues, ends or fails the poll. The branches of a failed
poll stay in `tasks` with `own = FALSE`: `asyncio.gather` does not cancel them. How calls
contend for the session is `Ubus`, so here a call is atomic.

### BootTime

Time in ticks. A poll reads the uptime at one tick and publishes it at most `MaxLatency`
later; the time computed from it may be one off, for both clocks count whole seconds.
`SetClock` sets the clock of Home Assistant's host, which the boot time is told by. Two
history variables name the polls (boot, clock and age of the uptime) that the shown time and
the last uptime are from; no action reads them. `Notify` repeats the data the sensor has
seen, as failed and skipped polls do.

### Discovery, ModemStats and Entities

A layout is the wireless configuration of the router: its sections in order, and the
disabled radios. `RouterNames` is what the router calls the interfaces that run (external),
`DiscoverWireless` what `network.wireless` tells of them, `DiscoverWirelessUci` what the
code makes of the uci sections, with names generated by `GeneratedIfname`. The interfaces
found are a function on the places of their sections, which is the order of the code's list.
`UpdateMesh` is the loop that ends at the first mesh interface without an answer.

`Entities` is one entry: while Home Assistant starts, a poll is skipped and counts as good
with the data there is (`SkipPoll`); afterwards it is `sent`, has read the modem's file, and
then publishes what the interfaces, the other parts and the modem answered. `SetUpPlatform`
is `async_setup_entry` of one platform; the three of them are separate steps, for a tracker
of another entry may request a poll in between. `Notify` is one round of the coordinator's
listeners: every entity writes its `State`, and the listener of `sensor.py` makes the
sensors of new interfaces. Home Assistant does not promise in which order it calls the
listeners: `late` says whether the total sensor hears of an update after that listener. What
an entity shows is a number, or -1 for unavailable; entities that are made and become
unavailable together are one.

In `ModemStats` a collection asks the modem, empties the file, and writes it. A service that
is stopped removes the file first, and its loop ends later: a collection that is asking the
modem then writes the file again, and nobody removes it.

### ConfigFlow and Services

A configuration is an address, a user and a password: a field that no login needs does not
matter here. A submitted form is one step up to the login; what follows the login is the
next one, with whatever has happened in between. Assumed of Home Assistant, and marked
external: an entry has one re-authentication flow, which is not started while another flow
of the entry is open; `async_set_unique_id` aborts if another flow in progress has that id;
a new entry replaces one of the same unique id; a closed user flow creates no entry, but a
closed change of an entry is stored when its login ends well; a reload waits for the set-up
that is under way.

`Services` takes the loaded coordinators of the targets when the call begins (`Devices`) and
asks them in any order, one after another; one that may not use the object is passed over.
`Execute` is the router's, and the answer can be lost after it.

## The runs

| Run | Question | Instance |
| --- | --- | --- |
| `presence_live` | is every departure decided after one poll of each router, is a client that left shown `not_home`, as long as routers go on being polled? | 2 routers, 1 client, unbounded |
| `trackers_all` | do counters, requests and identities implement the promise, does no tracker miss what it should show, is a client that moves once ever shown `not_home`? | 2 routers, 1 client, 3 polls each, the second entry reloaded once; and 3 routers set up in turn, 2 polls each |
| `roaming_twice` | and one that moves twice? **violated**, see below | 2 routers, 1 client, 4 polls each, failing polls, complete lists |
| `claims_all` | one tracker, kept by its owner, never claimed away, never orphaned | 3 entries, 1 client, 2 restarts |
| `ubus_calls` | are retries young, fresh and successful, does only a rejection ask for credentials, does every call end, and is the promise kept? | 2 calls, one denied, 3 sessions |
| `ubus_denial` | can an allowed call be denied? **violated**, see below | 2 calls |
| `poll_safe` | board after reboot, all or nothing | 2 boots, uptime up to 2, one other branch, one straggler |
| `poll_uci` | is `network.wireless` asked again after a login? **violated** | as above |
| `boottime_close` | what replaces the boot time, and how far is it off? | tolerance 2, latency up to 3, clock off by -3, 0 or 3, 6 ticks |
| `boottime_jump` | does it change only on a reboot? **violated**, see below | the same with latency 1 |
| `entities_all` | are entities made once, for every interface, and current? | 3 layouts of up to 3 sections on 2 radios, 2 values of each part |
| `services_all` | are flows that overlap harmless, and calls complete? | 2 entries, 2 addresses, 2 passwords, 2 user flows beside 2 re-authentications, 1 call |

Bounds. Polls, set-ups, sessions, restarts, boots and ticks are bounded in the guards of the
actions that count them, by a constant each. Three polls of a coordinator are the one that
shows the client, the one that notices the departure or is in flight then, and the one that
confirms; the first router has two in `trackers_all`, and a fourth in `roaming_twice` lets
the client move again. One reload shows counters that start again. One client suffices
because trackers only share the requests, which are a set; the proofs below do not depend on
it. Three sessions are the one refused, the one opened meanwhile and the one after. Two
calls are one that holds the lock and one that waits or is refused late; more of them are
left to the proofs. Two boots and uptimes up to 2 give an uptime that goes down and one that
hides the reboot; `poll_safe` tells one straggler at a time apart, enough to run beside each
call of a later poll. A latency above the tolerance and a clock off by more than it are the
cases that replace the boot time. The three layouts have sections with and without a name,
of both modes, one that is off and a radio that is disabled.

Four runs have a constraint. `trackers_all` explores two routers in full, and a third one
only when the entries are set up in turn after Home Assistant has started, are not reloaded
and polled twice each without failure, by a client that stays away from the second.
`entities_all` varies one thing at a time: one interface, count or part is out of the
ordinary in a poll; and the modem's file changes while there is one access point that always
answers. `services_all` has two things in progress at a time, flows or calls, and looks at
nothing after the end of a call, which does not change again; its user flows are
interchangeable. A run of `exec` with one target that permits it and one that does not
stands for the four kinds of calls, which differ in what has to be permitted only. The
proofs have none of these restrictions. Deadlock is checked except in `claims_all`, where
all entries may be deleted for good; where the environment always has a step (a client
moves, a clock or a password is set) it says little, and `CallEnds` and `DepartureDecided`
say that nobody waits for ever.

Fairness. `Presence`: Home Assistant starts; a set-up goes on; the update interval polls
again and again, but for a router whose last poll ended with a rejected login (`Scheduled`);
and `SF(Finish)`, the one assumption about the network: a router polled for ever does not
fail for ever. A set-up that is never tried again, an entry that is unloaded, failing polls
and rejected logins are not excluded. `DepartureDecided` and `GoneIsShown` are promised as
long as routers go on being polled: `Polling`, some loaded entry has a schedule, holds again
and again. Without it they are false: a rejected login at every router that is loaded leaves
nothing that makes a tracker look, and an unload tells nobody. `Claims`: the interval polls
and a set-up that got this far ends. `Ubus`: a request ends within its timeout and the loop
runs woken tasks; nothing is assumed of the router.

Every property of a passing run has a mutant in its module, an operator named in
`PROJECT.json` beside the one it replaces: a plausible slip in the code, with which TLC
finds that property violated.

What the properties except, because the code does not promise it: `TotalIsSum` the one
update that brings a new interface, if the total sensor is called before the listener that
adds it; `WholePollFindsAll` configurations with a single section disabled or a mesh without
an id (the first is still counted and listed by uci, the second ends the loop over meshes);
`OneMoveIsNotLeaving` a client that some list missed, or while a router was not loaded or
did not answer; `WaitingIsDriven` asks no more than the schedule after a requested poll;
`RejectedIsPrompted` an entry of which the user closed the flow that kept Home Assistant
from starting a re-authentication; `BoardFollowsReboot` reboots that the uptime does not
show.

## Where code and documents disagree

* `roaming_twice`: "so roaming does not flap" (`CHANGELOG.md:11`). The router a client left
  is not among those waited for, so a client that is back there before it is polled again is
  shown `not_home` when the others have confirmed. `OneMoveIsNotLeaving`, in
  `trackers_all` and as a theorem, shows that a single move is covered.
* `ubus_denial`: "log in first, and once more on a stale session" (`ubus.py:81`). A call
  that starts without a session and joins a login in progress has one try; if the router has
  lost that session before the call began, it fails with a permission error.
* `poll_uci`: "re-checked after each login; the firmware may have changed"
  (`coordinator.py:523`). Only `load_ubus` resets the flag, and it runs only until the first
  login has filled `_apis`; the logins of `api_call` do not.
* `boottime_jump`: "a timestamp that changes only on a reboot" (`README.md:18` of the
  repository; `CHANGELOG.md:20` says the same). A clock that is set by more than the
  tolerance moves it too, and `tests/test_init.py:114` asserts that it does; so does a poll
  that takes longer than the tolerance. `ReplacedForCause` in `boottime_close` is what the
  code keeps: another boot, another clock or such a poll, and nothing else.
* Without a run of its own: "stopping it removes the JSON file so HA sensors become
  unavailable cleanly" (`README.md:221` of the repository, and the comment in
  `modem-stats.init:24`). A collection that asks the modem while `stop_service` removes the
  file writes it again when it has the answers (`ModemStats`: `Collect`, `StopService`,
  `Truncate`, `Write`), nobody removes that file, and every later poll shows the values of a
  stopped service. A service stopped while Home Assistant starts is shown on by skipped polls,
  until the first real one.
* Without a run either: a router "is asked again (the debouncer drops a request made while a
  poll runs)" (`device_tracker.py:85`). After a poll that was itself requested, the debouncer
  still holds its lock when the trackers ask again, and drops that request as well; the
  departure is then confirmed by the next poll of the interval. `WaitingIsDriven` says so.

## What is proved

`tlapm` checks every proof to its leaves; nothing is assumed but the `ASSUME`s on the
constants, which TLC evaluates in every run.

* **Trackers** (`Trackers_proofs`): `TypeOK`, `WaitingIsDriven`, `CountersAgree`, for any
  number of routers and clients. `WaitingIsDriven` is not inductive: a waiting tracker is
  driven by the poll in flight, so when that poll ends its data must be new enough, the
  tracker must ask again, or the poll was a requested one and the schedule must go on: a
  router whose login was rejected has failed (`HaltedIsFailed`), so nobody waits for it. `IInv` adds that an idle coordinator's data is of its last poll or
  the poll failed (`IdleIsCurrent`), that data is never from the future (`DataIsPast`), that
  snapshots were taken in the past of the object they name (`SnapshotsArePast`) and that a
  tracker that is gone waits for nothing (`GoneWaitsForNothing`).
  `Implements` proves the refinement `ImplementsPresence`: every step is a step of `Presence`
  or leaves its variables alone. Two invariants are added for it (`RInv`): a departure that
  is waited for has at most one snapshot of a router (`OnePerRouter`), so the router has one
  level; an entry without runtime data lists nothing and nobody asks for its poll
  (`NothingYet`). The counters a step changes first move the levels of the old snapshots
  (`Ahead`); the refresh of the trackers that ends the step is then `Presence!Look` at those
  levels, and what `_gone_confirmed` waits for is what is `asked` or `started` there.
  `PresenceTyped` carries `Presence`'s type invariant `PTypeOK` (`PromiseTyped`, a theorem
  in place of a run's invariant) over the refinement, and `SnapshotsStand` carries `NeverAskedAgain` (`PromiseNeverAsksAgain`): while a departure
  waits, the level of no router falls, for a look that goes on waiting keeps the progress of
  the polls (`LookGoesOn`) and a poll only moves it on (`ProgressGoesOn`).
  `DecidedIsShown`, and `TrackersDecideAndShow` over the refinement, give `GoneIsShown` from
  two hypotheses: that departures are decided (`DepartureDecided`), and that some loaded
  router goes on answering. A look finds a client that is gone away already, decides for
  `not_home`, or notices; a departure that ends is decided for `not_home` or ends with its
  tracker; and no step shows the client anew (`GoneStep`). The invariant is that a client
  without a tracker is nowhere (`NoTrackerNoRouter`).
  `ShownPublished` proves `ShownIsPublished`, which is inductive with `IInv`: every step that
  changes a list or makes it count is followed by a look of every tracker, and the steps
  that nobody is told of (a second failed poll, an unload) change no list that counts.
* **Roaming** (`Trackers_proofs`): `OneMoveStaysHome`, that is `OneMoveIsNotLeaving` for any
  number of routers. Lists may be incomplete: the history says which client a list missed, and the theorem
  is about the others. The
  history invariant `HInv` follows a client: before it moves, its tracker and the lists agree
  (`Settled`); after one move, while the new router has not published it, the departure from
  the old one waits for a poll of the new router that will show it (`Follows`, `Arriving`).
  It needs that no poll but a first refresh is in flight while Home Assistant starts
  (`NoEarlyPoll`), for a skipped poll counts and shows nothing.
* **Claims** (`Claims_proofs`): `TypeOK`, `OneTracker`, `OwnerKeepsTracker`. The invariant
  says that what an entry holds it has claimed (`HeldIsClaimed`), that the claim of a living
  entry agrees with the registry (`ClaimAgrees`), that new ids are unused, that what is being
  added is known, and that only living entries stand in the dispatch line (`LineIsLive`).
  That a claim is not taken (`ClaimStays`) needs `ClaimAgrees`: set-up takes its registered
  clients without asking the table, and a living entry's claim on one of them would
  contradict the registry.
  `ListedAreTaken` proves `StaleClaimTakenOver` of every behaviour of `Spec` in which
  dispatches go on (`[]<><<Dispatch>>_vars`): the entries that run are connected
  (`RunningStands`), so one dispatch offers every listed client, and who gets the claim
  exists (`OwnersExist`, `LineIsLive`).
* **Ubus** (`Ubus_proofs`): `TypeOK`, `RetryIsYounger`, `SecondTryIsFresh`,
  `StaleSessionHeals`, `LockIsServed`, `AuthIsRejection`, for any set of calls. The argument: session numbers
  grow, whatever a call sees as its session is not older than what it was refused with, and
  the lock's line holds exactly the calls between their refusal and their second try.
  `Implements` proves the refinement `ImplementsApiCalls` from these: the call at the head of
  the line is the only one that logs in, a session is younger than every one it follows, and
  a step of the router, or of the line alone, leaves the variables of `ApiCalls` as they are.
* **BootTime** (`BootTime_proofs`): `TypeOK`, `ShownIsClose` and `ReplacedForCause`, for
  every tolerance, latency and set of clocks, with no relation between them. Two times that
  are computed for one boot by one clock lie no further apart than the older of the two
  uptimes was old, and one second; uptimes of one boot never go down.
  `SlowPollsMoveLittle`: an uptime of the boot that is shown, told by the same clock, moves
  the shown time by `MaxLatency + 1` at most.
* **Poll** (`Poll_proofs`): `TypeOK`, `BoardFollowsReboot`, `PublishedIsAnswered`,
  for any sources, access points, boots and stragglers. The invariant
  says that while a poll is in flight it has not ended, that its own branches run only while
  they are gathered, and that what is unanswered has failed it (`InFlight`); that no boot is
  heard of before it happens (`BootsHappened`); and `BoardFollowsReboot` for the time during
  a poll (`BoardIsYoung`), when the board may already be newer than the uptime stored.
* **Entities** (`Entities_proofs`): `TypeOK`, `NoEntityTwice`, `InterfacesHaveSensors`,
  `ShownIsCurrent`, `TotalIsSum`, `WholePollFindsAll`, for any layouts
  and answers. The
  names known are exactly those that have sensors, and the data's are among them
  (`KnownFit`): so a name that is not known has none, and every one in the data has one.
  That the total is a number is the one place where a fold matters: a sum is shown to have
  one value whatever order the interfaces are counted in, by induction on how many they are
  (`SumUnique`, `ClientsSum`). `WholePoll` shows that, with no section off, the sections of
  a radio that runs are the same by uci as on the router, and so are the twins before each
  one, and its generated name. `GeneratedNamesDiffer`: sections without a name are given
  different ones, by uci and by the router, if the names of their radios differ in their
  digits; the code takes 0 for a radio without any, so two such radios would share names.
* **Services, ConfigFlow** (`Services_proofs`): `TypeOK`, `NoEntryReplaced`, `UsesStored`,
  `RejectedIsPrompted`, `EveryTargetServed`, `StoredWasAccepted`, for any entries, flows,
  addresses and calls. A flow that logs in to create an entry has its unique id to itself
  until the login ends (`UniqueLogins`), which is what the check before the login is good
  for; a flow never changes the address of its entry (`FlowsFit`), so changes do not disturb
  that; a target of a call was served, is due, or is being asked (`ServedOrDue`).
* **Lines** (`Lines_proofs`): what `Without` keeps, used by the lock and the dispatch line,
  and the least-number principle, which gives the `CHOOSE` of the strongest signal and of
  the first offer a value.

Only model-checked: `DepartureDecided` and `CallEnds`, whose arguments count down the
routers and the calls that are waited for, an induction the prover cannot do under temporal
operators; that `StaleClaimTakenOver` and `GoneIsShown` follow from the fairness stated,
for the step from `WF` to the hypotheses of `ListedAreTaken` and `DecidedIsShown` needs
`ENABLED`; and the four properties that fail. Every other property of a run is a theorem.

## Not modelled, and the plan

* Icons, attributes, units and names of entities; the signal sensors of single clients
  (disabled by default, one more view of the same list); IP addresses, host names and SSIDs.
* The two WPS commands: each is one call (`Ubus`) and a refresh request (`Trackers`).
* Of the collector, what it asks the modem and its cache of static values.
* Transport details below the class of an answer, the events and responses of services,
  diagnostics (a redacted copy without state), strings and translations, the install scripts
  (run once by hand, without concurrent state).

Everything planned at the start is done: `Presence`, `Trackers`, `Roaming`, `Claims`,
`Ubus`, `Poll`, `BootTime`, then `Discovery`, `ModemStats`, `Entities`, `ConfigFlow`,
`Services`, their proofs, and the proofs of both refinements. Nothing of the plan is left.
