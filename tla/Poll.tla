-------------------------------- MODULE Poll --------------------------------
(***************************************************************************)
(* One poll of one router (coordinator.py, DeviceCoordinator): what it     *)
(* calls, which errors fail it, and what it remembers from poll to poll    *)
(* while the router reboots, is upgraded and forgets its sessions.         *)
(*                                                                         *)
(* system.info and system.board are called in turn; then five branches run *)
(* concurrently.  The first connection or login error fails the poll and   *)
(* leaves the other branches running; an answered error only empties its   *)
(* branch.  A call is one step here: how calls share the session is module *)
(* Ubus.  Polls skipped while Home Assistant starts change nothing here.   *)
(***************************************************************************)
EXTENDS Naturals, FiniteSets

CONSTANTS
  Allowed,     \* the optional sources the session's ACL permits
  Others,      \* the branches modelled besides wireless: of mwan3, wan, hosts, modem
  Aps,         \* access point interfaces the wireless configuration has
  BootLimit,   \* bound: boots of the router
  UptimeLimit  \* bound: the longest uptime told apart

Optional == {"network.wireless", "uci", "iwinfo"} \cup Others

ASSUME PollAssumption ==
  /\ Allowed \subseteq Optional
  /\ Others \subseteq {"mwan3", "wan", "hosts", "modem"}
  /\ Aps \in Nat /\ BootLimit \in Nat \ {0} /\ UptimeLimit \in Nat \ {0}

VARIABLES
  boot,        \* the router's boots so far
  uptime,      \* its uptime; 0 in its first second
  accepts,     \* it accepts the configured credentials
  session,     \* the client's session: none, live or stale
  acls,        \* the ACL of its last login
  apis,        \* _apis, {} for None
  via_uci,     \* _wireless_via_uci
  board,       \* _cached_board_info: {} for None, else the boot it tells of; {0} is blank
  last_uptime, \* _last_uptime
  phase,       \* where the poll is
  info,        \* what system.info said in this poll: uptime (0: unknown) and boot
  tasks,       \* the running branches, of this poll and of failed ones
  broken,      \* history: a call of the poll in flight or just ended had no answer
  ended,       \* how the last poll ended; after "auth" no next one is scheduled
  failed,      \* history: network.wireless failed since the last login
  last_boot,   \* history: the boot last_uptime tells of
  missed       \* history: a reboot left no trace, or its board call had no answer

router == <<boot, uptime, accepts>>
client == <<session, acls, failed>>
polled == <<apis, via_uci, board, last_uptime, last_boot, missed>>
run == <<phase, info, tasks, broken, ended>>
vars == <<router, client, polled, run>>

Phases == {"idle", "load", "system", "board", "gather"}
Stages == {"wireless", "native", "uci", "ap", "mesh", "peers"} \cup Others
\* a branch: where it is, the calls an access point list still needs, and whether
\* the poll in flight waits for it
Task == [at: Stages, left: 0..Aps, own: BOOLEAN]

TypeOK ==
  /\ boot \in Nat /\ uptime \in Nat /\ accepts \in BOOLEAN
  /\ session \in {"none", "live", "stale"}
  /\ acls \in SUBSET Optional /\ apis \in SUBSET Optional
  /\ via_uci \in BOOLEAN
  /\ board \in SUBSET Nat
  /\ last_uptime \in Nat /\ last_boot \in Nat /\ missed \in BOOLEAN
  /\ phase \in Phases
  /\ info \in [uptime: Nat, boot: Nat]
  /\ tasks \in SUBSET Task
  /\ broken \in BOOLEAN
  /\ ended \in {"none", "published", "failed", "auth"}
  /\ failed \in BOOLEAN

Unknown == [uptime |-> 0, boot |-> 0]

Init ==
  /\ boot = 1 /\ uptime \in 0..UptimeLimit /\ accepts \in BOOLEAN
  /\ session = "none" /\ acls = {} /\ apis = {}
  /\ via_uci = FALSE /\ board = {}
  /\ last_uptime = 0 /\ last_boot = 0 /\ missed = FALSE
  /\ phase = "idle" /\ info = Unknown /\ tasks = {}
  /\ broken = FALSE /\ ended = "none"
  /\ failed = FALSE

-----------------------------------------------------------------------------
(* The router.                                                             *)

Tick ==
  /\ uptime < UptimeLimit
  /\ uptime' = uptime + 1
  /\ UNCHANGED <<boot, accepts, client, polled, run>>

SessionLost == session' = IF session = "live" THEN "stale" ELSE session

\* maybe with another firmware: nothing that was learnt of the router still holds
Reboot ==
  /\ boot < BootLimit
  /\ boot' = boot + 1 /\ uptime' = 0
  /\ SessionLost
  /\ UNCHANGED <<accepts, acls, failed, polled, run>>

Expire ==
  /\ session = "live" /\ SessionLost
  /\ UNCHANGED <<router, acls, failed, polled, run>>

ChangePassword ==
  /\ accepts' = ~accepts
  /\ UNCHANGED <<boot, uptime, client, polled, run>>

-----------------------------------------------------------------------------
(* A call, as the poll sees it: a result, {} for a missing object, an      *)
(* answered error, no answer, or a rejected login.                         *)

Replies == {"ok", "missing", "error", "broken", "rejected"}
Raises(reply) == reply \in {"broken", "rejected"}

LogsIn ==
  /\ accepts
  /\ session' = "live" /\ acls' = Allowed

\* fails: the call is network.wireless status and is answered with an error
AskFor(reply, fails) ==
  \/ /\ session = "live" /\ reply # "rejected"
     /\ failed' = (failed \/ fails)
     /\ UNCHANGED <<session, acls>>
  \* without a session, with a stale one, or denied by the ACL
  \/ /\ session # "live" \/ reply \in {"error", "broken"}
     /\ reply # "rejected" /\ LogsIn
     /\ failed' = fails
  \/ /\ reply = "broken" /\ session' = "none"
     /\ UNCHANGED <<acls, failed>>
  \/ /\ reply = "rejected" /\ ~accepts
     /\ session' = "none"
     /\ UNCHANGED <<acls, failed>>

Ask(reply) == AskFor(reply, FALSE)

\* a call of the poll in flight has no result
Unanswered(reply, own) == broken' = (broken \/ (own /\ Raises(reply)))

\* the poll fails; its branches go on, and nobody waits for them
FailPoll(reply, left) ==
  /\ phase' = "idle"
  /\ ended' = IF reply = "rejected" THEN "auth" ELSE "failed"
  /\ info' = Unknown
  /\ tasks' = {[t EXCEPT !.own = FALSE] : t \in left}

-----------------------------------------------------------------------------
(* The calls made in turn.                                                 *)

\* on schedule, or on request (a tracker, a command) even when none is scheduled
StartPoll ==
  /\ phase = "idle"
  /\ phase' = IF apis = {} THEN "load" ELSE "system"
  /\ ended' = "none" /\ broken' = FALSE
  /\ UNCHANGED <<router, client, polled, info, tasks>>

\* load_ubus: a login if the client has no ACL and no session
Load ==
  /\ phase = "load"
  /\ via_uci' = FALSE
  /\ UNCHANGED <<router, board, last_uptime, last_boot, missed>>
  /\ \/ /\ \/ (acls # {} \/ session # "none") /\ UNCHANGED client
           \/ acls = {} /\ session = "none" /\ LogsIn /\ failed' = FALSE
        /\ apis' = acls' /\ phase' = "system"
        /\ UNCHANGED <<info, tasks, broken, ended>>
     \/ /\ acls = {} /\ session = "none"
        /\ \E reply \in {"broken", "rejected"} :
             Ask(reply) /\ session' = "none" /\ Unanswered(reply, TRUE) /\ FailPoll(reply, tasks)
        /\ UNCHANGED apis

SystemInfo ==
  /\ phase = "system"
  /\ UNCHANGED <<router, polled>>
  /\ \E reply \in Replies :
       /\ Ask(reply) /\ Unanswered(reply, TRUE)
       /\ \/ Raises(reply) /\ FailPoll(reply, tasks)
          \/ /\ ~Raises(reply)
             /\ info' = IF reply = "ok" THEN [uptime |-> uptime, boot |-> boot] ELSE Unknown
             /\ phase' = "board"
             /\ UNCHANGED <<tasks, ended>>

\* the uptime went down
RebootDetected == 0 < info.uptime /\ info.uptime < last_uptime

\* _last_uptime is stored, after the board call if there is one
StoreUptime ==
  IF info.uptime > 0
  THEN last_uptime' = info.uptime /\ last_boot' = info.boot
  ELSE UNCHANGED <<last_uptime, last_boot>>

\* the router has rebooted since last_uptime was read (or, without one, since the
\* board was), and is up as long again
Untraced ==
  /\ info.uptime > 0 /\ ~RebootDetected
  /\ \E b \in IF last_boot = 0 THEN board ELSE {last_boot} : b < info.boot

Gather ==
  /\ phase' = "gather"
  /\ tasks' = tasks \cup {[at |-> b, left |-> 0, own |-> TRUE] : b \in {"wireless"} \cup Others}
  /\ UNCHANGED <<info, ended>>

\* mutant: _last_uptime is stored before the call
BoardFailedLate == UNCHANGED <<board, missed>> /\ StoreUptime

\* the call raises: the next poll detects the reboot again
BoardFailed == UNCHANGED <<board, missed, last_uptime, last_boot>>

\* update_info, only when nothing is cached or the router rebooted
Board ==
  /\ phase = "board"
  /\ UNCHANGED <<router, apis, via_uci>>
  /\ \/ /\ board = {} \/ RebootDetected
        /\ \E reply \in Replies :
             /\ Ask(reply) /\ Unanswered(reply, TRUE)
             /\ \/ Raises(reply) /\ BoardFailed /\ FailPoll(reply, tasks)
                \/ /\ ~Raises(reply)
                   /\ board' = CASE reply = "ok"      -> {boot}
                                 [] reply = "missing" -> {0}
                                 [] reply = "error"   -> board
                   /\ missed' = (reply # "ok")
                   /\ StoreUptime /\ Gather
     \/ /\ board # {} /\ ~RebootDetected
        /\ missed' = (missed \/ Untraced)
        /\ StoreUptime /\ Gather
        /\ UNCHANGED <<board, client, broken>>

-----------------------------------------------------------------------------
(* The branches.                                                           *)

NewTask(at, left, own) == [at |-> at, left |-> left, own |-> own]

\* branch t goes on as the branches in next; the poll is published with the last one
Continue(t, next) ==
  /\ tasks' = (tasks \ {t}) \cup next
  /\ IF t.own /\ ~\E u \in tasks' : u.own
     THEN phase' = "idle" /\ ended' = "published" /\ info' = Unknown
     ELSE UNCHANGED <<phase, ended, info>>

\* branch t ends with an error that fails the poll; a straggler's is not heard
Raise(t, reply) ==
  IF t.own THEN FailPoll(reply, tasks \ {t})
  ELSE tasks' = tasks \ {t} /\ UNCHANGED <<phase, info, ended>>

\* branch t makes a call; answered, it goes on as the branches in Next(reply)
Calls(t, NextOf(_)) ==
  \E reply \in Replies :
    /\ Ask(reply) /\ Unanswered(reply, t.own)
    /\ IF Raises(reply) THEN Raise(t, reply) ELSE Continue(t, NextOf(reply))

Quietly(t, next) == Continue(t, next) /\ UNCHANGED <<client, broken>>

\* update_ap and update_mesh run concurrently
Found(t) == {NewTask("ap", Aps, t.own), NewTask("mesh", 0, t.own)}

\* _discover_wireless_config decides before its first call
Discover(t) ==
  /\ t.at = "wireless"
  /\ Quietly(t, {NewTask(IF "network.wireless" \in apis /\ ~via_uci THEN "native" ELSE "uci",
                         0, t.own)})
  /\ UNCHANGED polled

\* discover_wireless: an answered error turns to uci, now and in later polls
Native(t) ==
  /\ t.at = "native"
  /\ UNCHANGED <<apis, board, last_uptime, last_boot, missed>>
  /\ \/ \E reply \in Replies \ {"error"} :
          /\ Ask(reply) /\ Unanswered(reply, t.own)
          /\ IF Raises(reply) THEN Raise(t, reply)
             ELSE Continue(t, IF reply = "ok" THEN Found(t) ELSE {})
          /\ UNCHANGED via_uci
     \/ /\ AskFor("error", TRUE)
        /\ via_uci' = TRUE
        /\ Continue(t, {NewTask("uci", 0, t.own)}) /\ UNCHANGED broken

\* discover_wireless_uci: an answered error means no interfaces
Uci(t) ==
  /\ t.at = "uci"
  /\ UNCHANGED polled
  /\ IF "uci" \in apis
     THEN Calls(t, LAMBDA reply : IF reply = "ok" THEN Found(t) ELSE {})
     ELSE Quietly(t, {})

\* mutant: one interface more than there are
ApOneMore(t) ==
  /\ t.at = "ap"
  /\ UNCHANGED polled
  /\ Calls(t, LAMBDA reply : {[t EXCEPT !.left = @ - 1]})

\* update_ap: the interfaces in turn, each skipped when get_clients answers an error
Ap(t) ==
  /\ t.at = "ap"
  /\ UNCHANGED polled
  /\ IF t.left > 0
     THEN Calls(t, LAMBDA reply : {[t EXCEPT !.left = @ - 1]})
     ELSE Quietly(t, {})

\* mutant: a peer whose call breaks is left out
PeersForgiving(t) ==
  /\ t.at = "peers"
  /\ UNCHANGED polled
  /\ \E reply \in Replies : Ask(reply) /\ Unanswered(reply, t.own) /\ Continue(t, {})

\* update_mesh: iwinfo info of the one interface, then assoclist of its one peer,
\* whose broken or rejected call is raised again
Peers(t) ==
  /\ t.at = "peers"
  /\ UNCHANGED polled
  /\ Calls(t, LAMBDA reply : {})

Mesh(t) ==
  /\ t.at = "mesh"
  /\ UNCHANGED polled
  /\ IF "iwinfo" \in apis
     THEN Calls(t, LAMBDA reply : IF reply = "ok" THEN {NewTask("peers", 0, t.own)} ELSE {})
     ELSE Quietly(t, {})

\* discover_mwan3, fetch_host_hints, update_modem_stats; update_wan_info asks anyway
Other(t) ==
  /\ t.at \in Others
  /\ UNCHANGED polled
  /\ IF t.at \in apis \cup {"wan"}
     THEN Calls(t, LAMBDA reply : {})
     ELSE Quietly(t, {})

\* the entry is reloaded: a new coordinator with a new client
Reload ==
  /\ session' = "none" /\ acls' = {} /\ failed' = FALSE
  /\ apis' = {} /\ via_uci' = FALSE /\ board' = {}
  /\ last_uptime' = 0 /\ last_boot' = 0 /\ missed' = FALSE
  /\ phase' = "idle" /\ info' = Unknown /\ tasks' = {}
  /\ broken' = FALSE /\ ended' = "none"
  /\ UNCHANGED router

Branch(t) ==
  /\ Discover(t) \/ Native(t) \/ Uci(t) \/ Ap(t) \/ Mesh(t) \/ Peers(t) \/ Other(t)
  /\ UNCHANGED router

Next ==
  \/ Tick \/ Reboot \/ Expire \/ ChangePassword
  \/ StartPoll \/ Load \/ SystemInfo \/ Board
  \/ \E t \in tasks : Branch(t)
  \/ Reload

Spec == Init /\ [][Next]_vars

-----------------------------------------------------------------------------
(* A reboot the uptime shows is followed by a new board answer, however    *)
(* many polls fail in between: _cached_board_info is as young as the       *)
(* uptime it is kept for.  Excepted are reboots that leave no trace in the *)
(* uptime and board calls that are answered with an error or without an    *)
(* object (coordinator.py, _async_poll and update_info).                   *)
BoardFollowsReboot ==
  phase = "idle" /\ ~missed => \A b \in board : b >= last_boot

(* A poll is published only when every one of its calls was answered: no   *)
(* branch, nested gather or peer call swallows a connection or login error *)
(* (coordinator.py:29-30, "Connection and login errors fail the poll").    *)
PublishedIsAnswered == ended = "published" => ~broken

(* A poll asks uci without asking network.wireless only while the latter   *)
(* has failed since the last login ("re-checked after each login; the      *)
(* firmware may have changed", coordinator.py:523).                        *)
UciIsRechecked ==
  \A t \in tasks : t.own /\ t.at = "wireless" /\ via_uci => failed
=============================================================================
