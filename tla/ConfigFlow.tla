----------------------------- MODULE ConfigFlow -----------------------------
(***************************************************************************)
(* The configuration flows (config_flow.py) and the entries they create    *)
(* and change, whose coordinators use the configuration of the last set-up *)
(* (__init__.py, new_ubus_client).                                         *)
(*                                                                         *)
(* A configuration is an address, a user name and a password; what is not  *)
(* needed for a login is left out.  A submitted form is one step up to the *)
(* login, which the router answers later.  Entry ids are never used again. *)
(* Every entry has a re-authentication flow of its own, started by Home    *)
(* Assistant; the others are opened by the user.                           *)
(***************************************************************************)
EXTENDS FiniteSets

CONSTANTS
  EntryIds,   \* bound: the entries ever created
  Flows,      \* bound: the flows a user has open at a time
  Addresses, Users, Passwords,
  Logins,     \* Logins[a]: the [user, password] that the router at a may accept
  NoEntry     \* the entry of a flow that has none

Login == [user: Users, password: Passwords]
Config == [address: Addresses, user: Users, password: Passwords]
Kept == "kept"     \* the form's password field is left empty
Change == [user: Users, password: Passwords \cup {Kept}]

ASSUME ConfigFlowAssumption ==
  /\ \A a \in Addresses : Logins[a] \subseteq Login
  /\ Kept \notin Passwords /\ NoEntry \notin EntryIds \cup Addresses
  /\ EntryIds \cap Flows = {}

VARIABLES
  accepts,   \* accepts[a]: the login that the router at a accepts
  state,     \* state[e]: of the config entry
  stored,    \* stored[e]: entry.data
  uses,      \* uses[e]: the configuration of the entry's coordinator
  reload,    \* entries with a reload scheduled
  rejected,  \* entries whose last poll or set-up was rejected: nobody polls them
  flow,      \* flow[f]: kind, step, entry, and the configuration to log in with
  left,      \* history: entries of which a flow was closed since they were rejected
  replaced   \* history: an entry was replaced by a new one of the same unique id

fvars == <<accepts, state, stored, uses, reload, rejected, flow, left, replaced>>

AllFlows == Flows \cup EntryIds
NoConfig == [address |-> NoEntry, user |-> NoEntry, password |-> NoEntry]
Idle == [kind |-> "none", step |-> "none", entry |-> NoEntry, config |-> NoConfig,
         input |-> NoEntry]

Living(e) == state[e] \notin {"new", "gone"}

\* what is known of a flow: its entry, and once it logs in its configuration
FlowRecords ==
  {r \in [kind: {"none", "user", "reconfigure", "reauth"},
          step: {"none", "form", "login", "closed"},
          entry: EntryIds \cup {NoEntry},
          config: Config \cup {NoConfig},
          input: Change \cup {NoEntry}] :
     /\ r.kind \in {"reconfigure", "reauth"} <=> r.entry # NoEntry
     /\ r.step \in {"login", "closed"} => r.config \in Config}

FTypeOK ==
  /\ accepts \in [Addresses -> Login]
  /\ state \in [EntryIds -> {"new", "setup", "loaded", "retry", "error", "gone"}]
  /\ stored \in [EntryIds -> Config \cup {NoConfig}]
  /\ uses \in [EntryIds -> Config \cup {NoConfig}]
  /\ \A e \in EntryIds : Living(e) => stored[e] \in Config /\ uses[e] \in Config
  /\ reload \cup rejected \cup left \subseteq EntryIds
  /\ flow \in [AllFlows -> FlowRecords]
  /\ replaced \in BOOLEAN

FInit ==
  /\ accepts \in {f \in [Addresses -> Login] : \A a \in Addresses : f[a] \in Logins[a]}
  /\ state = [e \in EntryIds |-> "new"]
  /\ stored = [e \in EntryIds |-> NoConfig] /\ uses = stored
  /\ reload = {} /\ rejected = {} /\ left = {}
  /\ flow = [f \in AllFlows |-> Idle]
  /\ replaced = FALSE

Accepted(config) ==
  accepts[config.address] = [user |-> config.user, password |-> config.password]

-----------------------------------------------------------------------------
(* Home Assistant's flow manager.                                          *)

\* flows in progress: one that was closed while it logs in is not
InProgress(f) == flow[f].step \in {"form", "login"}
FlowsOf(e) == {f \in AllFlows : InProgress(f) /\ flow[f].entry = e}

\* async_start_reauth: unless the entry has a flow already
Reauth(e) ==
  IF FlowsOf(e) # {} THEN flow
  ELSE [flow EXCEPT ![e] = [Idle EXCEPT !.kind = "reauth", !.step = "form", !.entry = e]]

Open(f, kind, e) ==
  /\ f \in Flows /\ flow[f] = Idle
  /\ flow' = [flow EXCEPT ![f] = [Idle EXCEPT !.kind = kind, !.step = "form", !.entry = e]]
  /\ UNCHANGED <<accepts, state, stored, uses, reload, rejected, left, replaced>>

\* the dialog is closed; a step that awaits its login goes on all the same
Close(f) ==
  /\ f \in Flows /\ InProgress(f)
  /\ flow' = [flow EXCEPT ![f] = IF @.step = "form" THEN Idle ELSE [@ EXCEPT !.step = "closed"]]
  /\ left' = left \cup ({flow[f].entry} \cap rejected)
  /\ UNCHANGED <<accepts, state, stored, uses, reload, rejected, replaced>>

-----------------------------------------------------------------------------
(* The steps of OpenWrtConfigFlow.                                         *)

Ends(f) == flow' = [flow EXCEPT ![f] = Idle]

\* _async_try_login begins with this configuration
TryLogin(f, config, input) ==
  flow' = [flow EXCEPT ![f] = [@ EXCEPT !.step = "login", !.config = config, !.input = input]]

\* mutant: the unique id is not checked
TakenNever(f, address) == FALSE

\* another flow in progress has the unique id, or an entry does
Taken(f, address) ==
  \/ \E g \in Flows \ {f} :
       InProgress(g) /\ flow[g].kind = "user" /\ flow[g].config.address = address
  \/ \E e \in EntryIds : Living(e) /\ stored[e].address = address

\* async_step_user with input
SubmitUser(f) ==
  /\ flow[f].kind = "user" /\ flow[f].step = "form"
  /\ \E config \in Config :
       IF Taken(f, config.address) THEN Ends(f) ELSE TryLogin(f, config, NoEntry)
  /\ UNCHANGED <<accepts, state, stored, uses, reload, rejected, left, replaced>>

Merged(e, input) ==
  [stored[e] EXCEPT !.user = input.user,
                    !.password = IF input.password = Kept THEN @ ELSE input.password]

\* async_step_reconfigure and async_step_reauth_confirm with input; the entry's data
\* is read now
SubmitChange(f) ==
  /\ flow[f].kind \in {"reconfigure", "reauth"} /\ flow[f].step = "form"
  /\ LET e == flow[f].entry
     IN  IF ~Living(e) THEN Ends(f)
         ELSE \E input \in Change :
                TryLogin(f, Merged(e, input), input)
  /\ UNCHANGED <<accepts, state, stored, uses, reload, rejected, left, replaced>>

\* mutant: a failed login ends the flow
LoginFailsForGood(f) ==
  /\ flow[f].step = "login"
  /\ Ends(f)
  /\ UNCHANGED <<accepts, state, stored, uses, reload, rejected, left, replaced>>

\* the form is shown again; a unique id that was set stays
FormAgain(r) ==
  [r EXCEPT !.step = "form", !.input = NoEntry,
            !.config = IF r.kind = "user" THEN r.config ELSE NoConfig]

\* invalid_auth or cannot_connect
LoginFails(f) ==
  /\ flow[f].step \in {"login", "closed"}
  /\ flow' = [flow EXCEPT ![f] = IF flow[f].step = "closed" THEN Idle ELSE FormAgain(flow[f])]
  /\ UNCHANGED <<accepts, state, stored, uses, reload, rejected, left, replaced>>

\* async_create_entry: the new entry is set up; one of the same unique id is replaced
CreateEntry(f) ==
  /\ flow[f].kind = "user" /\ flow[f].step = "login" /\ Accepted(flow[f].config)
  /\ \E e \in {d \in EntryIds : state[d] = "new"} :
       LET old == {d \in EntryIds : Living(d) /\ stored[d].address = flow[f].config.address}
       IN  /\ state' = [d \in EntryIds |-> CASE d = e -> "setup" [] d \in old -> "gone"
                                             [] OTHER -> state[d]]
           /\ stored' = [d \in EntryIds |-> CASE d = e -> flow[f].config [] d \in old -> NoConfig
                                              [] OTHER -> stored[d]]
           /\ uses' = [uses EXCEPT ![e] = flow[f].config]
           /\ reload' = reload \ old /\ rejected' = rejected \ old /\ left' = left \ old
           /\ replaced' = (replaced \/ old # {})
  /\ Ends(f)
  /\ UNCHANGED accepts

\* mutant: what the entry has by now is merged again
MergedLate(f) ==
  LET e == flow[f].entry
      fresh == flow[f].input
  IN  [stored[e] EXCEPT !.user = fresh.user,
                        !.password = IF fresh.password = Kept THEN @ ELSE fresh.password]

\* the configuration that the router has accepted
ToStore(f) == flow[f].config

\* mutant: the coordinator is left as it is
ReloadsNot(e) == reload

Reloads(e) == reload \cup {e}

\* async_update_reload_and_abort; the entry may be gone
ChangeEntry(f) ==
  /\ flow[f].kind \in {"reconfigure", "reauth"} /\ flow[f].step \in {"login", "closed"}
  /\ Accepted(flow[f].config)
  /\ LET e == flow[f].entry
     IN  IF Living(e)
         THEN stored' = [stored EXCEPT ![e] = ToStore(f)] /\ reload' = Reloads(e)
         ELSE UNCHANGED <<stored, reload>>
  /\ Ends(f)
  /\ UNCHANGED <<accepts, state, uses, rejected, left, replaced>>

-----------------------------------------------------------------------------
(* The life of an entry.                                                   *)

\* new_coordinator, from the data the entry has now
SetsUp(e) ==
  /\ state' = [state EXCEPT ![e] = "setup"]
  /\ uses' = [uses EXCEPT ![e] = stored[e]]
  /\ rejected' = rejected \ {e}
  /\ left' = left \ {e}

\* a scheduled reload waits for a set-up under way; an entry not ready is tried again
SetUpAgain(e) ==
  /\ \/ e \in reload /\ state[e] \in {"loaded", "retry", "error"}
     \/ state[e] = "retry"
  /\ SetsUp(e)
  /\ reload' = reload \ {e}
  /\ UNCHANGED <<accepts, stored, flow, replaced>>

SetUpEnds(e) ==
  /\ state[e] = "setup"
  /\ \/ /\ Accepted(uses[e])
        /\ state' = [state EXCEPT ![e] = "loaded"]
        /\ UNCHANGED <<rejected, flow>>
     \/ /\ ~Accepted(uses[e])                       \* ConfigEntryAuthFailed
        /\ state' = [state EXCEPT ![e] = "error"]
        /\ rejected' = rejected \cup {e}
        /\ flow' = Reauth(e)
     \/ /\ state' = [state EXCEPT ![e] = "retry"]   \* ConfigEntryNotReady
        /\ UNCHANGED <<rejected, flow>>
  /\ UNCHANGED <<accepts, stored, uses, reload, left, replaced>>

\* a poll that has to log in is rejected; an accepted one changes nothing
PollRejected(e) ==
  /\ state[e] = "loaded" /\ ~Accepted(uses[e])
  /\ rejected' = rejected \cup {e}
  /\ flow' = Reauth(e)
  /\ UNCHANGED <<accepts, state, stored, uses, reload, left, replaced>>

\* the re-authentication flow of a removed entry goes with it
Remove(e) ==
  /\ state[e] \in {"loaded", "retry", "error"}
  /\ state' = [state EXCEPT ![e] = "gone"]
  /\ stored' = [stored EXCEPT ![e] = NoConfig]
  /\ uses' = [uses EXCEPT ![e] = NoConfig]
  /\ flow' = [flow EXCEPT ![e] = Idle]
  /\ reload' = reload \ {e} /\ rejected' = rejected \ {e} /\ left' = left \ {e}
  /\ UNCHANGED <<accepts, replaced>>

ChangeLogin(a) ==
  /\ \E login \in Logins[a] \ {accepts[a]} : accepts' = [accepts EXCEPT ![a] = login]
  /\ UNCHANGED <<state, stored, uses, reload, rejected, flow, left, replaced>>

FNext ==
  \/ \E f \in AllFlows :
       \/ Open(f, "user", NoEntry) \/ \E e \in EntryIds : Living(e) /\ Open(f, "reconfigure", e)
       \/ Close(f) \/ SubmitUser(f) \/ SubmitChange(f)
       \/ LoginFails(f) \/ CreateEntry(f) \/ ChangeEntry(f)
  \/ \E e \in EntryIds : SetUpAgain(e) \/ SetUpEnds(e) \/ PollRejected(e) \/ Remove(e)
  \/ \E a \in Addresses : ChangeLogin(a)
=============================================================================
