------------------------------ MODULE Services ------------------------------
(***************************************************************************)
(* The services of the integration (__init__.py, 50-106): a call asks the  *)
(* coordinators of the targeted entries one after another, while the       *)
(* configuration flows change and reload those entries.                    *)
(*                                                                         *)
(* A coordinator that has been unloaded still talks to its router.  What   *)
(* the ubus client does within one request is in Ubus: here a request is   *)
(* executed at most once, and fails whether it was executed or not.        *)
(***************************************************************************)
EXTENDS ConfigFlow

CONSTANTS
  Calls,     \* bound: the service calls ever made
  Kinds,     \* "reboot", "exec", "init", "ubus"
  Permits    \* Permits[e]: the ubus objects that the session of e may use

ASSUME ServicesAssumption ==
  /\ Kinds \subseteq {"reboot", "exec", "init", "ubus"}
  /\ \A e \in EntryIds : Permits[e] \subseteq {"file", "rc"}

VARIABLES
  call,      \* call[c]: its kind, phase and targets, the coordinators to ask and
             \* the one it waits for
  executed,  \* executed[c]: the entries whose router has executed the command
  met        \* history: met[c], the targets that were loaded when the call was made

vars == <<fvars, call, executed, met>>
Unmade == [kind |-> "none", phase |-> "new", targets |-> {}, devices |-> {}, at |-> NoEntry]

CallRecords ==
  [kind: Kinds \cup {"none"},
   phase: {"new", "asking", "waiting", "done", "failed"},
   targets: SUBSET EntryIds, devices: SUBSET EntryIds, at: EntryIds \cup {NoEntry}]

TypeOK ==
  /\ FTypeOK
  /\ call \in [Calls -> CallRecords]
  /\ executed \in [Calls -> SUBSET EntryIds]
  /\ met \in [Calls -> SUBSET EntryIds]
  /\ \A c \in Calls :
       /\ call[c].phase = "waiting" <=> call[c].at # NoEntry
       /\ call[c].devices \cup executed[c] \cup ({call[c].at} \ {NoEntry}) \subseteq met[c]
       /\ met[c] \subseteq call[c].targets

Init ==
  /\ FInit
  /\ call = [c \in Calls |-> Unmade]
  /\ executed = [c \in Calls |-> {}] /\ met = executed

\* entries whose runtime_data is a coordinator
Loaded == {e \in EntryIds : state[e] = "loaded"}

\* mutant: an entry that is not loaded is not left out
DevicesUnloaded(targets) == targets

\* _devices: taken once, when the targets are known
Devices(targets) == targets \cap Loaded

\* is_api_supported
Supported(e, kind) ==
  /\ kind = "exec" => "file" \in Permits[e]
  /\ kind = "init" => "rc" \in Permits[e]

Made(c) ==
  /\ call[c].phase = "new"
  /\ \E kind \in Kinds, targets \in SUBSET {e \in EntryIds : Living(e)} \ {{}} :
       /\ call' = [call EXCEPT ![c] = [kind |-> kind, phase |-> "asking", targets |-> targets,
                                       devices |-> Devices(targets), at |-> NoEntry]]
       /\ met' = [met EXCEPT ![c] = targets \cap Loaded]
  /\ UNCHANGED <<fvars, executed>>

\* mutant: whether the entry is loaded is looked up when its turn comes
DueIfLoaded(c, e) == Supported(e, call[c].kind) /\ e \in Loaded

\* the coordinator is asked; otherwise it is passed over
Due(c, e) == Supported(e, call[c].kind)

Ask(c) ==
  /\ call[c].phase = "asking"
  /\ \E e \in call[c].devices :
       call' = [call EXCEPT ![c].devices = @ \ {e},
                            ![c].phase = IF Due(c, e) THEN "waiting" ELSE @,
                            ![c].at = IF Due(c, e) THEN e ELSE @]
  /\ UNCHANGED <<fvars, executed, met>>

Execute(c) ==
  /\ call[c].phase = "waiting" /\ call[c].at \notin executed[c]
  /\ executed' = [executed EXCEPT ![c] = @ \cup {call[c].at}]
  /\ UNCHANGED <<fvars, call, met>>

Answered(c) ==
  /\ call[c].phase = "waiting" /\ call[c].at \in executed[c]
  /\ call' = [call EXCEPT ![c].phase = "asking", ![c].at = NoEntry]
  /\ UNCHANGED <<fvars, executed, met>>

\* mutant: an error is logged and the next router is asked
FailsQuietly(c) ==
  /\ call[c].phase = "waiting"
  /\ call' = [call EXCEPT ![c].phase = "asking", ![c].at = NoEntry]
  /\ UNCHANGED <<fvars, executed, met>>

\* no answer, or an error: the call ends, and what was answered so far is lost
Fails(c) ==
  /\ call[c].phase = "waiting"
  /\ call' = [call EXCEPT ![c].phase = "failed", ![c].at = NoEntry]
  /\ UNCHANGED <<fvars, executed, met>>

Done(c) ==
  /\ call[c].phase = "asking" /\ call[c].devices = {}
  /\ call' = [call EXCEPT ![c].phase = "done"]
  /\ UNCHANGED <<fvars, executed, met>>

Next ==
  \/ FNext /\ UNCHANGED <<call, executed, met>>
  \/ \E c \in Calls : Made(c) \/ Ask(c) \/ Execute(c) \/ Answered(c) \/ Fails(c) \/ Done(c)

Spec == Init /\ [][Next]_vars

-----------------------------------------------------------------------------
(* Properties.                                                             *)

\* No new entry takes the place of one for the same router: the unique id checked
\* before the login is still free when the login has been accepted
\* (config_flow.py:114-118).
NoEntryReplaced == ~replaced

\* An entry is loaded with what it has in store, unless it is about to be reloaded: a
\* change that is stored while a set-up with the old data is under way is not missed
\* (config_flow.py:80, __init__.py:25).
UsesStored ==
  \A e \in EntryIds : state[e] \in {"loaded", "setup", "error"} /\ e \notin reload
                        => uses[e] = stored[e]

\* An entry that was rejected, and that nobody polls any more, has a flow in which the
\* user can give another login, or a reload is coming; but a user can close the flow
\* that kept Home Assistant from starting one (coordinator.py, UbusAuthError;
\* config_flow.py:90-109).
RejectedIsPrompted ==
  \A e \in rejected : FlowsOf(e) # {} \/ e \in reload \cup left

\* What a flow leaves in an entry, which is then reloaded, is exactly what the router
\* has accepted at that moment, whatever other flows have stored while it logged in
\* (config_flow.py:78-80, 97-99, 116-118).
StoredWasAccepted ==
  [][\A e \in EntryIds :
       /\ Living(e)'
       /\ stored'[e] # stored[e] \/ e \in reload' \ reload
       => Accepted(stored'[e])]_vars

\* A call that ends without an error was executed by the router of every target that
\* was loaded when it was made and may be asked, though entries are changed, reloaded
\* or removed during the call (__init__.py:50-59, 66-67, 73-83).
EveryTargetServed ==
  \A c \in Calls : call[c].phase = "done" =>
    {e \in met[c] : Supported(e, call[c].kind)} = executed[c]
=============================================================================
