------------------------------- MODULE Claims -------------------------------
(***************************************************************************)
(* Which config entry owns the tracker of a client (clients.py: claim,     *)
(* owned_macs, release_claims and async_setup_client_entities).            *)
(*                                                                         *)
(* Every router that lists a client may offer to add its tracker, but two  *)
(* entities of one unique id must not exist.  The claim table lives in     *)
(* hass.data and is empty after a restart; the entity registry survives,   *)
(* and learns of a new entity some time after the claim.  Trackers and     *)
(* signal sensors have tables of their own that never meet: one domain is  *)
(* modelled.                                                               *)
(***************************************************************************)
EXTENDS Naturals, Sequences, FiniteSets, Lines

CONSTANTS
  Entries,     \* config entry ids; a deleted id never comes back
  Clients,     \* formatted MAC addresses
  Nobody,      \* no entry
  RestartLimit \* bound: restarts of Home Assistant

ASSUME ClaimsAssumption == Nobody \notin Entries /\ RestartLimit \in Nat

VARIABLES
  stage,     \* stage[e]: where the config entry is in its life
  claims,    \* claims[c]: hass.data's claim on c
  registry,  \* registry[c]: config entry of the registered tracker of c
  sees,      \* sees[e]: the client list of e's router, {} when not loaded
  known,     \* known[e]: the clients whose trackers e has added
  adding,    \* adding[e]: those not yet registered (async_add_entities)
  order,     \* entries in the order their _add_new is connected to the signal
  restarts

vars == <<stage, claims, registry, sees, known, adding, order, restarts>>

Stages == {"new", "unloaded", "added", "loaded", "deleted"}

TypeOK ==
  /\ stage \in [Entries -> Stages]
  /\ claims \in [Clients -> Entries \cup {Nobody}]
  /\ registry \in [Clients -> Entries \cup {Nobody}]
  /\ sees \in [Entries -> SUBSET Clients]
  /\ known \in [Entries -> SUBSET Clients]
  /\ adding \in [Entries -> SUBSET Clients]
  /\ order \in Seq(Entries)
  /\ restarts \in Nat

Init ==
  /\ stage = [e \in Entries |-> "new"]
  /\ claims = [c \in Clients |-> Nobody]
  /\ registry = [c \in Clients |-> Nobody]
  /\ sees = [e \in Entries |-> {}]
  /\ known = [e \in Entries |-> {}]
  /\ adding = [e \in Entries |-> {}]
  /\ order = <<>>
  /\ restarts = 0

Exists(e) == stage[e] \notin {"new", "deleted"}
Running(e) == stage[e] \in {"added", "loaded"}

-----------------------------------------------------------------------------
(* claim(), for every listed client of the entries whose _add_new runs.    *)
(* table is the claim table, k the known clients, s the lists, line the    *)
(* entries in the order they run.                                          *)

Offers(c, k, s, line) == {i \in DOMAIN line : c \in s[line[i]] /\ c \notin k[line[i]]}

\* the first entry in line that offers to add c
FirstOffer(c, k, s, line) ==
  LET offers == Offers(c, k, s, line)
  IN  line[CHOOSE i \in offers : \A j \in offers : i <= j]

\* mutant: the claim table is not asked
ClaimedUnasked(c, table, k, s, line) ==
  IF Offers(c, k, s, line) = {} THEN table[c]
  ELSE IF registry[c] # Nobody THEN registry[c]
  ELSE FirstOffer(c, k, s, line)

\* mutant: the entity registry is not asked
ClaimedByFirst(c, table, k, s, line) ==
  IF Offers(c, k, s, line) = {} THEN table[c]
  ELSE IF table[c] # Nobody /\ Exists(table[c]) THEN table[c]
  ELSE FirstOffer(c, k, s, line)

\* mutant: a claim stands although its entry is gone
ClaimedForGood(c, table, k, s, line) ==
  IF Offers(c, k, s, line) = {} THEN table[c]
  ELSE IF table[c] # Nobody THEN table[c]
  ELSE IF registry[c] # Nobody THEN registry[c]
  ELSE FirstOffer(c, k, s, line)

\* a claim stands while its entry exists; else the registered owner's, else the first's
Claimed(c, table, k, s, line) ==
  IF Offers(c, k, s, line) = {} THEN table[c]
  ELSE IF table[c] # Nobody /\ Exists(table[c]) THEN table[c]
  ELSE IF registry[c] # Nobody THEN registry[c]
  ELSE FirstOffer(c, k, s, line)

\* the clients e adds
Granted(e, table, k, s, line) ==
  {c \in Clients : /\ \E i \in Offers(c, k, s, line) : line[i] = e
                   /\ Claimed(c, table, k, s, line) = e}

\* the entries of line run _add_new one after the other
AddNew(table, k, s, line) ==
  /\ claims' = [c \in Clients |-> Claimed(c, table, k, s, line)]
  /\ known' = [e \in Entries |-> k[e] \cup Granted(e, table, k, s, line)]
  /\ adding' = [e \in Entries |-> adding[e] \cup Granted(e, table, k, s, line)]

-----------------------------------------------------------------------------
\* a router is configured
Create(e) ==
  /\ stage[e] = "new"
  /\ stage' = [stage EXCEPT ![e] = "unloaded"]
  /\ UNCHANGED <<claims, registry, sees, known, adding, order, restarts>>

\* the first refresh succeeded and the platform is set up: registered clients are
\* added and claimed without asking, then the listed ones that can be claimed
Setup(e) ==
  /\ stage[e] = "unloaded"
  /\ stage' = [stage EXCEPT ![e] = "added"]
  /\ \E list \in SUBSET Clients :
       LET owned == {c \in Clients : registry[c] = e}
           table == [c \in Clients |-> IF c \in owned THEN e ELSE claims[c]]
           k     == [known EXCEPT ![e] = owned]
           s     == [sees EXCEPT ![e] = list]
       IN  /\ sees' = s
           /\ AddNew(table, k, s, <<e>>)
  /\ order' = Append(order, e)
  /\ UNCHANGED <<registry, restarts>>

\* the entry's listener is in place, and async_setup_entry sends the signal
HookUp(e) ==
  /\ stage[e] = "added"
  /\ stage' = [stage EXCEPT ![e] = "loaded"]
  /\ AddNew(claims, known, sees, order)
  /\ UNCHANGED <<registry, sees, order, restarts>>

\* a poll of a loaded entry: its list is new, and every connected _add_new runs
Poll(e) ==
  /\ stage[e] = "loaded"
  /\ \E list \in SUBSET Clients :
       /\ sees' = [sees EXCEPT ![e] = list]
       /\ AddNew(claims, known, [sees EXCEPT ![e] = list], order)
  /\ UNCHANGED <<stage, registry, order, restarts>>

\* Home Assistant registers an added entity; the registry entry follows the caller
Register(e, c) ==
  /\ c \in adding[e]
  /\ registry' = [registry EXCEPT ![c] = e]
  /\ adding' = [adding EXCEPT ![e] = @ \ {c}]
  /\ UNCHANGED <<stage, claims, sees, known, order, restarts>>

\* mutant: a released key is gone from the table for good
ReleasedKeys(e) == [c \in {d \in Clients : claims[d] # e} |-> claims[c]]

\* release_claims
Released(e) == [c \in Clients |-> IF claims[c] = e THEN Nobody ELSE claims[c]]

Gone(e) ==
  /\ sees' = [sees EXCEPT ![e] = {}]
  /\ known' = [known EXCEPT ![e] = {}]
  /\ adding' = [adding EXCEPT ![e] = {}]
  /\ order' = Without(order, e)

Unload(e) ==
  /\ stage[e] = "loaded"
  /\ stage' = [stage EXCEPT ![e] = "unloaded"]
  /\ claims' = Released(e)
  /\ Gone(e)
  /\ UNCHANGED <<registry, restarts>>

\* deleted while not loaded, an entry releases nothing
Delete(e) ==
  /\ stage[e] \in {"unloaded", "loaded"}
  /\ stage' = [stage EXCEPT ![e] = "deleted"]
  /\ claims' = IF stage[e] = "loaded" THEN Released(e) ELSE claims
  /\ Gone(e)
  /\ registry' = [c \in Clients |-> IF registry[c] = e THEN Nobody ELSE registry[c]]
  /\ UNCHANGED restarts

\* the user removes a tracker from the registry
Forget(c) ==
  /\ registry[c] # Nobody
  /\ registry' = [registry EXCEPT ![c] = Nobody]
  /\ UNCHANGED <<stage, claims, sees, known, adding, order, restarts>>

\* Home Assistant restarts: the entries and the registry stay
Restart ==
  /\ restarts < RestartLimit
  /\ restarts' = restarts + 1
  /\ stage' = [e \in Entries |-> IF Exists(e) THEN "unloaded" ELSE stage[e]]
  /\ claims' = [c \in Clients |-> Nobody]
  /\ sees' = [e \in Entries |-> {}]
  /\ known' = [e \in Entries |-> {}]
  /\ adding' = [e \in Entries |-> {}]
  /\ order' = <<>>
  /\ UNCHANGED registry

Next ==
  \/ \E e \in Entries : \/ Create(e) \/ Setup(e) \/ HookUp(e) \/ Poll(e)
                        \/ Unload(e) \/ Delete(e)
  \/ \E e \in Entries, c \in Clients : Register(e, c)
  \/ \E c \in Clients : Forget(c)
  \/ Restart

Spec == Init /\ [][Next]_vars

(* The update interval polls a loaded entry again and again, and a set-up  *)
(* that got this far runs to its end.                                      *)
FairSpec == Spec /\ \A e \in Entries : WF_vars(Poll(e)) /\ WF_vars(HookUp(e))

-----------------------------------------------------------------------------
(* No two entries have a tracker of the same client, whichever of them saw *)
(* it first, was reloaded, deleted, or is known to the registry only.      *)
OneTracker ==
  \A e, f \in Entries : \A c \in known[e] \cap known[f] : e = f

(* The owner of a tracker does not change.  A registered one does not:     *)
(* after a restart or a reload another router that lists the client first  *)
(* leaves it to its owner.  (Home Assistant would move the registry entry  *)
(* to whoever adds the unique id.)  And the claim of an entry that exists  *)
(* never passes to another: it is given back first, although set-up takes  *)
(* its registered clients without asking the claim table, and a poll of    *)
(* any entry runs every _add_new (clients.py, owned_macs and claim).       *)
OwnerKeepsTracker ==
  [][\A c \in Clients :
       /\ registry[c] # Nobody /\ registry'[c] # Nobody => registry'[c] = registry[c]
       /\ claims[c] # Nobody /\ Exists(claims[c]) => claims'[c] \in {claims[c], Nobody}]_vars

\* the claim on c is no living entry's
Unowned(c) == claims[c] = Nobody \/ ~Exists(claims[c])
Listed(c) == \E e \in Entries : stage[e] = "loaded" /\ c \in sees[e] /\ c \notin known[e]

(* A client that stays on a loaded router's list does not stay unowned:    *)
(* the claim of an entry that was deleted while it was not loaded does not *)
(* keep the others away for ever (clients.py, "its claim is stale").       *)
StaleClaimTakenOver == \A c \in Clients : (Unowned(c) /\ Listed(c)) ~> ~(Unowned(c) /\ Listed(c))
=============================================================================
