--------------------------- MODULE Services_proofs --------------------------
(***************************************************************************)
(* Proofs about Services and ConfigFlow, for every set of entries, flows,  *)
(* routers and calls.                                                      *)
(***************************************************************************)
EXTENDS Services, TLAPS

\* a flow changes an entry that was created, and not its address
FlowsFit ==
  /\ \A e \in EntryIds : flow[e].entry \in {e, NoEntry} /\ flow[e].kind # "user"
  /\ \A f \in AllFlows : flow[f].entry # NoEntry => state[flow[f].entry] # "new"
  /\ \A f \in AllFlows :
       /\ flow[f].entry # NoEntry /\ flow[f].step \in {"login", "closed"}
       /\ Living(flow[f].entry)
       => flow[f].config.address = stored[flow[f].entry].address

\* f logs in to create an entry
Creates(f) == flow[f].kind = "user" /\ flow[f].step = "login"

\* the unique id of a flow that logs in is its own until the login ends
UniqueLogins ==
  \A f \in Flows : Creates(f) =>
    /\ \A g \in Flows \ {f} : flow[g].kind = "user" /\ InProgress(g)
                                => flow[g].config.address # flow[f].config.address
    /\ \A e \in EntryIds : Living(e) => stored[e].address # flow[f].config.address

RejectedLive == \A e \in rejected : Living(e)

\* what a call has done, and is still going to do
Served(c) == {e \in met[c] : Supported(e, call[c].kind)}
ServedOrDue ==
  \A c \in Calls :
    /\ call[c].phase = "new" => executed[c] = {}
    /\ call[c].phase = "waiting" => Supported(call[c].at, call[c].kind)
    /\ executed[c] \subseteq Served(c)
    /\ call[c].phase \in {"asking", "waiting", "done"} =>
         Served(c) \subseteq executed[c] \cup call[c].devices \cup {call[c].at}
    /\ call[c].phase = "done" => call[c].devices = {}

FInv ==
  /\ FTypeOK
  /\ FlowsFit
  /\ UniqueLogins
  /\ RejectedLive
  /\ NoEntryReplaced
  /\ UsesStored
  /\ RejectedIsPrompted

IInv == TypeOK /\ FInv /\ ServedOrDue

-----------------------------------------------------------------------------
(* The records that the actions put in the place of a flow's.              *)

LEMMA IdleRecord == Idle \in FlowRecords
BY ConfigFlowAssumption DEF Idle, FlowRecords

LEMMA FormRecord ==
  ASSUME NEW kind \in {"user", "reconfigure", "reauth"}, NEW e \in EntryIds \cup {NoEntry},
         kind # "user" <=> e # NoEntry
  PROVE  [Idle EXCEPT !.kind = kind, !.step = "form", !.entry = e] \in FlowRecords
BY ConfigFlowAssumption DEF Idle, FlowRecords

LEMMA LoginRecord ==
  ASSUME NEW r \in FlowRecords, NEW config \in Config, NEW input \in Change \cup {NoEntry}
  PROVE  [r EXCEPT !.step = "login", !.config = config, !.input = input] \in FlowRecords
BY DEF FlowRecords

LEMMA ClosedRecord ==
  ASSUME NEW r \in FlowRecords, r.step = "login"
  PROVE  [r EXCEPT !.step = "closed"] \in FlowRecords
BY DEF FlowRecords

LEMMA FormAgainRecord ==
  ASSUME NEW r \in FlowRecords
  PROVE  FormAgain(r) \in FlowRecords
BY DEF FlowRecords, FormAgain

LEMMA MergedConfig ==
  ASSUME FTypeOK, NEW e \in EntryIds, Living(e), NEW input \in Change
  PROVE  Merged(e, input) \in Config /\ Merged(e, input).address = stored[e].address
BY DEF Merged, FTypeOK, Config, Change

LEMMA EntryOfChange ==
  ASSUME FTypeOK, NEW f \in AllFlows
  PROVE  /\ flow[f].kind \in {"reconfigure", "reauth"} => flow[f].entry \in EntryIds
         /\ flow[f].kind \in {"none", "user"} => flow[f].entry = NoEntry
         /\ flow[f].step \in {"login", "closed"} => flow[f].config \in Config
         /\ flow[f].entry \in EntryIds \cup {NoEntry}
BY ConfigFlowAssumption DEF FTypeOK, FlowRecords

-----------------------------------------------------------------------------
(* Type correctness is kept by every step of the flows and the entries.    *)

LEMMA FlowStepTypes ==
  ASSUME FTypeOK,
         \/ \E f \in AllFlows :
              \/ Open(f, "user", NoEntry)
              \/ \E e \in EntryIds : Living(e) /\ Open(f, "reconfigure", e)
              \/ Close(f) \/ SubmitUser(f) \/ SubmitChange(f) \/ LoginFails(f)
  PROVE  FTypeOK'
<1>1. SUFFICES ASSUME NEW f \in AllFlows, NEW r \in FlowRecords,
                      flow' = [flow EXCEPT ![f] = r],
                      left' \subseteq left \cup EntryIds,
                      UNCHANGED <<accepts, state, stored, uses, reload, rejected, replaced>>
               PROVE  FTypeOK'
  <2>1. ASSUME NEW f \in AllFlows, Open(f, "user", NoEntry)
        PROVE  FTypeOK'
    BY <2>1, <1>1, FormRecord DEF Open, FTypeOK
  <2>2. ASSUME NEW f \in AllFlows, NEW e \in EntryIds, Open(f, "reconfigure", e)
        PROVE  FTypeOK'
    BY <2>2, <1>1, FormRecord, ConfigFlowAssumption DEF Open, FTypeOK
  <2>3. ASSUME NEW f \in AllFlows, Close(f)
        PROVE  FTypeOK'
    BY <2>3, <1>1, IdleRecord, ClosedRecord DEF Close, FTypeOK, InProgress
  <2>4. ASSUME NEW f \in AllFlows, SubmitUser(f)
        PROVE  FTypeOK'
    BY <2>4, <1>1, IdleRecord, LoginRecord DEF SubmitUser, FTypeOK, Ends, TryLogin
  <2>5. ASSUME NEW f \in AllFlows, SubmitChange(f)
        PROVE  FTypeOK'
    <3>1. CASE Ends(f)
      BY <2>5, <3>1, <1>1, IdleRecord DEF SubmitChange, FTypeOK, Ends
    <3>2. ASSUME NEW input \in Change, Living(flow[f].entry),
                 TryLogin(f, Merged(flow[f].entry, input), input)
          PROVE  FTypeOK'
      <4>1. Merged(flow[f].entry, input) \in Config
        BY <2>5, <3>2, MergedConfig, EntryOfChange DEF SubmitChange
      <4>2. flow[f] \in FlowRecords
        BY DEF FTypeOK
      <4> QED BY <2>5, <3>2, <4>1, <4>2, <1>1, LoginRecord DEF SubmitChange, FTypeOK,
         TryLogin
    <3> QED BY <2>5, <3>1, <3>2 DEF SubmitChange
  <2>6. ASSUME NEW f \in AllFlows, LoginFails(f)
        PROVE  FTypeOK'
    <3>1. flow[f] \in FlowRecords
      BY DEF FTypeOK
    <3>2. CASE flow[f].step = "closed"
      BY <2>6, <3>2, <1>1, IdleRecord DEF LoginFails, FTypeOK
    <3>3. CASE flow[f].step # "closed"
      BY <2>6, <3>1, <3>3, <1>1, FormAgainRecord DEF LoginFails, FTypeOK
    <3> QED BY <3>2, <3>3
  <2> QED BY <2>1, <2>2, <2>3, <2>4, <2>5, <2>6
<1> QED BY <1>1 DEF FTypeOK, Living

LEMMA CreateTypes ==
  ASSUME FTypeOK, NEW f \in AllFlows, CreateEntry(f)
  PROVE  FTypeOK'
<1>1. flow[f].config \in Config
  BY EntryOfChange DEF CreateEntry
<1>2. flow' \in [AllFlows -> FlowRecords]
  BY IdleRecord DEF CreateEntry, Ends, FTypeOK
<1>3. PICK e \in EntryIds : state[e] = "new" /\ 
       LET old == {d \in EntryIds : Living(d) /\ stored[d].address = flow[f].config.address}
       IN  /\ state' = [d \in EntryIds |-> CASE d = e -> "setup" [] d \in old -> "gone"
                                             [] OTHER -> state[d]]
           /\ stored' = [d \in EntryIds |-> CASE d = e -> flow[f].config [] d \in old -> NoConfig
                                              [] OTHER -> stored[d]]
           /\ uses' = [uses EXCEPT ![e] = flow[f].config]
           /\ reload' = reload \ old /\ rejected' = rejected \ old /\ left' = left \ old
           /\ replaced' = (replaced \/ old # {})
  BY DEF CreateEntry
<1> QED BY <1>1, <1>2, <1>3 DEF CreateEntry, FTypeOK, Living

LEMMA ChangeTypes ==
  ASSUME FTypeOK, NEW f \in AllFlows, ChangeEntry(f)
  PROVE  FTypeOK'
<1>1. flow[f].config \in Config /\ flow[f].entry \in EntryIds
  BY EntryOfChange DEF ChangeEntry
<1> QED BY <1>1, IdleRecord DEF ChangeEntry, Ends, ToStore, Reloads, FTypeOK, Living

LEMMA ReauthTypes ==
  ASSUME FTypeOK, NEW e \in EntryIds
  PROVE  Reauth(e) \in [AllFlows -> FlowRecords]
BY FormRecord, ConfigFlowAssumption DEF Reauth, FTypeOK, AllFlows

LEMMA EntryStepTypes ==
  ASSUME FTypeOK, NEW e \in EntryIds,
         SetUpAgain(e) \/ SetUpEnds(e) \/ PollRejected(e) \/ Remove(e)
  PROVE  FTypeOK'
<1>1. CASE SetUpAgain(e)
  BY <1>1 DEF SetUpAgain, SetsUp, FTypeOK, Living
<1>2. CASE SetUpEnds(e)
  BY <1>2, ReauthTypes DEF SetUpEnds, FTypeOK, Living
<1>3. CASE PollRejected(e)
  BY <1>3, ReauthTypes DEF PollRejected, FTypeOK, Living
<1>4. CASE Remove(e)
  BY <1>4, IdleRecord DEF Remove, FTypeOK, Living
<1> QED BY <1>1, <1>2, <1>3, <1>4

LEMMA FlowTypes ==
  ASSUME FTypeOK, FNext
  PROVE  FTypeOK'
<1>1. ASSUME NEW a \in Addresses, ChangeLogin(a)
      PROVE  FTypeOK'
  BY <1>1, ConfigFlowAssumption DEF ChangeLogin, FTypeOK, Living
<1> QED BY <1>1, FlowStepTypes, CreateTypes, ChangeTypes, EntryStepTypes DEF FNext

-----------------------------------------------------------------------------
\* FlowsFit, of one flow
Fits(f, r) ==
  /\ f \in EntryIds => r.entry \in {f, NoEntry} /\ r.kind # "user"
  /\ r.entry # NoEntry => state[r.entry] # "new"
  /\ r.entry # NoEntry /\ r.step \in {"login", "closed"} /\ Living(r.entry)
       => r.config.address = stored[r.entry].address

LEMMA FitOneByOne == FlowsFit <=> \A f \in AllFlows : Fits(f, flow[f])
BY DEF FlowsFit, Fits, AllFlows

LEMMA FitWhenReplaced ==
  ASSUME FTypeOK, FlowsFit, NEW f \in AllFlows, NEW r \in FlowRecords, Fits(f, r),
         flow' = [flow EXCEPT ![f] = r],
         UNCHANGED <<state, stored>>
  PROVE  FlowsFit'
<1>1. \A g \in AllFlows : Fits(g, flow'[g])
  BY FitOneByOne DEF FTypeOK
<1> QED BY <1>1 DEF FlowsFit, Fits, AllFlows, Living

LEMMA FitStays ==
  ASSUME FTypeOK, FlowsFit, FNext
  PROVE  FlowsFit'
<1>0. Fits(NoEntry, Idle) /\ \A f \in AllFlows : Fits(f, Idle)
  BY DEF Fits, Idle
<1>1. ASSUME NEW f \in AllFlows, Open(f, "user", NoEntry)
      PROVE  FlowsFit'
  BY <1>1, ConfigFlowAssumption DEF Open, FTypeOK, FlowsFit, AllFlows, Idle, Living
<1>2. ASSUME NEW f \in AllFlows, NEW e \in EntryIds, Living(e), Open(f, "reconfigure", e)
      PROVE  FlowsFit'
  BY <1>2, ConfigFlowAssumption DEF Open, FTypeOK, FlowsFit, AllFlows, Idle, Living
<1>3. ASSUME NEW f \in AllFlows, Close(f)
      PROVE  FlowsFit'
  BY <1>3, ConfigFlowAssumption
     DEF Close, InProgress, FTypeOK, FlowsFit, AllFlows, Idle, Living, FlowRecords
<1>4. ASSUME NEW f \in AllFlows, SubmitUser(f)
      PROVE  FlowsFit'
  <2>1. CASE Ends(f)
    BY <1>0, <1>4, <2>1, IdleRecord, FitWhenReplaced DEF SubmitUser, Ends
  <2>2. ASSUME NEW config \in Config, TryLogin(f, config, NoEntry)
        PROVE  FlowsFit'
    <3> DEFINE r == [flow[f] EXCEPT !.step = "login", !.config = config, !.input = NoEntry]
    <3>1. flow[f] \in FlowRecords
      BY DEF FTypeOK
    <3>2. r \in FlowRecords /\ r.entry = NoEntry /\ r.kind = flow[f].kind
      BY <3>1, <1>4, LoginRecord, EntryOfChange DEF SubmitUser, FlowRecords
    <3>3. Fits(f, r)
      BY <3>2 DEF Fits, FlowsFit
    <3> QED BY <3>2, <3>3, <1>4, <2>2, FitWhenReplaced DEF SubmitUser, TryLogin
  <2> QED BY <1>4, <2>1, <2>2 DEF SubmitUser
<1>5. ASSUME NEW f \in AllFlows, SubmitChange(f)
      PROVE  FlowsFit'
  <2>1. CASE Ends(f)
    BY <1>0, <1>5, <2>1, IdleRecord, FitWhenReplaced DEF SubmitChange, Ends
  <2>2. ASSUME NEW input \in Change, Living(flow[f].entry),
               TryLogin(f, Merged(flow[f].entry, input), input)
        PROVE  FlowsFit'
    <3> DEFINE config == Merged(flow[f].entry, input)
               r == [flow[f] EXCEPT !.step = "login", !.config = config, !.input = input]
    <3>1. flow[f] \in FlowRecords /\ flow[f].entry \in EntryIds
      BY <1>5, EntryOfChange DEF FTypeOK, SubmitChange
    <3>2. config \in Config /\ config.address = stored[flow[f].entry].address
      BY <2>2, <3>1, MergedConfig
    <3>3. /\ r \in FlowRecords /\ r.entry = flow[f].entry /\ r.kind = flow[f].kind
          /\ r.config = config
      BY <3>1, <3>2, LoginRecord DEF FlowRecords
    <3>4. Fits(f, r)
      BY <3>2, <3>3 DEF Fits, FlowsFit
    <3> QED BY <3>3, <3>4, <1>5, <2>2, FitWhenReplaced DEF SubmitChange, TryLogin
  <2> QED BY <1>5, <2>1, <2>2 DEF SubmitChange
<1>6. ASSUME NEW f \in AllFlows, LoginFails(f)
      PROVE  FlowsFit'
  <2>1. flow[f] \in FlowRecords
    BY DEF FTypeOK
  <2>2. Fits(f, FormAgain(flow[f]))
    BY <2>1 DEF Fits, FlowsFit, FormAgain, FlowRecords
  <2>3. IF flow[f].step = "closed" THEN flow' = [flow EXCEPT ![f] = Idle]
        ELSE flow' = [flow EXCEPT ![f] = FormAgain(flow[f])]
    BY <1>6 DEF LoginFails
  <2> QED BY <1>0, <1>6, <2>1, <2>2, <2>3, IdleRecord, FormAgainRecord, FitWhenReplaced
          DEF LoginFails
<1>7. ASSUME NEW f \in AllFlows, CreateEntry(f)
      PROVE  FlowsFit'
  BY <1>7, EntryOfChange DEF CreateEntry, Ends, FTypeOK, FlowsFit, AllFlows, Idle, Living
<1>8. ASSUME NEW f \in AllFlows, ChangeEntry(f)
      PROVE  FlowsFit'
  BY <1>8, EntryOfChange
     DEF ChangeEntry, Ends, ToStore, FTypeOK, FlowsFit, Idle, Living
<1>9. ASSUME NEW e \in EntryIds, SetUpAgain(e)
      PROVE  FlowsFit'
  BY <1>9, EntryOfChange DEF SetUpAgain, SetsUp, FTypeOK, FlowsFit, Living
<1>10. ASSUME NEW e \in EntryIds, state[e] \in {"setup", "loaded"},
              flow' = Reauth(e) \/ flow' = flow,
              state'[e] # "new", \A d \in EntryIds \ {e} : state'[d] = state[d],
              Living(e)', UNCHANGED stored
       PROVE  FlowsFit'
  <2>1. CASE flow' = flow
    BY <1>10, <2>1, EntryOfChange DEF FlowsFit, Living
  <2>2. CASE flow' # flow
    <3> DEFINE r == [Idle EXCEPT !.kind = "reauth", !.step = "form", !.entry = e]
    <3>1. flow' = [flow EXCEPT ![e] = r] /\ e \in AllFlows
      BY <1>10, <2>2 DEF Reauth, AllFlows
    <3>2. r.entry = e /\ r.kind = "reauth" /\ r.step = "form"
      BY DEF Idle
    <3>3. flow'[e] = r /\ \A f \in AllFlows \ {e} : flow'[f] = flow[f]
      BY <3>1 DEF FTypeOK
    <3> HIDE DEF r
    <3> QED BY <1>10, <3>2, <3>3, EntryOfChange DEF FlowsFit, Living, AllFlows
  <2> QED BY <2>1, <2>2
<1>11. ASSUME NEW e \in EntryIds, SetUpEnds(e) \/ PollRejected(e)
       PROVE  FlowsFit'
  BY <1>10, <1>11 DEF SetUpEnds, PollRejected, Living, FTypeOK
<1>12. ASSUME NEW e \in EntryIds, Remove(e)
       PROVE  FlowsFit'
  BY <1>12, EntryOfChange DEF Remove, FTypeOK, FlowsFit, AllFlows, Idle, Living
<1>13. ASSUME NEW a \in Addresses, ChangeLogin(a)
       PROVE  FlowsFit'
  BY <1>13 DEF ChangeLogin, FlowsFit, Living
<1> QED BY <1>1, <1>2, <1>3, <1>4, <1>5, <1>6, <1>7, <1>8, <1>9, <1>11, <1>12, <1>13 DEF FNext

-----------------------------------------------------------------------------
(* A user flow that logs in has its address to itself, so that creating    *)
(* its entry replaces no other.                                            *)

(* An entry that is created replaces none: the unique id of a flow that    *)
(* logs in is no entry's.                                                  *)
LEMMA NoneReplaced ==
  ASSUME FTypeOK, UniqueLogins, NEW f \in AllFlows, FlowsFit, CreateEntry(f)
  PROVE  /\ f \in Flows
         /\ \E e \in EntryIds :
              /\ state[e] = "new"
              /\ state' = [state EXCEPT ![e] = "setup"]
              /\ stored' = [stored EXCEPT ![e] = flow[f].config]
              /\ uses' = [uses EXCEPT ![e] = flow[f].config]
         /\ UNCHANGED <<accepts, reload, rejected, left, replaced>>
         /\ flow' = [flow EXCEPT ![f] = Idle]
<1>1. f \in Flows
  BY DEF CreateEntry, FlowsFit, AllFlows
<1> DEFINE old == {d \in EntryIds : Living(d) /\ stored[d].address = flow[f].config.address}
<1>2. old = {}
  BY <1>1 DEF CreateEntry, UniqueLogins, Creates
<1>3. PICK e \in EntryIds :
        /\ state[e] = "new"
        /\ state' = [d \in EntryIds |-> CASE d = e -> "setup" [] d \in old -> "gone"
                                          [] OTHER -> state[d]]
        /\ stored' = [d \in EntryIds |-> CASE d = e -> flow[f].config [] d \in old -> NoConfig
                                           [] OTHER -> stored[d]]
        /\ uses' = [uses EXCEPT ![e] = flow[f].config]
        /\ reload' = reload \ old /\ rejected' = rejected \ old /\ left' = left \ old
        /\ replaced' = (replaced \/ old # {})
  BY DEF CreateEntry
<1> HIDE DEF old
<1>4. state' = [state EXCEPT ![e] = "setup"] /\ stored' = [stored EXCEPT ![e] = flow[f].config]
  BY <1>2, <1>3 DEF FTypeOK
<1>5. UNCHANGED <<reload, rejected, left, replaced>>
  BY <1>2, <1>3 DEF FTypeOK
<1> QED BY <1>1, <1>3, <1>4, <1>5 DEF CreateEntry, Ends

(* A step after which no more flows and entries have an address, and none  *)
(* has another, keeps the unique ids apart.                                *)
LEMMA UniqueWhenFewer ==
  ASSUME FTypeOK, UniqueLogins,
         \A f \in Flows : Creates(f)' =>
           Creates(f) /\ flow'[f].config.address = flow[f].config.address,
         \A f \in Flows : flow'[f].kind = "user" /\ InProgress(f)' =>
           \/ /\ flow[f].kind = "user" /\ InProgress(f)
              /\ flow'[f].config.address = flow[f].config.address
           \/ flow'[f].config.address = NoEntry,
         \A e \in EntryIds : Living(e)' => Living(e) /\ stored'[e].address = stored[e].address
  PROVE  UniqueLogins'
<1> SUFFICES ASSUME NEW f \in Flows, Creates(f)'
             PROVE  /\ \A g \in Flows \ {f} : flow'[g].kind = "user" /\ InProgress(g)'
                          => flow'[g].config.address # flow'[f].config.address
                    /\ \A e \in EntryIds :
                          Living(e)' => stored'[e].address # flow'[f].config.address
  BY DEF UniqueLogins
<1>1. flow[f].config \in Config /\ Creates(f) /\ flow'[f].config.address = flow[f].config.address
  BY EntryOfChange DEF Creates, AllFlows
<1>2. flow'[f].config.address # NoEntry
  BY <1>1, ConfigFlowAssumption DEF Config
<1> QED BY <1>1, <1>2 DEF UniqueLogins

LEMMA UniqueStays ==
  ASSUME FTypeOK, FlowsFit, UniqueLogins, FNext
  PROVE  UniqueLogins'
<1>1. ASSUME NEW f \in AllFlows, NEW kind \in {"user", "reconfigure"},
             NEW e \in EntryIds \cup {NoEntry}, Open(f, kind, e)
      PROVE  UniqueLogins'
  BY <1>1, UniqueWhenFewer DEF Open, FTypeOK, AllFlows, Idle, NoConfig, InProgress,
     Creates, Living
<1>2. ASSUME NEW f \in AllFlows, Close(f)
      PROVE  UniqueLogins'
  BY <1>2, UniqueWhenFewer
     DEF Close, Idle, InProgress, Creates, Living
<1>3. ASSUME NEW f \in AllFlows, SubmitUser(f)
      PROVE  UniqueLogins'
  <2>1. CASE Ends(f)
    BY <1>3, <2>1, UniqueWhenFewer
       DEF SubmitUser, Ends, Idle, InProgress, Creates, Living
  <2>2. ASSUME NEW config \in Config, ~Taken(f, config.address), TryLogin(f, config, NoEntry)
        PROVE  UniqueLogins'
    <3>1. f \in Flows
      BY <1>3 DEF SubmitUser, FlowsFit, AllFlows
    <3>2. /\ flow'[f].config = config /\ flow'[f].kind = "user" /\ flow'[f].step = "login"
          /\ \A g \in Flows \ {f} : flow'[g] = flow[g]
      BY <1>3, <2>2, <3>1 DEF SubmitUser, TryLogin, FTypeOK, FlowRecords, AllFlows
    <3> QED BY <1>3, <2>2, <3>1, <3>2
            DEF SubmitUser, Taken, UniqueLogins, Creates, InProgress, Living
  <2> QED BY <1>3, <2>1, <2>2 DEF SubmitUser
<1>4. ASSUME NEW f \in AllFlows, SubmitChange(f)
      PROVE  UniqueLogins'
  <2>1. UNCHANGED <<state, stored>> /\ flow[f].kind # "user"
    BY <1>4 DEF SubmitChange
  <2>2. /\ flow'[f].kind # "user"
        /\ \A g \in AllFlows \ {f} : flow'[g] = flow[g]
    <3>1. CASE Ends(f)
      BY <3>1 DEF Ends, FTypeOK, Idle
    <3>2. ASSUME NEW input \in Change, TryLogin(f, Merged(flow[f].entry, input), input)
          PROVE  flow'[f].kind = flow[f].kind /\ \A g \in AllFlows \ {f} : flow'[g] = flow[g]
      BY <3>2 DEF TryLogin, FTypeOK, FlowRecords
    <3> QED BY <1>4, <2>1, <3>1, <3>2 DEF SubmitChange
  <2> QED BY <2>1, <2>2, UniqueWhenFewer DEF AllFlows, InProgress, Creates, Living
<1>5. ASSUME NEW f \in AllFlows, LoginFails(f)
      PROVE  UniqueLogins'
  <2>1. UNCHANGED <<state, stored>> /\ \A g \in AllFlows \ {f} : flow'[g] = flow[g]
    BY <1>5 DEF LoginFails, FTypeOK
  <2>2. CASE flow[f].step = "closed"
    <3>1. flow'[f] = Idle
      BY <1>5, <2>2 DEF LoginFails, FTypeOK
    <3> QED BY <2>1, <3>1, UniqueWhenFewer DEF AllFlows, Idle, InProgress, Creates, Living
  <2>3. CASE flow[f].step # "closed"
    <3>1. /\ flow'[f].step = "form" /\ flow'[f].kind = flow[f].kind
          /\ flow[f].kind = "user" => flow'[f].config = flow[f].config
      BY <1>5, <2>3 DEF LoginFails, FTypeOK, FormAgain, FlowRecords
    <3>2. flow[f].step = "login"
      BY <1>5, <2>3 DEF LoginFails
    <3> QED BY <2>1, <3>1, <3>2, UniqueWhenFewer DEF AllFlows, InProgress, Creates, Living
  <2> QED BY <2>2, <2>3
<1>6. ASSUME NEW f \in AllFlows, CreateEntry(f)
      PROVE  UniqueLogins'
  <2>1. f \in Flows /\ flow'[f] = Idle /\ \A g \in Flows \ {f} : flow'[g] = flow[g]
    BY <1>6, NoneReplaced DEF FTypeOK, AllFlows
  <2>2. PICK e \in EntryIds : /\ state' = [state EXCEPT ![e] = "setup"]
                              /\ stored' = [stored EXCEPT ![e] = flow[f].config]
    BY <1>6, NoneReplaced
  <2>3. Creates(f) /\ InProgress(f)
    BY <1>6 DEF CreateEntry, Creates, InProgress
  <2> QED BY <2>1, <2>2, <2>3 DEF UniqueLogins, Creates, InProgress, Living, Idle, FTypeOK
<1>7. ASSUME NEW f \in AllFlows, ChangeEntry(f)
      PROVE  UniqueLogins'
  <2>1. flow'[f] = Idle /\ \A g \in AllFlows \ {f} : flow'[g] = flow[g]
    BY <1>7 DEF ChangeEntry, Ends, FTypeOK
  <2>2. \A e \in EntryIds : Living(e) => stored'[e].address = stored[e].address
    <3>1. flow[f].entry \in EntryIds /\ flow[f].entry # NoEntry
      BY <1>7, EntryOfChange, ConfigFlowAssumption DEF ChangeEntry
    <3>2. CASE Living(flow[f].entry)
      BY <1>7, <3>1, <3>2 DEF ChangeEntry, ToStore, FTypeOK, FlowsFit
    <3>3. CASE ~Living(flow[f].entry)
      BY <1>7, <3>3 DEF ChangeEntry
    <3> QED BY <3>2, <3>3
  <2> QED BY <1>7, <2>1, <2>2, UniqueWhenFewer
          DEF ChangeEntry, AllFlows, Idle, InProgress, Creates, Living
<1>8. ASSUME NEW e \in EntryIds, SetUpAgain(e)
      PROVE  UniqueLogins'
  BY <1>8, UniqueWhenFewer DEF SetUpAgain, SetsUp, FTypeOK, InProgress, Creates, Living
<1>9. ASSUME NEW e \in EntryIds, SetUpEnds(e) \/ PollRejected(e)
      PROVE  UniqueLogins'
  <2>1. \A f \in Flows : flow'[f] = flow[f]
    BY <1>9, ConfigFlowAssumption DEF SetUpEnds, PollRejected, Reauth, FTypeOK, AllFlows
  <2>2. stored' = stored /\ \A d \in EntryIds : Living(d)' => Living(d)
    BY <1>9 DEF SetUpEnds, PollRejected, FTypeOK, Living
  <2> QED BY <2>1, <2>2, UniqueWhenFewer DEF InProgress, Creates
<1>10. ASSUME NEW e \in EntryIds, Remove(e)
       PROVE  UniqueLogins'
  <2>1. \A f \in Flows : flow'[f] = flow[f]
    BY <1>10, ConfigFlowAssumption DEF Remove, FTypeOK, AllFlows
  <2>2. \A d \in EntryIds : Living(d)' => Living(d) /\ stored'[d] = stored[d]
    BY <1>10 DEF Remove, FTypeOK, Living
  <2> QED BY <2>1, <2>2, UniqueWhenFewer DEF InProgress, Creates
<1>11. ASSUME NEW a \in Addresses, ChangeLogin(a)
       PROVE  UniqueLogins'
  BY <1>11 DEF ChangeLogin, UniqueLogins, InProgress, Creates, Living
<1> QED BY <1>1, <1>2, <1>3, <1>4, <1>5, <1>6, <1>7, <1>8, <1>9, <1>10, <1>11 DEF FNext

LEMMA ReplacedStays ==
  ASSUME FTypeOK, FlowsFit, UniqueLogins, FNext
  PROVE  replaced' = replaced
BY NoneReplaced
   DEF FNext, Open, Close, SubmitUser, SubmitChange, LoginFails, ChangeEntry,
       SetUpAgain, SetUpEnds, PollRejected, Remove, ChangeLogin

LEMMA RejectedLiveStays ==
  ASSUME FTypeOK, FlowsFit, UniqueLogins, RejectedLive, FNext
  PROVE  RejectedLive'
<1>1. ASSUME NEW f \in AllFlows, CreateEntry(f)
      PROVE  RejectedLive'
  BY <1>1, NoneReplaced DEF RejectedLive, Living, FTypeOK
<1>2. ASSUME NEW e \in EntryIds, SetUpAgain(e) \/ SetUpEnds(e) \/ PollRejected(e) \/ Remove(e)
      PROVE  RejectedLive'
  BY <1>2 DEF SetUpAgain, SetsUp, SetUpEnds, PollRejected, Remove, RejectedLive, Living,
     FTypeOK
<1>3. CASE UNCHANGED <<state, rejected>>
  BY <1>3 DEF RejectedLive, Living
<1> QED BY <1>1, <1>2, <1>3
        DEF FNext, Open, Close, SubmitUser, SubmitChange, LoginFails, ChangeEntry,
          ChangeLogin

LEMMA UsesStoredStays ==
  ASSUME FTypeOK, FlowsFit, UniqueLogins, UsesStored, FNext
  PROVE  UsesStored'
<1>1. ASSUME NEW f \in AllFlows, CreateEntry(f)
      PROVE  UsesStored'
  BY <1>1, NoneReplaced DEF UsesStored, FTypeOK
<1>2. ASSUME NEW f \in AllFlows, ChangeEntry(f)
      PROVE  UsesStored'
  <2>1. flow[f].entry \in EntryIds
    BY <1>2, EntryOfChange DEF ChangeEntry
  <2> QED BY <1>2, <2>1 DEF ChangeEntry, ToStore, Reloads, UsesStored, FTypeOK
<1>3. ASSUME NEW e \in EntryIds, SetUpAgain(e) \/ SetUpEnds(e) \/ PollRejected(e) \/ Remove(e)
      PROVE  UsesStored'
  BY <1>3 DEF SetUpAgain, SetsUp, SetUpEnds, PollRejected, Remove, UsesStored, FTypeOK
<1>4. CASE UNCHANGED <<state, stored, uses, reload>>
  BY <1>4 DEF UsesStored
<1> QED BY <1>1, <1>2, <1>3, <1>4
        DEF FNext, Open, Close, SubmitUser, SubmitChange, LoginFails, ChangeLogin

-----------------------------------------------------------------------------
(* A flow of a rejected entry that ends without success has been closed,   *)
(* or goes back to its form.                                               *)

LEMMA PromptedWhenKept ==
  ASSUME FTypeOK, RejectedIsPrompted,
         \A e \in rejected' : e \in rejected,
         \A f \in AllFlows : InProgress(f) /\ flow[f].entry \in rejected' =>
           \/ InProgress(f)' /\ flow'[f].entry = flow[f].entry
           \/ flow[f].entry \in reload' \cup left',
         \A e \in rejected' : e \in reload \cup left => e \in reload' \cup left'
  PROVE  RejectedIsPrompted'
<1> SUFFICES ASSUME NEW e \in rejected', e \notin reload' \cup left'
             PROVE  FlowsOf(e)' # {}
  BY DEF RejectedIsPrompted
<1>1. PICK f \in AllFlows : InProgress(f) /\ flow[f].entry = e
  BY DEF RejectedIsPrompted, FlowsOf
<1>2. InProgress(f)' /\ flow'[f].entry = e
  BY <1>1
<1> QED BY <1>1, <1>2 DEF FlowsOf, InProgress, AllFlows

LEMMA PromptedStays ==
  ASSUME FTypeOK, FlowsFit, UniqueLogins, RejectedLive, RejectedIsPrompted, FNext
  PROVE  RejectedIsPrompted'
<1>0. rejected \subseteq EntryIds /\ NoEntry \notin rejected
  BY ConfigFlowAssumption DEF FTypeOK
<1>1. ASSUME NEW f \in AllFlows, NEW kind \in {"user", "reconfigure"},
             NEW e \in EntryIds \cup {NoEntry}, Open(f, kind, e)
      PROVE  RejectedIsPrompted'
  BY <1>1, PromptedWhenKept DEF Open, FTypeOK, Idle, InProgress
<1>2. ASSUME NEW f \in AllFlows, Close(f)
      PROVE  RejectedIsPrompted'
  <2>1. /\ \A g \in AllFlows \ {f} : flow'[g] = flow[g]
        /\ flow[f].entry \in rejected => flow[f].entry \in left'
    BY <1>2 DEF Close, FTypeOK
  <2> QED BY <1>2, <2>1, PromptedWhenKept DEF Close, InProgress
<1>3. ASSUME NEW f \in AllFlows, SubmitUser(f)
      PROVE  RejectedIsPrompted'
  <2>1. flow[f].entry \notin rejected
    BY <1>0, <1>3, EntryOfChange DEF SubmitUser
  <2>2. \A g \in AllFlows \ {f} : flow'[g] = flow[g]
    BY <1>3 DEF SubmitUser, Ends, TryLogin, FTypeOK
  <2> QED BY <1>3, <2>1, <2>2, PromptedWhenKept DEF SubmitUser, InProgress
<1>4. ASSUME NEW f \in AllFlows, SubmitChange(f)
      PROVE  RejectedIsPrompted'
  <2>1. CASE ~Living(flow[f].entry)
    <3>1. flow[f].entry \notin rejected /\ \A g \in AllFlows \ {f} : flow'[g] = flow[g]
      BY <1>4, <2>1 DEF SubmitChange, Ends, FTypeOK, RejectedLive
    <3> QED BY <1>4, <3>1, PromptedWhenKept DEF SubmitChange, InProgress
  <2>2. ASSUME NEW input \in Change, TryLogin(f, Merged(flow[f].entry, input), input)
        PROVE  RejectedIsPrompted'
    <3>1. /\ \A g \in AllFlows \ {f} : flow'[g] = flow[g]
          /\ flow'[f].entry = flow[f].entry /\ flow'[f].step = "login"
      BY <2>2 DEF TryLogin, FTypeOK, FlowRecords
    <3> QED BY <1>4, <3>1, PromptedWhenKept DEF SubmitChange, InProgress
  <2> QED BY <1>4, <2>1, <2>2 DEF SubmitChange
<1>5. ASSUME NEW f \in AllFlows, LoginFails(f)
      PROVE  RejectedIsPrompted'
  <2>1. \A g \in AllFlows \ {f} : flow'[g] = flow[g]
    BY <1>5 DEF LoginFails, FTypeOK
  <2>2. InProgress(f) => flow'[f].entry = flow[f].entry /\ flow'[f].step = "form"
    BY <1>5 DEF LoginFails, FTypeOK, FormAgain, FlowRecords, InProgress
  <2> QED BY <1>5, <2>1, <2>2, PromptedWhenKept DEF LoginFails, InProgress
<1>6. ASSUME NEW f \in AllFlows, CreateEntry(f)
      PROVE  RejectedIsPrompted'
  <2>1. flow[f].entry \notin rejected
    BY <1>0, <1>6, EntryOfChange DEF CreateEntry
  <2>2. /\ \A g \in AllFlows \ {f} : flow'[g] = flow[g]
        /\ UNCHANGED <<reload, rejected, left>>
    BY <1>6, NoneReplaced DEF FTypeOK
  <2> QED BY <2>1, <2>2, PromptedWhenKept DEF InProgress
<1>7. ASSUME NEW f \in AllFlows, ChangeEntry(f)
      PROVE  RejectedIsPrompted'
  <2>1. \A g \in AllFlows \ {f} : flow'[g] = flow[g]
    BY <1>7 DEF ChangeEntry, Ends, FTypeOK
  <2>2. /\ flow[f].entry \in rejected => flow[f].entry \in reload'
        /\ reload \subseteq reload' /\ UNCHANGED <<rejected, left>>
    BY <1>7 DEF ChangeEntry, Reloads, RejectedLive
  <2> QED BY <2>1, <2>2, PromptedWhenKept DEF InProgress
<1>8. ASSUME NEW e \in EntryIds, SetUpAgain(e)
      PROVE  RejectedIsPrompted'
  BY <1>8, PromptedWhenKept DEF SetUpAgain, SetsUp, InProgress
<1>9. ASSUME NEW e \in EntryIds, flow' = Reauth(e), rejected' = rejected \cup {e},
             UNCHANGED <<reload, left>>
      PROVE  RejectedIsPrompted'
  <2>1. CASE FlowsOf(e) # {}
    <3>1. flow' = flow
      BY <1>9, <2>1 DEF Reauth
    <3> QED BY <1>9, <2>1, <3>1 DEF RejectedIsPrompted, FlowsOf, InProgress
  <2>2. CASE FlowsOf(e) = {}
    <3> DEFINE r == [Idle EXCEPT !.kind = "reauth", !.step = "form", !.entry = e]
    <3>1. r.entry = e /\ r.step = "form"
      BY DEF Idle
    <3>2. e \in AllFlows /\ flow'[e] = r /\ \A f \in AllFlows \ {e} : flow'[f] = flow[f]
      BY <1>9, <2>2 DEF Reauth, FTypeOK, AllFlows
    <3> HIDE DEF r
    <3>3. e \in FlowsOf(e)'
      BY <3>1, <3>2 DEF FlowsOf, InProgress, AllFlows
    <3>4. ASSUME NEW d \in rejected, d # e
          PROVE  FlowsOf(d) \subseteq FlowsOf(d)'
      <4>1. e \notin FlowsOf(d)
        BY <1>0, <3>4 DEF FlowsOf, FlowsFit
      <4> QED BY <3>2, <4>1 DEF FlowsOf, InProgress, AllFlows
    <3> QED BY <1>9, <3>3, <3>4 DEF RejectedIsPrompted
  <2> QED BY <2>1, <2>2
<1>10. ASSUME NEW e \in EntryIds, SetUpEnds(e) \/ PollRejected(e)
       PROVE  RejectedIsPrompted'
  <2>1. CASE flow' = Reauth(e) /\ rejected' = rejected \cup {e} /\ UNCHANGED <<reload, left>>
    BY <1>9, <2>1
  <2>2. CASE UNCHANGED <<flow, rejected, reload, left>>
    BY <2>2, PromptedWhenKept DEF InProgress
  <2> QED BY <1>10, <2>1, <2>2 DEF SetUpEnds, PollRejected
<1>11. ASSUME NEW e \in EntryIds, Remove(e)
       PROVE  RejectedIsPrompted'
  <2>1. \A f \in AllFlows : f # e => flow'[f] = flow[f]
    BY <1>11 DEF Remove, FTypeOK
  <2>2. flow[e].entry \notin rejected'
    BY <1>0, <1>11 DEF Remove, FlowsFit
  <2> QED BY <1>11, <2>1, <2>2, PromptedWhenKept DEF Remove, InProgress
<1>12. ASSUME NEW a \in Addresses, ChangeLogin(a)
       PROVE  RejectedIsPrompted'
  BY <1>12, PromptedWhenKept DEF ChangeLogin, InProgress
<1> QED BY <1>1, <1>2, <1>3, <1>4, <1>5, <1>6, <1>7, <1>8, <1>10, <1>11, <1>12 DEF FNext

-----------------------------------------------------------------------------
(* The steps of the flows and the entries keep the invariant, and so do    *)
(* those of the calls.                                                     *)
LEMMA FlowNextIInv ==
  ASSUME IInv, FNext, UNCHANGED <<call, executed, met>>
  PROVE  IInv'
<1>1. FTypeOK'
  BY FlowTypes DEF IInv, FInv
<1>2. FInv'
  BY <1>1, FitStays, UniqueStays, ReplacedStays, RejectedLiveStays, UsesStoredStays,
     PromptedStays DEF IInv, FInv, NoEntryReplaced
<1>3. TypeOK'
  BY <1>1 DEF IInv, TypeOK
<1>4. ServedOrDue'
  BY DEF IInv, ServedOrDue, Served, Supported
<1> QED BY <1>2, <1>3, <1>4 DEF IInv

(* FInv speaks of the flows and the entries only.                          *)
LEMMA FInvUnchanged ==
  ASSUME FInv, UNCHANGED fvars
  PROVE  FInv'
BY DEF FInv, fvars, FTypeOK, FlowsFit, UniqueLogins, RejectedLive, NoEntryReplaced,
   UsesStored,
       RejectedIsPrompted, Creates, InProgress, FlowsOf, Living

(* The steps of a service call: its kind is settled when it is made, and   *)
(* so is what it has to serve.                                             *)
LEMMA CallIInv ==
  ASSUME IInv, NEW c \in Calls,
         Made(c) \/ Ask(c) \/ Execute(c) \/ Answered(c) \/ Fails(c) \/ Done(c)
  PROVE  IInv'
<1>1. FInv'
  BY FInvUnchanged DEF IInv, Made, Ask, Execute, Answered, Fails, Done
<1>2. FTypeOK'
  BY <1>1 DEF FInv
<1>3. /\ TypeOK /\ ServedOrDue /\ NoEntry \notin EntryIds
      /\ call[c].phase \in {"new", "asking", "waiting", "done", "failed"}
  BY ConfigFlowAssumption DEF IInv, TypeOK, CallRecords
<1>4. ASSUME Made(c)
      PROVE  TypeOK' /\ ServedOrDue'
  <2>1. PICK kind \in Kinds, targets \in SUBSET {e \in EntryIds : Living(e)} \ {{}} :
          /\ call' = [call EXCEPT ![c] = [kind |-> kind, phase |-> "asking", targets |-> targets,
                                          devices |-> targets \cap Loaded, at |-> NoEntry]]
          /\ met' = [met EXCEPT ![c] = targets \cap Loaded]
    BY <1>4 DEF Made, Devices
  <2>2. executed' = executed /\ executed[c] = {}
    BY <1>3, <1>4 DEF Made, ServedOrDue
  <2>3. TypeOK'
    BY <1>2, <1>3, <2>1, <2>2 DEF TypeOK, CallRecords
  <2>4. ServedOrDue'
    BY <1>3, <2>1, <2>2 DEF TypeOK, CallRecords, ServedOrDue, Served, Supported
  <2> QED BY <2>3, <2>4
<1>5. ASSUME Ask(c)
      PROVE  TypeOK' /\ ServedOrDue'
  <2>1. PICK e \in call[c].devices :
          call' = [call EXCEPT ![c].devices = @ \ {e},
                               ![c].phase = IF Supported(e, call[c].kind) THEN "waiting" ELSE @,
                               ![c].at = IF Supported(e, call[c].kind) THEN e ELSE @]
    BY <1>5 DEF Ask, Due
  <2>2. UNCHANGED <<executed, met>> /\ call[c].phase = "asking" /\ e \in EntryIds
        /\ call[c].at = NoEntry
    BY <1>3, <1>5 DEF Ask, TypeOK, CallRecords
  <2>3. TypeOK'
    <3> DEFINE r == [call[c] EXCEPT !.devices = @ \ {e},
                       !.phase = IF Supported(e, call[c].kind) THEN "waiting" ELSE @,
                       !.at = IF Supported(e, call[c].kind) THEN e ELSE @]
    <3>1. call' = [call EXCEPT ![c] = r]
      BY <1>3, <2>1 DEF TypeOK, CallRecords
    <3>2. /\ r.kind = call[c].kind /\ r.targets = call[c].targets
          /\ r.devices = call[c].devices \ {e}
          /\ r.phase \in {"asking", "waiting"} /\ r.at \in {e, NoEntry}
          /\ r.phase = "waiting" <=> r.at # NoEntry
      BY <1>3, <2>2 DEF TypeOK, CallRecords
    <3>3. r \in CallRecords
      <4>1. call[c] \in CallRecords /\ call[c].devices \ {e} \in SUBSET EntryIds
        BY <1>3 DEF TypeOK, CallRecords
      <4>2. CASE Supported(e, call[c].kind)
        BY <2>2, <4>1, <4>2 DEF CallRecords
      <4>3. CASE ~Supported(e, call[c].kind)
        BY <2>2, <4>1, <4>3 DEF CallRecords
      <4> QED BY <4>2, <4>3
    <3> HIDE DEF r
    <3> QED BY <1>2, <1>3, <2>2, <3>1, <3>2, <3>3 DEF TypeOK, CallRecords
  <2>4. ServedOrDue'
    BY <1>3, <2>1, <2>2 DEF TypeOK, CallRecords, ServedOrDue, Served, Supported
  <2> QED BY <2>3, <2>4
<1>6. ASSUME Execute(c)
      PROVE  TypeOK' /\ ServedOrDue'
  <2>1. UNCHANGED <<call, met>> /\ executed' = [executed EXCEPT ![c] = @ \cup {call[c].at}]
        /\ call[c].phase = "waiting" /\ call[c].at \in EntryIds
    BY <1>3, <1>6 DEF Execute, TypeOK, CallRecords
  <2>2. TypeOK'
    BY <1>2, <1>3, <2>1 DEF TypeOK, CallRecords
  <2>3. ServedOrDue'
    BY <1>3, <2>1 DEF TypeOK, CallRecords, ServedOrDue, Served, Supported
  <2> QED BY <2>2, <2>3
<1>7. ASSUME Answered(c) \/ Fails(c)
      PROVE  TypeOK' /\ ServedOrDue'
  <2>1. PICK phase \in {"asking", "failed"} :
          /\ call' = [call EXCEPT ![c].phase = phase, ![c].at = NoEntry]
          /\ phase = "asking" => call[c].at \in executed[c]
    BY <1>7 DEF Answered, Fails
  <2>2. UNCHANGED <<executed, met>> /\ call[c].phase = "waiting"
    BY <1>7 DEF Answered, Fails
  <2>3. TypeOK'
    BY <1>2, <1>3, <2>1, <2>2 DEF TypeOK, CallRecords
  <2>4. ServedOrDue'
    BY <1>3, <2>1, <2>2 DEF TypeOK, CallRecords, ServedOrDue, Served, Supported
  <2> QED BY <2>3, <2>4
<1>8. ASSUME Done(c)
      PROVE  TypeOK' /\ ServedOrDue'
  <2>1. UNCHANGED <<executed, met>> /\ call' = [call EXCEPT ![c].phase = "done"]
        /\ call[c].phase = "asking" /\ call[c].devices = {}
    BY <1>8 DEF Done
  <2>2. TypeOK'
    BY <1>2, <1>3, <2>1 DEF TypeOK, CallRecords
  <2>3. ServedOrDue'
    BY <1>3, <2>1 DEF TypeOK, CallRecords, ServedOrDue, Served, Supported
  <2> QED BY <2>2, <2>3
<1> QED BY <1>1, <1>4, <1>5, <1>6, <1>7, <1>8 DEF IInv

(* The initial states have the invariant.                                  *)
LEMMA InitIInv == Init => IInv
<1> SUFFICES ASSUME Init PROVE IInv
  OBVIOUS
<1>1. FTypeOK
  BY IdleRecord, ConfigFlowAssumption DEF Init, FInit, FTypeOK, Living
<1>2. \A f \in AllFlows : flow[f] = Idle
  BY DEF Init, FInit
<1>3. FlowsFit /\ UniqueLogins
  BY <1>2 DEF FlowsFit, UniqueLogins, Creates, Idle, AllFlows
<1>4. RejectedLive /\ NoEntryReplaced /\ UsesStored /\ RejectedIsPrompted
  BY DEF Init, FInit, RejectedLive, NoEntryReplaced, UsesStored, RejectedIsPrompted
<1>5. TypeOK /\ ServedOrDue
  BY <1>1, ConfigFlowAssumption DEF Init, TypeOK, CallRecords, ServedOrDue, Served, Unmade
<1> QED BY <1>1, <1>3, <1>4, <1>5 DEF IInv, FInv

(* Every step keeps the invariant.                                         *)
LEMMA NextIInv == IInv /\ [Next]_vars => IInv'
<1> SUFFICES ASSUME IInv, [Next]_vars PROVE IInv'
  OBVIOUS
<1>1. CASE UNCHANGED vars
  <2>1. UNCHANGED fvars /\ UNCHANGED <<call, executed, met>>
    BY <1>1 DEF vars
  <2>2. FInv'
    BY <2>1, FInvUnchanged DEF IInv
  <2> QED BY <2>1, <2>2 DEF IInv, FInv, TypeOK, ServedOrDue, Served, Supported
<1> QED BY <1>1, FlowNextIInv, CallIInv DEF Next

(* Type correctness of the entries, the flows and the service calls.       *)
THEOREM TypeCorrect == Spec => []TypeOK
<1>1. IInv => TypeOK
  BY DEF IInv
<1> QED BY <1>1, InitIInv, NextIInv, PTL DEF Spec

(* A new entry never takes the place of one for the same router: while a   *)
(* flow logs in, no other flow and no entry gets its unique id.            *)
THEOREM NoneIsReplaced == Spec => []NoEntryReplaced
<1>1. IInv => NoEntryReplaced
  BY DEF IInv, FInv
<1> QED BY <1>1, InitIInv, NextIInv, PTL DEF Spec

(* A coordinator uses what its entry has in store, or is to be replaced.   *)
THEOREM UsesWhatIsStored == Spec => []UsesStored
<1>1. IInv => UsesStored
  BY DEF IInv, FInv
<1> QED BY <1>1, InitIInv, NextIInv, PTL DEF Spec

(* A rejected entry has a flow, a reload coming, or a user who closed its  *)
(* flow.                                                                   *)
THEOREM RejectedArePrompted == Spec => []RejectedIsPrompted
<1>1. IInv => RejectedIsPrompted
  BY DEF IInv, FInv
<1> QED BY <1>1, InitIInv, NextIInv, PTL DEF Spec

(* A call that ends without an error was executed by exactly the routers   *)
(* it should reach: at its end nothing is due any more.                    *)
THEOREM AllAreServed == Spec => []EveryTargetServed
<1>1. IInv => EveryTargetServed
  <2> SUFFICES ASSUME IInv, NEW c \in Calls, call[c].phase = "done"
               PROVE  Served(c) = executed[c]
    BY DEF EveryTargetServed, Served
  <2>1. call[c].at = NoEntry /\ call[c].devices = {}
    BY DEF IInv, TypeOK, CallRecords, ServedOrDue
  <2>2. NoEntry \notin Served(c)
    BY ConfigFlowAssumption DEF IInv, TypeOK, Served
  <2>3. executed[c] \subseteq Served(c) /\ Served(c) \subseteq executed[c] \cup {NoEntry}
    BY <2>1 DEF IInv, ServedOrDue
  <2> QED BY <2>2, <2>3
<1> QED BY <1>1, InitIInv, NextIInv, PTL DEF Spec

(* What is stored in an entry that lives on is what its router accepts.    *)
THEOREM StoredIsAccepted == Spec => StoredWasAccepted
<1> DEFINE Good == \A e \in EntryIds :
             /\ Living(e)'
             /\ stored'[e] # stored[e] \/ e \in reload' \ reload
             => Accepted(stored'[e])
<1>1. IInv /\ [Next]_vars => Good
  <2> SUFFICES ASSUME IInv, [Next]_vars PROVE Good
    OBVIOUS
  <2>0. FTypeOK /\ FlowsFit /\ UniqueLogins
    BY DEF IInv, FInv
  <2>1. CASE UNCHANGED <<stored, reload>>
    BY <2>1
  <2>2. ASSUME NEW f \in AllFlows, CreateEntry(f) PROVE Good
    <3>1. PICK e \in EntryIds : stored' = [stored EXCEPT ![e] = flow[f].config]
      BY <2>0, <2>2, NoneReplaced
    <3>2. reload' = reload
      BY <2>0, <2>2, NoneReplaced
    <3> QED BY <2>0, <2>2, <3>1, <3>2 DEF CreateEntry, FTypeOK
  <2>3. ASSUME NEW f \in AllFlows, ChangeEntry(f) PROVE Good
    BY <2>0, <2>3 DEF ChangeEntry, ToStore, Reloads, FTypeOK
  <2>4. ASSUME NEW e \in EntryIds, SetUpAgain(e) PROVE Good
    BY <2>4 DEF SetUpAgain
  <2>5. ASSUME NEW e \in EntryIds, Remove(e) PROVE Good
    BY <2>0, <2>5 DEF Remove, Living, FTypeOK
  <2> QED BY <2>1, <2>2, <2>3, <2>4, <2>5
          DEF Next, FNext, vars, fvars, Open, Close, SubmitUser, SubmitChange, LoginFails,
              SetUpEnds, PollRejected, ChangeLogin, Made, Ask, Execute, Answered, Fails, Done
<1>2. IInv /\ [Next]_vars => [Good]_vars
  BY <1>1
<1> QED BY <1>2, InitIInv, NextIInv, PTL DEF Spec, StoredWasAccepted
=============================================================================
