---------------------------- MODULE Claims_proofs ---------------------------
(***************************************************************************)
(* Proofs about Claims, for every set of entries and clients and every     *)
(* number of restarts.  The argument: an entry only has trackers of the    *)
(* clients whose claim it holds, and a client has one claim; a claim of an *)
(* entry that exists never contradicts the registry.                       *)
(***************************************************************************)
EXTENDS Claims, Lines_proofs

\* an entry that has a tracker runs, and holds the claim
HeldIsClaimed ==
  \A e \in Entries : \A c \in known[e] : claims[c] = e /\ Running(e)

\* the claim table t agrees with the registry about c
Agrees(c, t) ==
  t[c] # Nobody /\ Exists(t[c]) /\ registry[c] # Nobody => registry[c] = t[c]

ClaimAgrees == \A c \in Clients : Agrees(c, claims)

\* an entry that is still to be configured is in no table
NewIsUnused ==
  \A e \in Entries : stage[e] = "new" =>
    \A c \in Clients : claims[c] # e /\ registry[c] # e

AddingIsKnown == \A e \in Entries : adding[e] \subseteq known[e]

\* the connected entries run, each connected once
LineIsLive ==
  /\ Distinct(order)
  /\ \A e \in Entries : Stands(e, order) => Running(e)

IInv ==
  /\ TypeOK
  /\ HeldIsClaimed
  /\ ClaimAgrees
  /\ NewIsUnused
  /\ AddingIsKnown
  /\ LineIsLive

-----------------------------------------------------------------------------
(* What claim() returns: an entry, the claim that stands if there is one,  *)
(* and nothing that contradicts the registry.                              *)
LEMMA ClaimedFacts ==
  ASSUME TypeOK,
         NEW t \in [Clients -> Entries \cup {Nobody}],
         NEW k \in [Entries -> SUBSET Clients],
         NEW s \in [Entries -> SUBSET Clients],
         NEW line \in Seq(Entries),
         NEW c \in Clients
  PROVE  /\ Claimed(c, t, k, s, line) \in Entries \cup {Nobody}
         /\ t[c] # Nobody /\ Exists(t[c]) => Claimed(c, t, k, s, line) = t[c]
         /\ /\ Agrees(c, t) /\ registry[c] # Nobody
            /\ Claimed(c, t, k, s, line) # Nobody /\ Exists(Claimed(c, t, k, s, line))
            => registry[c] = Claimed(c, t, k, s, line)
         /\ \/ Claimed(c, t, k, s, line) \in {t[c], registry[c]}
            \/ Stands(Claimed(c, t, k, s, line), line)
<1> DEFINE offers == Offers(c, k, s, line)
<1>1. registry[c] \in Entries \cup {Nobody} /\ t[c] \in Entries \cup {Nobody}
  BY DEF TypeOK
<1>2. ASSUME offers # {}
      PROVE  FirstOffer(c, k, s, line) \in Entries /\ Stands(FirstOffer(c, k, s, line), line)
  <2>1. /\ offers \in SUBSET Nat
        /\ \A i \in offers : line[i] \in Entries /\ Stands(line[i], line)
    BY DEF Offers, Stands
  <2>2. \E i \in offers : \A j \in offers : i <= j
    <3> HIDE DEF offers
    <3> QED BY <1>2, <2>1, LeastNat
  <2> HIDE DEF offers
  <2>3. (CHOOSE i \in offers : \A j \in offers : i <= j) \in offers
    BY <2>2
  <2>4. FirstOffer(c, k, s, line) = line[CHOOSE i \in offers : \A j \in offers : i <= j]
    BY DEF FirstOffer, offers
  <2> QED BY <2>1, <2>3, <2>4
<1> QED BY <1>1, <1>2 DEF Claimed, Agrees

(* Running _add_new of the entries in a line keeps what the invariant says *)
(* of claims, trackers and registrations.                                  *)
LEMMA AddNewKeeps ==
  ASSUME TypeOK,
         NEW t \in [Clients -> Entries \cup {Nobody}],
         NEW k \in [Entries -> SUBSET Clients],
         NEW s \in [Entries -> SUBSET Clients],
         NEW line \in Seq(Entries),
         AddNew(t, k, s, line), UNCHANGED registry,
         \A e \in Entries : Exists(e)' <=> Exists(e),
         \A e \in Entries : Stands(e, line) => Running(e)',
         \A e \in Entries : \A c \in k[e] : t[c] = e /\ Exists(e) /\ Running(e)',
         \A c \in Clients : Agrees(c, t),
         \A e \in Entries : stage'[e] = "new" => \A c \in Clients : t[c] # e /\ registry[c] # e,
         \A e \in Entries : adding[e] \subseteq k[e]
  PROVE  /\ claims' \in [Clients -> Entries \cup {Nobody}]
         /\ known' \in [Entries -> SUBSET Clients]
         /\ adding' \in [Entries -> SUBSET Clients]
         /\ HeldIsClaimed' /\ ClaimAgrees' /\ NewIsUnused' /\ AddingIsKnown'
<1> DEFINE new(e) == Granted(e, t, k, s, line)
<1>1. \A e \in Entries : new(e) \subseteq Clients
  BY DEF Granted
<1>2. \A c \in Clients :
        /\ claims'[c] = Claimed(c, t, k, s, line)
        /\ claims'[c] \in Entries \cup {Nobody}
  BY ClaimedFacts DEF AddNew
<1>3. claims' \in [Clients -> Entries \cup {Nobody}]
  BY <1>2 DEF AddNew
<1>4. \A e \in Entries : known'[e] = k[e] \cup new(e) /\ adding'[e] = adding[e] \cup new(e)
  BY DEF AddNew
<1>5. /\ known' \in [Entries -> SUBSET Clients]
      /\ adding' \in [Entries -> SUBSET Clients]
  BY <1>1 DEF AddNew, TypeOK
<1>6. HeldIsClaimed'
  <2> SUFFICES ASSUME NEW e \in Entries, NEW c \in known'[e]
               PROVE  claims'[c] = e /\ Running(e)'
    BY DEF HeldIsClaimed
  <2>1. c \in Clients
    BY <1>5
  <2>2. CASE c \in k[e]
    <3>1. t[c] = e /\ Exists(e) /\ e # Nobody
      BY <2>2, ClaimsAssumption
    <3> QED BY <1>2, <2>1, <2>2, <3>1, ClaimedFacts
  <2>3. CASE c \in new(e)
    <3>1. Claimed(c, t, k, s, line) = e /\ \E i \in DOMAIN line : line[i] = e
      BY <2>3 DEF Granted, Offers
    <3>2. Stands(e, line)
      BY <3>1 DEF Stands
    <3> QED BY <1>2, <2>1, <3>1, <3>2
  <2> QED BY <1>4, <2>2, <2>3
<1>7. ClaimAgrees'
  <2> SUFFICES ASSUME NEW c \in Clients PROVE Agrees(c, claims)'
    BY DEF ClaimAgrees
  <2>1. Exists(claims[c])' /\ claims'[c] # Nobody => Exists(claims'[c])
    BY <1>2 DEF Exists
  <2>2. /\ Claimed(c, t, k, s, line) # Nobody /\ Exists(Claimed(c, t, k, s, line))
             /\ registry[c] # Nobody
           => registry[c] = Claimed(c, t, k, s, line)
    BY ClaimedFacts
  <2> QED BY <1>2, <2>1, <2>2 DEF Agrees
<1>8. AddingIsKnown'
  BY <1>4 DEF AddingIsKnown
<1>9. NewIsUnused'
  <2> SUFFICES ASSUME NEW e \in Entries, stage'[e] = "new", NEW c \in Clients
               PROVE  claims'[c] # e
    BY DEF NewIsUnused
  <2>1. ~Running(e)'
    BY DEF Running
  <2> QED BY <1>2, <2>1, ClaimedFacts
<1> QED BY <1>3, <1>5, <1>6, <1>7, <1>8, <1>9

-----------------------------------------------------------------------------
LEMMA InitIInv == Init => IInv
<1> SUFFICES ASSUME Init PROVE IInv
  OBVIOUS
<1>1. TypeOK
  BY ClaimsAssumption DEF Init, TypeOK, Stages
<1>2. LineIsLive
  BY DEF Init, LineIsLive, Distinct, Stands
<1> QED BY <1>1, <1>2, ClaimsAssumption
        DEF Init, IInv, HeldIsClaimed, ClaimAgrees, Agrees, NewIsUnused, AddingIsKnown

LEMMA StutterIInv == IInv /\ UNCHANGED vars => IInv'
<1> SUFFICES ASSUME IInv, UNCHANGED vars PROVE IInv'
  OBVIOUS
<1> USE DEF IInv, vars
<1>1. TypeOK'
  BY DEF TypeOK
<1>2. HeldIsClaimed' /\ ClaimAgrees' /\ NewIsUnused' /\ AddingIsKnown'
  BY DEF HeldIsClaimed, ClaimAgrees, NewIsUnused, AddingIsKnown, Agrees, Running, Exists
<1>3. LineIsLive'
  BY DEF LineIsLive, Running
<1> QED BY <1>1, <1>2, <1>3

LEMMA CreateIInv == ASSUME IInv, NEW e \in Entries, Create(e) PROVE IInv'
<1> USE DEF IInv, Create
<1>1. TypeOK'
  BY DEF TypeOK, Stages
<1>2. HeldIsClaimed' /\ AddingIsKnown' /\ NewIsUnused'
  BY DEF HeldIsClaimed, AddingIsKnown, NewIsUnused, Running, TypeOK
<1>3. ClaimAgrees'
  BY DEF ClaimAgrees, Agrees, NewIsUnused, Exists, TypeOK
<1>4. LineIsLive'
  BY DEF LineIsLive, Running, TypeOK
<1> QED BY <1>1, <1>2, <1>3, <1>4

LEMMA SetupIInv == ASSUME IInv, NEW e \in Entries, Setup(e) PROVE IInv'
<1> USE DEF IInv
<1>1. PICK list \in SUBSET Clients :
        /\ sees' = [sees EXCEPT ![e] = list]
        /\ AddNew([c \in Clients |-> IF c \in {d \in Clients : registry[d] = e}
                                     THEN e ELSE claims[c]],
                  [known EXCEPT ![e] = {d \in Clients : registry[d] = e}],
                  [sees EXCEPT ![e] = list], <<e>>)
  BY DEF Setup
<1> DEFINE owned == {d \in Clients : registry[d] = e}
           t == [c \in Clients |-> IF c \in owned THEN e ELSE claims[c]]
           k == [known EXCEPT ![e] = owned]
           s == [sees EXCEPT ![e] = list]
<1>2. /\ stage[e] = "unloaded" /\ stage' = [stage EXCEPT ![e] = "added"]
      /\ stage \in [Entries -> Stages] /\ stage' \in [Entries -> Stages]
      /\ UNCHANGED <<registry, restarts>> /\ order' = Append(order, e)
  BY DEF Setup, TypeOK, Stages
<1>3. /\ t \in [Clients -> Entries \cup {Nobody}] /\ k \in [Entries -> SUBSET Clients]
      /\ s \in [Entries -> SUBSET Clients] /\ <<e>> \in Seq(Entries)
  BY DEF TypeOK
<1>4. \A f \in Entries : /\ Exists(f)' <=> Exists(f)
                         /\ Running(f) => Running(f)'
                         /\ Stands(f, <<e>>) => Running(f)'
                         /\ stage'[f] = "new" => stage[f] = "new"
  BY <1>2 DEF Exists, Running, Stands
<1>5. known[e] = {} /\ adding[e] = {} /\ Exists(e) /\ Running(e)'
  BY <1>2 DEF HeldIsClaimed, AddingIsKnown, Running, Exists, TypeOK
<1>6. \A f \in Entries : \A c \in k[f] : t[c] = f /\ Exists(f) /\ Running(f)'
  <2> SUFFICES ASSUME NEW f \in Entries, NEW c \in k[f]
               PROVE  t[c] = f /\ Exists(f) /\ Running(f)'
    OBVIOUS
  <2>1. CASE f = e
    BY <1>5, <2>1 DEF TypeOK
  <2>2. CASE f # e
    <3>1. c \in known[f] /\ c \in Clients /\ claims[c] = f /\ Running(f) /\ Exists(f)
      BY <2>2 DEF HeldIsClaimed, TypeOK, Running, Exists
    <3>2. registry[c] # e
      BY <2>2, <3>1, ClaimsAssumption DEF ClaimAgrees, Agrees
    <3> QED BY <1>4, <3>1, <3>2
  <2> QED BY <2>1, <2>2
<1>7. \A c \in Clients : Agrees(c, t)
  BY DEF ClaimAgrees, Agrees
<1>8. \A f \in Entries : stage'[f] = "new" =>
        \A c \in Clients : t[c] # f /\ registry[c] # f
  BY <1>2, <1>4 DEF NewIsUnused
<1>9. \A f \in Entries : adding[f] \subseteq k[f]
  BY <1>5 DEF AddingIsKnown, TypeOK
<1>10. /\ claims' \in [Clients -> Entries \cup {Nobody}]
       /\ known' \in [Entries -> SUBSET Clients]
       /\ adding' \in [Entries -> SUBSET Clients]
       /\ HeldIsClaimed' /\ ClaimAgrees' /\ NewIsUnused' /\ AddingIsKnown'
  <2>1. AddNew(t, k, s, <<e>>)
    BY <1>1
  <2> HIDE DEF t, k, s
  <2> QED BY <1>2, <1>3, <1>4, <1>6, <1>7, <1>8, <1>9, <2>1, AddNewKeeps
<1>11. LineIsLive'
  BY <1>2, <1>4, <1>5, AppendLine DEF LineIsLive, TypeOK, Running
<1>12. TypeOK'
  BY <1>1, <1>2, <1>10, AppendLine DEF TypeOK
<1> QED BY <1>10, <1>11, <1>12

LEMMA RunsAllIInv ==
  ASSUME IInv, NEW s \in [Entries -> SUBSET Clients], AddNew(claims, known, s, order),
         sees' \in [Entries -> SUBSET Clients], stage' \in [Entries -> Stages],
         UNCHANGED <<registry, order, restarts>>,
         \A e \in Entries : /\ Exists(e)' <=> Exists(e)
                            /\ Running(e) => Running(e)'
                            /\ stage'[e] = "new" => stage[e] = "new"
  PROVE  IInv'
<1> USE DEF IInv
<1>1. /\ claims \in [Clients -> Entries \cup {Nobody}]
      /\ known \in [Entries -> SUBSET Clients] /\ order \in Seq(Entries)
  BY DEF TypeOK
<1>2. /\ \A e \in Entries : Stands(e, order) => Running(e)'
      /\ \A e \in Entries : \A c \in known[e] : claims[c] = e /\ Exists(e) /\ Running(e)'
  BY DEF LineIsLive, HeldIsClaimed, Running, Exists
<1>3. /\ \A c \in Clients : Agrees(c, claims)
      /\ \A e \in Entries : stage'[e] = "new" =>
           \A c \in Clients : claims[c] # e /\ registry[c] # e
      /\ \A e \in Entries : adding[e] \subseteq known[e]
  BY DEF ClaimAgrees, NewIsUnused, AddingIsKnown
<1>4. /\ claims' \in [Clients -> Entries \cup {Nobody}]
      /\ known' \in [Entries -> SUBSET Clients]
      /\ adding' \in [Entries -> SUBSET Clients]
      /\ HeldIsClaimed' /\ ClaimAgrees' /\ NewIsUnused' /\ AddingIsKnown'
  BY <1>1, <1>2, <1>3, AddNewKeeps
<1>5. LineIsLive'
  BY DEF LineIsLive
<1>6. TypeOK'
  BY <1>4 DEF TypeOK
<1> QED BY <1>4, <1>5, <1>6

LEMMA HookUpIInv == ASSUME IInv, NEW e \in Entries, HookUp(e) PROVE IInv'
<1>1. /\ AddNew(claims, known, sees, order) /\ sees \in [Entries -> SUBSET Clients]
      /\ sees' \in [Entries -> SUBSET Clients] /\ stage' \in [Entries -> Stages]
      /\ UNCHANGED <<registry, order, restarts>>
  BY DEF IInv, HookUp, TypeOK, Stages
<1>2. \A f \in Entries : /\ Exists(f)' <=> Exists(f)
                         /\ Running(f) => Running(f)'
                         /\ stage'[f] = "new" => stage[f] = "new"
  BY DEF IInv, HookUp, TypeOK, Exists, Running
<1> QED BY <1>1, <1>2, RunsAllIInv

LEMMA PollIInv == ASSUME IInv, NEW e \in Entries, Poll(e) PROVE IInv'
<1>1. PICK list \in SUBSET Clients :
        /\ sees' = [sees EXCEPT ![e] = list]
        /\ AddNew(claims, known, [sees EXCEPT ![e] = list], order)
  BY DEF Poll
<1> DEFINE s == [sees EXCEPT ![e] = list]
<1>2. /\ s \in [Entries -> SUBSET Clients]
      /\ sees' \in [Entries -> SUBSET Clients] /\ stage' \in [Entries -> Stages]
      /\ UNCHANGED <<registry, order, restarts>>
  BY <1>1 DEF IInv, Poll, TypeOK
<1>3. \A f \in Entries : /\ Exists(f)' <=> Exists(f)
                         /\ Running(f) => Running(f)'
                         /\ stage'[f] = "new" => stage[f] = "new"
  BY DEF IInv, Poll, TypeOK, Exists, Running
<1>4. AddNew(claims, known, s, order)
  BY <1>1
<1> HIDE DEF s
<1> QED BY <1>2, <1>3, <1>4, RunsAllIInv

LEMMA RegisterIInv ==
  ASSUME IInv, NEW e \in Entries, NEW c \in Clients, Register(e, c) PROVE IInv'
<1> USE DEF IInv, Register
<1>1. claims[c] = e /\ Running(e)
  BY DEF HeldIsClaimed, AddingIsKnown
<1>2. TypeOK'
  BY DEF TypeOK
<1>3. HeldIsClaimed' /\ AddingIsKnown'
  BY DEF HeldIsClaimed, AddingIsKnown, Running, TypeOK
<1>4. ClaimAgrees'
  BY <1>1 DEF ClaimAgrees, Agrees, Exists, TypeOK
<1>5. NewIsUnused'
  BY <1>1 DEF NewIsUnused, Running, TypeOK
<1>6. LineIsLive'
  BY DEF LineIsLive, Running
<1> QED BY <1>2, <1>3, <1>4, <1>5, <1>6

\* what Gone does to the entry's part of the invariant, once it no longer runs
LEMMA GoneKeeps ==
  ASSUME IInv, NEW e \in Entries, Gone(e),
         \A f \in Entries : Running(f)' <=> Running(f) /\ f # e,
         \A c \in Clients : claims[c] # e => claims'[c] = claims[c]
  PROVE  /\ known' \in [Entries -> SUBSET Clients] /\ sees' \in [Entries -> SUBSET Clients]
         /\ adding' \in [Entries -> SUBSET Clients] /\ order' \in Seq(Entries)
         /\ HeldIsClaimed' /\ AddingIsKnown' /\ LineIsLive'
<1> USE DEF IInv, Gone
<1>1. /\ known' \in [Entries -> SUBSET Clients] /\ sees' \in [Entries -> SUBSET Clients]
      /\ adding' \in [Entries -> SUBSET Clients]
  BY DEF TypeOK
<1>2. /\ order' \in Seq(Entries) /\ Distinct(order') /\ ~Stands(e, order')
      /\ \A i \in 1..Len(order') : Stands(order'[i], order)
  BY WithoutType, WithoutDistinct DEF TypeOK, LineIsLive
<1>3. HeldIsClaimed' /\ AddingIsKnown'
  BY DEF HeldIsClaimed, AddingIsKnown, TypeOK
<1>4. ASSUME NEW f \in Entries, Stands(f, order') PROVE Running(f)'
  <2>1. PICK i \in 1..Len(order') : order'[i] = f
    BY <1>4 DEF Stands
  <2>2. Stands(f, order) /\ f # e
    BY <1>2, <1>4, <2>1
  <2> QED BY <2>2 DEF LineIsLive
<1>5. LineIsLive'
  BY <1>2, <1>4 DEF LineIsLive, Stands
<1> QED BY <1>1, <1>2, <1>3, <1>5

LEMMA UnloadIInv == ASSUME IInv, NEW e \in Entries, Unload(e) PROVE IInv'
<1> USE DEF IInv, Unload
<1>1. /\ \A f \in Entries : Running(f)' <=> Running(f) /\ f # e
      /\ \A c \in Clients : claims[c] # e => claims'[c] = claims[c]
  BY DEF Running, Released, TypeOK
<1>2. /\ known' \in [Entries -> SUBSET Clients] /\ sees' \in [Entries -> SUBSET Clients]
      /\ adding' \in [Entries -> SUBSET Clients] /\ order' \in Seq(Entries)
      /\ HeldIsClaimed' /\ AddingIsKnown' /\ LineIsLive'
  BY <1>1, GoneKeeps
<1>3. TypeOK'
  BY <1>2 DEF TypeOK, Stages, Released
<1>4. ClaimAgrees' /\ NewIsUnused'
  BY ClaimsAssumption DEF ClaimAgrees, Agrees, NewIsUnused, Released, Exists, TypeOK
<1> QED BY <1>2, <1>3, <1>4

LEMMA DeleteIInv == ASSUME IInv, NEW e \in Entries, Delete(e) PROVE IInv'
<1> USE DEF IInv, Delete
<1>1. /\ \A f \in Entries : Running(f)' <=> Running(f) /\ f # e
      /\ \A c \in Clients : claims[c] # e => claims'[c] = claims[c]
  BY DEF Running, Released, TypeOK
<1>2. /\ known' \in [Entries -> SUBSET Clients] /\ sees' \in [Entries -> SUBSET Clients]
      /\ adding' \in [Entries -> SUBSET Clients] /\ order' \in Seq(Entries)
      /\ HeldIsClaimed' /\ AddingIsKnown' /\ LineIsLive'
  BY <1>1, GoneKeeps
<1>3. TypeOK'
  BY <1>2 DEF TypeOK, Stages, Released
<1>4. ClaimAgrees'
  BY DEF ClaimAgrees, Agrees, Released, Exists, TypeOK
<1>5. NewIsUnused'
  BY ClaimsAssumption DEF NewIsUnused, Released, TypeOK
<1> QED BY <1>2, <1>3, <1>4, <1>5

LEMMA ForgetIInv == ASSUME IInv, NEW c \in Clients, Forget(c) PROVE IInv'
<1> USE DEF IInv, Forget
<1>1. TypeOK'
  BY DEF TypeOK
<1>2. HeldIsClaimed' /\ AddingIsKnown' /\ LineIsLive'
  BY DEF HeldIsClaimed, AddingIsKnown, LineIsLive, Running
<1>3. ClaimAgrees' /\ NewIsUnused'
  BY ClaimsAssumption DEF ClaimAgrees, Agrees, NewIsUnused, Exists, TypeOK
<1> QED BY <1>1, <1>2, <1>3

LEMMA RestartIInv == IInv /\ Restart => IInv'
<1> SUFFICES ASSUME IInv, Restart PROVE IInv'
  OBVIOUS
<1> USE DEF IInv, Restart
<1>1. TypeOK'
  BY DEF TypeOK, Stages
<1>2. HeldIsClaimed' /\ ClaimAgrees' /\ AddingIsKnown'
  BY DEF HeldIsClaimed, ClaimAgrees, Agrees, AddingIsKnown
<1>3. NewIsUnused'
  BY ClaimsAssumption DEF NewIsUnused, TypeOK, Exists
<1>4. LineIsLive'
  BY DEF LineIsLive, Distinct, Stands
<1> QED BY <1>1, <1>2, <1>3, <1>4

(* Every step keeps the invariant.                                         *)
LEMMA NextIInv == IInv /\ [Next]_vars => IInv'
<1> SUFFICES ASSUME IInv, [Next]_vars PROVE IInv'
  OBVIOUS
<1>1. ASSUME NEW e \in Entries, Create(e) \/ Setup(e) \/ HookUp(e) PROVE IInv'
  BY <1>1, CreateIInv, SetupIInv, HookUpIInv
<1>2. ASSUME NEW e \in Entries, Poll(e) \/ Unload(e) \/ Delete(e) PROVE IInv'
  BY <1>2, PollIInv, UnloadIInv, DeleteIInv
<1>3. ASSUME NEW e \in Entries, NEW c \in Clients, Register(e, c) PROVE IInv'
  BY <1>3, RegisterIInv
<1>4. ASSUME NEW c \in Clients, Forget(c) PROVE IInv'
  BY <1>4, ForgetIInv
<1>5. CASE Restart \/ UNCHANGED vars
  BY <1>5, RestartIInv, StutterIInv
<1> QED BY <1>1, <1>2, <1>3, <1>4, <1>5 DEF Next

(* Type correctness of the claim table and the entries' trackers.          *)
THEOREM TypeCorrect == Spec => []TypeOK
<1>1. IInv => TypeOK
  BY DEF IInv
<1> QED BY <1>1, InitIInv, NextIInv, PTL DEF Spec

(* Two entries never have a tracker of the same client.                    *)
THEOREM SingleTracker == Spec => []OneTracker
<1>1. IInv => OneTracker
  BY DEF IInv, HeldIsClaimed, OneTracker
<1> QED BY <1>1, InitIInv, NextIInv, PTL DEF Spec

Kept == \A c \in Clients :
  registry[c] # Nobody /\ registry'[c] # Nobody => registry'[c] = registry[c]

Stays == \A c \in Clients :
  claims[c] # Nobody /\ Exists(claims[c]) => claims'[c] \in {claims[c], Nobody}

(* No step moves a registered tracker from one entry to another: only      *)
(* Register writes an owner, and the claim it acts on is the registered    *)
(* owner's.                                                                *)
LEMMA RegisteredStays == IInv /\ [Next]_vars => Kept
<1> SUFFICES ASSUME IInv, [Next]_vars PROVE Kept
  OBVIOUS
<1>1. CASE UNCHANGED registry
  BY <1>1 DEF Kept
<1>2. ASSUME NEW e \in Entries, Delete(e) PROVE Kept
  BY <1>2 DEF Delete, Kept
<1>3. ASSUME NEW e \in Entries, NEW c \in Clients, Register(e, c) PROVE Kept
  <2>1. claims[c] = e /\ Running(e) /\ e # Nobody
    BY <1>3, ClaimsAssumption DEF IInv, Register, HeldIsClaimed, AddingIsKnown
  <2>2. registry[c] # Nobody => registry[c] = e
    BY <2>1 DEF IInv, ClaimAgrees, Agrees, Running, Exists
  <2> QED BY <1>3, <2>2 DEF Register, IInv, TypeOK, Kept
<1>4. ASSUME NEW c \in Clients, Forget(c) PROVE Kept
  BY <1>4 DEF Forget, IInv, TypeOK, Kept
<1> QED BY <1>1, <1>2, <1>3, <1>4
        DEF Next, vars, Create, Setup, HookUp, Poll, Unload, Restart, Kept

(* No step hands the claim of an entry that exists to another entry: the   *)
(* trackers that Setup takes without asking are registered to it, and then *)
(* a claim of another living entry would contradict the registry.          *)
LEMMA ClaimStays == IInv /\ [Next]_vars => Stays
<1> USE DEF Stays
<1>1. ASSUME IInv, NEW t \in [Clients -> Entries \cup {Nobody}],
             NEW k \in [Entries -> SUBSET Clients], NEW s \in [Entries -> SUBSET Clients],
             NEW line \in Seq(Entries), AddNew(t, k, s, line),
             \A c \in Clients : claims[c] # Nobody /\ Exists(claims[c]) => t[c] = claims[c]
      PROVE  Stays
  <2>1. \A c \in Clients : claims'[c] = Claimed(c, t, k, s, line)
    BY <1>1 DEF AddNew
  <2> QED BY <1>1, <2>1, ClaimedFacts DEF IInv
<1>2. ASSUME IInv, [Next]_vars PROVE Stays
  <2>1. CASE UNCHANGED claims
    BY <2>1
  <2>2. ASSUME NEW e \in Entries, Setup(e) PROVE Stays
    <3> DEFINE owned == {d \in Clients : registry[d] = e}
               t == [c \in Clients |-> IF c \in owned THEN e ELSE claims[c]]
               k == [known EXCEPT ![e] = owned]
    <3>1. PICK list \in SUBSET Clients : AddNew(t, k, [sees EXCEPT ![e] = list], <<e>>)
      BY <2>2 DEF Setup
    <3> DEFINE s == [sees EXCEPT ![e] = list]
    <3>2. /\ t \in [Clients -> Entries \cup {Nobody}] /\ k \in [Entries -> SUBSET Clients]
          /\ s \in [Entries -> SUBSET Clients] /\ <<e>> \in Seq(Entries)
      BY <1>2 DEF IInv, TypeOK
    <3>3. \A c \in Clients : claims[c] # Nobody /\ Exists(claims[c]) => t[c] = claims[c]
      BY <1>2, ClaimsAssumption DEF IInv, ClaimAgrees, Agrees
    <3>4. AddNew(t, k, s, <<e>>)
      BY <3>1
    <3> HIDE DEF t, k, s
    <3> QED BY <1>1, <1>2, <3>2, <3>3, <3>4
  <2>3. ASSUME NEW e \in Entries, HookUp(e) \/ Poll(e) PROVE Stays
    <3>1. PICK s \in [Entries -> SUBSET Clients] : AddNew(claims, known, s, order)
      BY <1>2, <2>3 DEF IInv, TypeOK, HookUp, Poll
    <3> QED BY <1>1, <1>2, <3>1 DEF IInv, TypeOK
  <2>4. ASSUME NEW e \in Entries, Unload(e) \/ Delete(e) PROVE Stays
    BY <2>4 DEF Unload, Delete, Released
  <2>5. CASE Restart
    BY <2>5 DEF Restart
  <2> QED BY <1>2, <2>1, <2>2, <2>3, <2>4, <2>5 DEF Next, vars, Create, Register, Forget
<1> QED BY <1>2

(* Neither the registered owner of a tracker nor the claim of an entry     *)
(* that exists is taken by another entry.                                  *)
THEOREM OwnerKeeps == Spec => OwnerKeepsTracker
<1>1. IInv /\ [Next]_vars => [Kept /\ Stays]_vars
  BY RegisteredStays, ClaimStays
<1>2. (Kept /\ Stays) <=>
        \A c \in Clients :
          /\ registry[c] # Nobody /\ registry'[c] # Nobody => registry'[c] = registry[c]
          /\ claims[c] # Nobody /\ Exists(claims[c]) => claims'[c] \in {claims[c], Nobody}
  BY DEF Kept, Stays
<1> QED BY <1>1, <1>2, InitIInv, NextIInv, PTL DEF Spec, OwnerKeepsTracker

-----------------------------------------------------------------------------
(* Listed clients do not stay unowned.  What a fair scheduler does is the  *)
(* hypothesis of the theorems, since ENABLED is beyond the prover.         *)

\* a registered owner is an entry that exists, and the entries that run are connected
OwnersExist == \A c \in Clients : registry[c] # Nobody => Exists(registry[c])
RunningStands == \A e \in Entries : Running(e) => Stands(e, order)

LInv == IInv /\ OwnersExist /\ RunningStands

LEMMA InitLInv == Init => LInv
<1>1. Init => OwnersExist /\ RunningStands
  BY DEF Init, OwnersExist, RunningStands, Running
<1> QED BY <1>1, InitIInv DEF LInv

LEMMA NextLInv == LInv /\ [Next]_vars => LInv'
<1> SUFFICES ASSUME LInv, [Next]_vars PROVE LInv'
  OBVIOUS
<1>1. IInv /\ IInv'
  BY NextIInv DEF LInv
<1>2. /\ registry \in [Clients -> Entries \cup {Nobody}] /\ order \in Seq(Entries)
      /\ stage \in [Entries -> Stages]
  BY <1>1 DEF IInv, TypeOK
<1>3. OwnersExist /\ RunningStands
  BY DEF LInv
<1> DEFINE Goal == OwnersExist' /\ RunningStands'
<1>4. ASSUME UNCHANGED vars PROVE Goal
  BY <1>3, <1>4 DEF vars, OwnersExist, RunningStands, Exists, Running
<1>5. ASSUME NEW e \in Entries, Create(e) PROVE Goal
  BY <1>2, <1>3, <1>5, ClaimsAssumption DEF Create, OwnersExist, RunningStands, Exists, Running
<1>6. ASSUME NEW e \in Entries, Setup(e) PROVE Goal
  <2>1. /\ stage' = [stage EXCEPT ![e] = "added"] /\ stage[e] = "unloaded"
        /\ order' = Append(order, e) /\ UNCHANGED registry
    BY <1>6 DEF Setup
  <2>2. OwnersExist'
    BY <1>2, <1>3, <2>1, ClaimsAssumption DEF OwnersExist, Exists
  <2>3. RunningStands'
    BY <1>2, <1>3, <2>1, AppendLine DEF RunningStands, Running
  <2> QED BY <2>2, <2>3
<1>7. ASSUME NEW e \in Entries, HookUp(e) \/ Poll(e) PROVE Goal
  <2>1. /\ UNCHANGED <<registry, order>> /\ stage[e] \in {"added", "loaded"}
        /\ stage' = [stage EXCEPT ![e] = "loaded"]
    BY <1>2, <1>7 DEF HookUp, Poll
  <2> QED BY <1>2, <1>3, <2>1, ClaimsAssumption
          DEF OwnersExist, RunningStands, Exists, Running
<1>8. ASSUME NEW e \in Entries, Unload(e) \/ Delete(e) PROVE Goal
  <2>1. /\ order' = Without(order, e) /\ stage'[e] \in {"unloaded", "deleted"}
        /\ \A f \in Entries \ {e} : stage'[f] = stage[f]
        /\ \A c \in Clients : \/ registry'[c] = Nobody
                              \/ registry'[c] = registry[c] /\ registry[c] # e
                              \/ registry'[c] = registry[c] /\ Exists(e)'
    BY <1>2, <1>8 DEF Unload, Delete, Gone, Exists
  <2>2. OwnersExist'
    BY <1>2, <1>3, <2>1 DEF OwnersExist, Exists
  <2>3. ASSUME NEW f \in Entries, Running(f)' PROVE Stands(f, order')
    <3>1. f # e /\ Running(f)
      BY <2>1, <2>3 DEF Running
    <3> QED BY <1>2, <1>3, <2>1, <3>1, WithoutKeeps DEF RunningStands
  <2> QED BY <2>2, <2>3 DEF RunningStands
<1>9. ASSUME NEW e \in Entries, NEW c \in Clients, Register(e, c) PROVE Goal
  <2>1. Exists(e)
    BY <1>1, <1>9 DEF IInv, Register, HeldIsClaimed, AddingIsKnown, Running, Exists
  <2> QED BY <1>2, <1>3, <1>9, <2>1
          DEF Register, OwnersExist, RunningStands, Exists, Running
<1>10. ASSUME NEW c \in Clients, Forget(c) PROVE Goal
  BY <1>2, <1>3, <1>10 DEF Forget, OwnersExist, RunningStands, Exists, Running
<1>11. ASSUME Restart PROVE Goal
  BY <1>2, <1>3, <1>11, ClaimsAssumption
     DEF Restart, OwnersExist, RunningStands, Exists, Running
<1> QED BY <1>1, <1>4, <1>5, <1>6, <1>7, <1>8, <1>9, <1>10, <1>11 DEF Next, LInv

(* When every connected _add_new has run, each listed client is some       *)
(* living entry's: nobody's claim, and that of an entry that is gone, are  *)
(* taken over.                                                             *)
LEMMA DispatchTakesOver ==
  ASSUME LInv, NEW e \in Entries, HookUp(e) \/ Poll(e), NEW c \in Clients
  PROVE  ~(Unowned(c) /\ Listed(c))'
<1>1. PICK s \in [Entries -> SUBSET Clients] :
        AddNew(claims, known, s, order) /\ sees' = s
  BY DEF LInv, IInv, TypeOK, HookUp, Poll
<1>2. /\ claims \in [Clients -> Entries \cup {Nobody}] /\ order \in Seq(Entries)
      /\ registry \in [Clients -> Entries \cup {Nobody}]
      /\ known \in [Entries -> SUBSET Clients] /\ stage \in [Entries -> Stages]
  BY DEF LInv, IInv, TypeOK
<1>3. \A f \in Entries : (Exists(f)' <=> Exists(f)) /\ (Running(f)' <=> Running(f))
  BY <1>2 DEF HookUp, Poll, Exists, Running
<1> DEFINE Owned == claims'[c] \in Entries /\ claims'[c] # Nobody /\ Exists(claims'[c])
<1> SUFFICES ASSUME NEW f \in Entries, stage'[f] = "loaded", c \in sees'[f], c \notin known'[f]
             PROVE  Owned
  <2>1. Owned => ~Unowned(c)'
    <3> SUFFICES ASSUME Owned PROVE ~Unowned(c)'
      OBVIOUS
    <3>1. PICK o \in Entries : o = claims'[c]
      OBVIOUS
    <3>2. stage'[o] \notin {"new", "deleted"}
      BY <1>3, <3>1 DEF Exists
    <3> QED BY <3>1, <3>2 DEF Unowned, Exists
  <2> QED BY <2>1 DEF Listed
<1>4. Stands(f, order) /\ c \notin known[f]
  BY <1>1, <1>3 DEF LInv, RunningStands, Running, AddNew
<1> DEFINE offers == Offers(c, known, s, order)
<1>5. /\ offers # {} /\ offers \in SUBSET Nat
      /\ \A i \in offers : order[i] \in Entries /\ Stands(order[i], order)
  BY <1>1, <1>2, <1>4 DEF Offers, Stands
<1>6. FirstOffer(c, known, s, order) \in {order[i] : i \in offers}
  <2> HIDE DEF offers
  <2>1. \E i \in offers : \A j \in offers : i <= j
    BY <1>5, LeastNat
  <2> QED BY <2>1 DEF FirstOffer, offers
<1>7. LET o == FirstOffer(c, known, s, order)
      IN  o \in Entries /\ o # Nobody /\ Exists(o)
  BY <1>5, <1>6, ClaimsAssumption DEF LInv, IInv, LineIsLive, Running, Exists
<1>8. claims'[c] = Claimed(c, claims, known, s, order)
  BY <1>1 DEF AddNew
<1> QED
  BY <1>2, <1>5, <1>7, <1>8, ClaimsAssumption DEF Claimed, LInv, OwnersExist

\* routers go on being polled, or set up
Dispatch == \E e \in Entries : HookUp(e) \/ Poll(e)

(* As long as some router goes on being polled, no listed client stays     *)
(* unowned, whatever entries were deleted while they were not loaded.      *)
THEOREM ListedAreTaken == Spec /\ []<><<Dispatch>>_vars => StaleClaimTakenOver
<1>1. ASSUME NEW c \in Clients
      PROVE  Spec /\ []<><<Dispatch>>_vars
               => ((Unowned(c) /\ Listed(c)) ~> ~(Unowned(c) /\ Listed(c)))
  <2>1. LInv /\ <<Dispatch>>_vars => (~(Unowned(c) /\ Listed(c)))'
    BY DispatchTakesOver DEF Dispatch
  <2> QED BY <2>1, InitLInv, NextLInv, PTL DEF Spec
<1> QED BY <1>1 DEF StaleClaimTakenOver
=============================================================================
