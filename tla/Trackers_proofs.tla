--------------------------- MODULE Trackers_proofs --------------------------
(***************************************************************************)
(* Proofs about Trackers, for every number of routers, every set of        *)
(* clients and every schedule of polls.  The argument: a good router with  *)
(* no poll in flight has published its last poll, so a tracker that still  *)
(* waits for it either sees a poll in flight or asks for one, in the same  *)
(* step in which it looks.                                                 *)
(* Then that Trackers implements Presence, that a tracker shows what was   *)
(* published, and (module Roaming) that a client which moves once is not   *)
(* shown not_home.                                                         *)
(***************************************************************************)
EXTENDS Roaming, Lines_proofs

\* a good router without a poll in flight has published the last one started
IdleIsCurrent ==
  \A r \in Routers : poll[r] = "idle" /\ ok[r] => data_poll[r] = polls_started[r]

DataIsPast == \A r \in Routers : data_poll[r] <= polls_started[r]

\* only a failed poll ends the schedule
HaltedIsFailed == \A r \in Routers : halted[r] => ~ok[r]

\* the snapshot w was taken of a coordinator object the entry had or has
IsPast(w) ==
  /\ w.gen <= gen[w.router]
  /\ entry[w.router] = "first" => w.gen < gen[w.router]
  /\ w.router \in Coordinators /\ w.gen = gen[w.router] => w.started <= polls_started[w.router]

SnapshotsArePast == \A c \in Clients : \A w \in confirming[c] : IsPast(w)

\* only a tracker that is added waits
GoneWaitsForNothing == \A c \in Clients : ~Connected(c) => confirming[c] = {}

\* what makes the tracker look again, for one awaited poll
Driven(w) ==
  \/ w.router \in asked
  \/ timer[w.router] = "again"
  \/ poll[w.router] # "idle"
  \/ entry[w.router] # "loaded"
  \/ requested[w.router]

IInv ==
  /\ TypeOK
  /\ IdleIsCurrent
  /\ DataIsPast
  /\ HaltedIsFailed
  /\ SnapshotsArePast
  /\ GoneWaitsForNothing
  /\ WaitingIsDriven

\* the part of TypeOK that is about the routers
RouterTypes ==
  /\ where \in [Clients -> Routers \cup {NoRouter}]
  /\ running \in BOOLEAN
  /\ entry \in [Routers -> Stages]
  /\ gen \in [Routers -> Nat]
  /\ poll \in [Routers -> {"idle", "sent", "read"}]
  /\ requested \in [Routers -> BOOLEAN]
  /\ timer \in [Routers -> {"off", "cool", "again"}]
  /\ got \in [Routers -> SUBSET Clients]
  /\ data \in [Routers -> SUBSET Clients]
  /\ ok \in [Routers -> BOOLEAN]
  /\ halted \in [Routers -> BOOLEAN]
  /\ polls_started \in [Routers -> Nat]
  /\ data_poll \in [Routers -> Nat]

Snapshots == [router: Routers, gen: Nat, started: Nat]

-----------------------------------------------------------------------------
(* Among finitely many routers one beats the others.                       *)
Best(on, c) ==
  \E r \in on : \A q \in on :
    Level(r, c) > Level(q, c) \/ (Level(r, c) = Level(q, c) /\ r <= q)

LEMMA BestExists ==
  ASSUME NEW c \in Clients, NEW on \in SUBSET Routers, on # {}
  PROVE  Best(on, c)
<1> DEFINE Bad == {n \in 0..N : \E s \in SUBSET (1..n) : s # {} /\ ~Best(s, c)}
<1>1. N \in Nat \ {0} /\ on \in SUBSET (1..N)
  BY TrackersAssumption DEF Routers
<1>2. \A r \in 1..N : Level(r, c) \in Int
  BY TrackersAssumption DEF Level, Routers
<1>3. Bad = {}
  <2> SUFFICES ASSUME Bad # {} PROVE FALSE
    OBVIOUS
  <2>1. Bad \in SUBSET Nat
    BY <1>1
  <2>2. PICK n \in Bad : \A m \in Bad : n <= m
    <3> HIDE DEF Bad
    <3> QED BY <2>1, LeastNat
  <2>3. n \in 0..N
    BY <2>2
  <2>4. PICK s \in SUBSET (1..n) : s # {} /\ ~Best(s, c)
    BY <2>2
  <2>5. n # 0
    <3>1. 1..0 = {}
      OBVIOUS
    <3> QED BY <2>4, <3>1
  <2>6. n - 1 \in 0..N /\ n - 1 \notin Bad
    <3>1. n - 1 \in 0..N /\ ~(n <= n - 1)
      BY <1>1, <2>3, <2>5
    <3> HIDE DEF Bad
    <3> QED BY <2>2, <3>1
  <2>7. \A t \in SUBSET (1..(n - 1)) : t # {} => Best(t, c)
    BY <2>6
  <2>8. s \ {n} \in SUBSET (1..(n - 1))
    BY <2>3, <2>5
  <2>9. CASE s \ {n} = {}
    <3>0. s = {n}
      BY <2>4, <2>9
    <3>1. s = {n} /\ n \in 1..N
      BY <1>1, <2>3, <2>5, <3>0
    <3>2. Best({n}, c)
      BY <1>2, <3>1 DEF Best
    <3> QED BY <2>4, <3>1, <3>2
  <2>10. CASE s \ {n} # {}
    <3>1. PICK b \in s \ {n} : \A q \in s \ {n} :
            Level(b, c) > Level(q, c) \/ (Level(b, c) = Level(q, c) /\ b <= q)
      BY <2>7, <2>8, <2>10 DEF Best
    <3>2. /\ s \in SUBSET (1..N) /\ b \in 1..N /\ b < n /\ n \in 1..N
          /\ Level(b, c) \in Int /\ Level(n, c) \in Int
      BY <1>1, <1>2, <2>3, <2>4, <2>5, <2>8
    <3>3. CASE Level(n, c) > Level(b, c) /\ n \in s
      <4>1. \A q \in s : q # n => Level(n, c) > Level(q, c)
        BY <1>2, <3>1, <3>2, <3>3
      <4> QED BY <2>4, <3>2, <3>3, <4>1 DEF Best
    <3>4. CASE ~(Level(n, c) > Level(b, c)) \/ n \notin s
      <4>1. \A q \in s : Level(b, c) > Level(q, c) \/ (Level(b, c) = Level(q, c) /\ b <= q)
        BY <3>1, <3>2, <3>4
      <4> QED BY <2>4, <3>2, <4>1 DEF Best
    <3> QED BY <3>3, <3>4
  <2> QED BY <2>9, <2>10
<1>4. N \notin Bad /\ N \in 0..N
  BY <1>1, <1>3
<1> QED BY <1>1, <1>4

LEMMA ConnectedOnHolds ==
  ASSUME NEW c \in Clients
  PROVE  LET on == {r \in Coordinators' : c \in data'[r]}
         IN  IF on = {} THEN ConnectedOn(c) = NoRouter ELSE ConnectedOn(c) \in on
<1> DEFINE on == {r \in Coordinators' : c \in data'[r]}
           beats(r, q) == Level(r, c) > Level(q, c) \/ (Level(r, c) = Level(q, c) /\ r <= q)
<1>1. on \in SUBSET Routers
  BY DEF Coordinators
<1>2. CASE on = {}
  BY <1>2 DEF ConnectedOn
<1>3. CASE on # {}
  <2>1. \E r \in on : \A q \in on : beats(r, q)
    <3> HIDE DEF on
    <3> QED BY <1>1, <1>3, BestExists DEF Best
  <2>2. ConnectedOn(c) = CHOOSE r \in on : \A q \in on : beats(r, q)
    BY <1>3 DEF ConnectedOn
  <2>3. (CHOOSE r \in on : \A q \in on : beats(r, q)) \in on
    <3> HIDE DEF on, beats
    <3> QED BY <2>1
  <2> QED BY <1>3, <2>2, <2>3
<1> QED BY <1>2, <1>3

LEMMA ConnectedOnType ==
  ASSUME NEW c \in Clients
  PROVE  ConnectedOn(c) \in Routers \cup {NoRouter}
BY ConnectedOnHolds DEF Coordinators

LEMMA SnapshotType ==
  ASSUME TypeOK, RouterTypes', NEW c \in Clients
  PROVE  /\ Snapshot(c) \in SUBSET Snapshots
         /\ Pending(c) \in SUBSET Snapshot(c)
<1>1. confirming[c] \in SUBSET Snapshots
  BY DEF TypeOK, Snapshots
<1>2. \A r \in Routers : gen'[r] \in Nat /\ polls_started'[r] \in Nat
  BY DEF RouterTypes
<1>3. Coordinators' \in SUBSET Routers
  BY DEF Coordinators
<1>4. {[router |-> r, gen |-> gen'[r], started |-> polls_started'[r]] :
          r \in (Coordinators' \ {seen[c]})} \in SUBSET Snapshots
  BY <1>2, <1>3 DEF Snapshots
<1> QED BY <1>1, <1>4 DEF Snapshot, Pending

(* A refresh of the trackers in T, after whatever the routers did in the   *)
(* same step, leaves every tracker's waiting driven.                       *)
LEMMA RefreshKeeps ==
  ASSUME TypeOK, RouterTypes', IdleIsCurrent', HaltedIsFailed',
         NEW T \in SUBSET Clients, NEW queued \in SUBSET Routers,
         NEW dropped \in SUBSET Routers, \A q \in dropped : requested'[q],
         Refresh(T, queued, dropped),
         \A c \in Clients : \A w \in confirming[c] : IsPast(w)',
         \A c \in Clients : ~Connected(c)' => c \notin T /\ confirming[c] = {},
         \A c \in Clients \ T : \A w \in confirming[c] :
           WaitedFor(w)' => \/ w.router \in queued
                            \/ timer'[w.router] = "again"
                            \/ poll'[w.router] # "idle"
                            \/ entry'[w.router] # "loaded"
                            \/ requested'[w.router]
  PROVE  TypeOK' /\ SnapshotsArePast' /\ GoneWaitsForNothing' /\ WaitingIsDriven'
<1>1. \A c \in Clients : confirming[c] \in SUBSET Snapshots
  BY DEF TypeOK, Snapshots
<1>2. \A c \in Clients :
        /\ c \notin T => confirming'[c] = confirming[c]
        /\ c \in T => confirming'[c] = IF Pending(c) = {} THEN {} ELSE Snapshot(c)
  BY DEF Refresh
<1>3. \A c \in Clients : confirming'[c] \in SUBSET Snapshots
  BY <1>1, <1>2, SnapshotType
<1>4. seen' \in [Clients -> Routers \cup {NoRouter}]
  BY ConnectedOnType DEF Refresh, TypeOK
<1>5. confirming' \in [Clients -> SUBSET Snapshots]
  BY <1>3 DEF Refresh
<1>6. \A w \in UNION {Pending(c) : c \in T} : w.router \in Routers
  BY SnapshotType DEF Snapshots
<1>7. asked' \in SUBSET Routers
  BY <1>6 DEF Refresh, ToAsk
<1>8. TypeOK'
  BY <1>4, <1>5, <1>7 DEF TypeOK, RouterTypes, Snapshots
<1>9. SnapshotsArePast'
  <2> SUFFICES ASSUME NEW c \in Clients, NEW w \in confirming'[c] PROVE IsPast(w)'
    BY DEF SnapshotsArePast
  <2>1. CASE w \in confirming[c]
    BY <2>1
  <2>2. CASE w \notin confirming[c]
    <3>1. c \in T /\ w \in Snapshot(c) /\ confirming[c] = {}
      BY <1>2, <2>2 DEF Snapshot
    <3>2. PICK r \in Coordinators' : w = [router |-> r, gen |-> gen'[r],
                                          started |-> polls_started'[r]]
      BY <3>1 DEF Snapshot
    <3>3. r \in Routers /\ entry'[r] # "first"
      BY DEF Coordinators, HasRuntimeData
    <3>4. gen'[r] \in Nat /\ polls_started'[r] \in Nat
      BY <3>3 DEF RouterTypes
    <3> QED BY <3>2, <3>3, <3>4 DEF IsPast
  <2> QED BY <2>1, <2>2
<1>10. GoneWaitsForNothing'
  BY <1>2 DEF GoneWaitsForNothing
<1>11. WaitingIsDriven'
  <2> SUFFICES ASSUME NEW c \in Clients, NEW w \in confirming'[c], WaitedFor(w)'
               PROVE  Driven(w)'
    BY <1>3 DEF WaitingIsDriven, Driven, WaitedFor, HaltedIsFailed, Snapshots
  <2>1. CASE c \notin T
    <3>1. w \in confirming[c] /\ c \in Clients \ T
      BY <1>2, <2>1
    <3>2. queued \subseteq asked' \cup dropped
      BY DEF Refresh
    <3> QED BY <3>1, <3>2 DEF Driven
  <2>2. CASE c \in T
    <3>1. Pending(c) # {} /\ w \in Snapshot(c)
      BY <1>2, <2>2
    <3>2. w \in Pending(c)
      BY <3>1 DEF Pending
    <3>3. CASE Unstarted(w)'
      <4>1. w.router \in asked' \/ w.router \in dropped
        BY <2>2, <3>2, <3>3 DEF Refresh, ToAsk
      <4> QED BY <4>1 DEF Driven
    <3>4. CASE ~Unstarted(w)'
      <4>1. /\ w.router \in Routers /\ w.started \in Nat
            /\ polls_started'[w.router] \in Nat /\ data_poll'[w.router] \in Nat
        BY <1>3 DEF RouterTypes, Snapshots
      <4>2. ok'[w.router] /\ ~(data_poll'[w.router] > w.started)
        BY DEF WaitedFor
      <4>3. ~(polls_started'[w.router] <= w.started)
        BY <3>4 DEF Unstarted
      <4>4. poll'[w.router] # "idle"
        BY <4>1, <4>2, <4>3 DEF IdleIsCurrent
      <4> QED BY <4>4 DEF Driven
    <3> QED BY <3>3, <3>4
  <2> QED BY <2>1, <2>2
<1> QED BY <1>8, <1>9, <1>10, <1>11

\* a step that leaves the trackers alone is a refresh of none
LEMMA QuietIsRefresh ==
  ASSUME TypeOK, UNCHANGED <<seen, confirming>>, NEW queued, asked' = queued
  PROVE  Refresh({}, queued, {})
BY DEF TypeOK, Refresh, ToAsk

\* the snapshots stay in the past when only polls start and end
LEMMA PastStays ==
  ASSUME IInv, RouterTypes', UNCHANGED <<entry, gen>>,
         \A r \in Routers : polls_started[r] <= polls_started'[r]
  PROVE  /\ \A c \in Clients : \A w \in confirming[c] : IsPast(w)'
         /\ \A c \in Clients : Connected(c)' <=> Connected(c)
<1>1. \A c \in Clients : \A w \in confirming[c] : w.router \in Routers /\ w.started \in Nat
  BY DEF IInv, TypeOK
<1>2. \A r \in Routers : polls_started[r] \in Nat /\ polls_started'[r] \in Nat
  BY DEF IInv, TypeOK, RouterTypes
<1>3. \A c \in Clients : \A w \in confirming[c] : IsPast(w)'
  BY <1>1, <1>2 DEF IInv, SnapshotsArePast, IsPast, Coordinators
<1> QED BY <1>3 DEF Connected

\* no request is dropped
LEMMA NoneDropped == {} \in SUBSET Routers /\ \A q \in {} : requested'[q]
OBVIOUS

(* A step of router r in which no entry changes, and whose end the added   *)
(* trackers hear of or which leaves what they wait for under way.          *)
LEMMA PollStepKeeps ==
  ASSUME IInv, RouterTypes', UNCHANGED <<entry, gen>>,
         IdleIsCurrent', DataIsPast', HaltedIsFailed',
         \A r \in Routers : polls_started[r] <= polls_started'[r],
         NEW T \in SUBSET Clients, NEW queued \in SUBSET Routers,
         NEW dropped \in SUBSET Routers, \A q \in dropped : requested'[q],
         Refresh(T, queued, dropped),
         \A c \in T : Connected(c),
         \A c \in Clients \ T : \A w \in confirming[c] :
           WaitedFor(w)' => \/ w.router \in queued
                            \/ timer'[w.router] = "again"
                            \/ poll'[w.router] # "idle"
                            \/ entry'[w.router] # "loaded"
                            \/ requested'[w.router]
  PROVE  IInv'
<1>1. /\ \A c \in Clients : \A w \in confirming[c] : IsPast(w)'
      /\ \A c \in Clients : Connected(c)' <=> Connected(c)
  BY PastStays
<1>2. \A c \in Clients : ~Connected(c)' => c \notin T /\ confirming[c] = {}
  BY <1>1 DEF IInv, GoneWaitsForNothing
<1>3. TypeOK' /\ SnapshotsArePast' /\ GoneWaitsForNothing' /\ WaitingIsDriven'
  BY <1>1, <1>2, RefreshKeeps DEF IInv
<1> QED BY <1>3 DEF IInv

\* the trackers that hear of an update of r
Hear(r) == IF entry[r] = "loaded" THEN Trackers ELSE {}

LEMMA HearConnected ==
  ASSUME NEW r \in Routers
  PROVE  /\ Hear(r) \in SUBSET Clients /\ \A c \in Hear(r) : Connected(c)
         /\ entry[r] = "loaded" => \A c \in Clients : Connected(c) => c \in Hear(r)
BY DEF Hear, Trackers

-----------------------------------------------------------------------------
LEMMA InitIInv == Init => IInv
<1> SUFFICES ASSUME Init PROVE IInv
  OBVIOUS
<1>1. TypeOK
  BY DEF Init, TypeOK, Stages, NoRouter
<1>2. IdleIsCurrent /\ DataIsPast /\ HaltedIsFailed
  BY DEF Init, IdleIsCurrent, DataIsPast, HaltedIsFailed
<1>3. SnapshotsArePast /\ GoneWaitsForNothing /\ WaitingIsDriven
  BY DEF Init, SnapshotsArePast, GoneWaitsForNothing, WaitingIsDriven
<1> QED BY <1>1, <1>2, <1>3 DEF IInv

LEMMA MoveIInv ==
  ASSUME IInv, NEW c \in Clients, NEW r \in Routers \cup {NoRouter}, Move(c, r) PROVE IInv'
<1> USE DEF IInv, Move, rvars, tvars
<1>1. TypeOK'
  BY DEF TypeOK
<1>2. IdleIsCurrent' /\ DataIsPast' /\ HaltedIsFailed'
  BY DEF IdleIsCurrent, DataIsPast, HaltedIsFailed
<1>3. SnapshotsArePast' /\ GoneWaitsForNothing'
  BY DEF SnapshotsArePast, GoneWaitsForNothing, IsPast, Connected, Coordinators
<1>4. WaitingIsDriven'
  BY DEF WaitingIsDriven, WaitedFor, Coordinators
<1> QED BY <1>1, <1>2, <1>3, <1>4

LEMMA StutterIInv == IInv /\ UNCHANGED vars => IInv'
<1> SUFFICES ASSUME IInv, UNCHANGED vars PROVE IInv'
  OBVIOUS
<1> USE DEF IInv, vars, rvars, tvars
<1>1. TypeOK'
  BY DEF TypeOK
<1>2. IdleIsCurrent' /\ DataIsPast' /\ HaltedIsFailed'
  BY DEF IdleIsCurrent, DataIsPast, HaltedIsFailed
<1>3. SnapshotsArePast' /\ GoneWaitsForNothing'
  BY DEF SnapshotsArePast, GoneWaitsForNothing, IsPast, Connected, Coordinators
<1>4. WaitingIsDriven'
  BY DEF WaitingIsDriven, WaitedFor, Coordinators
<1> QED BY <1>1, <1>2, <1>3, <1>4

LEMMA HAStartedIInv == IInv /\ HAStarted => IInv'
<1> SUFFICES ASSUME IInv, HAStarted PROVE IInv'
  OBVIOUS
<1>1. /\ UNCHANGED <<entry, gen, poll, requested, timer, ok, halted, polls_started,
                     data_poll>>
      /\ Refresh(Trackers, asked, {})
  BY DEF HAStarted, rvars
<1>2. RouterTypes'
  BY DEF HAStarted, rvars, IInv, TypeOK, RouterTypes
<1>3. IdleIsCurrent' /\ DataIsPast' /\ HaltedIsFailed'
  BY <1>1 DEF IInv, IdleIsCurrent, DataIsPast, HaltedIsFailed
<1>4. \A r \in Routers : polls_started[r] <= polls_started'[r]
  BY <1>1 DEF IInv, TypeOK
<1>5. /\ Trackers \in SUBSET Clients /\ \A c \in Trackers : Connected(c)
      /\ \A c \in Clients \ Trackers : confirming[c] = {}
      /\ asked \in SUBSET Routers
  BY DEF Trackers, IInv, GoneWaitsForNothing, TypeOK
<1> QED BY <1>1, <1>2, <1>3, <1>4, <1>5, NoneDropped, PollStepKeeps

LEMMA SendIInv ==
  ASSUME IInv, NEW r \in Routers, NEW byRequest \in BOOLEAN, NEW queued \in SUBSET Routers,
         Send(r, byRequest), asked' = queued, asked \subseteq queued \cup {r}
  PROVE  IInv'
<1> USE DEF Send
<1>1. RouterTypes' /\ UNCHANGED <<entry, gen>>
  BY DEF IInv, TypeOK, RouterTypes
<1>2. IdleIsCurrent' /\ HaltedIsFailed'
  BY DEF IInv, TypeOK, IdleIsCurrent, HaltedIsFailed
<1>3. DataIsPast' /\ \A q \in Routers : polls_started[q] <= polls_started'[q]
  BY DEF IInv, TypeOK, DataIsPast
<1>4. Refresh({}, queued, {})
  BY QuietIsRefresh DEF IInv
<1>5. ASSUME NEW c \in Clients, NEW w \in confirming[c], WaitedFor(w)'
      PROVE  \/ w.router \in queued
             \/ timer'[w.router] = "again"
             \/ poll'[w.router] # "idle"
             \/ entry'[w.router] # "loaded"
             \/ requested'[w.router]
  <2>1. w.router \in Routers
    BY DEF IInv, TypeOK
  <2>2. CASE w.router = r
    BY <2>1, <2>2 DEF IInv, TypeOK
  <2>3. CASE w.router # r
    <3>1. WaitedFor(w)
      BY <1>5, <2>1, <2>3 DEF WaitedFor, Coordinators, IInv, TypeOK
    <3>2. Driven(w)
      BY <3>1 DEF IInv, WaitingIsDriven, Driven
    <3> QED BY <2>1, <2>3, <3>2 DEF Driven, IInv, TypeOK
  <2> QED BY <2>2, <2>3
<1> QED BY <1>1, <1>2, <1>3, <1>4, <1>5, NoneDropped, PollStepKeeps

LEMMA SkipIInv ==
  ASSUME IInv, NEW r \in Routers, NEW byRequest \in BOOLEAN, NEW queued \in SUBSET Routers,
         Skip(r, byRequest, queued), asked \subseteq queued \cup {r}
  PROVE  IInv'
<1> USE DEF Skip
<1>1. RouterTypes' /\ UNCHANGED <<entry, gen>>
  BY DEF IInv, TypeOK, RouterTypes
<1>2. IdleIsCurrent' /\ HaltedIsFailed'
  BY DEF IInv, TypeOK, IdleIsCurrent, HaltedIsFailed
<1>3. DataIsPast' /\ \A q \in Routers : polls_started[q] <= polls_started'[q]
  BY DEF IInv, TypeOK, DataIsPast
<1>4. Refresh(Hear(r), queued, {})
  BY DEF Notify, Hear
<1>5. ASSUME NEW c \in Clients \ Hear(r), NEW w \in confirming[c], WaitedFor(w)'
      PROVE  \/ w.router \in queued
             \/ timer'[w.router] = "again"
             \/ poll'[w.router] # "idle"
             \/ entry'[w.router] # "loaded"
             \/ requested'[w.router]
  <2>1. w.router \in Routers
    BY DEF IInv, TypeOK
  <2>2. CASE entry[r] = "loaded"
    <3>1. ~Connected(c)
      BY <2>2, HearConnected
    <3> QED BY <3>1 DEF IInv, GoneWaitsForNothing
  <2>3. CASE w.router = r /\ entry[r] # "loaded"
    BY <2>3
  <2>4. CASE w.router # r
    <3>1. WaitedFor(w)
      BY <1>5, <2>1, <2>4 DEF WaitedFor, Coordinators, IInv, TypeOK
    <3>2. Driven(w)
      BY <3>1 DEF IInv, WaitingIsDriven, Driven
    <3> QED BY <2>1, <2>4, <3>2 DEF Driven, IInv, TypeOK
  <2> QED BY <2>2, <2>3, <2>4
<1> QED BY <1>1, <1>2, <1>3, <1>4, <1>5, NoneDropped, HearConnected, PollStepKeeps

LEMMA StartPollIInv ==
  ASSUME IInv, NEW r \in Routers, NEW byRequest \in BOOLEAN, NEW queued \in SUBSET Routers,
         StartPoll(r, byRequest, queued), asked \subseteq queued \cup {r}
  PROVE  IInv'
BY SendIInv, SkipIInv DEF StartPoll

LEMMA RunRequestIInv == ASSUME IInv, NEW r \in Routers, RunRequest(r) PROVE IInv'
<1>1. asked \in SUBSET Routers /\ asked \subseteq (asked \ {r}) \cup {r}
  BY DEF IInv, TypeOK
<1>2. CASE StartPoll(r, TRUE, asked \ {r})
  BY <1>1, <1>2, StartPollIInv
<1>3. ASSUME asked' = asked \ {r},
             UNCHANGED <<where, running, entry, gen, poll, requested, got, data, ok,
                         halted, polls_started, data_poll, seen, confirming>>,
             \/ timer' = [timer EXCEPT ![r] = "again"]
             \/ poll[r] # "idle" /\ UNCHANGED timer
      PROVE  IInv'
  <2>1. RouterTypes'
    BY <1>3 DEF IInv, TypeOK, RouterTypes
  <2>2. IdleIsCurrent' /\ DataIsPast' /\ HaltedIsFailed' /\ \A q \in Routers : polls_started[q] <= polls_started'[q]
    BY <1>3 DEF IInv, TypeOK, IdleIsCurrent, DataIsPast, HaltedIsFailed
  <2>3. Refresh({}, asked \ {r}, {})
    BY <1>3, QuietIsRefresh DEF IInv
  <2>4. ASSUME NEW c \in Clients, NEW w \in confirming[c], WaitedFor(w)'
        PROVE  \/ w.router \in asked \ {r}
               \/ timer'[w.router] = "again"
               \/ poll'[w.router] # "idle"
               \/ entry'[w.router] # "loaded"
               \/ requested'[w.router]
    <3>1. w.router \in Routers /\ WaitedFor(w)
      BY <1>3, <2>4 DEF IInv, TypeOK, WaitedFor, Coordinators
    <3>2. Driven(w)
      BY <3>1 DEF IInv, WaitingIsDriven, Driven
    <3> QED BY <1>3, <3>1, <3>2 DEF Driven, IInv, TypeOK
  <2> QED BY <1>1, <1>3, <2>1, <2>2, <2>3, <2>4, PollStepKeeps
<1> QED BY <1>2, <1>3 DEF RunRequest, rvars

LEMMA TimerEndIInv == ASSUME IInv, NEW r \in Routers, TimerEnd(r) PROVE IInv'
<1>1. asked \in SUBSET Routers
  BY DEF IInv, TypeOK
<1>2. CASE StartPoll(r, TRUE, asked)
  BY <1>1, <1>2, StartPollIInv
<1>3. ASSUME timer[r] = "cool" \/ poll[r] # "idle",
             timer' = [timer EXCEPT ![r] = "off"],
             UNCHANGED <<where, running, entry, gen, poll, requested, got, data, ok,
                         halted, polls_started, data_poll, tvars>>
      PROVE  IInv'
  <2> USE DEF tvars
  <2>1. RouterTypes'
    BY <1>3 DEF IInv, TypeOK, RouterTypes
  <2>2. IdleIsCurrent' /\ DataIsPast' /\ HaltedIsFailed' /\ \A q \in Routers : polls_started[q] <= polls_started'[q]
    BY <1>3 DEF IInv, TypeOK, IdleIsCurrent, DataIsPast, HaltedIsFailed
  <2>3. Refresh({}, asked, {})
    BY <1>3, QuietIsRefresh DEF IInv
  <2>4. ASSUME NEW c \in Clients, NEW w \in confirming[c], WaitedFor(w)'
        PROVE  \/ w.router \in asked
               \/ timer'[w.router] = "again"
               \/ poll'[w.router] # "idle"
               \/ entry'[w.router] # "loaded"
               \/ requested'[w.router]
    <3>1. w.router \in Routers /\ WaitedFor(w)
      BY <1>3, <2>4 DEF IInv, TypeOK, WaitedFor, Coordinators
    <3>2. Driven(w)
      BY <3>1 DEF IInv, WaitingIsDriven, Driven
    <3> QED BY <1>3, <3>1, <3>2 DEF Driven, IInv, TypeOK
  <2> QED BY <1>1, <1>3, <2>1, <2>2, <2>3, <2>4, PollStepKeeps
<1> QED BY <1>2, <1>3 DEF TimerEnd

LEMMA IntervalPollIInv == ASSUME IInv, NEW r \in Routers, IntervalPoll(r) PROVE IInv'
BY StartPollIInv DEF IntervalPoll, IInv, TypeOK

LEMMA ReadListIInv == ASSUME IInv, NEW r \in Routers, ReadList(r) PROVE IInv'
<1> USE DEF ReadList, tvars
<1>1. RouterTypes'
  BY DEF IInv, TypeOK, RouterTypes
<1>2. IdleIsCurrent' /\ DataIsPast' /\ HaltedIsFailed' /\ \A q \in Routers : polls_started[q] <= polls_started'[q]
  BY DEF IInv, TypeOK, IdleIsCurrent, DataIsPast, HaltedIsFailed
<1>3. Refresh({}, asked, {}) /\ asked \in SUBSET Routers
  BY QuietIsRefresh DEF IInv, TypeOK
<1>4. ASSUME NEW c \in Clients, NEW w \in confirming[c], WaitedFor(w)'
      PROVE  \/ w.router \in asked
             \/ timer'[w.router] = "again"
             \/ poll'[w.router] # "idle"
             \/ entry'[w.router] # "loaded"
             \/ requested'[w.router]
  <2>1. w.router \in Routers /\ WaitedFor(w)
    BY <1>4 DEF IInv, TypeOK, WaitedFor, Coordinators
  <2>2. Driven(w)
    BY <2>1 DEF IInv, WaitingIsDriven, Driven
  <2> QED BY <2>1, <2>2 DEF Driven, IInv, TypeOK
<1> QED BY <1>1, <1>2, <1>3, <1>4, PollStepKeeps

LEMMA FinishFailIInv ==
  ASSUME IInv, NEW r \in Routers, NEW rejected \in BOOLEAN, FinishFail(r, rejected)
  PROVE  IInv'
<1> USE DEF FinishFail, Cooldown, tvars
<1>1. RouterTypes' /\ UNCHANGED <<entry, gen>>
  BY DEF IInv, TypeOK, RouterTypes
<1>2. IdleIsCurrent' /\ DataIsPast' /\ HaltedIsFailed' /\ \A q \in Routers : polls_started[q] <= polls_started'[q]
  BY DEF IInv, TypeOK, IdleIsCurrent, DataIsPast, HaltedIsFailed
<1>3. asked \in SUBSET Routers
  BY DEF IInv, TypeOK
<1>4. ASSUME NEW c \in Clients, NEW w \in confirming[c], WaitedFor(w)',
             c \notin Hear(r) \/ ~ok[r]
      PROVE  \/ w.router \in asked
             \/ timer'[w.router] = "again"
             \/ poll'[w.router] # "idle"
             \/ entry'[w.router] # "loaded"
             \/ requested'[w.router]
  <2>1. w.router \in Routers /\ ok'[w.router]
    BY <1>4 DEF IInv, TypeOK, WaitedFor
  <2>2. w.router # r
    BY <2>1 DEF IInv, TypeOK
  <2>3. WaitedFor(w)
    BY <1>4, <2>1, <2>2 DEF WaitedFor, Coordinators, IInv, TypeOK
  <2>4. Driven(w)
    BY <2>3 DEF IInv, WaitingIsDriven, Driven
  <2> QED BY <2>1, <2>2, <2>4 DEF Driven, IInv, TypeOK
<1>5. Drops(r) \in SUBSET Routers /\ \A q \in Drops(r) : requested'[q]
  BY DEF Drops
<1>6. PICK T \in SUBSET Hear(r) : Refresh(T, asked, Drops(r)) /\ (ok[r] => T = Hear(r))
  BY HearConnected DEF Hear
<1>7. \A c \in Clients \ T : c \notin Hear(r) \/ ~ok[r]
  BY <1>6
<1> QED BY <1>1, <1>2, <1>3, <1>4, <1>5, <1>6, <1>7, HearConnected, PollStepKeeps

\* A list is published: the first one of a set-up also makes the router visible.
LEMMA FinishOkIInv == ASSUME IInv, NEW r \in Routers, FinishOk(r) PROVE IInv'
<1> USE DEF FinishOk, Cooldown
<1>1. RouterTypes'
  BY DEF IInv, TypeOK, RouterTypes, Stages
<1>2. IdleIsCurrent' /\ DataIsPast' /\ HaltedIsFailed'
  BY DEF IInv, TypeOK, IdleIsCurrent, DataIsPast, HaltedIsFailed
<1>3. asked \in SUBSET Routers /\ Refresh(Hear(r), asked, Drops(r))
  BY DEF IInv, TypeOK, Notify, Hear
<1>4. \A q \in Routers : /\ entry'[q] = IF q = r /\ entry[q] = "first" THEN "shown" ELSE entry[q]
                         /\ polls_started'[q] \in Nat
  BY DEF IInv, TypeOK
<1>5. ASSUME NEW c \in Clients, NEW w \in confirming[c] PROVE IsPast(w)'
  <2>1. w.router \in Routers /\ w.gen \in Nat /\ gen[w.router] \in Nat
    BY DEF IInv, TypeOK
  <2>2. IsPast(w)
    BY DEF IInv, SnapshotsArePast
  <2> QED BY <1>4, <2>1, <2>2 DEF IsPast, Coordinators, HasRuntimeData
<1>6. \A c \in Clients : Connected(c)' <=> Connected(c)
  BY <1>4, TrackersAssumption DEF Connected
<1>7. \A c \in Clients : ~Connected(c)' => c \notin Hear(r) /\ confirming[c] = {}
  BY <1>6, HearConnected DEF IInv, GoneWaitsForNothing
<1>8. ASSUME NEW c \in Clients \ Hear(r), NEW w \in confirming[c], WaitedFor(w)'
      PROVE  \/ w.router \in asked
             \/ timer'[w.router] = "again"
             \/ poll'[w.router] # "idle"
             \/ entry'[w.router] # "loaded"
             \/ requested'[w.router]
  <2>1. w.router \in Routers
    BY DEF IInv, TypeOK
  <2>2. CASE entry[r] = "loaded"
    BY <2>2, HearConnected DEF IInv, GoneWaitsForNothing
  <2>3. CASE w.router = r /\ entry[r] # "loaded"
    BY <1>4, <2>3
  <2>4. CASE w.router # r
    <3>1. WaitedFor(w)
      BY <1>4, <1>8, <2>1, <2>4 DEF WaitedFor, Coordinators, IInv, TypeOK
    <3>2. Driven(w)
      BY <3>1 DEF IInv, WaitingIsDriven, Driven
    <3> QED BY <1>4, <2>1, <2>4, <3>2 DEF Driven, IInv, TypeOK
  <2> QED BY <2>2, <2>3, <2>4
<1>9. Drops(r) \in SUBSET Routers /\ \A q \in Drops(r) : requested'[q]
  BY DEF Drops
<1>10. TypeOK' /\ SnapshotsArePast' /\ GoneWaitsForNothing' /\ WaitingIsDriven'
  BY <1>1, <1>2, <1>3, <1>5, <1>7, <1>8, <1>9, HearConnected, RefreshKeeps DEF IInv
<1> QED BY <1>2, <1>10 DEF IInv

(* A set-up begins, or its first refresh fails: the entry's coordinator    *)
(* object is new, or gone, and is not one that a tracker waits for.        *)
LEMMA SetupIInv == ASSUME IInv, NEW r \in Routers, Setup(r) \/ SetupFails(r) PROVE IInv'
<1>1. /\ entry[r] \in {"unloaded", "first"} /\ entry'[r] \in {"unloaded", "first"}
      /\ \A q \in Routers \ {r} :
           /\ entry'[q] = entry[q] /\ gen'[q] = gen[q] /\ poll'[q] = poll[q]
           /\ timer'[q] = timer[q] /\ ok'[q] = ok[q] /\ data_poll'[q] = data_poll[q]
           /\ polls_started'[q] = polls_started[q]
           /\ halted'[q] = halted[q] /\ requested'[q] = requested[q]
      /\ ~halted'[r]
      /\ entry'[r] = "first" => gen'[r] = gen[r] + 1 /\ poll'[r] = "sent"
      /\ entry'[r] = "unloaded" => gen'[r] = gen[r] /\ polls_started'[r] = 0
      /\ data_poll'[r] = 0 /\ UNCHANGED tvars
  BY DEF Setup, SetupFails, Blank, IInv, TypeOK
<1>2. RouterTypes'
  <2> USE DEF Blank, IInv, TypeOK, RouterTypes, Stages
  <2>1. CASE Setup(r)
    <3>1. \A q \in Routers : gen[q] + 1 \in Nat
      OBVIOUS
    <3> QED BY <2>1, <3>1 DEF Setup
  <2>2. CASE SetupFails(r)
    BY <2>2 DEF SetupFails
  <2> QED BY <2>1, <2>2
<1>3. IdleIsCurrent' /\ DataIsPast' /\ HaltedIsFailed'
  BY <1>1, <1>2 DEF IInv, IdleIsCurrent, DataIsPast, HaltedIsFailed, RouterTypes
<1>4. asked \in SUBSET Routers /\ Refresh({}, asked, {})
  BY <1>1, QuietIsRefresh DEF IInv, TypeOK, tvars
<1>5. ASSUME NEW c \in Clients, NEW w \in confirming[c] PROVE IsPast(w)'
  <2>1. w.router \in Routers /\ w.gen \in Nat /\ gen[w.router] \in Nat
    BY DEF IInv, TypeOK
  <2>2. IsPast(w)
    BY DEF IInv, SnapshotsArePast
  <2>3. r \notin Coordinators'
    BY <1>1 DEF Coordinators, HasRuntimeData
  <2>4. CASE w.router = r
    BY <1>1, <2>1, <2>2, <2>3, <2>4 DEF IsPast
  <2>5. CASE w.router # r
    BY <1>1, <2>1, <2>2, <2>5 DEF IsPast, Coordinators
  <2> QED BY <2>4, <2>5
<1>6. \A c \in Clients : ~Connected(c)' => confirming[c] = {}
  BY <1>1, TrackersAssumption DEF Connected, IInv, GoneWaitsForNothing
<1>7. ASSUME NEW c \in Clients, NEW w \in confirming[c], WaitedFor(w)'
      PROVE  \/ w.router \in asked
             \/ timer'[w.router] = "again"
             \/ poll'[w.router] # "idle"
             \/ entry'[w.router] # "loaded"
             \/ requested'[w.router]
  <2>1. w.router \in Routers /\ w.router # r
    BY <1>1, <1>7 DEF IInv, TypeOK, WaitedFor, Coordinators, HasRuntimeData
  <2>2. WaitedFor(w)
    BY <1>1, <1>7, <2>1 DEF WaitedFor, Coordinators
  <2>3. Driven(w)
    BY <2>2 DEF IInv, WaitingIsDriven, Driven
  <2> QED BY <1>1, <2>1, <2>3 DEF Driven
<1>8. TypeOK' /\ SnapshotsArePast' /\ GoneWaitsForNothing' /\ WaitingIsDriven'
  BY <1>2, <1>3, <1>4, <1>5, <1>6, <1>7, RefreshKeeps DEF IInv
<1> QED BY <1>3, <1>8 DEF IInv

(* The trackers of an entry are added, or its listener is: trackers look.  *)
LEMMA AddedIInv == ASSUME IInv, NEW r \in Routers, AddTrackers(r) \/ HookUp(r) PROVE IInv'
<1>1. PICK T \in SUBSET Clients :
        /\ Refresh(T, asked, {})
        /\ entry[r] = "shown" => entry'[r] = "added" /\ T = {c \in Clients : Owner[c] = r}
        /\ entry[r] = "added" => entry'[r] = "loaded" /\ T = Trackers
  <2>1. CASE AddTrackers(r)
    BY <2>1 DEF AddTrackers, IInv, TypeOK
  <2>2. CASE HookUp(r)
    BY <2>2 DEF HookUp, IInv, TypeOK, Trackers
  <2> QED BY <2>1, <2>2
<1>2. /\ entry[r] \in {"shown", "added"}
      /\ \A q \in Routers \ {r} : entry'[q] = entry[q]
      /\ UNCHANGED <<where, running, gen, poll, requested, timer, got, data, ok,
                     halted, polls_started, data_poll>>
      /\ asked \in SUBSET Routers
  BY DEF AddTrackers, HookUp, IInv, TypeOK
<1>3. RouterTypes'
  BY DEF AddTrackers, HookUp, IInv, TypeOK, RouterTypes, Stages
<1>4. IdleIsCurrent' /\ DataIsPast' /\ HaltedIsFailed' /\ Coordinators' = Coordinators
  BY <1>1, <1>2 DEF IInv, IdleIsCurrent, DataIsPast, HaltedIsFailed, Coordinators, HasRuntimeData
<1>5. \A c \in Clients : \A w \in confirming[c] : IsPast(w)'
  <2> SUFFICES ASSUME NEW c \in Clients, NEW w \in confirming[c] PROVE IsPast(w)'
    OBVIOUS
  <2>1. w.router \in Routers /\ IsPast(w)
    BY DEF IInv, TypeOK, SnapshotsArePast
  <2> QED BY <1>1, <1>2, <1>4, <2>1 DEF IsPast
<1>6. \A c \in Clients : ~Connected(c)' => c \notin T /\ confirming[c] = {}
  <2> SUFFICES ASSUME NEW c \in Clients, ~Connected(c)'
               PROVE  c \notin T /\ confirming[c] = {}
    OBVIOUS
  <2>1. Owner[c] \in Routers /\ Owner[c] # r /\ ~Connected(c)
    BY <1>1, <1>2, TrackersAssumption DEF Connected
  <2> QED BY <1>1, <1>2, <2>1 DEF IInv, GoneWaitsForNothing, Trackers
<1>7. ASSUME NEW c \in Clients \ T, NEW w \in confirming[c], WaitedFor(w)'
      PROVE  \/ w.router \in asked
             \/ timer'[w.router] = "again"
             \/ poll'[w.router] # "idle"
             \/ entry'[w.router] # "loaded"
             \/ requested'[w.router]
  <2>1. CASE entry[r] = "shown"
    <3>1. w.router \in Routers /\ WaitedFor(w)
      BY <1>2, <1>4, <1>7 DEF IInv, TypeOK, WaitedFor
    <3>2. Driven(w)
      BY <3>1 DEF IInv, WaitingIsDriven, Driven
    <3> QED BY <1>1, <1>2, <2>1, <3>1, <3>2 DEF Driven
  <2>2. CASE entry[r] = "added"
    BY <1>1, <2>2 DEF Trackers, IInv, GoneWaitsForNothing
  <2> QED BY <1>2, <2>1, <2>2
<1>8. TypeOK' /\ SnapshotsArePast' /\ GoneWaitsForNothing' /\ WaitingIsDriven'
  BY <1>1, <1>2, <1>3, <1>4, <1>5, <1>6, <1>7, RefreshKeeps DEF IInv
<1> QED BY <1>4, <1>8 DEF IInv

LEMMA UnloadIInv == ASSUME IInv, NEW r \in Routers, Unload(r) PROVE IInv'
<1> USE DEF Unload, Blank
<1>1. TypeOK'
  BY DEF IInv, TypeOK, Stages
<1>2. IdleIsCurrent' /\ DataIsPast' /\ HaltedIsFailed'
  BY DEF IInv, TypeOK, IdleIsCurrent, DataIsPast, HaltedIsFailed
<1>3. \A c \in Clients : confirming'[c] = IF Owner[c] = r THEN {} ELSE confirming[c]
  OBVIOUS
<1>4. \A q \in Routers : entry'[q] = IF q = r THEN "unloaded" ELSE entry[q]
  BY DEF IInv, TypeOK
<1>5. SnapshotsArePast'
  <2> SUFFICES ASSUME NEW c \in Clients, NEW w \in confirming'[c] PROVE IsPast(w)'
    BY DEF SnapshotsArePast
  <2>1. w.router \in Routers /\ IsPast(w)
    BY <1>3 DEF IInv, TypeOK, SnapshotsArePast
  <2> QED BY <1>4, <2>1 DEF IsPast, Coordinators, HasRuntimeData, IInv, TypeOK
<1>6. GoneWaitsForNothing'
  BY <1>3, <1>4, TrackersAssumption DEF IInv, GoneWaitsForNothing, Connected
<1>7. WaitingIsDriven'
  <2> SUFFICES ASSUME NEW c \in Clients, NEW w \in confirming'[c], WaitedFor(w)'
               PROVE  Driven(w)'
    BY <1>1, <1>2 DEF WaitingIsDriven, Driven, WaitedFor, HaltedIsFailed, TypeOK
  <2>1. w \in confirming[c] /\ w.router \in Routers
    BY <1>3 DEF IInv, TypeOK
  <2>2. w.router # r
    BY <1>4, <2>1 DEF WaitedFor, Coordinators, HasRuntimeData
  <2>3. WaitedFor(w)
    BY <1>4, <2>1, <2>2 DEF WaitedFor, Coordinators, IInv, TypeOK
  <2>4. Driven(w)
    BY <2>1, <2>3 DEF IInv, WaitingIsDriven, Driven
  <2> QED BY <1>4, <2>1, <2>2, <2>4 DEF Driven, IInv, TypeOK
<1> QED BY <1>1, <1>2, <1>5, <1>6, <1>7 DEF IInv

(* Every step keeps the invariant.                                         *)
LEMMA NextIInv == IInv /\ [Next]_vars => IInv'
<1> SUFFICES ASSUME IInv, [Next]_vars PROVE IInv'
  OBVIOUS
<1>1. ASSUME NEW c \in Clients, NEW r \in Routers \cup {NoRouter}, Move(c, r) PROVE IInv'
  BY <1>1, MoveIInv
<1>2. CASE HAStarted \/ UNCHANGED vars
  BY <1>2, HAStartedIInv, StutterIInv
<1>3. ASSUME NEW r \in Routers, IntervalPoll(r) \/ RunRequest(r) \/ TimerEnd(r) PROVE IInv'
  BY <1>3, IntervalPollIInv, RunRequestIInv, TimerEndIInv
<1>4. ASSUME NEW r \in Routers, NEW rejected \in BOOLEAN,
             ReadList(r) \/ FinishOk(r) \/ FinishFail(r, rejected)
      PROVE  IInv'
  BY <1>4, ReadListIInv, FinishOkIInv, FinishFailIInv
<1>5. ASSUME NEW r \in Routers,
             Setup(r) \/ SetupFails(r) \/ AddTrackers(r) \/ HookUp(r) \/ Unload(r)
      PROVE  IInv'
  BY <1>5, SetupIInv, AddedIInv, UnloadIInv
<1> QED BY <1>1, <1>2, <1>3, <1>4, <1>5 DEF Next, RouterStep

(* Type correctness of the trackers and the polls.                         *)
THEOREM TypeCorrect == Spec => []TypeOK
<1>1. IInv => TypeOK
  BY DEF IInv
<1> QED BY <1>1, InitIInv, NextIInv, PTL DEF Spec

(* A tracker that waits for a router is not forgotten: the schedule goes   *)
(* on, and unless the router's last poll was a requested one, whose        *)
(* listeners ask in vain, a poll of that router is asked for, due, or in   *)
(* flight, or the entry is still being set up and will send the signal.    *)
THEOREM WaitingDriven == Spec => []WaitingIsDriven
<1>1. IInv => WaitingIsDriven
  BY DEF IInv
<1> QED BY <1>1, InitIInv, NextIInv, PTL DEF Spec

(* A tracker's snapshot of the poll counters is never compared with the    *)
(* counters of another coordinator object, and data is never newer than    *)
(* the last poll started.                                                  *)
THEOREM CountersAgreed == Spec => []CountersAgree
<1>1. IInv => CountersAgree
  BY DEF IInv, DataIsPast, SnapshotsArePast, IsPast, CountersAgree, WaitedFor
<1> QED BY <1>1, InitIInv, NextIInv, PTL DEF Spec

-----------------------------------------------------------------------------
(* Trackers implements Presence.                                           *)

\* a tracker waits for one poll of each router
OneEach(S) == \A v, w \in S : v.router = w.router => v = w
OnePerRouter == \A c \in Clients : OneEach(confirming[c])

\* of an entry without runtime_data nothing is shown, and no poll is asked for
NothingYet ==
  \A r \in Routers \ Coordinators :
    /\ data[r] = {} /\ ok[r] = TRUE /\ requested[r] = FALSE /\ timer[r] = "off"
    /\ r \notin asked
    /\ entry[r] = "unloaded" => poll[r] = "idle"

RInv == IInv /\ OnePerRouter /\ NothingYet

\* a coordinator is one that runtime_data holds
LEMMA RuntimeIsCoordinator ==
  ASSUME NEW r \in Routers
  PROVE  /\ HasRuntimeData(entry[r]) = (r \in Coordinators)
         /\ HasRuntimeData(entry'[r]) = (r \in Coordinators')
BY DEF Coordinators, HasRuntimeData

LEMMA BusyIs ==
  /\ Busy = [r \in Routers |-> r \in Coordinators /\ poll[r] # "idle"]
  /\ Busy' = [r \in Routers |-> r \in Coordinators' /\ poll'[r] # "idle"]
BY RuntimeIsCoordinator DEF Busy

\* what Presence sees of the stages of r
LEMMA StagesSplit ==
  ASSUME NEW r \in Routers, RouterTypes
  PROVE  /\ r \in Coordinators <=> entry[r] \in {"shown", "added", "loaded"}
         /\ r \notin Coordinators <=> entry[r] \in {"unloaded", "first"}
         /\ Up[r] = "down" <=> r \notin Coordinators
         /\ Up[r] = "shown" <=> entry[r] = "shown"
         /\ Up[r] = "added" <=> entry[r] = "added"
         /\ Up[r] = "hooked" <=> entry[r] = "loaded"
BY DEF RouterTypes, Stages, Coordinators, HasRuntimeData, Up

LEMMA InitMaps == Init => P!PInit
<1> SUFFICES ASSUME Init PROVE P!PInit
  OBVIOUS
<1>1. Up = [r \in Routers |-> "down"]
  BY DEF Init, Up, HasRuntimeData
<1>2. Busy = [r \in Routers |-> FALSE]
  BY DEF Init, Busy
<1>3. Noticed = [c \in Clients |-> FALSE]
  BY DEF Init, Noticed
<1>4. Wait = [c \in Clients |-> P!NoWait]
  <2>1. ASSUME NEW c \in Clients, NEW r \in Routers PROVE Progress(c, r) = "none"
    BY DEF Init, Progress
  <2> QED BY <2>1 DEF Wait, P!NoWait
<1> QED BY <1>1, <1>2, <1>3, <1>4 DEF Init, P!PInit

-----------------------------------------------------------------------------
(* How far the confirming polls are, for snapshots and counters of any     *)
(* moment.                                                                 *)

\* of one snapshot
Standing(w, started, finished) ==
  IF finished > w.started THEN "done" ELSE IF started > w.started THEN "started" ELSE "asked"

\* of the snapshots S, when the coordinator of r is the object g
LevelOf(S, r, here, g, started, finished) ==
  LET mine == {w \in S : w.router = r /\ here /\ w.gen = g}
  IN  IF mine = {} THEN "none" ELSE Standing(CHOOSE w \in mine : TRUE, started, finished)

LEMMA ProgressIsLevel ==
  ASSUME NEW c \in Clients, NEW r \in Routers
  PROVE  Wait[c][r] = LevelOf(confirming[c], r, r \in Coordinators, gen[r],
                              polls_started[r], data_poll[r])
<1>1. Wait[c][r] = Progress(c, r)
  BY DEF Wait
<1>2. HasRuntimeData(entry[r]) = (r \in Coordinators)
  BY RuntimeIsCoordinator
<1> QED BY <1>1, <1>2 DEF Progress, LevelOf, Standing

LEMMA LevelOfOne ==
  ASSUME NEW S, NEW w \in S, NEW started, NEW finished, OneEach(S)
  PROVE  LevelOf(S, w.router, TRUE, w.gen, started, finished) = Standing(w, started, finished)
<1> DEFINE mine == {v \in S : v.router = w.router /\ TRUE /\ v.gen = w.gen}
<1>1. mine = {w}
  BY DEF OneEach
<1>2. (CHOOSE v \in mine : TRUE) = w
  BY <1>1
<1> QED BY <1>1, <1>2 DEF LevelOf

LEMMA LevelOfNone ==
  ASSUME NEW S, NEW r, NEW g, NEW here, NEW started, NEW finished,
         ~here \/ \A w \in S : ~(w.router = r /\ w.gen = g)
  PROVE  LevelOf(S, r, here, g, started, finished) = "none"
<1>1. {w \in S : w.router = r /\ here /\ w.gen = g} = {}
  OBVIOUS
<1> QED BY <1>1 DEF LevelOf

\* of the snapshots S, judged on the routers' new state
LevelThen(S, r) ==
  LevelOf(S, r, r \in Coordinators', gen'[r], polls_started'[r], data_poll'[r])

Ahead == [c \in Clients |-> [r \in Routers |-> LevelThen(confirming[c], r)]]

LEMMA WaitIsLevelThen ==
  ASSUME NEW c \in Clients, NEW r \in Routers
  PROVE  Wait'[c][r] = LevelThen(confirming'[c], r)
<1>1. Wait'[c][r] = Progress(c, r)'
  BY DEF Wait
<1>2. HasRuntimeData(entry'[r]) = (r \in Coordinators')
  BY RuntimeIsCoordinator
<1> QED BY <1>1, <1>2 DEF Progress, LevelThen, LevelOf, Standing

LEMMA LevelThenOne ==
  ASSUME NEW S, OneEach(S), NEW w \in S, NEW r, w.router = r, r \in Coordinators', w.gen = gen'[r]
  PROVE  LevelThen(S, r) = Standing(w, polls_started'[r], data_poll'[r])
<1> DEFINE mine == {v \in S : v.router = r /\ r \in Coordinators' /\ v.gen = gen'[r]}
<1>1. mine = {w}
  BY DEF OneEach
<1>2. (CHOOSE v \in mine : TRUE) = w
  BY <1>1
<1> QED BY <1>1, <1>2 DEF LevelThen, LevelOf

LEMMA LevelThenNone ==
  ASSUME NEW S, NEW r, r \notin Coordinators' \/ \A w \in S : ~(w.router = r /\ w.gen = gen'[r])
  PROVE  LevelThen(S, r) = "none"
<1>1. {w \in S : w.router = r /\ r \in Coordinators' /\ w.gen = gen'[r]} = {}
  OBVIOUS
<1> QED BY <1>1 DEF LevelThen, LevelOf

\* a level that is waited for is a snapshot that is waited for
LEMMA LevelThenWaits ==
  ASSUME NEW S \in SUBSET Snapshots, OneEach(S), RouterTypes', NEW r \in Routers
  PROVE  LevelThen(S, r) \in {"asked", "started"} /\ ok'[r]
           <=> \E w \in S : w.router = r /\ WaitedFor(w)'
<1>1. CASE r \notin Coordinators' \/ \A w \in S : ~(w.router = r /\ w.gen = gen'[r])
  BY <1>1, LevelThenNone DEF WaitedFor
<1>2. CASE r \in Coordinators' /\ \E w \in S : w.router = r /\ w.gen = gen'[r]
  <2>1. PICK w \in S : w.router = r /\ w.gen = gen'[r]
    BY <1>2
  <2>2. LevelThen(S, r) = Standing(w, polls_started'[r], data_poll'[r])
    BY <1>2, <2>1, LevelThenOne
  <2>3. \A v \in S : v.router = r => v = w
    BY <2>1 DEF OneEach
  <2>4. Standing(w, polls_started'[r], data_poll'[r]) \in {"asked", "started"}
          <=> ~(data_poll'[r] > w.started)
    BY DEF Standing
  <2> QED BY <1>2, <2>1, <2>2, <2>3, <2>4 DEF WaitedFor
<1> QED BY <1>1, <1>2

\* the level of a router that does nothing
LEMMA AheadStays ==
  ASSUME NEW c \in Clients, NEW r \in Routers,
         r \in Coordinators' <=> r \in Coordinators,
         gen'[r] = gen[r], polls_started'[r] = polls_started[r], data_poll'[r] = data_poll[r]
  PROVE  Ahead[c][r] = Wait[c][r]
<1>1. (r \in Coordinators') = (r \in Coordinators)
  OBVIOUS
<1>2. Ahead[c][r] = LevelOf(confirming[c], r, r \in Coordinators', gen'[r],
                            polls_started'[r], data_poll'[r])
  BY DEF Ahead, LevelThen
<1> QED BY <1>1, <1>2, ProgressIsLevel

\* what the next poll's start and end make of the level of r
LEMMA AheadMoves ==
  ASSUME RInv, NEW c \in Clients, NEW r \in Coordinators,
         r \in Coordinators', gen'[r] = gen[r]
  PROVE  /\ polls_started'[r] = polls_started[r] + 1 /\ data_poll'[r] = data_poll[r] =>
              Ahead[c][r] = IF Wait[c][r] \in {"asked"} THEN "started" ELSE Wait[c][r]
         /\ polls_started'[r] = polls_started[r] /\ data_poll'[r] = polls_started[r] =>
              Ahead[c][r] = IF Wait[c][r] \in {"started"} THEN "done" ELSE Wait[c][r]
         /\ polls_started'[r] = polls_started[r] + 1 /\ data_poll'[r] = polls_started[r] + 1 =>
              Ahead[c][r] = IF Wait[c][r] \in {"asked", "started"} THEN "done" ELSE Wait[c][r]
<1>1. r \in Routers /\ polls_started[r] \in Nat /\ data_poll[r] \in Nat
      /\ data_poll[r] <= polls_started[r]
  BY DEF RInv, IInv, TypeOK, DataIsPast, Coordinators
<1>2. (r \in Coordinators) = TRUE /\ (r \in Coordinators') = TRUE
  OBVIOUS
<1>3. Ahead[c][r] = LevelOf(confirming[c], r, TRUE, gen[r], polls_started'[r], data_poll'[r])
  BY <1>1, <1>2 DEF Ahead, LevelThen
<1>4. Wait[c][r] = LevelOf(confirming[c], r, TRUE, gen[r], polls_started[r], data_poll[r])
  BY <1>1, <1>2, ProgressIsLevel
<1>5. CASE \A w \in confirming[c] : ~(w.router = r /\ w.gen = gen[r])
  <2>1. LevelOf(confirming[c], r, TRUE, gen[r], polls_started'[r], data_poll'[r]) = "none"
    BY <1>5, LevelOfNone, Zenon
  <2>2. LevelOf(confirming[c], r, TRUE, gen[r], polls_started[r], data_poll[r]) = "none"
    BY <1>5, LevelOfNone, Zenon
  <2> QED BY <1>3, <1>4, <2>1, <2>2
<1>6. CASE \E w \in confirming[c] : w.router = r /\ w.gen = gen[r]
  <2>1. PICK w \in confirming[c] : w.router = r /\ w.gen = gen[r]
    BY <1>6
  <2>2. OneEach(confirming[c])
    BY DEF RInv, OnePerRouter
  <2>3. \A a, b : LevelOf(confirming[c], w.router, TRUE, w.gen, a, b) = Standing(w, a, b)
    BY <2>2, LevelOfOne
  <2>4. w.started \in Nat /\ w.started <= polls_started[r]
    BY <2>1 DEF RInv, IInv, TypeOK, SnapshotsArePast, IsPast
  <2>5. /\ LevelOf(confirming[c], r, TRUE, gen[r], polls_started'[r], data_poll'[r])
             = LevelOf(confirming[c], w.router, TRUE, w.gen, polls_started'[r], data_poll'[r])
        /\ LevelOf(confirming[c], r, TRUE, gen[r], polls_started[r], data_poll[r])
             = LevelOf(confirming[c], w.router, TRUE, w.gen, polls_started[r], data_poll[r])
    BY <2>1
  <2>6. /\ LevelOf(confirming[c], w.router, TRUE, w.gen, polls_started'[r], data_poll'[r])
             = Standing(w, polls_started'[r], data_poll'[r])
        /\ LevelOf(confirming[c], w.router, TRUE, w.gen, polls_started[r], data_poll[r])
             = Standing(w, polls_started[r], data_poll[r])
    BY <2>3
  <2>7. /\ Ahead[c][r] = Standing(w, polls_started'[r], data_poll'[r])
        /\ Wait[c][r] = Standing(w, polls_started[r], data_poll[r])
    BY <1>3, <1>4, <2>5, <2>6
  <2> QED BY <1>1, <2>4, <2>7 DEF Standing
<1> QED BY <1>5, <1>6

LEMMA SnapshotOneEach ==
  ASSUME RInv, NEW c \in Clients
  PROVE  OneEach(Snapshot(c))
<1>1. OneEach(confirming[c])
  BY DEF RInv, OnePerRouter
<1> QED BY <1>1 DEF Snapshot, OneEach

\* what is asked when the departure is noticed is the level of the snapshot then
LEMMA AskedIsLevel ==
  ASSUME RInv, RouterTypes', DataIsPast', NEW c \in Clients, NEW r \in Routers
  PROVE  P!Asked(c, Ahead)[r] = LevelThen(Snapshot(c), r)
<1>1. CASE confirming[c] # {}
  <2>1. Snapshot(c) = confirming[c] /\ Noticed[c]
    BY <1>1 DEF Snapshot, Noticed
  <2>2. P!Asked(c, Ahead) = Ahead[c]
    BY <2>1 DEF P!Asked
  <2> QED BY <2>1, <2>2 DEF Ahead
<1>2. CASE confirming[c] = {}
  <2>1. ~Noticed[c]
    BY <1>2 DEF Noticed
  <2>2. Up'[r] # "down" <=> r \in Coordinators'
    BY DEF Up, RouterTypes, Stages, Coordinators, HasRuntimeData
  <2>3. P!Asked(c, Ahead)[r] = IF r \in Coordinators' \ {seen[c]} THEN "asked" ELSE "none"
    BY <2>1, <2>2 DEF P!Asked, P!Others
  <2>4. Snapshot(c) = {[router |-> q, gen |-> gen'[q], started |-> polls_started'[q]] :
                         q \in (Coordinators' \ {seen[c]})}
    BY <1>2 DEF Snapshot
  <2>5. CASE r \in Coordinators' \ {seen[c]}
    <3> DEFINE w == [router |-> r, gen |-> gen'[r], started |-> polls_started'[r]]
    <3>1. w \in Snapshot(c) /\ w.router = r /\ w.gen = gen'[r]
      BY <2>4, <2>5
    <3>2. LevelThen(Snapshot(c), r) = Standing(w, polls_started'[r], data_poll'[r])
      <4> HIDE DEF w
      <4> QED BY <2>5, <3>1, SnapshotOneEach, LevelThenOne
    <3>3. polls_started'[r] \in Nat /\ data_poll'[r] \in Nat /\ data_poll'[r] <= polls_started'[r]
      BY DEF RouterTypes, DataIsPast
    <3>4. Standing(w, polls_started'[r], data_poll'[r]) = "asked"
      BY <3>3 DEF Standing
    <3> QED BY <2>3, <2>5, <3>2, <3>4
  <2>6. CASE r \notin Coordinators' \ {seen[c]}
    <3>1. r \notin Coordinators' \/ \A w \in Snapshot(c) : ~(w.router = r /\ w.gen = gen'[r])
      BY <2>4, <2>6
    <3>2. LevelThen(Snapshot(c), r) = "none"
      BY <3>1, LevelThenNone
    <3> QED BY <2>3, <2>6, <3>2
  <2> QED BY <2>5, <2>6
<1> QED BY <1>1, <1>2

(* A refresh of the trackers in T is a look of theirs at the new lists.    *)
LEMMA LookMaps ==
  ASSUME RInv, RouterTypes', DataIsPast',
         NEW T \in SUBSET Clients, NEW queued, NEW dropped, Refresh(T, queued, dropped)
  PROVE  P!Look(T, Ahead)
<1> DEFINE pick == [c \in Clients |-> ConnectedOn(c)]
<1>1. \A r \in Routers : Up'[r] = "down" <=> r \notin Coordinators'
  BY DEF Up, RouterTypes, Stages, Coordinators, HasRuntimeData
<1>2. \A c \in Clients : P!Holders(c) = {r \in Coordinators' : c \in data'[r]}
  BY <1>1 DEF P!Holders, Coordinators
<1>3. \A c \in Clients : IF P!Holders(c) = {} THEN pick[c] = NoRouter
                         ELSE pick[c] \in P!Holders(c)
  BY <1>2, ConnectedOnHolds
<1>4. pick \in [Clients -> Routers \cup {NoRouter}]
  BY ConnectedOnType
<1>5. ASSUME NEW c \in Clients PROVE P!MustWait(c, Ahead) <=> Pending(c) # {}
  <2>1. P!Holders(c) = {} <=> ConnectedOn(c) = NoRouter
    <3>1. P!Holders(c) \in SUBSET Routers /\ NoRouter \notin Routers
      BY TrackersAssumption DEF P!Holders, Routers, NoRouter
    <3> QED BY <1>3, <3>1
  <2>2. Snapshot(c) \in SUBSET Snapshots /\ OneEach(Snapshot(c))
    BY SnapshotType, SnapshotOneEach DEF RInv, IInv
  <2>3. \A r \in Routers : P!Asked(c, Ahead)[r] \in {"asked", "started"} /\ ok'[r]
                            <=> \E w \in Snapshot(c) : w.router = r /\ WaitedFor(w)'
    BY <2>2, AskedIsLevel, LevelThenWaits
  <2>4. P!Outstanding(c, Ahead) # {} <=> \E w \in Snapshot(c) : WaitedFor(w)'
    <3>1. \A w \in Snapshot(c) : w.router \in Routers
      BY <2>2 DEF Snapshots
    <3> QED BY <2>3, <3>1 DEF P!Outstanding
  <2> QED BY <2>1, <2>4 DEF P!MustWait, Pending
<1>6. seen' = [c \in Clients |->
                 IF c \in T /\ ~P!MustWait(c, Ahead) THEN pick[c] ELSE seen[c]]
  BY <1>5 DEF Refresh
<1>7. \A c \in Clients :
        confirming'[c] = IF c \notin T THEN confirming[c]
                         ELSE IF P!MustWait(c, Ahead) THEN Snapshot(c) ELSE {}
  BY <1>5 DEF Refresh
<1>8. Noticed' = [c \in Clients |-> IF c \in T THEN P!MustWait(c, Ahead) ELSE Noticed[c]]
  <2>1. \A c \in Clients : P!MustWait(c, Ahead) => Snapshot(c) # {}
    BY <1>5 DEF Pending
  <2>2. ASSUME NEW c \in Clients
        PROVE  (confirming'[c] # {}) = IF c \in T THEN P!MustWait(c, Ahead) ELSE confirming[c] # {}
    <3>1. P!MustWait(c, Ahead) \in BOOLEAN
      BY DEF P!MustWait
    <3>2. CASE c \notin T
      BY <1>7, <3>2
    <3>3. CASE c \in T
      <4>1. confirming'[c] # {} <=> P!MustWait(c, Ahead)
        BY <1>7, <2>1, <3>3
      <4> QED BY <3>1, <3>3, <4>1
    <3> QED BY <3>2, <3>3
  <2> QED BY <2>2 DEF Noticed
<1>9. Wait' = [c \in Clients |->
                  CASE c \notin T                      -> Ahead[c]
                    [] c \in T /\ P!MustWait(c, Ahead)   -> P!Asked(c, Ahead)
                    [] c \in T /\ ~P!MustWait(c, Ahead)  -> P!NoWait]
  <2> SUFFICES ASSUME NEW c \in Clients
               PROVE  Wait'[c] = CASE c \notin T                      -> Ahead[c]
                                   [] c \in T /\ P!MustWait(c, Ahead)   -> P!Asked(c, Ahead)
                                   [] c \in T /\ ~P!MustWait(c, Ahead)  -> P!NoWait
    BY DEF Wait
  <2>1. \A r \in Routers : Wait'[c][r] = LevelThen(confirming'[c], r)
    BY WaitIsLevelThen
  <2>2. Wait'[c] = [r \in Routers |-> Wait'[c][r]]
    BY DEF Wait
  <2>3. CASE c \notin T
    <3>1. confirming'[c] = confirming[c]
      BY <1>7, <2>3
    <3>2. Ahead[c] = [r \in Routers |-> LevelThen(confirming[c], r)]
      BY DEF Ahead
    <3>3. Wait'[c] = Ahead[c]
      BY <2>1, <2>2, <3>1, <3>2
    <3> QED BY <2>3, <3>3
  <2>4. CASE c \in T /\ P!MustWait(c, Ahead)
    <3>1. confirming'[c] = Snapshot(c)
      BY <1>7, <2>4
    <3>2. P!Asked(c, Ahead) = [r \in Routers |-> P!Asked(c, Ahead)[r]]
      BY DEF P!Asked, Ahead
    <3>3. \A r \in Routers : P!Asked(c, Ahead)[r] = Wait'[c][r]
      BY <2>1, <3>1, AskedIsLevel
    <3>4. Wait'[c] = P!Asked(c, Ahead)
      BY <2>2, <3>2, <3>3
    <3> QED BY <2>4, <3>4
  <2>5. CASE c \in T /\ ~P!MustWait(c, Ahead)
    <3>1. confirming'[c] = {}
      BY <1>7, <2>5
    <3>2. \A r \in Routers : Wait'[c][r] = "none"
      BY <2>1, <3>1, LevelThenNone
    <3>3. Wait'[c] = P!NoWait
      BY <2>2, <3>2 DEF P!NoWait
    <3> QED BY <2>5, <3>3
  <2> QED BY <2>3, <2>4, <2>5
<1> HIDE DEF pick
<1> QED BY <1>3, <1>4, <1>6, <1>8, <1>9 DEF P!Look

-----------------------------------------------------------------------------
(* The two invariants that only the mapping needs.                         *)

LEMMA RefreshFits ==
  ASSUME RInv, NEW T, NEW queued, NEW dropped, Refresh(T, queued, dropped)
  PROVE  OnePerRouter' /\ \A r \in asked' : r \in queued \/ r \in Coordinators'
<1>1. \A c \in Clients : confirming'[c] \in {confirming[c], {}, Snapshot(c)}
  BY DEF Refresh
<1>2. OneEach({})
  BY DEF OneEach
<1>3. ASSUME NEW c \in Clients PROVE OneEach(confirming'[c])
  BY <1>1, <1>2, SnapshotOneEach DEF RInv, OnePerRouter
<1>4. \A c \in T : \A w \in Pending(c) : w.router \in Coordinators'
  BY DEF Pending, WaitedFor
<1>5. \A r \in asked' : r \in queued \/ \E c \in T : \E w \in Pending(c) : r = w.router
  BY DEF Refresh, ToAsk
<1> QED BY <1>3, <1>4, <1>5 DEF OnePerRouter

LEMMA InitFits == Init => OnePerRouter /\ NothingYet
BY DEF Init, OnePerRouter, OneEach, NothingYet

LEMMA StartPollFits ==
  ASSUME RInv, NEW r \in Coordinators, NEW byRequest \in BOOLEAN,
         NEW queued \in SUBSET asked, StartPoll(r, byRequest, queued)
  PROVE  OnePerRouter' /\ NothingYet'
<1>1. CASE Send(r, byRequest) /\ asked' = queued
  BY <1>1 DEF Send, RInv, OnePerRouter, NothingYet, Coordinators, IInv, TypeOK
<1>2. CASE Skip(r, byRequest, queued)
  <2>1. OnePerRouter' /\ \A q \in asked' : q \in queued \/ q \in Coordinators'
    BY <1>2, RefreshFits DEF Skip, Notify
  <2> QED BY <1>2, <2>1 DEF Skip, RInv, NothingYet, Coordinators, IInv, TypeOK
<1> QED BY <1>1, <1>2 DEF StartPoll

LEMMA PollsFit ==
  ASSUME RInv, NEW r \in Routers, IntervalPoll(r) \/ RunRequest(r) \/ TimerEnd(r)
  PROVE  OnePerRouter' /\ NothingYet'
<1>1. CASE IntervalPoll(r)
  BY <1>1, StartPollFits DEF IntervalPoll, Coordinators
<1>2. CASE RunRequest(r)
  <2>1. r \in Coordinators
    BY <1>2 DEF RunRequest, RInv, NothingYet
  <2>2. CASE StartPoll(r, TRUE, asked \ {r})
    BY <2>1, <2>2, StartPollFits
  <2>3. CASE ~StartPoll(r, TRUE, asked \ {r})
    BY <1>2, <2>1, <2>3 DEF RunRequest, rvars, RInv, OnePerRouter, NothingYet, Coordinators,
                            IInv, TypeOK
  <2> QED BY <2>2, <2>3
<1>3. CASE TimerEnd(r)
  <2>1. r \in Coordinators
    BY <1>3 DEF TimerEnd, RInv, NothingYet
  <2>2. CASE StartPoll(r, TRUE, asked)
    BY <2>1, <2>2, StartPollFits
  <2>3. CASE ~StartPoll(r, TRUE, asked)
    BY <1>3, <2>1, <2>3 DEF TimerEnd, tvars, RInv, OnePerRouter, NothingYet, Coordinators,
                            IInv, TypeOK
  <2> QED BY <2>2, <2>3
<1> QED BY <1>1, <1>2, <1>3

LEMMA PollEndsFit ==
  ASSUME RInv, NEW r \in Routers, NEW rejected \in BOOLEAN,
         ReadList(r) \/ FinishOk(r) \/ FinishFail(r, rejected)
  PROVE  OnePerRouter' /\ NothingYet'
<1>1. /\ r \in Coordinators <=> entry[r] \in {"shown", "added", "loaded"}
      /\ r \notin Coordinators => entry[r] \in {"unloaded", "first"}
  BY DEF Coordinators, HasRuntimeData, RInv, IInv, TypeOK, Stages
<1>2. CASE ReadList(r)
  BY <1>1, <1>2 DEF ReadList, tvars, RInv, OnePerRouter, NothingYet, Coordinators, IInv, TypeOK
<1>3. CASE FinishOk(r)
  <2>1. OnePerRouter' /\ \A q \in asked' : q \in asked \/ q \in Coordinators'
    BY <1>3, RefreshFits DEF FinishOk, Notify
  <2>2. r \in Coordinators'
    BY <1>1, <1>3 DEF FinishOk, RInv, NothingYet, Coordinators, HasRuntimeData, IInv, TypeOK
  <2>3. \A q \in Routers : q \notin Coordinators' => q # r /\ q \notin Coordinators
    BY <2>2, <1>3 DEF FinishOk, Coordinators
  <2> QED BY <1>3, <2>1, <2>3 DEF FinishOk, Cooldown, RInv, NothingYet, IInv, TypeOK
<1>4. CASE FinishFail(r, rejected)
  <2>1. OnePerRouter' /\ \A q \in asked' : q \in asked \/ q \in Coordinators'
    BY <1>4, RefreshFits DEF FinishFail
  <2>2. r \in Coordinators
    BY <1>1, <1>4 DEF FinishFail, RInv, NothingYet
  <2>3. Coordinators' = Coordinators
    BY <1>4 DEF FinishFail, Coordinators
  <2> QED BY <1>4, <2>1, <2>2, <2>3 DEF FinishFail, Cooldown, RInv, NothingYet, IInv, TypeOK
<1> QED BY <1>2, <1>3, <1>4

LEMMA EntriesFit ==
  ASSUME RInv, NEW r \in Routers,
         Setup(r) \/ SetupFails(r) \/ AddTrackers(r) \/ HookUp(r) \/ Unload(r)
  PROVE  OnePerRouter' /\ NothingYet'
<1>1. /\ entry \in [Routers -> Stages]
      /\ \A q \in Routers : q \in Coordinators <=> HasRuntimeData(entry[q])
  BY DEF Coordinators, RInv, IInv, TypeOK
<1>2. CASE Setup(r) \/ SetupFails(r)
  BY <1>1, <1>2 DEF Setup, SetupFails, Blank, tvars, RInv, OnePerRouter, NothingYet, Coordinators,
                    HasRuntimeData, IInv, TypeOK
<1>3. CASE AddTrackers(r) \/ HookUp(r)
  <2>1. OnePerRouter' /\ \A q \in asked' : q \in asked \/ q \in Coordinators'
    BY <1>3, RefreshFits DEF AddTrackers, HookUp
  <2>2. Coordinators' = Coordinators /\ r \in Coordinators
    BY <1>1, <1>3 DEF AddTrackers, HookUp, Coordinators, HasRuntimeData
  <2>3. /\ UNCHANGED <<data, ok, requested, timer, poll>>
        /\ \A q \in Routers : q # r => entry'[q] = entry[q]
    BY <1>1, <1>3 DEF AddTrackers, HookUp
  <2> QED BY <2>1, <2>2, <2>3 DEF RInv, NothingYet
<1>4. CASE Unload(r)
  <2>1. OnePerRouter'
    BY <1>4 DEF Unload, RInv, OnePerRouter, OneEach
  <2>2. \A q \in Routers : q # r => (q \in Coordinators' <=> q \in Coordinators)
    BY <1>1, <1>4 DEF Unload, Coordinators
  <2> QED BY <1>4, <2>1, <2>2 DEF Unload, Blank, RInv, NothingYet, IInv, TypeOK
<1> QED BY <1>2, <1>3, <1>4

LEMMA NextRInv == RInv /\ [Next]_vars => RInv'
<1> SUFFICES ASSUME RInv, [Next]_vars PROVE OnePerRouter' /\ NothingYet'
  BY NextIInv DEF RInv
<1>1. CASE UNCHANGED vars
  BY <1>1 DEF vars, rvars, tvars, RInv, OnePerRouter, NothingYet, Coordinators
<1>2. ASSUME NEW c \in Clients, NEW r \in Routers \cup {NoRouter}, Move(c, r)
      PROVE  OnePerRouter' /\ NothingYet'
  BY <1>2 DEF Move, rvars, tvars, RInv, OnePerRouter, NothingYet, Coordinators
<1>3. CASE HAStarted
  <2>1. OnePerRouter' /\ \A q \in asked' : q \in asked \/ q \in Coordinators'
    BY <1>3, RefreshFits DEF HAStarted
  <2> QED BY <1>3, <2>1 DEF HAStarted, rvars, RInv, NothingYet, Coordinators
<1> QED BY <1>1, <1>2, <1>3, PollsFit, PollEndsFit, EntriesFit DEF Next, RouterStep

-----------------------------------------------------------------------------
(* Every step is one of Presence, or none.                                 *)

\* a step that Presence does not see
LEMMA StutterMaps ==
  ASSUME UNCHANGED <<running, data, ok, halted, seen, confirming>>,
         Coordinators' = Coordinators,
         \A r \in Routers : /\ Up'[r] = Up[r]
                            /\ r \in Coordinators =>
                                 /\ poll'[r] = "idle" <=> poll[r] = "idle"
                                 /\ gen'[r] = gen[r]
                                 /\ polls_started'[r] = polls_started[r]
                                 /\ data_poll'[r] = data_poll[r]
  PROVE  UNCHANGED P!pvars
<1>1. Up' = Up
  BY DEF Up
<1>2. Busy' = Busy
  BY BusyIs
<1>3. Noticed' = Noticed
  BY DEF Noticed
<1>4. Wait' = Wait
  <2>1. ASSUME NEW c \in Clients, NEW r \in Routers PROVE Progress(c, r)' = Progress(c, r)
    <3>1. CASE r \in Coordinators
      BY <3>1, RuntimeIsCoordinator DEF Progress
    <3>2. CASE r \notin Coordinators
      BY <3>2, RuntimeIsCoordinator DEF Progress
    <3> QED BY <3>1, <3>2
  <2> QED BY <2>1 DEF Wait
<1> QED BY <1>1, <1>2, <1>3, <1>4 DEF P!pvars

\* the levels of all trackers, when only r's counters change
LEMMA AheadIsProgress ==
  ASSUME RInv, NEW r \in Coordinators, r \in Coordinators', UNCHANGED gen,
         \A q \in Routers \ {r} : /\ q \in Coordinators' <=> q \in Coordinators
                                  /\ polls_started'[q] = polls_started[q]
                                  /\ data_poll'[q] = data_poll[q]
  PROVE  /\ polls_started'[r] = polls_started[r] + 1 /\ data_poll'[r] = data_poll[r] =>
              Ahead = P!Progress(r, {"asked"}, "started")
         /\ polls_started'[r] = polls_started[r] /\ data_poll'[r] = polls_started[r] =>
              Ahead = P!Progress(r, {"started"}, "done")
         /\ polls_started'[r] = polls_started[r] + 1 /\ data_poll'[r] = polls_started[r] + 1 =>
              Ahead = P!Progress(r, {"asked", "started"}, "done")
         /\ polls_started'[r] = polls_started[r] /\ data_poll'[r] = data_poll[r] =>
              Ahead = Wait
<1>1. \A c \in Clients : \A q \in Routers \ {r} : Ahead[c][q] = Wait[c][q]
  BY AheadStays
<1>2. r \in Routers
  BY DEF Coordinators
<1>3. ASSUME NEW from, NEW to,
             \A c \in Clients : Ahead[c][r] = IF Wait[c][r] \in from THEN to ELSE Wait[c][r]
      PROVE  Ahead = P!Progress(r, from, to)
  <2>1. ASSUME NEW c \in Clients
        PROVE  Ahead[c] = [Wait[c] EXCEPT ![r] = IF @ \in from THEN to ELSE @]
    <3>1. Ahead[c] = [q \in Routers |-> Ahead[c][q]] /\ Wait[c] = [q \in Routers |-> Wait[c][q]]
      BY DEF Ahead, Wait
    <3> QED BY <1>1, <1>3, <3>1
  <2>2. Ahead = [c \in Clients |-> Ahead[c]]
    BY DEF Ahead
  <2> QED BY <2>1, <2>2 DEF P!Progress
<1>4. ASSUME \A c \in Clients : Ahead[c][r] = Wait[c][r] PROVE Ahead = Wait
  <2>1. \A c \in Clients : Ahead[c] = Wait[c]
    BY <1>1, <1>4 DEF Ahead, Wait
  <2> QED BY <2>1 DEF Ahead, Wait
<1>5. gen'[r] = gen[r]
  OBVIOUS
<1>6. polls_started'[r] = polls_started[r] /\ data_poll'[r] = data_poll[r] =>
        \A c \in Clients : Ahead[c][r] = Wait[c][r]
  BY <1>2, <1>5, AheadStays
<1> QED BY <1>3, <1>4, <1>5, <1>6, AheadMoves

LEMMA UpIs ==
  ASSUME RInv, NEW r \in Routers
  PROVE  /\ Up[r] = "down" <=> r \notin Coordinators
         /\ Up[r] = "shown" <=> entry[r] = "shown"
         /\ Up[r] = "added" <=> entry[r] = "added"
         /\ Up[r] = "hooked" <=> entry[r] = "loaded"
         /\ r \in Coordinators <=> entry[r] \in {"shown", "added", "loaded"}
<1>1. RouterTypes
  BY DEF RInv, IInv, TypeOK, RouterTypes
<1> QED BY <1>1, StagesSplit

LEMMA EveryoneIs == RInv => P!Everyone = Trackers
<1> SUFFICES ASSUME RInv PROVE P!Everyone = Trackers
  OBVIOUS
<1>1. \A c \in Clients : Owner[c] \in Routers
  BY TrackersAssumption
<1> QED BY <1>1, UpIs DEF P!Everyone, P!Exists, Trackers, Connected

LEMMA WaitIsAhead ==
  ASSUME UNCHANGED confirming PROVE Wait' = Ahead
<1>1. \A c \in Clients, r \in Routers : Wait'[c][r] = LevelThen(confirming[c], r)
  BY WaitIsLevelThen
<1> QED BY <1>1 DEF Wait, Ahead

LEMMA SameEntries ==
  ASSUME UNCHANGED entry
  PROVE  Up' = Up /\ Coordinators' = Coordinators
BY DEF Up, Coordinators

LEMMA StateTypes ==
  ASSUME RInv
  PROVE  RouterTypes /\ DataIsPast /\ TypeOK
BY DEF RInv, IInv, TypeOK, RouterTypes

\* the look of the trackers that hear of an update of r
LEMMA HearMaps ==
  ASSUME RInv, RInv', NEW r \in Coordinators, NEW queued, NEW dropped,
         Notify(r, queued, dropped)
  PROVE  P!Look(IF Up[r] = "hooked" THEN P!Everyone ELSE {}, Ahead)
<1> DEFINE L == IF entry[r] = "loaded" THEN Trackers ELSE {}
<1>1. r \in Routers /\ L \in SUBSET Clients /\ RouterTypes' /\ DataIsPast'
  BY StateTypes DEF Coordinators, Trackers, RInv, IInv, TypeOK, RouterTypes
<1>2. L = IF Up[r] = "hooked" THEN P!Everyone ELSE {}
  BY <1>1, UpIs, EveryoneIs
<1>3. Refresh(L, queued, dropped)
  BY DEF Notify
<1>4. P!Look(L, Ahead)
  <2> HIDE DEF L
  <2> QED BY <1>1, <1>3, LookMaps
<1> QED BY <1>2, <1>4

LEMMA StartMaps ==
  ASSUME RInv, RInv', NEW r \in Coordinators, poll[r] = "idle",
         NEW byRequest \in BOOLEAN, NEW queued, StartPoll(r, byRequest, queued)
  PROVE  P!Start(r) \/ P!Skip(r)
<1>1. r \in Routers /\ ~Busy[r] /\ Up[r] # "down"
  BY UpIs, BusyIs DEF Coordinators
<1>2. CASE Send(r, byRequest)
  <2>1. Up' = Up /\ Coordinators' = Coordinators
    BY <1>2, SameEntries DEF Send
  <2>2. Busy' = [Busy EXCEPT ![r] = TRUE]
    <3>1. /\ (r \in Coordinators' /\ poll'[r] # "idle") = TRUE
          /\ \A q \in Routers \ {r} : poll'[q] = poll[q]
      BY <1>1, <1>2, <2>1 DEF Send, RInv, IInv, TypeOK
    <3> QED BY <2>1, <3>1, BusyIs
  <2>3. Wait' = P!Progress(r, {"asked"}, "started")
    <3>1. /\ UNCHANGED gen /\ polls_started'[r] = polls_started[r] + 1
          /\ data_poll'[r] = data_poll[r]
          /\ \A q \in Routers \ {r} : /\ q \in Coordinators' <=> q \in Coordinators
                                      /\ polls_started'[q] = polls_started[q]
                                      /\ data_poll'[q] = data_poll[q]
      BY <1>1, <1>2, <2>1 DEF Send, RInv, IInv, TypeOK
    <3>2. Ahead = P!Progress(r, {"asked"}, "started")
      BY <2>1, <3>1, AheadIsProgress
    <3> QED BY <1>2, <3>2, WaitIsAhead DEF Send
  <2>4. Noticed' = Noticed
    BY <1>2 DEF Send, Noticed
  <2> QED BY <1>1, <1>2, <2>1, <2>2, <2>3, <2>4 DEF Send, P!Start
<1>3. CASE Skip(r, byRequest, queued)
  <2>1. Up' = Up /\ Coordinators' = Coordinators /\ UNCHANGED <<gen, poll, running, data>>
    BY <1>3, SameEntries DEF Skip
  <2>2. Busy' = Busy
    BY <2>1, BusyIs
  <2>3. Ahead = P!Progress(r, {"asked", "started"}, "done")
    <3>1. /\ polls_started'[r] = polls_started[r] + 1
          /\ data_poll'[r] = polls_started[r] + 1
          /\ \A q \in Routers \ {r} : /\ polls_started'[q] = polls_started[q]
                                      /\ data_poll'[q] = data_poll[q]
      BY <1>1, <1>3 DEF Skip, RInv, IInv, TypeOK
    <3> QED BY <2>1, <3>1, AheadIsProgress
  <2>4. P!Look(IF Up[r] = "hooked" THEN P!Everyone ELSE {}, Ahead)
    BY <1>3, HearMaps DEF Skip
  <2> QED BY <1>1, <1>3, <2>1, <2>2, <2>3, <2>4 DEF Skip, P!Skip
<1> QED BY <1>2, <1>3 DEF StartPoll

LEMMA PollsMap ==
  ASSUME RInv, RInv', NEW r \in Routers, IntervalPoll(r) \/ RunRequest(r) \/ TimerEnd(r)
  PROVE  P!Start(r) \/ P!Skip(r) \/ UNCHANGED P!pvars
<1>1. CASE IntervalPoll(r)
  BY <1>1, StartMaps DEF IntervalPoll, Coordinators
<1>2. CASE RunRequest(r)
  <2>1. r \in Coordinators
    BY <1>2 DEF RunRequest, RInv, NothingYet
  <2>2. CASE StartPoll(r, TRUE, asked \ {r}) /\ poll[r] = "idle"
    BY <2>1, <2>2, StartMaps
  <2>3. CASE UNCHANGED <<running, entry, gen, poll, data, ok, halted, polls_started, data_poll,
                         seen, confirming>>
    BY <2>3, StutterMaps, SameEntries
  <2> QED BY <1>2, <2>2, <2>3 DEF RunRequest, rvars
<1>3. CASE TimerEnd(r)
  <2>1. CASE StartPoll(r, TRUE, asked) /\ timer[r] = "again" /\ poll[r] = "idle"
    <3>1. r \in Coordinators
      BY <2>1 DEF RInv, NothingYet
    <3> QED BY <2>1, <3>1, StartMaps
  <2>2. CASE UNCHANGED <<running, entry, gen, poll, data, ok, halted, polls_started, data_poll,
                         seen, confirming>>
    BY <2>2, StutterMaps, SameEntries
  <2> QED BY <1>3, <2>1, <2>2 DEF TimerEnd, tvars
<1> QED BY <1>1, <1>2, <1>3

LEMMA ReadMaps ==
  ASSUME RInv, NEW r \in Routers, ReadList(r) PROVE UNCHANGED P!pvars
<1>1. UNCHANGED <<running, entry, gen, data, ok, halted, polls_started, data_poll, seen,
                 confirming>>
  BY DEF ReadList, tvars
<1>2. \A q \in Routers : poll'[q] = "idle" <=> poll[q] = "idle"
  BY DEF ReadList, RInv, IInv, TypeOK
<1> QED BY <1>1, <1>2, StutterMaps, SameEntries

LEMMA FinishOkMaps ==
  ASSUME RInv, RInv', NEW r \in Routers, FinishOk(r) PROVE P!Finish(r) \/ P!Came(r)
<1>1. r \in Coordinators <=> entry[r] \in {"shown", "added", "loaded"}
  BY UpIs
<1>2. r \in Coordinators \/ entry[r] = "first"
  BY <1>1 DEF FinishOk, RInv, NothingYet, IInv, TypeOK, Stages
<1>3. \E list \in SUBSET Clients : data' = [data EXCEPT ![r] = list]
  BY DEF FinishOk, RInv, IInv, TypeOK
<1>4. CASE r \in Coordinators
  <2>1. entry' = entry
    BY <1>1, <1>4 DEF FinishOk, RInv, IInv, TypeOK
  <2>2. Up' = Up /\ Coordinators' = Coordinators
    BY <2>1, SameEntries
  <2>3. Busy[r] /\ Up[r] # "down"
    BY <1>4, UpIs, BusyIs DEF FinishOk
  <2>4. Busy' = [Busy EXCEPT ![r] = FALSE]
    BY <2>2, BusyIs DEF FinishOk, RInv, IInv, TypeOK
  <2>5. Ahead = P!Progress(r, {"started"}, "done")
    <3>1. /\ UNCHANGED <<gen, polls_started>> /\ data_poll'[r] = polls_started[r]
          /\ \A q \in Routers \ {r} : data_poll'[q] = data_poll[q]
      BY DEF FinishOk, RInv, IInv, TypeOK
    <3> QED BY <1>4, <2>2, <3>1, AheadIsProgress
  <2>6. P!Look(IF Up[r] = "hooked" THEN P!Everyone ELSE {}, Ahead)
    BY <1>4, HearMaps DEF FinishOk
  <2> QED BY <1>3, <2>2, <2>3, <2>4, <2>5, <2>6 DEF FinishOk, P!Finish
<1>5. CASE entry[r] = "first"
  <2>1. entry' = [entry EXCEPT ![r] = "shown"]
    BY <1>5 DEF FinishOk, RInv, IInv, TypeOK
  <2>2. Up[r] = "down" /\ Up' = [Up EXCEPT ![r] = "shown"]
    BY <1>5, <2>1 DEF Up, HasRuntimeData, RInv, IInv, TypeOK
  <2>3. \A q \in Routers \ {r} : q \in Coordinators' <=> q \in Coordinators
    BY <2>1 DEF Coordinators, RInv, IInv, TypeOK
  <2>4. Busy' = Busy
    BY <1>1, <1>5, <2>3, BusyIs DEF FinishOk, RInv, IInv, TypeOK
  <2>5. UNCHANGED <<seen, confirming>>
    BY <1>5 DEF FinishOk, Notify, Refresh, RInv, IInv, TypeOK
  <2>6. Noticed' = Noticed
    BY <2>5 DEF Noticed
  <2>7. Wait' = Wait
    <3>1. /\ UNCHANGED <<gen, polls_started>>
          /\ \A q \in Routers \ {r} : data_poll'[q] = data_poll[q]
      BY DEF FinishOk, RInv, IInv, TypeOK
    <3>2. \A c \in Clients : \A q \in Routers \ {r} : Ahead[c][q] = Wait[c][q]
      BY <2>3, <3>1, AheadStays
    <3>3. ASSUME NEW c \in Clients PROVE Ahead[c][r] = Wait[c][r]
      <4>1. \A w \in confirming[c] : ~(w.router = r /\ w.gen = gen[r])
        BY <1>5 DEF RInv, IInv, TypeOK, SnapshotsArePast, IsPast
      <4>2. Ahead[c][r] = "none"
        BY <3>1, <4>1, LevelThenNone DEF Ahead
      <4>3. Wait[c][r] = "none"
        BY <1>1, <1>5, RuntimeIsCoordinator DEF Wait, Progress
      <4> QED BY <4>2, <4>3
    <3>4. \A c \in Clients : \A q \in Routers : Ahead[c][q] = Wait[c][q]
      BY <3>2, <3>3
    <3>5. Ahead = Wait
      BY <3>4 DEF Ahead, Wait
    <3> QED BY <2>5, <3>5, WaitIsAhead
  <2>8. UNCHANGED halted
    <3>1. halted[r] = FALSE
      BY <1>1, <1>5 DEF RInv, NothingYet, IInv, TypeOK, HaltedIsFailed
    <3> QED BY <3>1 DEF FinishOk, RInv, IInv, TypeOK
  <2> QED BY <1>3, <2>2, <2>4, <2>5, <2>6, <2>7, <2>8 DEF FinishOk, P!Came
<1> QED BY <1>2, <1>4, <1>5

LEMMA FinishFailMaps ==
  ASSUME RInv, RInv', NEW r \in Routers, NEW rejected \in BOOLEAN, FinishFail(r, rejected)
  PROVE  P!Fail(r, rejected)
<1>1. r \in Coordinators /\ Up[r] # "down"
  BY UpIs DEF FinishFail, RInv, NothingYet, IInv, TypeOK, Stages
<1>2. Up' = Up /\ Coordinators' = Coordinators
  BY SameEntries DEF FinishFail
<1>3. Busy[r] /\ Busy' = [Busy EXCEPT ![r] = FALSE]
  BY <1>1, <1>2, BusyIs DEF FinishFail, RInv, IInv, TypeOK
<1>4. Ahead = Wait
  <2>1. UNCHANGED <<gen, polls_started, data_poll>>
    BY DEF FinishFail
  <2> QED BY <1>1, <1>2, <2>1, AheadIsProgress
<1>5. P!Look(IF Up[r] = "hooked" /\ ok[r] THEN P!Everyone ELSE {}, Wait)
  <2> DEFINE L == IF ok[r] /\ entry[r] = "loaded" THEN Trackers ELSE {}
  <2>1. L \in SUBSET Clients /\ RouterTypes' /\ DataIsPast'
    BY DEF Trackers, RInv, IInv, TypeOK, RouterTypes
  <2>2. L = IF Up[r] = "hooked" /\ ok[r] THEN P!Everyone ELSE {}
    BY UpIs, EveryoneIs
  <2>3. Refresh(L, asked, Drops(r))
    BY DEF FinishFail
  <2>4. P!Look(L, Ahead)
    <3> HIDE DEF L
    <3> QED BY <2>1, <2>3, LookMaps
  <2> QED BY <1>4, <2>2, <2>4
<1> QED BY <1>1, <1>2, <1>3, <1>5 DEF FinishFail, P!Fail

LEMMA SetupMaps ==
  ASSUME RInv, NEW r \in Routers, Setup(r) \/ SetupFails(r) PROVE UNCHANGED P!pvars
<1>1. /\ r \notin Coordinators
      /\ entry[r] \in {"unloaded", "first"}
      /\ entry'[r] \in {"unloaded", "first"}
  BY UpIs DEF Setup, SetupFails, RInv, IInv, TypeOK
<1>2. \A q \in Routers \ {r} : /\ entry'[q] = entry[q] /\ poll'[q] = poll[q]
                               /\ gen'[q] = gen[q] /\ polls_started'[q] = polls_started[q]
                               /\ data_poll'[q] = data_poll[q]
  BY DEF Setup, SetupFails, Blank, RInv, IInv, TypeOK
<1>3. Coordinators' = Coordinators
  BY <1>1, <1>2 DEF Coordinators, HasRuntimeData
<1>4. \A q \in Routers : Up'[q] = Up[q]
  BY <1>1, <1>2 DEF Up, HasRuntimeData
<1>5. UNCHANGED <<data, ok, halted>>
  <2>1. data[r] = {} /\ ok[r] = TRUE /\ halted[r] = FALSE
    BY <1>1 DEF RInv, NothingYet, IInv, TypeOK, HaltedIsFailed
  <2>2. /\ data' = [data EXCEPT ![r] = {}] /\ ok' = [ok EXCEPT ![r] = TRUE]
        /\ halted' = [halted EXCEPT ![r] = FALSE]
    BY DEF Setup, SetupFails, Blank
  <2> QED BY <2>1, <2>2 DEF RInv, IInv, TypeOK
<1>6. UNCHANGED <<running, seen, confirming>>
  BY DEF Setup, SetupFails, tvars
<1> QED BY <1>1, <1>2, <1>3, <1>4, <1>5, <1>6, StutterMaps

LEMMA AddedMaps ==
  ASSUME RInv, RInv', NEW r \in Routers, AddTrackers(r) \/ HookUp(r) PROVE P!Add(r) \/ P!HookUp(r)
<1>1. RouterTypes' /\ DataIsPast'
  BY DEF RInv, IInv, TypeOK, RouterTypes
<1>2. UNCHANGED <<running, gen, poll, data, ok, halted, polls_started, data_poll>>
  BY DEF AddTrackers, HookUp
<1>3. r \in Coordinators /\ Coordinators' = Coordinators
  BY DEF AddTrackers, HookUp, Coordinators, HasRuntimeData, RInv, IInv, TypeOK
<1>4. Busy' = Busy
  BY <1>2, <1>3, BusyIs
<1>5. Ahead = Wait
  BY <1>2, <1>3, AheadIsProgress
<1>6. CASE AddTrackers(r)
  <2>1. Up[r] = "shown" /\ Up' = [Up EXCEPT ![r] = "added"]
    BY <1>6 DEF AddTrackers, Up, HasRuntimeData, RInv, IInv, TypeOK
  <2>2. P!Look({c \in Clients : Owner[c] = r}, Ahead)
    BY <1>1, <1>6, LookMaps DEF AddTrackers
  <2> QED BY <1>2, <1>4, <1>5, <2>1, <2>2 DEF P!Add
<1>7. CASE HookUp(r)
  <2>1. Up[r] = "added" /\ Up' = [Up EXCEPT ![r] = "hooked"]
    BY <1>7 DEF HookUp, Up, HasRuntimeData, RInv, IInv, TypeOK
  <2>2. P!Look(Trackers, Ahead)
    BY <1>1, <1>7, LookMaps DEF HookUp, Trackers
  <2> QED BY <1>2, <1>4, <1>5, <2>1, <2>2, EveryoneIs DEF P!HookUp
<1> QED BY <1>6, <1>7

LEMMA UnloadMaps ==
  ASSUME RInv, NEW r \in Routers, Unload(r) PROVE P!Down(r)
<1>1. Up[r] = "hooked" /\ Up' = [Up EXCEPT ![r] = "down"]
  BY DEF Unload, Up, HasRuntimeData, RInv, IInv, TypeOK
<1>2. r \notin Coordinators' /\ \A q \in Routers \ {r} : q \in Coordinators' <=> q \in Coordinators
  BY DEF Unload, Coordinators, HasRuntimeData, RInv, IInv, TypeOK
<1>3. Busy' = [Busy EXCEPT ![r] = FALSE]
  BY <1>2, BusyIs DEF Unload, RInv, IInv, TypeOK
<1>4. /\ \A c \in Clients : confirming'[c] = IF Owner[c] = r THEN {} ELSE confirming[c]
      /\ \A q \in Routers \ {r} : /\ gen'[q] = gen[q] /\ polls_started'[q] = polls_started[q]
                                  /\ data_poll'[q] = data_poll[q]
  BY DEF Unload, Blank, RInv, IInv, TypeOK
<1>5. Noticed' = [c \in Clients |-> Owner[c] # r /\ Noticed[c]]
  <2>1. \A c \in Clients : (confirming'[c] # {}) = (Owner[c] # r /\ confirming[c] # {})
    BY <1>4
  <2> QED BY <2>1 DEF Noticed
<1>6. Wait' = [c \in Clients |-> IF Owner[c] = r THEN P!NoWait ELSE [Wait[c] EXCEPT ![r] = "none"]]
  <2> SUFFICES ASSUME NEW c \in Clients
               PROVE  Wait'[c] = IF Owner[c] = r THEN P!NoWait ELSE [Wait[c] EXCEPT ![r] = "none"]
    BY DEF Wait
  <2>1. /\ Wait'[c] = [q \in Routers |-> Wait'[c][q]]
        /\ Wait[c] = [q \in Routers |-> Wait[c][q]]
    BY DEF Wait
  <2>2. \A q \in Routers : Wait'[c][q] = LevelThen(confirming'[c], q)
    BY WaitIsLevelThen
  <2>3. CASE Owner[c] = r
    <3>1. \A q \in Routers : Wait'[c][q] = "none"
      BY <1>4, <2>2, <2>3, LevelThenNone
    <3> QED BY <2>1, <2>3, <3>1 DEF P!NoWait
  <2>4. CASE Owner[c] # r
    <3>1. Wait'[c][r] = "none"
      BY <1>2, <2>2, LevelThenNone
    <3>2. \A q \in Routers \ {r} : Wait'[c][q] = Ahead[c][q]
      BY <1>4, <2>2, <2>4 DEF Ahead
    <3>3. \A q \in Routers \ {r} : Ahead[c][q] = Wait[c][q]
      BY <1>2, <1>4, AheadStays
    <3> QED BY <2>1, <2>4, <3>1, <3>2, <3>3
  <2> QED BY <2>3, <2>4
<1> QED BY <1>1, <1>3, <1>5, <1>6 DEF Unload, Blank, P!Down

LEMMA HAStartedMaps == ASSUME RInv, RInv', HAStarted PROVE P!StartHA
<1>1. RouterTypes' /\ DataIsPast' /\ Trackers \in SUBSET Clients
  BY DEF RInv, IInv, TypeOK, RouterTypes, Trackers
<1>2. UNCHANGED <<entry, gen, poll, data, ok, halted, polls_started, data_poll>>
  BY DEF HAStarted, rvars
<1>3. Up' = Up /\ Coordinators' = Coordinators
  BY <1>2, SameEntries
<1>4. Busy' = Busy
  BY <1>2, <1>3, BusyIs
<1>5. Ahead = Wait
  <2>1. \A c \in Clients, q \in Routers : Ahead[c][q] = Wait[c][q]
    BY <1>2, <1>3, AheadStays
  <2> QED BY <2>1 DEF Ahead, Wait
<1>6. P!Look(Trackers, Ahead)
  BY <1>1, LookMaps DEF HAStarted
<1> QED BY <1>2, <1>3, <1>4, <1>5, <1>6, EveryoneIs DEF HAStarted, P!StartHA

LEMMA NextMaps == RInv /\ RInv' /\ [Next]_vars => [P!PNext]_(P!pvars)
<1> SUFFICES ASSUME RInv, RInv', [Next]_vars PROVE P!PNext \/ UNCHANGED P!pvars
  OBVIOUS
<1>1. CASE UNCHANGED vars
  BY <1>1, StutterMaps, SameEntries DEF vars, rvars, tvars
<1>2. ASSUME NEW c \in Clients, NEW r \in Routers \cup {NoRouter}, Move(c, r)
      PROVE  UNCHANGED P!pvars
  BY <1>2, StutterMaps, SameEntries DEF Move, rvars, tvars
<1>3. CASE HAStarted
  BY <1>3, HAStartedMaps DEF P!PNext
<1>4. ASSUME NEW r \in Routers, RouterStep(r) PROVE P!PNext \/ UNCHANGED P!pvars
  <2>1. CASE IntervalPoll(r) \/ RunRequest(r) \/ TimerEnd(r)
    BY <2>1, PollsMap DEF P!PNext
  <2>2. CASE ReadList(r) \/ Setup(r) \/ SetupFails(r)
    BY <2>2, ReadMaps, SetupMaps
  <2>3. ASSUME NEW rejected \in BOOLEAN, FinishOk(r) \/ FinishFail(r, rejected)
        PROVE  P!PNext
    BY <2>3, FinishOkMaps, FinishFailMaps DEF P!PNext
  <2>4. CASE AddTrackers(r) \/ HookUp(r) \/ Unload(r)
    BY <2>4, AddedMaps, UnloadMaps DEF P!PNext
  <2> QED BY <1>4, <2>1, <2>2, <2>3, <2>4 DEF RouterStep
<1> QED BY <1>1, <1>2, <1>3, <1>4 DEF Next

(* The code's bookkeeping, snapshots of poll counters, coordinator         *)
(* objects, requests and the debouncer, implements the promise of Presence *)
(* for any number of routers and clients and any number of reloads.        *)
THEOREM Implements == Spec => ImplementsPresence
<1>1. Init => RInv
  BY InitIInv, InitFits DEF RInv
<1> QED BY <1>1, InitMaps, NextRInv, NextMaps, PTL DEF Spec, ImplementsPresence, P!Promise

-----------------------------------------------------------------------------
(* What is shown and what was published.                                   *)

\* the tracker of c shows what the loaded routers published
Agrees(c) ==
  \A r \in Routers : entry[r] = "loaded" =>
    /\ seen[c] = r => c \in data[r] \/ confirming[c] # {}
    /\ c \in data[r] => seen[c] # NoRouter /\ confirming[c] = {}

\* a tracker that looks agrees with every list there is
LEMMA LookAgrees ==
  ASSUME NEW T \in SUBSET Clients, NEW queued, NEW dropped, Refresh(T, queued, dropped),
         NEW c \in T
  PROVE  Agrees(c)'
<1>1. /\ seen'[c] = IF Pending(c) = {} THEN ConnectedOn(c) ELSE seen[c]
      /\ confirming'[c] = IF Pending(c) = {} THEN {} ELSE Snapshot(c)
  BY DEF Refresh
<1>2. /\ ConnectedOn(c) = NoRouter => \A r \in Coordinators' : c \notin data'[r]
      /\ ConnectedOn(c) # NoRouter => c \in data'[ConnectedOn(c)]
  BY ConnectedOnHolds DEF Coordinators, Routers, NoRouter
<1>3. \A r \in Routers : entry'[r] = "loaded" => r \in Coordinators'
  BY DEF Coordinators, HasRuntimeData
<1>4. CASE Pending(c) = {}
  BY <1>1, <1>2, <1>3, <1>4 DEF Agrees, Routers, NoRouter
<1>5. CASE Pending(c) # {}
  <2>1. ConnectedOn(c) = NoRouter /\ Snapshot(c) # {}
    BY <1>5 DEF Pending
  <2> QED BY <1>1, <1>2, <1>3, <1>5, <2>1 DEF Agrees
<1> QED BY <1>4, <1>5

\* a tracker that does not look agrees as long as no list of a loaded router changes
LEMMA QuietAgrees ==
  ASSUME NEW c \in Clients, Agrees(c), seen'[c] = seen[c], confirming'[c] = confirming[c],
         \A r \in Routers : entry'[r] = "loaded" => entry[r] = "loaded" /\ data'[r] = data[r]
  PROVE  Agrees(c)'
BY DEF Agrees

\* a step of router r that every tracker hears of if r is loaded
LEMMA NotifyShows ==
  ASSUME ShownIsPublished, NEW r \in Routers, NEW queued, NEW dropped,
         Notify(r, queued, dropped),
         \A q \in Routers : entry'[q] \in {"added", "loaded"} <=> entry[q] \in {"added", "loaded"},
         \A q \in Routers : entry'[q] = "loaded" <=> entry[q] = "loaded",
         \A q \in Routers \ {r} : data'[q] = data[q]
  PROVE  ShownIsPublished'
<1>1. Trackers' = Trackers
  BY TrackersAssumption DEF Trackers, Connected
<1>2. ASSUME NEW c \in Trackers PROVE Agrees(c)'
  <2>1. CASE entry[r] = "loaded"
    <3>1. Refresh(Trackers, queued, dropped) /\ Trackers \in SUBSET Clients
      BY <2>1 DEF Notify, Trackers
    <3> QED BY <3>1, LookAgrees
  <2>2. CASE entry[r] # "loaded"
    <3>1. c \in Clients /\ Agrees(c)
      BY DEF Trackers, ShownIsPublished, Agrees
    <3>2. seen'[c] = seen[c] /\ confirming'[c] = confirming[c]
      BY <2>2, <3>1 DEF Notify, Refresh
    <3> QED BY <2>2, <3>1, <3>2, QuietAgrees
  <2> QED BY <2>1, <2>2
<1> QED BY <1>1, <1>2 DEF ShownIsPublished, Agrees

\* a step of which no tracker hears and that changes no list of a loaded router
LEMMA QuietShows ==
  ASSUME ShownIsPublished, UNCHANGED <<seen, confirming>>,
         \A r \in Routers : entry'[r] \in {"added", "loaded"} => entry'[r] = entry[r],
         \A r \in Routers : entry'[r] = "loaded" => data'[r] = data[r]
  PROVE  ShownIsPublished'
<1>1. \A c \in Trackers' : c \in Trackers
  BY TrackersAssumption DEF Trackers, Connected
<1> QED BY <1>1 DEF ShownIsPublished

LEMMA StartShows ==
  ASSUME ShownIsPublished, NEW r \in Routers, NEW byRequest, NEW queued,
         StartPoll(r, byRequest, queued)
  PROVE  ShownIsPublished'
<1>1. UNCHANGED <<entry, data>>
  BY DEF StartPoll, Send, Skip
<1>2. CASE Send(r, byRequest)
  BY <1>1, <1>2, QuietShows DEF Send
<1>3. CASE Skip(r, byRequest, queued)
  BY <1>1, <1>3, NotifyShows DEF Skip
<1> QED BY <1>2, <1>3 DEF StartPoll

LEMMA PollsShow ==
  ASSUME ShownIsPublished, NEW r \in Routers,
         IntervalPoll(r) \/ RunRequest(r) \/ TimerEnd(r) \/ ReadList(r)
  PROVE  ShownIsPublished'
<1>1. CASE \E byRequest, queued : StartPoll(r, byRequest, queued)
  BY <1>1, StartShows
<1>2. CASE UNCHANGED <<entry, data, seen, confirming>>
  BY <1>2, QuietShows
<1> QED BY <1>1, <1>2 DEF IntervalPoll, RunRequest, TimerEnd, ReadList, rvars, tvars

LEMMA PollEndsShow ==
  ASSUME TypeOK, ShownIsPublished, NEW r \in Routers, NEW rejected \in BOOLEAN,
         FinishOk(r) \/ FinishFail(r, rejected)
  PROVE  ShownIsPublished'
<1>1. CASE FinishOk(r)
  <2>1. /\ \A q \in Routers : entry'[q] = IF q = r /\ entry[q] = "first" THEN "shown" ELSE entry[q]
        /\ \A q \in Routers \ {r} : data'[q] = data[q]
    BY <1>1 DEF FinishOk, TypeOK
  <2> QED BY <1>1, <2>1, NotifyShows DEF FinishOk
<1>2. CASE FinishFail(r, rejected)
  <2>1. UNCHANGED <<entry, data>>
    BY <1>2 DEF FinishFail
  <2>2. CASE ok[r]
    <3>1. Notify(r, asked, Drops(r))
      BY <1>2, <2>2 DEF FinishFail, Notify
    <3> QED BY <2>1, <3>1, NotifyShows
  <2>3. CASE ~ok[r]
    <3>1. UNCHANGED <<seen, confirming>>
      BY <1>2, <2>3 DEF FinishFail, Refresh, TypeOK
    <3> QED BY <2>1, <3>1, QuietShows
  <2> QED BY <2>2, <2>3
<1> QED BY <1>1, <1>2

LEMMA EntriesShow ==
  ASSUME TypeOK, ShownIsPublished, NEW r \in Routers,
         Setup(r) \/ SetupFails(r) \/ AddTrackers(r) \/ HookUp(r) \/ Unload(r)
  PROVE  ShownIsPublished'
<1>1. CASE Setup(r) \/ SetupFails(r)
  <2>1. /\ UNCHANGED <<seen, confirming>> /\ entry'[r] \in {"first", "unloaded"}
        /\ \A q \in Routers \ {r} : entry'[q] = entry[q] /\ data'[q] = data[q]
    BY <1>1 DEF Setup, SetupFails, Blank, tvars, TypeOK
  <2> QED BY <2>1, QuietShows
<1>2. CASE AddTrackers(r)
  <2> DEFINE T == {c \in Clients : Owner[c] = r}
  <2>1. /\ Refresh(T, asked, {}) /\ UNCHANGED data /\ entry'[r] = "added"
        /\ \A q \in Routers \ {r} : entry'[q] = entry[q]
    BY <1>2 DEF AddTrackers, TypeOK
  <2>2. ASSUME NEW c \in Trackers' PROVE Agrees(c)'
    <3>1. CASE c \in T
      BY <2>1, <3>1, LookAgrees
    <3>2. CASE c \notin T
      <4>1. c \in Trackers
        BY <2>1, <2>2, <3>2, TrackersAssumption DEF Trackers, Connected
      <4>2. seen'[c] = seen[c] /\ confirming'[c] = confirming[c] /\ c \in Clients
        BY <2>1, <3>2, <4>1 DEF Refresh, Trackers
      <4>3. Agrees(c)
        BY <4>1 DEF ShownIsPublished, Agrees
      <4> QED BY <2>1, <4>2, <4>3, QuietAgrees
    <3> QED BY <3>1, <3>2
  <2> QED BY <2>2 DEF ShownIsPublished, Agrees
<1>3. CASE HookUp(r)
  <2>1. /\ Refresh(Trackers, asked, {}) /\ Trackers \in SUBSET Clients
        /\ entry[r] = "added" /\ \A q \in Routers \ {r} : entry'[q] = entry[q]
    BY <1>3 DEF HookUp, Trackers, TypeOK
  <2>2. \A c \in Trackers' : c \in Trackers
    BY <2>1, TrackersAssumption DEF Trackers, Connected
  <2>3. \A c \in Trackers : Agrees(c)'
    BY <2>1, LookAgrees
  <2> QED BY <2>2, <2>3 DEF ShownIsPublished, Agrees
<1>4. CASE Unload(r)
  <2>1. /\ entry'[r] = "unloaded"
        /\ \A q \in Routers \ {r} : entry'[q] = entry[q] /\ data'[q] = data[q]
        /\ \A c \in Clients : Owner[c] # r => seen'[c] = seen[c] /\ confirming'[c] = confirming[c]
    BY <1>4 DEF Unload, Blank, TypeOK
  <2>2. ASSUME NEW c \in Trackers' PROVE Agrees(c)'
    <3>1. c \in Trackers /\ c \in Clients /\ Owner[c] # r
      BY <2>1, <2>2, TrackersAssumption DEF Trackers, Connected
    <3>2. Agrees(c)
      BY <3>1 DEF ShownIsPublished, Agrees
    <3> QED BY <2>1, <3>1, <3>2, QuietAgrees
  <2> QED BY <2>2 DEF ShownIsPublished, Agrees
<1> QED BY <1>1, <1>2, <1>3, <1>4

LEMMA NextShows == ASSUME TypeOK, ShownIsPublished, [Next]_vars PROVE ShownIsPublished'
<1>1. CASE UNCHANGED vars
  BY <1>1, QuietShows DEF vars, rvars, tvars
<1>2. ASSUME NEW c \in Clients, NEW r \in Routers \cup {NoRouter}, Move(c, r)
      PROVE  ShownIsPublished'
  BY <1>2, QuietShows DEF Move, rvars, tvars
<1>3. CASE HAStarted
  <2>1. Refresh(Trackers, asked, {}) /\ Trackers \in SUBSET Clients /\ UNCHANGED entry
    BY <1>3 DEF HAStarted, Trackers, rvars
  <2>2. Trackers' = Trackers
    BY <2>1 DEF Trackers, Connected
  <2>3. \A c \in Trackers : Agrees(c)'
    BY <2>1, LookAgrees
  <2> QED BY <2>2, <2>3 DEF ShownIsPublished, Agrees
<1>4. ASSUME NEW r \in Routers, RouterStep(r) PROVE ShownIsPublished'
  <2>1. ASSUME NEW rejected \in BOOLEAN, FinishFail(r, rejected) PROVE ShownIsPublished'
    BY <2>1, PollEndsShow
  <2>2. CASE FinishOk(r)
    <3>1. TRUE \in BOOLEAN
      OBVIOUS
    <3> QED BY <2>2, <3>1, PollEndsShow
  <2> QED BY <1>4, <2>1, <2>2, PollsShow, EntriesShow DEF RouterStep
<1> QED BY <1>1, <1>2, <1>3, <1>4 DEF Next

(* What a tracker shows is what the loaded routers published, whichever    *)
(* updates the trackers hear of and whichever nobody is told.              *)
THEOREM ShownPublished == Spec => []ShownIsPublished
<1>1. Init => ShownIsPublished
  BY DEF Init, ShownIsPublished
<1>2. IInv => TypeOK
  BY DEF IInv
<1> QED BY <1>1, <1>2, InitIInv, NextIInv, NextShows, PTL DEF Spec

-----------------------------------------------------------------------------
(* The types of what Presence sees.                                        *)
LEMMA LookTypes ==
  ASSUME P!PTypeOK, NEW L, NEW w \in [Clients -> [Routers -> P!Levels]], P!Look(L, w)
  PROVE  /\ seen' \in [Clients -> Routers \cup {NoRouter}]
         /\ Noticed' \in [Clients -> BOOLEAN]
         /\ Wait' \in [Clients -> [Routers -> P!Levels]]
<1>1. ASSUME NEW c \in Clients PROVE P!Asked(c, w) \in [Routers -> P!Levels]
  BY DEF P!Asked, P!Levels
<1>2. P!NoWait \in [Routers -> P!Levels]
  BY DEF P!NoWait, P!Levels
<1>3. PICK pick \in [Clients -> Routers \cup {NoRouter}] :
    /\ seen' = [c \in Clients |->
                  IF c \in L /\ ~P!MustWait(c, w) THEN pick[c] ELSE seen[c]]
    /\ Noticed' = [c \in Clients |-> IF c \in L THEN P!MustWait(c, w) ELSE Noticed[c]]
    /\ Wait' = [c \in Clients |->
                  CASE c \notin L                     -> w[c]
                    [] c \in L /\ P!MustWait(c, w)      -> P!Asked(c, w)
                    [] c \in L /\ ~P!MustWait(c, w)     -> P!NoWait]
  BY DEF P!Look
<1>4. seen' \in [Clients -> Routers \cup {NoRouter}]
  BY <1>3 DEF P!PTypeOK
<1>5. Noticed' \in [Clients -> BOOLEAN]
  BY <1>3 DEF P!PTypeOK, P!MustWait
<1>6. ASSUME NEW c \in Clients PROVE Wait'[c] \in [Routers -> P!Levels]
  BY <1>1, <1>2, <1>3
<1>7. Wait' = [c \in Clients |-> Wait'[c]]
  BY <1>3
<1> QED BY <1>4, <1>5, <1>6, <1>7

LEMMA ProgressTypes ==
  ASSUME P!PTypeOK, NEW r \in Routers, NEW from, NEW to \in P!Levels
  PROVE  P!Progress(r, from, to) \in [Clients -> [Routers -> P!Levels]]
BY DEF P!PTypeOK, P!Progress

LEMMA PresenceTypesStay == P!PTypeOK /\ [P!PNext]_(P!pvars) => P!PTypeOK'
<1> SUFFICES ASSUME P!PTypeOK, [P!PNext]_(P!pvars) PROVE P!PTypeOK'
  OBVIOUS
<1>1. CASE UNCHANGED P!pvars
  BY <1>1 DEF P!pvars, P!PTypeOK
<1>2. CASE P!StartHA
  <2>1. Wait \in [Clients -> [Routers -> P!Levels]]
    BY DEF P!PTypeOK
  <2> QED BY <1>2, <2>1, LookTypes DEF P!StartHA, P!PTypeOK
<1>3. ASSUME NEW r \in Routers,
             \/ P!Start(r) \/ P!Finish(r) \/ P!Skip(r)
             \/ \E rejected \in BOOLEAN : P!Fail(r, rejected)
      PROVE  P!PTypeOK'
  <2>1. /\ Wait \in [Clients -> [Routers -> P!Levels]]
        /\ \A from : /\ P!Progress(r, from, "started") \in [Clients -> [Routers -> P!Levels]]
                     /\ P!Progress(r, from, "done") \in [Clients -> [Routers -> P!Levels]]
    BY ProgressTypes DEF P!PTypeOK, P!Levels
  <2>2. CASE P!Start(r)
    BY <2>1, <2>2 DEF P!Start, P!PTypeOK
  <2>3. CASE P!Finish(r)
    BY <2>1, <2>3, LookTypes DEF P!Finish, P!PTypeOK
  <2>4. ASSUME NEW rejected \in BOOLEAN, P!Fail(r, rejected) PROVE P!PTypeOK'
    BY <2>1, <2>4, LookTypes DEF P!Fail, P!PTypeOK
  <2>5. CASE P!Skip(r)
    BY <2>1, <2>5, LookTypes DEF P!Skip, P!PTypeOK
  <2> QED BY <1>3, <2>2, <2>3, <2>4, <2>5
<1>4. ASSUME NEW r \in Routers, P!Came(r) \/ P!Add(r) \/ P!HookUp(r)
      PROVE  P!PTypeOK'
  <2>1. Wait \in [Clients -> [Routers -> P!Levels]]
    BY DEF P!PTypeOK
  <2>2. CASE P!Came(r)
    BY <2>2 DEF P!Came, P!PTypeOK, P!Stages
  <2>3. CASE P!Add(r)
    BY <2>1, <2>3, LookTypes DEF P!Add, P!PTypeOK, P!Stages
  <2>4. CASE P!HookUp(r)
    BY <2>1, <2>4, LookTypes DEF P!HookUp, P!PTypeOK, P!Stages
  <2> QED BY <1>4, <2>2, <2>3, <2>4
<1>5. ASSUME NEW r \in Routers, P!Down(r) PROVE P!PTypeOK'
  <2>1. \A c \in Clients :
          /\ P!NoWait \in [Routers -> P!Levels]
          /\ [Wait[c] EXCEPT ![r] = "none"] \in [Routers -> P!Levels]
    BY DEF P!PTypeOK, P!NoWait, P!Levels
  <2> QED BY <1>5, <2>1 DEF P!Down, P!PTypeOK, P!Stages
<1> QED BY <1>1, <1>2, <1>3, <1>4, <1>5 DEF P!PNext

LEMMA PresenceInitTypes == P!PInit => P!PTypeOK
BY DEF P!PInit, P!PTypeOK, P!Stages, P!Levels, P!NoWait

(* The promise keeps its types, for any routers and clients.               *)
THEOREM PromiseTyped == P!Promise => []P!PTypeOK
BY PresenceInitTypes, PresenceTypesStay, PTL DEF P!Promise

(* What the promise sees of the code's state, by way of the refinement, has *)
(* the types of the promise.                                                *)
THEOREM PresenceTyped == Spec => []P!PTypeOK
BY Implements, PromiseTyped, PTL DEF ImplementsPresence

-----------------------------------------------------------------------------
(* A departure that waits never begins its wait anew.                      *)

\* the waits of w are as far as those of the trackers, or further
NotBehind(w) ==
  \A c \in Clients, r \in Routers : P!Rank(w[c][r]) >= P!Rank(Wait[c][r])

\* the waits of the departures that go on waiting
Onward ==
  \A c \in Clients : Noticed[c] /\ Noticed'[c] =>
    \A r \in Routers : P!Rank(Wait'[c][r]) >= P!Rank(Wait[c][r])

LEMMA RankIsNat == \A level : P!Rank(level) \in 0..2
BY DEF P!Rank

LEMMA WaitIsNotBehind == NotBehind(Wait)
BY RankIsNat DEF NotBehind

LEMMA LookGoesOn ==
  ASSUME P!PTypeOK, NEW L, NEW w \in [Clients -> [Routers -> P!Levels]], P!Look(L, w),
         NotBehind(w)
  PROVE  Onward
<1>1. PICK pick \in [Clients -> Routers \cup {NoRouter}] :
    /\ Noticed' = [c \in Clients |-> IF c \in L THEN P!MustWait(c, w) ELSE Noticed[c]]
    /\ Wait' = [c \in Clients |->
                  CASE c \notin L                     -> w[c]
                    [] c \in L /\ P!MustWait(c, w)      -> P!Asked(c, w)
                    [] c \in L /\ ~P!MustWait(c, w)     -> P!NoWait]
  BY DEF P!Look
<1>2. ASSUME NEW c \in Clients, Noticed[c], Noticed'[c] PROVE Wait'[c] = w[c]
  <2>1. CASE c \notin L
    BY <1>1, <2>1
  <2>2. CASE c \in L
    <3>1. P!MustWait(c, w)
      BY <1>1, <1>2, <2>2
    <3> QED BY <1>1, <1>2, <2>2, <3>1 DEF P!Asked
  <2> QED BY <2>1, <2>2
<1> QED BY <1>2 DEF NotBehind, Onward

LEMMA ProgressGoesOn ==
  ASSUME P!PTypeOK, NEW r \in Routers
  PROVE  /\ NotBehind(P!Progress(r, {"asked"}, "started"))
         /\ NotBehind(P!Progress(r, {"started"}, "done"))
         /\ NotBehind(P!Progress(r, {"asked", "started"}, "done"))
<1>1. ASSUME NEW from, NEW to,
             \A level \in from : P!Rank(to) >= P!Rank(level)
      PROVE  NotBehind(P!Progress(r, from, to))
  <2>1. \A c \in Clients : \A q \in Routers :
          \/ P!Progress(r, from, to)[c][q] = Wait[c][q]
          \/ Wait[c][q] \in from /\ P!Progress(r, from, to)[c][q] = to
    BY DEF P!PTypeOK, P!Progress
  <2> QED BY <1>1, <2>1, RankIsNat DEF NotBehind
<1>2. P!Rank("asked") = 0 /\ P!Rank("started") = 1 /\ P!Rank("done") = 2
  BY DEF P!Rank
<1> QED BY <1>1, <1>2

LEMMA PromiseGoesOn == P!PTypeOK /\ [P!PNext]_(P!pvars) => Onward
<1> SUFFICES ASSUME P!PTypeOK, [P!PNext]_(P!pvars) PROVE Onward
  OBVIOUS
<1>0. Wait \in [Clients -> [Routers -> P!Levels]]
  BY DEF P!PTypeOK
<1>1. CASE UNCHANGED Wait
  BY <1>1, RankIsNat DEF Onward
<1>2. CASE P!StartHA
  BY <1>0, <1>2, WaitIsNotBehind, LookGoesOn DEF P!StartHA
<1>3. ASSUME NEW r \in Routers,
             \/ P!Start(r) \/ P!Finish(r) \/ P!Skip(r) \/ P!Add(r) \/ P!HookUp(r)
             \/ \E rejected \in BOOLEAN : P!Fail(r, rejected)
      PROVE  Onward
  <2>1. \A from : /\ P!Progress(r, from, "started") \in [Clients -> [Routers -> P!Levels]]
                  /\ P!Progress(r, from, "done") \in [Clients -> [Routers -> P!Levels]]
    BY ProgressTypes DEF P!Levels
  <2>2. CASE P!Start(r)
    BY <2>2, ProgressGoesOn DEF P!Start, NotBehind, Onward
  <2>3. CASE P!Finish(r)
    BY <2>1, <2>3, ProgressGoesOn, LookGoesOn DEF P!Finish
  <2>4. CASE P!Skip(r)
    BY <2>1, <2>4, ProgressGoesOn, LookGoesOn DEF P!Skip
  <2>5. CASE P!Add(r) \/ P!HookUp(r) \/ \E rejected \in BOOLEAN : P!Fail(r, rejected)
    BY <1>0, <2>5, WaitIsNotBehind, LookGoesOn DEF P!Fail, P!Add, P!HookUp
  <2> QED BY <1>3, <2>2, <2>3, <2>4, <2>5
<1>4. ASSUME NEW r \in Routers, P!Down(r) PROVE Onward
  <2>1. ASSUME NEW c \in Clients, Noticed'[c], NEW q \in Routers
        PROVE  Wait'[c][q] \in {Wait[c][q], "none"}
    BY <1>0, <1>4, <2>1 DEF P!Down
  <2>2. P!Rank("none") = 2
    BY DEF P!Rank
  <2> QED BY <2>1, <2>2, RankIsNat DEF Onward
<1> QED BY <1>1, <1>2, <1>3, <1>4 DEF P!PNext, P!pvars, P!Came

(* A router that has begun or ended the poll that is to confirm a          *)
(* departure is not asked for it again, and no other router is added: so   *)
(* each keeps the tracker waiting for one poll at most.  For any routers   *)
(* and clients.                                                            *)
THEOREM PromiseNeverAsksAgain == P!Promise => P!NeverAskedAgain
<1>1. P!PTypeOK /\ [P!PNext]_(P!pvars) => [Onward]_(P!pvars)
  BY PromiseGoesOn
<1>2. P!PTypeOK /\ [P!PNext]_(P!pvars) =>
        [\A c \in Clients : Noticed[c] /\ Noticed'[c] =>
           \A r \in Routers : P!Rank(Wait'[c][r]) >= P!Rank(Wait[c][r])]_(P!pvars)
  BY <1>1 DEF Onward
<1> QED BY <1>2, PromiseTyped, PTL DEF P!Promise, P!NeverAskedAgain

(* Nor does the code, whose snapshots it is that are shown as waits: the   *)
(* counters of a router only grow, and a snapshot of a router that was     *)
(* reloaded asks nothing of its successor.                                 *)
THEOREM SnapshotsStand == Spec => P!NeverAskedAgain
BY Implements, PromiseNeverAsksAgain, PTL DEF ImplementsPresence

-----------------------------------------------------------------------------
(* A client that left every list for good.  That polls go on and that each *)
(* departure is decided are hypotheses, since ENABLED and an induction     *)
(* over the routers waited for are beyond the provers.                     *)

Gone(c) == \A r \in Routers : c \notin data[r]
Away(c) == seen[c] = NoRouter
Undecided(c) == Noticed[c]

\* a client without a tracker is nowhere
NoTrackerNoRouter == \A c \in Clients : P!Exists(c) \/ Away(c)

LEMMA GoneLook ==
  ASSUME NEW L, NEW w, P!Look(L, w), NEW c \in Clients
  PROVE  /\ c \notin L => seen'[c] = seen[c] /\ Noticed'[c] = Noticed[c]
         /\ Gone(c)' =>
              /\ c \in L => Away(c)' \/ Noticed'[c]
              /\ Away(c) => Away(c)'
              /\ Noticed[c] /\ ~Noticed'[c] => Away(c)'
<1>1. PICK pick \in [Clients -> Routers \cup {NoRouter}] :
    /\ \A d \in Clients :
         IF P!Holders(d) = {} THEN pick[d] = NoRouter ELSE pick[d] \in P!Holders(d)
    /\ seen' = [d \in Clients |->
                  IF d \in L /\ ~P!MustWait(d, w) THEN pick[d] ELSE seen[d]]
    /\ Noticed' = [d \in Clients |-> IF d \in L THEN P!MustWait(d, w) ELSE Noticed[d]]
  BY DEF P!Look
<1>2. c \notin L => seen'[c] = seen[c] /\ Noticed'[c] = Noticed[c]
  BY <1>1
<1>3. ASSUME Gone(c)', c \in L
      PROVE  IF P!MustWait(c, w) THEN Noticed'[c] /\ ~Away(c) ELSE Away(c)'
  <2>1. P!Holders(c) = {}
    BY <1>3 DEF Gone, P!Holders
  <2>2. pick[c] = NoRouter
    BY <1>1, <2>1
  <2>3. CASE P!MustWait(c, w)
    <3>1. Noticed'[c]
      BY <1>1, <1>3, <2>3
    <3>2. ~Away(c)
      BY <2>3 DEF P!MustWait, Away
    <3> QED BY <2>3, <3>1, <3>2
  <2>4. CASE ~P!MustWait(c, w)
    BY <1>1, <1>3, <2>2, <2>4 DEF Away
  <2> QED BY <2>3, <2>4
<1> QED BY <1>2, <1>3 DEF Away

LEMMA GoneStep ==
  ASSUME [P!PNext]_(P!pvars), NEW c \in Clients, Gone(c)'
  PROVE  /\ Away(c) => Away(c)'
         /\ Noticed[c] /\ ~Noticed'[c] => Away(c)'
<1>1. CASE \E L, w : P!Look(L, w)
  BY <1>1, GoneLook
<1>2. CASE UNCHANGED <<seen, Noticed>>
  BY <1>2 DEF Away
<1>3. ASSUME NEW r \in Routers, P!Down(r)
      PROVE  /\ Away(c) => Away(c)'
             /\ Noticed[c] /\ ~Noticed'[c] => Away(c)'
  <2>1. /\ seen'[c] = IF Owner[c] = r THEN NoRouter ELSE seen[c]
        /\ Noticed'[c] <=> Owner[c] # r /\ Noticed[c]
    BY <1>3 DEF P!Down
  <2> QED BY <2>1 DEF Away
<1> QED BY <1>1, <1>2, <1>3 DEF P!PNext, P!pvars, P!StartHA, P!Start, P!Finish, P!Fail,
                                P!Skip, P!Came, P!Add, P!HookUp

LEMMA TrackersShow == NoTrackerNoRouter /\ [P!PNext]_(P!pvars) => NoTrackerNoRouter'
<1> SUFFICES ASSUME NoTrackerNoRouter, [P!PNext]_(P!pvars), NEW c \in Clients
             PROVE  P!Exists(c)' \/ Away(c)'
  BY DEF NoTrackerNoRouter
<1>0. P!Exists(c) \/ Away(c)
  BY DEF NoTrackerNoRouter
<1>1. CASE UNCHANGED <<Up, seen>>
  BY <1>0, <1>1 DEF P!Exists, Away
<1>2. ASSUME NEW L, NEW w, P!Look(L, w),
             c \in L => P!Exists(c)', P!Exists(c) => P!Exists(c)'
      PROVE  P!Exists(c)' \/ Away(c)'
  BY <1>0, <1>2, GoneLook DEF Away
<1>3. ASSUME NEW r \in Routers, P!Add(r) \/ P!HookUp(r) PROVE P!Exists(c)' \/ Away(c)'
  <2>1. /\ \A q \in Routers \ {r} : Up'[q] = Up[q]
        /\ Up'[r] \in {"added", "hooked"}
    BY <1>3 DEF P!Add, P!HookUp, Up
  <2>2. PICK L, w : P!Look(L, w) /\ (c \in L => Owner[c] = r \/ P!Exists(c))
    BY <1>3 DEF P!Add, P!HookUp, P!Everyone
  <2>3. Owner[c] \in Routers
    BY TrackersAssumption
  <2> QED BY <1>2, <2>1, <2>2, <2>3 DEF P!Exists
<1>4. ASSUME NEW r \in Routers,
             P!Finish(r) \/ P!Skip(r) \/ \E rejected \in BOOLEAN : P!Fail(r, rejected)
      PROVE  P!Exists(c)' \/ Away(c)'
  <2>0. \A L \in {P!Everyone, {}} : c \in L => P!Exists(c)
    BY DEF P!Everyone
  <2>1. PICK L, w : P!Look(L, w) /\ (c \in L => P!Exists(c))
    <3>1. CASE P!Finish(r)
      <4>1. P!Look(IF Up[r] = "hooked" THEN P!Everyone ELSE {},
                   P!Progress(r, {"started"}, "done"))
        BY <3>1 DEF P!Finish
      <4> QED BY <2>0, <4>1
    <3>2. CASE P!Skip(r)
      <4>1. P!Look(IF Up[r] = "hooked" THEN P!Everyone ELSE {},
                   P!Progress(r, {"asked", "started"}, "done"))
        BY <3>2 DEF P!Skip
      <4> QED BY <2>0, <4>1
    <3>3. ASSUME NEW rejected \in BOOLEAN, P!Fail(r, rejected)
          PROVE  \E L, w : P!Look(L, w) /\ (c \in L => P!Exists(c))
      <4>1. P!Look(IF Up[r] = "hooked" /\ ok[r] THEN P!Everyone ELSE {}, Wait)
        BY <3>3 DEF P!Fail
      <4> QED BY <2>0, <4>1
    <3> QED BY <1>4, <3>1, <3>2, <3>3
  <2>2. P!Exists(c)' <=> P!Exists(c)
    BY <1>4 DEF P!Finish, P!Fail, P!Skip, P!Exists
  <2> QED BY <1>2, <2>1, <2>2
<1>5. CASE P!StartHA
  <2>1. PICK L, w : P!Look(L, w) /\ (c \in L => P!Exists(c))
    BY <1>5 DEF P!StartHA, P!Everyone
  <2>2. P!Exists(c)' <=> P!Exists(c)
    BY <1>5 DEF P!StartHA, P!Exists
  <2> QED BY <1>2, <2>1, <2>2
<1>6. ASSUME NEW r \in Routers, P!Came(r) \/ P!Down(r) PROVE P!Exists(c)' \/ Away(c)'
  <2>1. /\ \A q \in Routers \ {r} : Up'[q] = Up[q]
        /\ P!Came(r) => Up[r] = "down"
        /\ seen'[c] = seen[c] \/ Away(c)'
        /\ P!Down(r) /\ Owner[c] = r => Away(c)'
    BY <1>6 DEF P!Came, P!Down, Up, Away
  <2>2. Owner[c] \in Routers
    BY TrackersAssumption
  <2> QED BY <1>0, <1>6, <2>1, <2>2 DEF P!Exists, Away
<1> QED BY <1>1, <1>3, <1>4, <1>5, <1>6 DEF P!PNext, P!pvars, P!Start

LEMMA InitShows == P!PInit => NoTrackerNoRouter
BY DEF P!PInit, NoTrackerNoRouter, Away

\* a loaded router's poll ends well, and every tracker looks
Answers == \E r \in Routers : Up[r] = "hooked" /\ P!Finish(r)

LEMMA AnswersShow ==
  ASSUME NoTrackerNoRouter, Answers, NEW c \in Clients, Gone(c)'
  PROVE  Away(c)' \/ Noticed'[c]
<1>1. PICK r \in Routers : Up[r] = "hooked" /\ P!Finish(r)
  BY DEF Answers
<1>2. P!Look(P!Everyone, P!Progress(r, {"started"}, "done"))
  BY <1>1 DEF P!Finish
<1> QED BY <1>2, GoneLook DEF P!Everyone, NoTrackerNoRouter, Away

(* If departures are decided and some loaded router goes on answering, a   *)
(* client that left every list for good is shown not_home in the end, and  *)
(* stays so: a decision is for not_home when no list has the client, a     *)
(* look decides or notices, and no later look, unload or set-up shows the  *)
(* client anew.                                                            *)
THEOREM DecidedIsShown ==
  P!Promise /\ P!DepartureDecided /\ []<><<Answers>>_(P!pvars) => P!GoneIsShown
<1>1. ASSUME NEW c \in Clients
      PROVE  P!Promise /\ (Undecided(c) ~> ~Undecided(c)) /\ []<><<Answers>>_(P!pvars)
               => (<>[]Gone(c) => <>[]Away(c))
  <2>1. [P!PNext]_(P!pvars) /\ Gone(c)' =>
          (Away(c) => Away(c)') /\ (Undecided(c) /\ ~Undecided(c)' => Away(c)')
    BY GoneStep DEF Undecided
  <2>2. NoTrackerNoRouter /\ <<Answers>>_(P!pvars) /\ Gone(c)' => Away(c)' \/ Undecided(c)'
    BY AnswersShow DEF Undecided
  <2> QED BY <2>1, <2>2, InitShows, TrackersShow, PTL DEF P!Promise
<1>2. ASSUME NEW c \in Clients
      PROVE  P!DepartureDecided /\ []<>P!Polling => (Undecided(c) ~> ~Undecided(c))
  <2>1. P!DepartureDecided /\ []<>P!Polling => (Noticed[c] ~> ~Noticed[c])
    BY DEF P!DepartureDecided
  <2>2. Undecided(c) <=> Noticed[c]
    BY DEF Undecided
  <2> QED BY <2>1, <2>2, PTL
<1>3. ASSUME NEW c \in Clients
      PROVE  P!Promise /\ P!DepartureDecided /\ []<><<Answers>>_(P!pvars) /\ []<>P!Polling
               => (<>[](\A r \in Routers : c \notin data[r]) => <>[](seen[c] = NoRouter))
  <2>1. (Gone(c) <=> \A r \in Routers : c \notin data[r]) /\ (Away(c) <=> seen[c] = NoRouter)
    BY DEF Gone, Away
  <2> QED BY <1>1, <1>2, <2>1, PTL
<1> QED BY <1>3 DEF P!GoneIsShown

(* The same of the code's trackers.                                        *)
THEOREM TrackersDecideAndShow ==
  Spec /\ P!DepartureDecided /\ []<><<Answers>>_(P!pvars) => P!GoneIsShown
BY Implements, DecidedIsShown DEF ImplementsPresence

-----------------------------------------------------------------------------
(* Roaming: the history of a client that moved at most once.               *)

\* while Home Assistant starts only first refreshes are in flight
NoEarlyPoll == \A r \in Routers : ~running /\ HasRuntimeData(entry[r]) => poll[r] = "idle"

\* an entry that was never set up is not loaded
NeverSetUp == \A r \in Routers \ Configured : entry[r] = "unloaded"

\* the snapshot w waits for a poll of the router b by the object it has now
AwaitsOf(w, b) == w.router = b /\ w.gen = gen[b]

\* b, where c moved to, has not published a list with c; if the departure of c from
\* its old router is noticed, a poll of b that has not begun, or will show c, confirms it
Arriving(c, b) ==
  /\ seen[c] # b
  /\ \A w \in confirming[c] : AwaitsOf(w, b) =>
       /\ data_poll[b] <= w.started
       /\ poll[b] = "read" /\ polls_started[b] > w.started => c \in got[b]
  /\ confirming[c] # {} => \E w \in confirming[c] : AwaitsOf(w, b)

\* c moved once since everything agreed, from one router to another
Follows(c) ==
  /\ AllAnswer /\ where[c] \in Configured
  /\ c \in data[where[c]] => (poll[where[c]] = "read" => c \in got[where[c]])
  /\ c \notin data[where[c]] => Arriving(c, where[c])
  /\ ~running => confirming[c] = {} /\ (seen[c] # NoRouter => c \in data[seen[c]])

Historic ==
  \A c \in Clients :
    ~absent[c] => (moves[c] = 0 => Settled(c)) /\ (moves[c] = 1 => Follows(c))

HTypes == moves \in [Clients -> 0..2] /\ absent \in [Clients -> BOOLEAN]

HInv == RInv /\ NoEarlyPoll /\ NeverSetUp /\ HTypes /\ Historic

(* What a step does to the list of router r, as far as c is concerned,     *)
(* while every router answers.                                             *)
Goes(r, c) ==
  \/ /\ data'[r] = data[r] /\ data_poll'[r] = data_poll[r]
     /\ poll'[r] = "read" =>
          \/ poll[r] = "read" /\ got'[r] = got[r] /\ polls_started'[r] = polls_started[r]
          \/ c \in got'[r] <=> where[c] = r
  \/ ~running /\ data'[r] = data[r] /\ poll'[r] # "read"
  \/ /\ poll[r] = "read" /\ poll'[r] # "read"
     /\ data'[r] = got[r] /\ data_poll'[r] = polls_started[r]

\* some trackers hear of it, or none does
GoesOn(c) ==
  /\ UNCHANGED <<where, entry, gen>> /\ (running => running')
  /\ \A r \in Routers : Goes(r, c)
  /\ \E T \in SUBSET Clients : \E queued, dropped : Refresh(T, queued, dropped)

\* every configured router answers, and no other one has data
LEMMA Answering ==
  ASSUME RInv, NeverSetUp, AllAnswer
  PROVE  /\ Coordinators = Configured
         /\ \A r \in Routers : r \notin Configured =>
              /\ data[r] = {} /\ poll[r] = "idle" /\ timer[r] = "off" /\ r \notin asked
<1>1. Coordinators = Configured
  BY DEF AllAnswer, NeverSetUp, Configured, Coordinators, HasRuntimeData
<1> QED BY <1>1 DEF RInv, NothingYet, NeverSetUp

LEMMA StartGoesOn ==
  ASSUME IInv, NEW c \in Clients, NEW r \in Routers, poll[r] = "idle",
         NEW byRequest \in BOOLEAN, NEW queued, StartPoll(r, byRequest, queued)
  PROVE  GoesOn(c)
<1>1. CASE Send(r, byRequest) /\ asked' = queued
  <2>1. Refresh({}, queued, {}) \/ Refresh({}, asked', {})
    <3>1. asked' \in SUBSET Routers \/ asked' = queued
      BY <1>1
    <3> QED BY <1>1, <3>1, QuietIsRefresh DEF Send, IInv
  <2>2. \A q \in Routers : Goes(q, c)
    BY <1>1 DEF Send, Goes, IInv, TypeOK
  <2>3. UNCHANGED <<where, entry, gen, running>>
    BY <1>1 DEF Send
  <2> QED BY <2>1, <2>2, <2>3 DEF GoesOn
<1>2. CASE Skip(r, byRequest, queued)
  <2>1. PICK T \in SUBSET Clients : Refresh(T, queued, {})
    BY <1>2, HearConnected DEF Skip, Notify, Hear
  <2>2. \A q \in Routers : Goes(q, c)
    BY <1>2 DEF Skip, Goes, IInv, TypeOK
  <2>3. UNCHANGED <<where, entry, gen, running>>
    BY <1>2 DEF Skip
  <2> QED BY <2>1, <2>2, <2>3 DEF GoesOn
<1> QED BY <1>1, <1>2 DEF StartPoll

\* a step of the debouncer that starts no poll
LEMMA QuietGoesOn ==
  ASSUME IInv, NEW c \in Clients,
         UNCHANGED <<where, entry, gen, running, data, data_poll, poll, got, polls_started,
                     seen, confirming>>
  PROVE  GoesOn(c)
<1>1. Refresh({}, asked', {})
  BY QuietIsRefresh DEF IInv
<1>2. \A q \in Routers : Goes(q, c)
  BY DEF Goes
<1> QED BY <1>1, <1>2 DEF GoesOn

LEMMA ReadGoesOn ==
  ASSUME IInv, NEW c \in Clients, NEW r \in Routers, ReadList(r), ~Missed(c)
  PROVE  GoesOn(c)
<1>1. Refresh({}, asked', {})
  BY QuietIsRefresh DEF IInv, ReadList, tvars
<1>2. PICK list \in SUBSET {d \in Clients : where[d] = r} : got' = [got EXCEPT ![r] = list]
  BY DEF ReadList
<1>3. got'[r] = list /\ poll[r] = "sent" /\ poll'[r] = "read"
  BY <1>2 DEF ReadList, IInv, TypeOK
<1>4. c \in got'[r] <=> where[c] = r
  BY <1>2, <1>3 DEF Missed
<1>5. \A q \in Routers : Goes(q, c)
  BY <1>2, <1>4 DEF Goes, ReadList, IInv, TypeOK
<1> QED BY <1>1, <1>5 DEF GoesOn, ReadList

LEMMA FinishGoesOn ==
  ASSUME IInv, NEW c \in Clients, NEW r \in Routers, entry[r] = "loaded", FinishOk(r)
  PROVE  GoesOn(c)
<1>1. PICK T \in SUBSET Clients : Refresh(T, asked, Drops(r))
  BY HearConnected DEF FinishOk, Notify, Hear
<1>2. entry' = entry
  BY DEF FinishOk, IInv, TypeOK
<1>3. \A q \in Routers : Goes(q, c)
  BY DEF Goes, FinishOk, IInv, TypeOK
<1> QED BY <1>1, <1>2, <1>3 DEF GoesOn, FinishOk

(* While every router answers, before and after, a step other than a move  *)
(* starts a poll, reads a list, publishes one, or tells the trackers.      *)
LEMMA AnsweringGoesOn ==
  ASSUME RInv, NeverSetUp, AllAnswer, AllAnswer', Next, NEW c \in Clients, ~Missed(c),
         \A d \in Clients, r \in Routers \cup {NoRouter} : ~Move(d, r)
  PROVE  GoesOn(c)
<1>0. IInv
  BY DEF RInv
<1>1. CASE HAStarted
  <2>1. Refresh(Trackers, asked, {}) /\ Trackers \in SUBSET Clients
    BY <1>1 DEF HAStarted, Trackers
  <2>2. \A q \in Routers : Goes(q, c)
    BY <1>1 DEF HAStarted, rvars, Goes
  <2> QED BY <1>1, <2>1, <2>2 DEF HAStarted, rvars, GoesOn
<1>2. ASSUME NEW r \in Routers, RouterStep(r) PROVE GoesOn(c)
  <2>0. gen'[r] > 0 => entry'[r] = "loaded" /\ ok'[r]
    BY DEF AllAnswer, Configured
  <2>1. entry \in [Routers -> Stages] /\ gen \in [Routers -> Nat]
        /\ (gen[r] > 0 => entry[r] = "loaded") /\ (~(gen[r] > 0) => entry[r] = "unloaded")
    BY <1>0 DEF IInv, TypeOK, AllAnswer, NeverSetUp, Configured
  <2>2. ~(Setup(r) \/ SetupFails(r) \/ AddTrackers(r) \/ HookUp(r) \/ Unload(r))
    BY <2>0, <2>1 DEF Setup, SetupFails, AddTrackers, HookUp, Unload
  <2>3. ASSUME NEW rejected \in BOOLEAN, FinishFail(r, rejected) PROVE FALSE
    <3>1. gen'[r] = gen[r] /\ ~ok'[r] /\ poll[r] # "idle"
      BY <1>0, <2>3 DEF FinishFail, IInv, TypeOK
    <3>2. gen[r] > 0
      BY <3>1, Answering DEF Configured
    <3> QED BY <2>0, <3>1, <3>2
  <2>4. CASE IntervalPoll(r)
    BY <1>0, <2>4, StartGoesOn DEF IntervalPoll
  <2>5. CASE RunRequest(r)
    <3>1. CASE StartPoll(r, TRUE, asked \ {r}) /\ poll[r] = "idle"
      BY <1>0, <3>1, StartGoesOn
    <3>2. CASE UNCHANGED <<where, running, entry, gen, poll, got, data,
                           polls_started, data_poll, seen, confirming>>
      BY <1>0, <3>2, QuietGoesOn
    <3> QED BY <2>5, <3>1, <3>2 DEF RunRequest, rvars
  <2>6. CASE TimerEnd(r)
    <3>1. CASE StartPoll(r, TRUE, asked) /\ poll[r] = "idle"
      BY <1>0, <3>1, StartGoesOn
    <3>2. CASE UNCHANGED <<where, running, entry, gen, poll, got, data,
                           polls_started, data_poll, seen, confirming>>
      BY <1>0, <3>2, QuietGoesOn
    <3> QED BY <2>6, <3>1, <3>2 DEF TimerEnd, tvars
  <2>7. CASE FinishOk(r)
    <3>1. gen[r] > 0
      BY <2>7, Answering DEF FinishOk, Configured
    <3> QED BY <1>0, <2>1, <2>7, <3>1, FinishGoesOn
  <2> QED BY <1>0, <1>2, <2>2, <2>3, <2>4, <2>5, <2>6, <2>7, ReadGoesOn DEF RouterStep
<1> QED BY <1>1, <1>2 DEF Next

LEMMA SettledStays ==
  ASSUME RInv, RInv', NeverSetUp', AllAnswer', NEW c \in Clients, GoesOn(c), Settled(c)
  PROVE  Settled(c)'
<1>1. \A r \in Routers : /\ c \in data'[r] <=> where[c] = r
                         /\ poll'[r] = "read" => (c \in got'[r] <=> where[c] = r)
  BY DEF GoesOn, Goes, Settled
<1>2. \A r \in Routers : r \notin Coordinators' => c \notin data'[r]
  BY DEF RInv, NothingYet
<1>3. ConnectedOn(c) = where[c]
  <2>1. where[c] \in Routers \cup {NoRouter} /\ Coordinators' \in SUBSET Routers
    BY DEF RInv, IInv, TypeOK, Coordinators
  <2> QED BY <1>1, <1>2, <2>1, ConnectedOnHolds
<1>4. Pending(c) = {}
  BY <1>3 DEF Pending, Settled
<1>5. PICK T \in SUBSET Clients : \E queued, dropped : Refresh(T, queued, dropped)
  BY DEF GoesOn
<1>6. seen'[c] = where[c] /\ confirming'[c] = {}
  BY <1>3, <1>4, <1>5 DEF Refresh, Settled
<1> QED BY <1>1, <1>6 DEF Settled, GoesOn

(* A tracker that looks for a client that moved once finds it on a list,   *)
(* or waits for the router the client is at.                               *)
LEMMA FollowsStays ==
  ASSUME RInv, RInv', NoEarlyPoll, NeverSetUp, NeverSetUp', AllAnswer',
         NEW c \in Clients, GoesOn(c), Follows(c)
  PROVE  Follows(c)' /\ ~(seen[c] # NoRouter /\ seen'[c] = NoRouter)
<1> DEFINE b == where[c]
<1>a. IInv /\ IInv'
  BY DEF RInv
<1>1. b \in Routers /\ where'[c] = b /\ gen'[b] = gen[b] /\ b \in Configured'
  BY <1>a DEF Follows, GoesOn, IInv, TypeOK, Configured
<1>2. /\ data_poll[b] \in Nat /\ polls_started[b] \in Nat
      /\ data_poll'[b] \in Nat /\ polls_started'[b] \in Nat
      /\ \A w \in confirming[c] : w.started \in Nat
  BY <1>1, <1>a DEF IInv, TypeOK
<1>3. b \in Coordinators' /\ ok'[b]
  BY <1>1 DEF Coordinators, AllAnswer, HasRuntimeData, Configured
<1>4. PICK T \in SUBSET Clients : \E queued, dropped : Refresh(T, queued, dropped)
  BY DEF GoesOn
<1>5. c \in data[b] => c \in data'[b]
  BY <1>1 DEF GoesOn, Goes, Follows
<1>6. c \in data'[b] => (poll'[b] = "read" => c \in got'[b])
  BY <1>1 DEF GoesOn, Goes, Follows
<1>7. ~running => \A r \in Routers : data'[r] = data[r]
  <2>1. ~running => \A r \in Routers : poll[r] # "read"
    BY Answering DEF NoEarlyPoll, AllAnswer, Follows, HasRuntimeData
  <2> QED BY <2>1 DEF GoesOn, Goes
<1>0. (running => running') /\ AllAnswer /\ seen[c] \in Routers \cup {NoRouter}
  BY DEF GoesOn, Follows, RInv, IInv, TypeOK
<1>8. CASE c \notin T
  <2>1. seen'[c] = seen[c] /\ confirming'[c] = confirming[c]
    BY <1>4, <1>8 DEF Refresh
  <2>2. c \notin data'[b] => Arriving(c, b)'
    <3> SUFFICES ASSUME c \notin data'[b] PROVE Arriving(c, b)'
      OBVIOUS
    <3>1. Arriving(c, b)
      BY <1>5 DEF Follows
    <3> QED BY <1>1, <1>2, <2>1, <3>1 DEF Arriving, AwaitsOf, GoesOn, Goes, Follows
  <2>3. ~running' => confirming'[c] = {} /\ (seen'[c] # NoRouter => c \in data'[seen'[c]])
    BY <1>0, <1>7, <2>1 DEF Follows
  <2> QED BY <1>0, <1>1, <1>6, <2>1, <2>2, <2>3 DEF Follows
<1>9. CASE c \in T
  <2>1. /\ seen'[c] = IF Pending(c) = {} THEN ConnectedOn(c) ELSE seen[c]
        /\ confirming'[c] = IF Pending(c) = {} THEN {} ELSE Snapshot(c)
    BY <1>4, <1>9 DEF Refresh
  <2>2. /\ ConnectedOn(c) = NoRouter => \A r \in Routers : c \notin data'[r]
        /\ ConnectedOn(c) # NoRouter => ConnectedOn(c) \in Routers /\ c \in data'[ConnectedOn(c)]
    <3>1. \A r \in Routers : r \notin Coordinators' => c \notin data'[r]
      BY DEF RInv, NothingYet
    <3>2. Coordinators' \in SUBSET Routers /\ NoRouter \notin Routers
      BY DEF Coordinators, Routers, NoRouter
    <3> QED BY <3>1, <3>2, ConnectedOnHolds
  <2>3. CASE ConnectedOn(c) # NoRouter \/ seen[c] = NoRouter
    <3>1. seen'[c] = ConnectedOn(c) /\ confirming'[c] = {}
      BY <2>1, <2>3 DEF Pending
    <3>2. c \notin data'[b] => Arriving(c, b)'
      BY <1>1, <2>2, <3>1 DEF Arriving, NoRouter, Routers
    <3>3. seen'[c] # NoRouter => c \in data'[seen'[c]]
      BY <2>2, <3>1
    <3> QED BY <1>1, <1>6, <2>3, <3>1, <3>2, <3>3 DEF Follows
  <2>4. CASE ConnectedOn(c) = NoRouter /\ seen[c] # NoRouter
    <3>1. c \notin data'[b] /\ Arriving(c, b)
      BY <1>1, <1>5, <2>2, <2>4 DEF Follows
    <3>2. running /\ running'
      BY <1>0, <1>7, <2>2, <2>4 DEF Follows
    <3>3. PICK w \in Snapshot(c) : /\ AwaitsOf(w, b) /\ data_poll'[b] <= w.started
      <4>1. CASE confirming[c] = {}
        <5>1. [router |-> b, gen |-> gen'[b], started |-> polls_started'[b]] \in Snapshot(c)
          BY <1>1, <1>3, <3>1, <4>1 DEF Snapshot, Arriving
        <5> QED BY <1>1, <5>1 DEF AwaitsOf, RInv, IInv, DataIsPast
      <4>2. CASE confirming[c] # {}
        <5>1. PICK w \in confirming[c] : AwaitsOf(w, b)
          BY <3>1, <4>2 DEF Arriving
        <5>2. data_poll'[b] <= w.started
          BY <1>1, <1>2, <3>1, <3>2, <5>1 DEF Arriving, GoesOn, Goes
        <5> QED BY <4>2, <5>1, <5>2 DEF Snapshot
      <4> QED BY <4>1, <4>2
    <3>4. w.started \in Nat
      <4>1. Snapshot(c) \in SUBSET Snapshots
        BY <1>a, SnapshotType DEF IInv, TypeOK, RouterTypes
      <4> QED BY <4>1 DEF Snapshots
    <3>5. w \in Pending(c)
      BY <1>1, <1>2, <1>3, <2>4, <3>3, <3>4 DEF Pending, WaitedFor, AwaitsOf
    <3>6. seen'[c] = seen[c] /\ confirming'[c] = Snapshot(c)
      BY <2>1, <3>5
    <3>7. ASSUME NEW v \in Snapshot(c), AwaitsOf(v, b)
          PROVE  /\ data_poll'[b] <= v.started
                 /\ poll'[b] = "read" /\ polls_started'[b] > v.started => c \in got'[b]
      <4>1. CASE confirming[c] = {}
        <5>1. v.started = polls_started'[b]
          BY <3>7, <4>1 DEF Snapshot, AwaitsOf
        <5> QED BY <1>1, <1>2, <1>a, <5>1 DEF IInv, DataIsPast
      <4>2. CASE confirming[c] # {}
        <5>1. v \in confirming[c]
          BY <4>2 DEF Snapshot
        <5> QED BY <1>1, <1>2, <3>1, <3>2, <3>7, <5>1 DEF Arriving, GoesOn, Goes
      <4> QED BY <4>1, <4>2
    <3>8. Arriving(c, b)'
      BY <1>1, <3>1, <3>3, <3>6, <3>7 DEF Arriving, AwaitsOf
    <3> QED BY <1>1, <2>4, <3>1, <3>2, <3>6, <3>8 DEF Follows
  <2> QED BY <2>3, <2>4
<1> QED BY <1>8, <1>9

LEMMA NoEarlyPollStays ==
  ASSUME IInv, NoEarlyPoll, [Next]_vars PROVE NoEarlyPoll'
<1> SUFFICES ASSUME NEW q \in Routers, ~running', HasRuntimeData(entry'[q])
             PROVE  poll'[q] = "idle"
  BY DEF NoEarlyPoll
<1>1. CASE UNCHANGED vars
  BY <1>1 DEF vars, rvars, NoEarlyPoll
<1>2. CASE HAStarted \/ \E c \in Clients, r \in Routers \cup {NoRouter} : Move(c, r)
  BY <1>2 DEF HAStarted, Move, rvars, NoEarlyPoll
<1>3. ASSUME NEW r \in Routers, RouterStep(r) PROVE poll'[q] = "idle"
  <2> USE DEF NoEarlyPoll
  <2>1. CASE IntervalPoll(r) \/ RunRequest(r) \/ TimerEnd(r)
    <3>1. ASSUME NEW byRequest, NEW queued, StartPoll(r, byRequest, queued) PROVE poll'[q] = "idle"
      BY <3>1 DEF StartPoll, Send, Skip
    <3>2. CASE UNCHANGED <<running, entry, poll>>
      BY <3>2
    <3> QED BY <2>1, <3>1, <3>2 DEF IntervalPoll, RunRequest, TimerEnd, rvars
  <2>2. CASE ReadList(r)
    BY <2>2 DEF ReadList, IInv, TypeOK
  <2>3. CASE FinishOk(r) \/ \E rejected \in BOOLEAN : FinishFail(r, rejected)
    BY <2>3 DEF FinishOk, FinishFail, IInv, TypeOK
  <2>4. CASE Setup(r) \/ SetupFails(r) \/ Unload(r)
    BY <2>4 DEF Setup, SetupFails, Unload, HasRuntimeData, IInv, TypeOK
  <2>5. CASE AddTrackers(r) \/ HookUp(r)
    BY <2>5 DEF AddTrackers, HookUp, HasRuntimeData, IInv, TypeOK
  <2> QED BY <1>3, <2>1, <2>2, <2>3, <2>4, <2>5 DEF RouterStep
<1> QED BY <1>1, <1>2, <1>3 DEF Next

LEMMA NeverSetUpStays ==
  ASSUME IInv, NeverSetUp, [Next]_vars PROVE NeverSetUp'
<1> SUFFICES ASSUME NEW q \in Routers, ~(gen'[q] > 0) PROVE entry'[q] = "unloaded"
  BY DEF NeverSetUp, Configured
<1>0. /\ gen \in [Routers -> Nat] /\ entry \in [Routers -> Stages]
      /\ ~(gen[q] > 0) => entry[q] = "unloaded"
  BY DEF IInv, TypeOK, NeverSetUp, Configured
<1>1. CASE UNCHANGED <<entry, gen>>
  BY <1>0, <1>1
<1>2. ASSUME NEW r \in Routers, RouterStep(r) PROVE entry'[q] = "unloaded"
  <2>1. CASE IntervalPoll(r) \/ RunRequest(r) \/ TimerEnd(r) \/ ReadList(r)
             \/ \E rejected \in BOOLEAN : FinishFail(r, rejected)
    <3>1. UNCHANGED <<entry, gen>>
      BY <2>1 DEF IntervalPoll, RunRequest, TimerEnd, ReadList, FinishFail, StartPoll, Send,
                  Skip, rvars
    <3> QED BY <1>1, <3>1
  <2>2. CASE FinishOk(r) \/ SetupFails(r) \/ AddTrackers(r) \/ HookUp(r) \/ Unload(r)
    BY <1>0, <2>2 DEF FinishOk, SetupFails, AddTrackers, HookUp, Unload
  <2>3. CASE Setup(r)
    BY <1>0, <2>3 DEF Setup
  <2> QED BY <1>2, <2>1, <2>2, <2>3 DEF RouterStep
<1> QED BY <1>1, <1>2 DEF Next, HAStarted, Move, rvars, vars

\* the first move of a client whose tracker and lists agree
LEMMA MoveFollows ==
  ASSUME IInv, NEW c \in Clients, NEW r \in Routers \cup {NoRouter}, Move(c, r),
         Settled(c), r \in Configured
  PROVE  Follows(c)'
<1>1. /\ where'[c] = r /\ where[c] # r /\ r \in Routers /\ r \in Configured
      /\ UNCHANGED <<running, entry, gen, poll, got, data, ok, polls_started, data_poll,
                     seen, confirming>>
  BY DEF Move, rvars, tvars, IInv, TypeOK, Configured
<1>2. c \notin data[r] /\ seen[c] = where[c] /\ confirming[c] = {} /\ AllAnswer
  BY <1>1 DEF Settled
<1>3. Arriving(c, r)'
  BY <1>1, <1>2 DEF Arriving
<1>4. seen[c] # NoRouter => c \in data[seen[c]]
  <2>1. where[c] \in Routers \cup {NoRouter}
    BY DEF IInv, TypeOK
  <2> QED BY <1>2, <2>1 DEF Settled
<1>5. AllAnswer'
  BY <1>1, <1>2 DEF AllAnswer, Configured
<1> QED BY <1>1, <1>2, <1>3, <1>4, <1>5 DEF Follows, Configured

(* A client that is not absent in the new state, and had moved at most     *)
(* once, is not turned away from home, and its history is kept.            *)
LEMMA HistoryGoesOn ==
  ASSUME HInv, RInv', NeverSetUp', HNext, NEW c \in Clients, ~absent'[c], ~Settled(c)'
  PROVE  /\ moves'[c] = 0 => Settled(c)'
         /\ moves'[c] = 1 => Follows(c)'
         /\ TurnsNotHome(c) => moves[c] = 2
<1>1. /\ ~absent[c] /\ where'[c] \in Configured' /\ AllAnswer' /\ ~Missed(c)
      /\ moves'[c] = IF where'[c] # where[c] /\ moves[c] < 2 THEN moves[c] + 1 ELSE moves[c]
      /\ moves[c] \in 0..2
  BY DEF HNext, Recorded, HInv, HTypes
<1>2. (moves[c] = 0 => Settled(c)) /\ (moves[c] = 1 => Follows(c))
  BY <1>1 DEF HInv, Historic
<1>3. CASE moves[c] = 2
  BY <1>1, <1>3
<1>4. CASE moves[c] # 2
  <2>1. AllAnswer
    BY <1>1, <1>2, <1>4 DEF Settled, Follows
  <2>2. ASSUME NEW d \in Clients, NEW r \in Routers \cup {NoRouter}, Move(d, r)
        PROVE  /\ moves'[c] = 0 => Settled(c)'
               /\ moves'[c] = 1 => Follows(c)'
               /\ ~TurnsNotHome(c)
    <3>1. /\ UNCHANGED <<running, entry, gen, poll, got, data, ok, polls_started, data_poll,
                         seen, confirming>>
          /\ \A e \in Clients : where'[e] = IF e = d THEN r ELSE where[e]
      BY <2>2 DEF Move, rvars, tvars, HInv, RInv, IInv, TypeOK
    <3>2. ~TurnsNotHome(c)
      BY <3>1 DEF TurnsNotHome
    <3>3. CASE c # d
      <4>1. where'[c] = where[c]
        BY <3>1, <3>3
      <4>2. Settled(c) => Settled(c)'
        BY <3>1, <4>1 DEF Settled, AllAnswer, Configured
      <4>3. Follows(c) => Follows(c)'
        BY <3>1, <4>1 DEF Follows, AllAnswer, Arriving, AwaitsOf, Configured
      <4> QED BY <1>1, <1>2, <3>2, <4>1, <4>2, <4>3
    <3>4. CASE c = d
      <4>1. where'[c] = r /\ where[c] # r
        BY <2>2, <3>1, <3>4 DEF Move
      <4>2. Settled(c) => Follows(c)'
        <5>1. r \in Configured
          BY <1>1, <3>1, <4>1 DEF Configured
        <5> QED BY <2>2, <3>4, <5>1, MoveFollows DEF HInv, RInv
      <4> QED BY <1>1, <1>2, <1>4, <3>2, <4>1, <4>2
    <3> QED BY <3>3, <3>4
  <2>3. CASE \A d \in Clients, r \in Routers \cup {NoRouter} : ~Move(d, r)
    <3>1. GoesOn(c)
      BY <1>1, <2>1, <2>3, AnsweringGoesOn DEF HInv, HNext
    <3>2. ~Settled(c)
      BY <1>1, <3>1, SettledStays DEF HInv
    <3>3. Follows(c) /\ moves[c] = 1
      BY <1>1, <1>2, <1>4, <3>2
    <3>4. Follows(c)' /\ ~(seen[c] # NoRouter /\ seen'[c] = NoRouter)
      BY <1>1, <3>1, <3>3, FollowsStays DEF HInv
    <3>5. moves'[c] = 1
      BY <1>1, <3>1, <3>3 DEF GoesOn
    <3> QED BY <3>4, <3>5 DEF TurnsNotHome
  <2> QED BY <2>2, <2>3
<1> QED BY <1>3, <1>4

LEMMA HNextHInv == ASSUME HInv, [HNext]_hvars PROVE HInv'
<1>1. RInv'
  BY NextRInv DEF HInv, HNext, hvars
<1>2. NoEarlyPoll' /\ NeverSetUp'
  BY NoEarlyPollStays, NeverSetUpStays DEF HInv, RInv, HNext, hvars
<1>3. CASE UNCHANGED hvars
  <2>1. \A c \in Clients : (Settled(c)' <=> Settled(c)) /\ (Follows(c)' <=> Follows(c))
    BY <1>3 DEF hvars, vars, rvars, tvars, Settled, Follows, AllAnswer, Arriving, AwaitsOf,
                  Configured
  <2> QED BY <1>1, <1>2, <1>3, <2>1 DEF HInv, HTypes, Historic, hvars
<1>4. CASE HNext
  <2>1. HTypes'
    <3>1. \A c \in Clients : moves[c] \in 0..2 /\ absent[c] \in BOOLEAN
      BY DEF HInv, HTypes
    <3>2. \A c \in Clients : moves'[c] \in 0..2
      BY <1>4, <3>1 DEF HNext, Recorded
    <3>3. absent' \in [Clients -> BOOLEAN]
      BY <1>4, <3>1 DEF HNext, Recorded
    <3>4. moves' = [c \in Clients |-> moves'[c]]
      BY <1>4 DEF HNext, Recorded
    <3> QED BY <3>2, <3>3, <3>4 DEF HTypes
  <2>2. ASSUME NEW c \in Clients, ~absent'[c]
        PROVE  (moves'[c] = 0 => Settled(c)') /\ (moves'[c] = 1 => Follows(c)')
    <3>1. CASE Settled(c)'
      <4>1. moves'[c] = 0
        BY <1>4, <3>1 DEF HNext, Recorded
      <4> QED BY <3>1, <4>1
    <3>2. CASE ~Settled(c)'
      BY <1>1, <1>2, <1>4, <2>2, <3>2, HistoryGoesOn
    <3> QED BY <3>1, <3>2
  <2> QED BY <1>1, <1>2, <2>1, <2>2 DEF HInv, Historic
<1> QED BY <1>3, <1>4

LEMMA HInitHInv == HInit => HInv
<1> SUFFICES ASSUME HInit PROVE HInv
  OBVIOUS
<1>1. RInv
  BY InitIInv, InitFits DEF HInit, RInv
<1>2. NoEarlyPoll /\ NeverSetUp
  BY DEF HInit, Init, NoEarlyPoll, NeverSetUp
<1>3. HTypes /\ Historic
  BY DEF HInit, HTypes, Historic
<1> QED BY <1>1, <1>2, <1>3 DEF HInv

(* A client that moves once from one router to another while the routers   *)
(* answer, and that no list misses, is not shown not_home: for any number  *)
(* of routers, in whatever order they poll, with the debouncer's dropped   *)
(* requests and the start of Home Assistant.                               *)
THEOREM OneMoveStaysHome == HSpec => OneMoveIsNotLeaving
<1>1. HInv /\ [HNext]_hvars => HInv'
  BY HNextHInv
<1>2. HInv /\ HInv' /\ [HNext]_hvars =>
        [\A c \in Clients : TurnsNotHome(c) => absent'[c] \/ moves[c] = 2]_hvars
  <2> SUFFICES ASSUME HInv, HInv', HNext, NEW c \in Clients, TurnsNotHome(c), ~absent'[c]
               PROVE  moves[c] = 2
    OBVIOUS
  <2>1. ~Settled(c)'
    BY DEF TurnsNotHome, Settled
  <2> QED BY <2>1, HistoryGoesOn DEF HInv
<1> QED BY <1>1, <1>2, HInitHInv, PTL DEF HSpec, OneMoveIsNotLeaving
=============================================================================
