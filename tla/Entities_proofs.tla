--------------------------- MODULE Entities_proofs --------------------------
(***************************************************************************)
(* Proofs about Entities, for every set of layouts and of answers.         *)
(***************************************************************************)
EXTENDS Entities, Lines_proofs, FiniteSetTheorems

\* an entity is one that its platform makes
Entity(e) ==
  \/ e[1] = "sensor" /\ e[2] \in {"clients", "mesh", "total", "uplink", "wan", "hosts", "system",
                                  "disk", "modem", "metric"}
  \/ e[1] = "binary_sensor" /\ e[2] \in {"device", "uplink", "modem"}
  \/ e[1] = "switch" /\ e[2] = "wps"

\* platforms are set up for a coordinator that has data
PlatformsFit ==
  /\ platforms \subseteq Platforms
  /\ platforms # {} => up
  /\ \A e \in DOMAIN shown : e[1] \in platforms /\ Entity(e)

\* the names known are those of the sensors there are, and those in the data
KnownFit ==
  "sensor" \in platforms =>
    /\ \A x \in known : x = <<x[1], x[2]>> /\ x[1] \in {"wireless", "mesh"}
    /\ \A e \in DOMAIN shown : e[1] = "sensor" /\ e[2] \in {"clients", "mesh"}
                                 => e \in InterfaceSensors(known)
    /\ InterfaceSensors(known) \subseteq DOMAIN shown
    /\ Names(data) \subseteq known
    /\ \A x \in known : x[1] = "wireless" => x[2] \in wireless

EntitiesFit ==
  /\ PlatformsFit
  /\ KnownFit
  /\ NoEntityTwice
  /\ ShownIsCurrent
  /\ TotalIsSum

IInv == EntitiesFit /\ ModemTypeOK

\* every part of the data is of its kind, and there are finitely many interfaces
DataOK(d) ==
  /\ d.parts \in [Parts -> States] /\ d.modem \in States
  /\ \A n \in DOMAIN d.wireless : d.wireless[n] \in ApAnswers
  /\ IsFiniteSet(DOMAIN d.wireless)

\* the variables that take a few values
Scalars ==
  /\ layout \in Layouts /\ starting \in BOOLEAN /\ via_uci \in BOOLEAN
  /\ poll \in {"idle", "sent", "missing", "idle_modem", "live_modem"}
  /\ up \in BOOLEAN /\ ok \in BOOLEAN /\ late \in BOOLEAN
  /\ twice \in BOOLEAN /\ grew \in BOOLEAN /\ whole \in BOOLEAN

\* sums are over finitely many interfaces
TypesFit == TypeOK /\ IsFiniteSet(DOMAIN data.wireless)

-----------------------------------------------------------------------------
(* The total over interfaces: the fold that sums them has a value, which  *)
(* is found by induction on the number of interfaces, and does not depend  *)
(* on their order.                                                         *)

Pick(s) == CHOOSE x \in s : TRUE

\* f sums the clients over the subsets of S, one interface after the other
SumsUp(f, d, S) ==
  /\ f \in [SUBSET S -> Nat]
  /\ f[{}] = 0
  /\ \A s \in SUBSET S : s # {} => f[s] = d.wireless[Pick(s)].clients + f[s \ {Pick(s)}]

(* An element less.                                                        *)
LEMMA Smaller ==
  ASSUME NEW S, IsFiniteSet(S), NEW s \in SUBSET S, NEW x \in s
  PROVE  /\ s \ {x} \in SUBSET S
         /\ Cardinality(s) \in Nat /\ Cardinality(s \ {x}) \in Nat
         /\ Cardinality(s \ {x}) = Cardinality(s) - 1
<1>1. IsFiniteSet(s)
  BY FS_Subset
<1> QED BY <1>1, FS_RemoveElement, FS_CardinalityType

(* There is such a sum of every finite set.                                *)
LEMMA SumExists ==
  ASSUME NEW d, NEW S, IsFiniteSet(S), \A n \in S : d.wireless[n].clients \in Nat
  PROVE  \E f : SumsUp(f, d, S)
<1> DEFINE Upto(f, n) ==
             /\ f \in [SUBSET S -> Nat]
             /\ f[{}] = 0
             /\ \A s \in SUBSET S : s # {} /\ Cardinality(s) <= n =>
                  f[s] = d.wireless[Pick(s)].clients + f[s \ {Pick(s)}]
           Fails == {n \in Nat : ~\E f : Upto(f, n)}
<1>0. \A s \in SUBSET S : s # {} =>
        /\ Pick(s) \in s /\ s \ {Pick(s)} \in SUBSET S
        /\ d.wireless[Pick(s)].clients \in Nat
        /\ Cardinality(s) \in Nat \ {0}
        /\ Cardinality(s \ {Pick(s)}) = Cardinality(s) - 1
  <2> SUFFICES ASSUME NEW s \in SUBSET S, s # {}
               PROVE  /\ Pick(s) \in s /\ s \ {Pick(s)} \in SUBSET S
                      /\ d.wireless[Pick(s)].clients \in Nat
                      /\ Cardinality(s) \in Nat \ {0}
                      /\ Cardinality(s \ {Pick(s)}) = Cardinality(s) - 1
    OBVIOUS
  <2>1. Pick(s) \in s
    BY DEF Pick
  <2>2. IsFiniteSet(s) /\ Cardinality(s) # 0
    BY FS_Subset, FS_EmptySet
  <2> QED BY <2>1, <2>2, Smaller
<1>1. Upto([s \in SUBSET S |-> 0], 0)
  <2> DEFINE zero == [s \in SUBSET S |-> 0]
  <2>1. zero \in [SUBSET S -> Nat] /\ zero[{}] = 0
    OBVIOUS
  <2>2. ASSUME NEW s \in SUBSET S, s # {} PROVE ~(Cardinality(s) <= 0)
    <3>1. Cardinality(s) \in Nat \ {0}
      BY <1>0, <2>2
    <3> QED BY <3>1
  <2> HIDE DEF zero
  <2>3. Upto(zero, 0)
    BY <2>1, <2>2
  <2> QED BY <2>3 DEF zero
<1>2. ASSUME NEW n \in Nat, NEW f, Upto(f, n)
      PROVE  \E g : Upto(g, n + 1)
  <2> DEFINE g == [s \in SUBSET S |-> IF s = {} \/ Cardinality(s) <= n THEN f[s]
                                      ELSE d.wireless[Pick(s)].clients + f[s \ {Pick(s)}]]
  <2>1. g \in [SUBSET S -> Nat]
    BY <1>0, <1>2
  <2>2. ASSUME NEW s \in SUBSET S, s # {}, Cardinality(s) <= n + 1
        PROVE  g[s] = d.wireless[Pick(s)].clients + g[s \ {Pick(s)}]
    <3>1. s \ {Pick(s)} \in SUBSET S /\ Cardinality(s \ {Pick(s)}) <= n
      BY <1>0, <2>2
    <3>2. g[s \ {Pick(s)}] = f[s \ {Pick(s)}]
      BY <3>1
    <3> QED BY <1>2, <2>2, <3>2
  <2>3. g[{}] = 0
    BY <1>2
  <2> HIDE DEF g
  <2> QED BY <2>1, <2>2, <2>3
<1> HIDE DEF Upto
<1>3. Fails = {}
  <2> SUFFICES ASSUME Fails # {} PROVE FALSE
    OBVIOUS
  <2>1. PICK i \in Fails : \A j \in Fails : i <= j
    BY LeastNat
  <2>2. i # 0
    BY <1>1, <2>1
  <2>3. i - 1 \in Nat /\ i - 1 \notin Fails
    BY <2>1, <2>2
  <2>4. PICK f : Upto(f, i - 1)
    BY <2>3
  <2>5. \E g : Upto(g, (i - 1) + 1)
    BY <1>2, <2>3, <2>4
  <2>6. (i - 1) + 1 = i
    BY <2>1
  <2> QED BY <2>1, <2>5, <2>6
<1>4. Cardinality(S) \in Nat /\ \A s \in SUBSET S : Cardinality(s) <= Cardinality(S)
  BY FS_CardinalityType, FS_Subset
<1>5. PICK f : Upto(f, Cardinality(S))
  BY <1>3, <1>4
<1> QED BY <1>4, <1>5 DEF Upto, SumsUp

\* a sum is determined by its definition
(* Of any subsets of a finite set one is smallest.                         *)
LEMMA SmallestSet ==
  ASSUME NEW S, IsFiniteSet(S), NEW T \in SUBSET (SUBSET S), T # {}
  PROVE  \E s \in T : \A x \in s : s \ {x} \notin T
<1>1. \A s \in T : IsFiniteSet(s) /\ Cardinality(s) \in Nat
  BY FS_Subset, FS_CardinalityType
<1> DEFINE Sizes == {Cardinality(s) : s \in T}
<1>2. Sizes \in SUBSET Nat /\ Sizes # {}
  BY <1>1
<1>3. PICK i \in Sizes : \A j \in Sizes : i <= j
  BY <1>2, LeastNat
<1>4. PICK s \in T : \A t \in T : Cardinality(s) <= Cardinality(t)
  BY <1>3
<1>5. ASSUME NEW x \in s, s \ {x} \in T PROVE FALSE
  <2>1. Cardinality(s \ {x}) = Cardinality(s) - 1
    BY <1>1, FS_RemoveElement
  <2> QED BY <1>1, <1>4, <1>5, <2>1
<1> QED BY <1>5

LEMMA SumUnique ==
  ASSUME NEW d, NEW S, IsFiniteSet(S), NEW T \in SUBSET S,
         NEW f, SumsUp(f, d, S), NEW g, SumsUp(g, d, T)
  PROVE  \A s \in SUBSET T : f[s] = g[s]
<1> DEFINE Bad == {s \in SUBSET T : f[s] # g[s]}
<1> SUFFICES ASSUME Bad # {} PROVE FALSE
  OBVIOUS
<1>1. PICK s \in Bad : \A x \in s : s \ {x} \notin Bad
  BY FS_Subset, SmallestSet
<1>3. s # {}
  BY DEF SumsUp
<1>4. Pick(s) \in s
  BY <1>3 DEF Pick
<1>6. f[s \ {Pick(s)}] = g[s \ {Pick(s)}]
  BY <1>1, <1>4
<1> QED BY <1>3, <1>6 DEF SumsUp

(* The fold of ClientsOf is it.                                            *)
LEMMA ClientsSum ==
  ASSUME NEW d, NEW S, IsFiniteSet(S), \A n \in S : d.wireless[n].clients \in Nat
  PROVE  \E f : SumsUp(f, d, S) /\ ClientsOf(d, S) = f[S]
<1> DEFINE Def(g) == [s \in SUBSET S |->
                        IF s = {} THEN 0
                        ELSE d.wireless[CHOOSE x \in s : TRUE].clients
                               + g[s \ {CHOOSE x \in s : TRUE}]]
           f == CHOOSE g : g = Def(g)
<1>1. PICK g : SumsUp(g, d, S)
  BY SumExists
<1>2. g = Def(g)
  <2>1. g = [s \in SUBSET S |-> g[s]] /\ \A s \in SUBSET S : g[s] = Def(g)[s]
    BY <1>1 DEF SumsUp, Pick
  <2> QED BY <2>1
<1>3. f = Def(f)
  BY <1>2
<1>4. ClientsOf(d, S) = f[S]
  BY DEF ClientsOf, MapThenSumSet, MapThenFoldSet
<1> HIDE DEF f
<1>5. /\ DOMAIN f = SUBSET S
      /\ f[{}] = 0
      /\ \A s \in SUBSET S : s # {} => f[s] = d.wireless[Pick(s)].clients + f[s \ {Pick(s)}]
  BY <1>3 DEF Pick
<1>6. f \in [SUBSET S -> Nat]
  <2> DEFINE Bad == {s \in SUBSET S : f[s] \notin Nat}
  <2>1. Bad = {}
    <3> SUFFICES ASSUME Bad # {} PROVE FALSE
      OBVIOUS
    <3>2. PICK s \in Bad : \A x \in s : s \ {x} \notin Bad
      BY SmallestSet
    <3>0. f[s] \notin Nat /\ f[{}] \in Nat
      BY <1>5
    <3>1. s # {}
      BY <3>0
    <3>3. Pick(s) \in s
      BY <3>1 DEF Pick
    <3>5. f[s \ {Pick(s)}] \in Nat
      BY <3>2, <3>3
    <3>6. f[s] = d.wireless[Pick(s)].clients + f[s \ {Pick(s)}]
      BY <1>5, <3>1
    <3>7. d.wireless[Pick(s)].clients \in Nat
      BY <3>3
    <3> QED BY <3>5, <3>6, <3>7
  <2>2. f = [s \in SUBSET S |-> f[s]]
    <3> DEFINE h == Def(f)
    <3>1. h = [s \in SUBSET S |-> h[s]]
      OBVIOUS
    <3>2. f = h
      BY <1>3
    <3> HIDE DEF h
    <3> QED BY <3>1, <3>2
  <2> QED BY <2>1, <2>2
<1> QED BY <1>4, <1>5, <1>6 DEF SumsUp

(* The clients of interfaces: none without an interface, and each          *)
(* interface's own once.                                                   *)
LEMMA ClientsOfEach ==
  ASSUME NEW d, NEW S, IsFiniteSet(S), \A n \in S : d.wireless[n].clients \in Nat
  PROVE  /\ ClientsOf(d, S) \in Nat
         /\ ClientsOf(d, {}) = 0
         /\ \A n \in S : ClientsOf(d, S) = d.wireless[n].clients + ClientsOf(d, S \ {n})
<1>1. PICK f : SumsUp(f, d, S) /\ ClientsOf(d, S) = f[S]
  BY ClientsSum
<1>2. \A s \in SUBSET S : ClientsOf(d, s) = f[s]
  <2> TAKE s \in SUBSET S
  <2>1. IsFiniteSet(s)
    BY FS_Subset
  <2>2. PICK g : SumsUp(g, d, s) /\ ClientsOf(d, s) = g[s]
    BY <2>1, ClientsSum
  <2> QED BY <1>1, <2>2, SumUnique
<1> DEFINE Bad == {s \in SUBSET S : \E n \in s : f[s] # d.wireless[n].clients + f[s \ {n}]}
<1>3. Bad = {}
  <2> SUFFICES ASSUME Bad # {} PROVE FALSE
    OBVIOUS
  <2>1. PICK s \in Bad : \A x \in s : s \ {x} \notin Bad
    BY SmallestSet
  <2>2. PICK n \in s : f[s] # d.wireless[n].clients + f[s \ {n}]
    BY <2>1
  <2> DEFINE m == Pick(s)
  <2>3. m \in s /\ f[s] = d.wireless[m].clients + f[s \ {m}]
    BY <1>1, <2>2 DEF SumsUp, Pick
  <2> HIDE DEF m
  <2>4. n # m
    BY <2>2, <2>3
  <2>5. f[s \ {m}] = d.wireless[n].clients + f[(s \ {m}) \ {n}]
    BY <2>1, <2>2, <2>3, <2>4
  <2>6. f[s \ {n}] = d.wireless[m].clients + f[(s \ {n}) \ {m}]
    BY <2>1, <2>2, <2>3, <2>4
  <2>7. (s \ {m}) \ {n} = (s \ {n}) \ {m}
    OBVIOUS
  <2>8. /\ d.wireless[m].clients \in Nat /\ d.wireless[n].clients \in Nat
        /\ f[(s \ {n}) \ {m}] \in Nat
    <3>1. f \in [SUBSET S -> Nat] /\ (s \ {n}) \ {m} \in SUBSET S
      BY <1>1 DEF SumsUp
    <3>2. m \in S /\ n \in S
      BY <2>3
    <3> QED BY <3>1, <3>2
  <2> DEFINE a == d.wireless[m].clients
             b == d.wireless[n].clients
             x == f[(s \ {n}) \ {m}]
  <2>9. f[s] = a + (b + x) /\ f[s] # b + (a + x)
    BY <2>2, <2>3, <2>5, <2>6, <2>7
  <2>10. a \in Nat /\ b \in Nat /\ x \in Nat
    BY <2>8
  <2> HIDE DEF a, b, x
  <2> QED BY <2>9, <2>10
<1>4. f[S] \in Nat /\ f[{}] = 0
  BY <1>1 DEF SumsUp
<1> QED BY <1>1, <1>2, <1>3, <1>4

-----------------------------------------------------------------------------
(* Names and their sensors.                                                *)

LEMMA NamesArePairs ==
  ASSUME NEW d, NEW x \in Names(d)
  PROVE  /\ x = <<x[1], x[2]>> /\ x[1] \in {"wireless", "mesh"}
         /\ x[1] = "wireless" => x[2] \in DOMAIN d.wireless
BY DEF Names

\* different names have different sensors
LEMMA SensorsDiffer ==
  ASSUME NEW S, NEW T, S \cap T = {},
         \A x \in S \cup T : x = <<x[1], x[2]>> /\ x[1] \in {"wireless", "mesh"}
  PROVE  InterfaceSensors(S) \cap InterfaceSensors(T) = {}
<1> SUFFICES ASSUME NEW x \in S, NEW y \in T,
                    (IF x[1] = "wireless" THEN <<"sensor", "clients", x[2]>>
                                          ELSE <<"sensor", "mesh", x[2]>>)
                    = (IF y[1] = "wireless" THEN <<"sensor", "clients", y[2]>>
                                            ELSE <<"sensor", "mesh", y[2]>>)
             PROVE  FALSE
  BY DEF InterfaceSensors
<1>1. x[1] = y[1] /\ x[2] = y[2]
  OBVIOUS
<1> QED BY <1>1

LEMMA SensorsOfNames ==
  ASSUME NEW S, NEW e \in InterfaceSensors(S)
  PROVE  e[1] = "sensor" /\ e[2] \in {"clients", "mesh"}
BY DEF InterfaceSensors

LEMMA SensorsOfUnion ==
  ASSUME NEW S, NEW T
  PROVE  InterfaceSensors(S \cup T) = InterfaceSensors(S) \cup InterfaceSensors(T)
BY DEF InterfaceSensors

\* what the set-up of a platform makes
LEMMA MadeOfPlatform ==
  ASSUME NEW platform \in Platforms, NEW d
  PROVE  \A e \in Made(platform, d) : e[1] = platform /\ Entity(e)
<1>1. CASE platform = "sensor"
  BY <1>1, SensorsOfNames DEF Made, Entity
<1>2. CASE platform = "binary_sensor"
  BY <1>2 DEF Made, Entity
<1>3. CASE platform = "switch"
  BY <1>3 DEF Made, Entity
<1> QED BY <1>1, <1>2, <1>3 DEF Platforms

LEMMA MadeByNames ==
  ASSUME NEW d
  PROVE  /\ InterfaceSensors(Names(d)) \subseteq Made("sensor", d)
         /\ \A e \in Made("sensor", d) : e[2] \in {"clients", "mesh"}
                                           => e \in InterfaceSensors(Names(d))
BY DEF Made

\* a state that is not Unavailable
LEMMA StateIsCurrent ==
  ASSUME NEW e, Entity(e), NEW d, NEW good, NEW list, State(e, d, good, list) # Unavailable
  PROVE  /\ good
         /\ e[2] = "clients" =>
              e[3] \in DOMAIN d.wireless /\ State(e, d, good, list) = d.wireless[e[3]].clients
         /\ e[2] \in {"modem", "metric"} => d.modem # "missing"
<1>1. good /\ State(e, d, good, list) = Shows(e, d, list)
  BY DEF State, If
<1>2. CASE e[1] = "sensor"
  BY <1>1, <1>2 DEF Shows, If, WirelessClients, ModemInfo, ModemMetric
<1>3. CASE e[1] = "binary_sensor"
  BY <1>1, <1>3 DEF Entity, Shows, If, ModemRegistered
<1>4. CASE e[1] = "switch"
  BY <1>4, <1>1 DEF Entity
<1> QED BY <1>2, <1>3, <1>4 DEF Entity

-----------------------------------------------------------------------------
(* A notification of the new data, of a poll that was good or not.         *)

Notified ==
  /\ Notify(data', ok')
  /\ UNCHANGED platforms
  /\ platforms # {} => up'

LEMMA NotifyNames ==
  ASSUME EntitiesFit, Notified
  PROVE  PlatformsFit' /\ KnownFit' /\ NoEntityTwice'
<1> DEFINE new == IF "sensor" \in platforms THEN New(data') ELSE {}
<1>1. /\ known' = IF "sensor" \in platforms THEN known \cup new ELSE known
      /\ wireless' = wireless \cup {x[2] : x \in {y \in new : y[1] = "wireless"}}
      /\ DOMAIN shown' = DOMAIN shown \cup InterfaceSensors(new)
      /\ twice' = (twice \/ InterfaceSensors(new) \cap DOMAIN shown # {})
      /\ platforms' = platforms
  BY DEF Notified, Notify, Knows, Appended
<1>2. /\ new \cap known = {} \/ "sensor" \notin platforms
      /\ \A x \in new : x = <<x[1], x[2]>> /\ x[1] \in {"wireless", "mesh"}
      /\ "sensor" \in platforms => Names(data') \subseteq known \cup new
  <2>1. new \subseteq Names(data')
    BY DEF New
  <2>2. \A x \in Names(data') : x = <<x[1], x[2]>> /\ x[1] \in {"wireless", "mesh"}
    BY NamesArePairs
  <2> QED BY <2>1, <2>2 DEF New
<1>3. "sensor" \notin platforms => new = {}
  OBVIOUS
<1> HIDE DEF new
<1>4. PlatformsFit'
  <2>1. \A e \in InterfaceSensors(new) : e[1] = "sensor" /\ Entity(e) /\ "sensor" \in platforms
    BY <1>3, SensorsOfNames DEF Entity, InterfaceSensors
  <2> QED BY <1>1, <2>1 DEF EntitiesFit, PlatformsFit, Notified
<1>5. KnownFit'
  <2> SUFFICES ASSUME "sensor" \in platforms PROVE KnownFit'
    BY <1>1 DEF KnownFit
  <2>1. known' = known \cup new /\ KnownFit
    BY <1>1 DEF EntitiesFit
  <2>2. InterfaceSensors(known') = InterfaceSensors(known) \cup InterfaceSensors(new)
    BY <2>1, SensorsOfUnion
  <2>3. \A x \in known' : x = <<x[1], x[2]>> /\ x[1] \in {"wireless", "mesh"}
    BY <1>2, <2>1 DEF KnownFit
  <2>4. \A x \in known' : x[1] = "wireless" => x[2] \in wireless'
    BY <1>1, <2>1 DEF KnownFit
  <2>5. Names(data') \subseteq known'
    BY <1>2, <2>1
  <2>6. /\ \A e \in DOMAIN shown' : e[1] = "sensor" /\ e[2] \in {"clients", "mesh"}
                                      => e \in InterfaceSensors(known')
        /\ InterfaceSensors(known') \subseteq DOMAIN shown'
    BY <1>1, <2>1, <2>2 DEF KnownFit
  <2>7. /\ Names(data)' = Names(data') /\ InterfaceSensors(known)' = InterfaceSensors(known')
    BY DEF Names, InterfaceSensors
  <2> QED BY <2>3, <2>4, <2>5, <2>6, <2>7 DEF KnownFit
<1>6. NoEntityTwice'
  <2>1. CASE "sensor" \notin platforms
    <3>1. InterfaceSensors(new) = {}
      BY <1>3, <2>1 DEF InterfaceSensors
    <3> QED BY <1>1, <3>1 DEF EntitiesFit, NoEntityTwice
  <2>2. CASE "sensor" \in platforms
    <3>1. InterfaceSensors(new) \cap InterfaceSensors(known) = {}
      BY <1>2, <2>2, SensorsDiffer DEF EntitiesFit, KnownFit
    <3>2. \A e \in InterfaceSensors(new) : e[1] = "sensor" /\ e[2] \in {"clients", "mesh"}
      BY SensorsOfNames
    <3>3. InterfaceSensors(new) \cap DOMAIN shown = {}
      BY <2>2, <3>1, <3>2 DEF EntitiesFit, KnownFit
    <3> QED BY <1>1, <3>3 DEF EntitiesFit, NoEntityTwice
  <2> QED BY <2>1, <2>2
<1> QED BY <1>4, <1>5, <1>6

LEMMA NotifyStates ==
  ASSUME EntitiesFit, Notified
  PROVE  ShownIsCurrent' /\ TotalIsSum'
<1> DEFINE new == IF "sensor" \in platforms THEN New(data') ELSE {}
           summed == IF late THEN Appended(new) ELSE wireless
<1>0. PlatformsFit' /\ KnownFit'
  BY NotifyNames
<1>1. \A e \in DOMAIN shown' : shown'[e] = State(e, data', ok', summed)
  BY DEF Notified, Notify
<1>2. ShownIsCurrent'
  <2> SUFFICES ASSUME NEW e \in DOMAIN shown', shown'[e] # Unavailable
               PROVE  /\ ok'
                      /\ e[2] = "clients" => /\ e[3] \in DOMAIN data'.wireless
                                             /\ shown'[e] = data'.wireless[e[3]].clients
                      /\ e[2] \in {"modem", "metric"} => data'.modem # "missing"
    BY DEF ShownIsCurrent, Unavailable
  <2>1. Entity(e)
    BY <1>0 DEF PlatformsFit, Entity
  <2>2. shown'[e] = State(e, data', ok', summed)
    BY <1>1
  <2> HIDE DEF summed
  <2> QED BY <2>1, <2>2, StateIsCurrent
<1>3. TotalIsSum'
  <2> DEFINE total == <<"sensor", "total", None>>
  <2> SUFFICES ASSUME ok', ~grew', total \in DOMAIN shown'
               PROVE  shown'[total] = ClientsOf(data', DOMAIN data'.wireless)
    BY DEF TotalIsSum
  <2>1. shown'[total] = ClientsOf(data', summed \cap DOMAIN data'.wireless)
    <3>1. shown'[total] = State(total, data', ok', summed)
      BY <1>1
    <3> HIDE DEF summed
    <3> QED BY <3>1 DEF State, If, Shows, TotalClients
  <2>2. "sensor" \in platforms
    BY <1>0 DEF PlatformsFit, Notified
  <2>3. summed = wireless
    BY DEF Notified, Notify, Appended
  <2>4. DOMAIN data'.wireless \subseteq wireless
    <3> SUFFICES ASSUME NEW n \in DOMAIN data'.wireless PROVE n \in wireless
      OBVIOUS
    <3>1. <<"wireless", n>> \in Names(data')
      BY DEF Names
    <3>2. <<"wireless", n>> \notin new
      BY DEF Notified, Notify
    <3>3. <<"wireless", n>> \in known
      BY <2>2, <3>1, <3>2 DEF New
    <3> QED BY <2>2, <3>3 DEF EntitiesFit, KnownFit
  <2> HIDE DEF summed
  <2>5. summed \cap DOMAIN data'.wireless = DOMAIN data'.wireless
    BY <2>3, <2>4
  <2> QED BY <2>1, <2>5
<1> QED BY <1>2, <1>3

-----------------------------------------------------------------------------
(* The steps.                                                              *)

LEMMA EntitiesUnchanged ==
  ASSUME EntitiesFit, UNCHANGED <<platforms, up, data, ok, known, wireless, shown, twice, grew>>
  PROVE  EntitiesFit'
BY DEF EntitiesFit, PlatformsFit, KnownFit, NoEntityTwice, ShownIsCurrent, TotalIsSum

LEMMA SetUpPlatformFits ==
  ASSUME EntitiesFit, NEW platform \in Platforms, SetUpPlatform(platform)
  PROVE  EntitiesFit'
<1> DEFINE made == Made(platform, data)
<1>1. /\ up /\ platform \notin platforms /\ platforms' = platforms \cup {platform}
      /\ UNCHANGED <<up, data, ok>>
      /\ grew' = (grew /\ platform # "sensor")
      /\ twice' = (twice \/ made \cap DOMAIN shown # {})
      /\ shown' = [e \in DOMAIN shown \cup made |->
                     IF e \in made THEN State(e, data, ok, wireless') ELSE shown[e]]
  BY DEF SetUpPlatform
<1>2. /\ platform = "sensor" => known' = Names(data) /\ wireless' = DOMAIN data.wireless
      /\ platform # "sensor" => UNCHANGED <<known, wireless>>
  BY DEF SetUpPlatform
<1>3. \A e \in made : e[1] = platform /\ Entity(e)
  BY MadeOfPlatform
<1>4. \A e \in DOMAIN shown : e[1] \in platforms /\ e[1] # platform /\ e \notin made /\ Entity(e)
  BY <1>1, <1>3 DEF EntitiesFit, PlatformsFit
<1> HIDE DEF made
<1>5. PlatformsFit'
  BY <1>1, <1>3, <1>4 DEF EntitiesFit, PlatformsFit, Entity
<1>6. KnownFit'
  <2>1. CASE platform = "sensor"
    <3>1. made = Made("sensor", data) /\ data' = data /\ known' = Names(data)
      BY <1>1, <1>2, <2>1 DEF made
    <3>2. \A x \in known' : /\ x = <<x[1], x[2]>> /\ x[1] \in {"wireless", "mesh"}
                            /\ x[1] = "wireless" => x[2] \in wireless'
      BY <1>2, <2>1, <3>1, NamesArePairs
    <3>3. /\ InterfaceSensors(Names(data)) \subseteq made
          /\ \A e \in made : e[2] \in {"clients", "mesh"} => e \in InterfaceSensors(Names(data))
      BY <3>1, MadeByNames
    <3>4. /\ Names(data)' = Names(data)
          /\ InterfaceSensors(known)' = InterfaceSensors(Names(data))
      BY <3>1 DEF Names, InterfaceSensors
    <3> QED BY <1>1, <1>4, <2>1, <3>1, <3>2, <3>3, <3>4 DEF KnownFit
  <2>2. CASE platform # "sensor"
    <3>1. UNCHANGED <<known, wireless, data>> /\ ("sensor" \in platforms' <=> "sensor" \in platforms)
      BY <1>1, <1>2, <2>2
    <3>2. \A e \in made : e[1] # "sensor"
      BY <1>3, <2>2
    <3>3. UNCHANGED <<Names(data), InterfaceSensors(known)>>
      BY <3>1 DEF Names, InterfaceSensors
    <3> QED BY <1>1, <3>1, <3>2, <3>3 DEF EntitiesFit, KnownFit
  <2> QED BY <2>1, <2>2
<1>7. NoEntityTwice'
  BY <1>1, <1>4 DEF EntitiesFit, NoEntityTwice
<1>8. ShownIsCurrent'
  <2> SUFFICES ASSUME NEW e \in DOMAIN shown', shown'[e] # Unavailable
               PROVE  /\ ok'
                      /\ e[2] = "clients" => /\ e[3] \in DOMAIN data'.wireless
                                             /\ shown'[e] = data'.wireless[e[3]].clients
                      /\ e[2] \in {"modem", "metric"} => data'.modem # "missing"
    BY DEF ShownIsCurrent, Unavailable
  <2>1. CASE e \in made
    <3>1. shown'[e] = State(e, data, ok, wireless') /\ Entity(e)
      BY <1>1, <1>3, <2>1
    <3> QED BY <1>1, <3>1, StateIsCurrent
  <2>2. CASE e \notin made
    <3>1. e \in DOMAIN shown /\ shown'[e] = shown[e]
      BY <1>1, <2>2
    <3> QED BY <1>1, <3>1 DEF EntitiesFit, ShownIsCurrent
  <2> QED BY <2>1, <2>2
<1>9. TotalIsSum'
  <2> DEFINE total == <<"sensor", "total", None>>
  <2> SUFFICES ASSUME ok', ~grew', total \in DOMAIN shown'
               PROVE  shown'[total] = ClientsOf(data, DOMAIN data.wireless)
    BY <1>1 DEF TotalIsSum
  <2>1. CASE platform = "sensor"
    <3>1. total \in made
      BY <1>1, <1>4, <2>1
    <3>2. shown'[total] = State(total, data, TRUE, DOMAIN data.wireless)
      BY <1>1, <1>2, <2>1, <3>1
    <3>3. State(total, data, TRUE, DOMAIN data.wireless)
            = ClientsOf(data, DOMAIN data.wireless \cap DOMAIN data.wireless)
      BY DEF State, If, Shows, TotalClients
    <3>4. DOMAIN data.wireless \cap DOMAIN data.wireless = DOMAIN data.wireless
      OBVIOUS
    <3> QED BY <3>2, <3>3, <3>4
  <2>2. CASE platform # "sensor"
    <3>1. total \in DOMAIN shown /\ shown'[total] = shown[total] /\ ok /\ ~grew
      BY <1>1, <1>3, <2>2
    <3> QED BY <3>1 DEF EntitiesFit, TotalIsSum
  <2> QED BY <2>1, <2>2
<1> QED BY <1>5, <1>6, <1>7, <1>8, <1>9 DEF EntitiesFit

LEMMA UnloadFits ==
  ASSUME EntitiesFit, Unload
  PROVE  EntitiesFit'
BY DEF Unload, EntitiesFit, PlatformsFit, KnownFit, NoEntityTwice, ShownIsCurrent,
   TotalIsSum

LEMMA FinishFits ==
  ASSUME EntitiesFit, FinishOk \/ FinishFail \/ SkipPoll
  PROVE  EntitiesFit'
<1>1. CASE FinishOk
  <2>1. Notified
    BY <1>1 DEF FinishOk, Notified
  <2> QED BY <2>1, NotifyNames, NotifyStates DEF EntitiesFit
<1>2. CASE FinishFail /\ ok
  <2>1. Notified
    BY <1>2 DEF FinishFail, Notified
  <2> QED BY <2>1, NotifyNames, NotifyStates DEF EntitiesFit
<1>3. CASE FinishFail /\ ~ok
  <2>1. /\ UNCHANGED <<platforms, up, data, known, wireless, shown, twice, grew>>
        /\ ~ok /\ ~ok'
    BY <1>3 DEF FinishFail
  <2> QED BY <2>1 DEF EntitiesFit, PlatformsFit, KnownFit, NoEntityTwice, ShownIsCurrent,
     TotalIsSum
<1>4. CASE SkipPoll
  <2>1. Notified
    BY <1>4 DEF SkipPoll, Notified
  <2> QED BY <2>1, NotifyNames, NotifyStates DEF EntitiesFit
<1> QED BY <1>1, <1>2, <1>3, <1>4

LEMMA ModemStays ==
  ASSUME ModemTypeOK, [Next]_vars
  PROVE  ModemTypeOK'
<1> USE DEF ModemTypeOK, mvars, evars, vars
<1>1. CASE UNCHANGED mvars
  BY <1>1
<1>2. CASE ModemNext /\ UNCHANGED <<layout, starting, evars>>
  BY <1>2 DEF ModemNext, Collect, Truncate, Write, StartService, StopService, EndLoop,
     RebootRouter
<1>3. ASSUME NEW p \in Platforms, SetUpPlatform(p)
      PROVE  UNCHANGED mvars
  BY <1>3 DEF SetUpPlatform
<1> QED BY <1>1, <1>2, <1>3
        DEF Next, StartPoll, SkipPoll, ReadModem, FinishOk, FinishFail, SetUp, SetUpFails,
            Unload, Configure, Started

LEMMA InitIInv == Init => IInv
BY DEF Init, ModemInit, IInv, EntitiesFit, PlatformsFit, KnownFit, NoEntityTwice,
   ShownIsCurrent, TotalIsSum, ModemTypeOK

(* Every step keeps the invariant.                                         *)
LEMMA NextIInv == IInv /\ [Next]_vars => IInv'
<1> SUFFICES ASSUME IInv, [Next]_vars PROVE IInv'
  OBVIOUS
<1>1. EntitiesFit /\ ModemTypeOK'
  BY ModemStays DEF IInv
<1>2. ASSUME NEW p \in Platforms, SetUpPlatform(p)
      PROVE  EntitiesFit'
  BY <1>1, <1>2, SetUpPlatformFits
<1>3. CASE Unload \/ FinishOk \/ FinishFail \/ SkipPoll
  BY <1>1, <1>3, UnloadFits, FinishFits DEF IInv
<1>4. CASE UNCHANGED <<platforms, up, data, ok, known, wireless, shown, twice, grew>>
  BY <1>1, <1>4, EntitiesUnchanged DEF IInv
<1> QED BY <1>1, <1>2, <1>3, <1>4
        DEF IInv, Next, vars, evars, StartPoll, ReadModem, SetUp, SetUpFails, Configure,
            Started

-----------------------------------------------------------------------------
(* Types.                                                                  *)

(* What an entity shows is a number.                                       *)
LEMMA StateType ==
  ASSUME NEW d, DataOK(d), NEW e, Entity(e), NEW good, NEW list
  PROVE  State(e, d, good, list) \in Int
<1>1. \A n \in DOMAIN d.wireless : d.wireless[n].clients \in Nat
  BY EntitiesAssumption DEF DataOK
<1>2. TotalClients(d, list) \in Nat
  <2> DEFINE S == list \cap DOMAIN d.wireless
  <2>1. IsFiniteSet(S)
    BY FS_Subset DEF DataOK
  <2>2. \A n \in S : d.wireless[n].clients \in Nat
    BY <1>1
  <2> HIDE DEF S
  <2>3. ClientsOf(d, S) \in Nat
    BY <2>1, <2>2, ClientsOfEach
  <2> QED BY <2>3 DEF TotalClients, S
<1>3. Unavailable \in Int
  BY DEF Unavailable
<1>4. \A s : Code(s) \in Int
  BY DEF Code
<1>5. \A a, v : v \in Int => If(a, v) \in Int
  BY <1>3 DEF If
<1>6. Shows(e, d, list) \in Int
  <2>1. CASE e[1] = "sensor"
    <3>1. WirelessClients(e[3], d) \in Int
      BY <1>1, <1>3 DEF WirelessClients, If
    <3> QED BY <1>2, <1>4, <1>5, <2>1, <3>1
            DEF Entity, Shows, MeshLink, Mwan3Ratio, WanRxTx, Hosts, SystemInfo,
              SystemDisk,
                ModemInfo, ModemMetric
  <2>2. CASE e[1] \in {"binary_sensor", "switch"}
    BY <1>4, <1>5, <2>2 DEF Entity, Shows, Device, Mwan3Online, ModemRegistered, WpsSwitch
  <2> QED BY <2>1, <2>2 DEF Entity
<1> QED BY <1>5, <1>6 DEF State

(* The names of the access points that are found.                          *)
LEMMA ApNames ==
  ASSUME NEW l, NEW S, NEW names
  PROVE  {c.name : c \in Aps(Confs(l, S, names))}
           = {names[i] : i \in {j \in S : /\ l.sections[j].mode = "ap"
                                         /\ Listed(WifiDevices, names[j])}}
<1> DEFINE confs == Confs(l, S, names)
           K == Kept(l, S, names)
<1>1. /\ DOMAIN confs = K
      /\ \A i \in K : confs[i].name = names[i] /\ confs[i].mode = l.sections[i].mode
  BY DEF Confs
<1> HIDE DEF confs
<1>2. {c.name : c \in Aps(confs)} = {names[i] : i \in {j \in K : l.sections[j].mode = "ap"}}
  BY <1>1 DEF Aps
<1>3. {j \in K : l.sections[j].mode = "ap"}
        = {j \in S : l.sections[j].mode = "ap" /\ Listed(WifiDevices, names[j])}
  BY DEF Kept
<1> QED BY <1>2, <1>3 DEF confs

LEMMA FewSections == \A l \in Layouts : IsFiniteSet(Sections(l))
BY EntitiesAssumption, FS_Interval DEF Sections

(* They are finitely many, as the sections are.                            *)
LEMMA SectionsFinite ==
  ASSUME NEW l \in Layouts
  PROVE  /\ IsFiniteSet({c.name : c \in Aps(DiscoverWireless(l))})
         /\ IsFiniteSet({c.name : c \in Aps(DiscoverWirelessUci(l))})
<1>1. IsFiniteSet(Sections(l))
  BY FewSections
<1>2. ASSUME NEW S \in SUBSET Sections(l), NEW names
      PROVE  IsFiniteSet({c.name : c \in Aps(Confs(l, S, names))})
  <2> DEFINE aps == {j \in S : l.sections[j].mode = "ap" /\ Listed(WifiDevices, names[j])}
             T == {names[i] : i \in aps}
             f == [i \in aps |-> names[i]]
  <2>1. IsFiniteSet(aps)
    BY <1>1, FS_Subset
  <2>2. f \in Surjection(aps, T)
    BY DEF Surjection
  <2>3. IsFiniteSet(T)
    BY <2>1, <2>2, FS_Surjection
  <2>4. {c.name : c \in Aps(Confs(l, S, names))} = T
    BY ApNames
  <2> QED BY <2>3, <2>4
<1>3. /\ Running(l) \in SUBSET Sections(l)
      /\ {i \in Sections(l) : l.sections[i].radio \notin l.disabled} \in SUBSET Sections(l)
  BY DEF Running
<1> QED BY <1>2, <1>3 DEF DiscoverWireless, DiscoverWirelessUci

(* What a poll returns.                                                    *)
LEMMA PolledOK ==
  ASSUME TypesFit, NEW answering, NEW answers \in [answering -> ApAnswers],
         NEW parts \in PartAnswers, poll \notin {"idle", "sent"}, via_uci' \in {via_uci, TRUE}
  PROVE  DataOK(Polled(answering, answers, parts))
<1> DEFINE found == {c.name : c \in Aps(Discovered)}
<1>1. IsFiniteSet(found)
  BY SectionsFinite DEF TypesFit, TypeOK, Discovered
<1>2. IsFiniteSet(found \cap answering)
  BY <1>1, FS_Subset
<1>3. Modem \in States
  BY DEF TypesFit, TypeOK, Modem, States
<1>4. parts \in [Parts -> States]
  BY EntitiesAssumption
<1> QED BY <1>2, <1>3, <1>4 DEF Polled, DataOK

(* Every step keeps the types.                                             *)
LEMMA TypesStay ==
  ASSUME IInv, IInv', TypesFit, [Next]_vars
  PROVE  TypesFit'
<1>0. /\ PlatformsFit' /\ ModemTypeOK'
      /\ DataOK(data)
      /\ \A e \in DOMAIN shown' : e[1] \in platforms' /\ Entity(e)
  BY DEF IInv, EntitiesFit, TypesFit, TypeOK, DataOK, PlatformsFit, Entity
<1>1. DataOK(data')
  <2>1. CASE FinishOk
    <3>1. PICK answering \in SUBSET Objects, parts \in PartAnswers :
            \E answers \in [answering -> ApAnswers] : data' = Polled(answering, answers, parts)
      BY <2>1 DEF FinishOk
    <3>2. PICK answers \in [answering -> ApAnswers] : data' = Polled(answering, answers, parts)
      BY <3>1
    <3>3. DataOK(Polled(answering, answers, parts))
      BY <2>1, PolledOK DEF FinishOk
    <3> QED BY <3>2, <3>3
  <2>2. CASE Unload
    <3>1. /\ Nothing.parts \in [Parts -> States] /\ Nothing.modem \in States
          /\ DOMAIN Nothing.wireless = {}
      BY DEF Nothing, States
    <3> QED BY <2>2, <3>1, FS_EmptySet DEF Unload, DataOK
  <2>3. CASE UNCHANGED data
    BY <1>0, <2>3
  <2> QED BY <2>1, <2>2, <2>3
      DEF Next, vars, evars, StartPoll, ReadModem, FinishFail, SetUp, SetUpFails,
          Configure, Started, SkipPoll, SetUpPlatform
<1>2. \A e \in DOMAIN shown' : shown'[e] \in Int
  <2>1. CASE Notify(data', ok')
    <3>1. \A e \in DOMAIN shown' : \E list : shown'[e] = State(e, data', ok', list)
      BY <2>1 DEF Notify
    <3> QED BY <1>0, <1>1, <3>1, StateType
  <2>2. ASSUME NEW p \in Platforms, SetUpPlatform(p)
        PROVE  \A e \in DOMAIN shown' : shown'[e] \in Int
    <3>1. /\ DOMAIN shown' = DOMAIN shown \cup Made(p, data)
          /\ \A e \in DOMAIN shown' : shown'[e] = IF e \in Made(p, data)
                                                   THEN State(e, data, ok, wireless')
                                                   ELSE shown[e]
      BY <2>2 DEF SetUpPlatform
    <3>2. \A e \in DOMAIN shown : shown[e] \in Int
      BY DEF TypesFit, TypeOK
    <3> QED BY <1>0, <3>1, <3>2, StateType
  <2>3. CASE Unload \/ UNCHANGED shown
    BY <2>3 DEF Unload, TypesFit, TypeOK
  <2> QED BY <2>1, <2>2, <2>3
      DEF Next, vars, evars, StartPoll, ReadModem, FinishOk, FinishFail, SetUp,
          SetUpFails, Configure, Started, SkipPoll
<1>3. {<<"wireless", n>> : n \in wireless'} \subseteq known'
  <2>0. {<<"wireless", n>> : n \in wireless} \subseteq known
    BY DEF TypesFit, TypeOK
  <2>1. CASE Notify(data', ok')
    <3> DEFINE new == IF "sensor" \in platforms THEN New(data') ELSE {}
    <3>1. /\ wireless' = wireless \cup {x[2] : x \in {y \in new : y[1] = "wireless"}}
          /\ "sensor" \in platforms => known' = known \cup new
          /\ "sensor" \notin platforms => known' = known /\ wireless' = wireless
      BY <2>1 DEF Notify, Appended, Knows
    <3>2. \A x \in new : x = <<x[1], x[2]>>
      BY NamesArePairs DEF New
    <3> HIDE DEF new
    <3>3. CASE "sensor" \notin platforms
      BY <2>0, <3>1, <3>3
    <3>4. CASE "sensor" \in platforms
      <4> SUFFICES ASSUME NEW n \in wireless' PROVE <<"wireless", n>> \in known'
        OBVIOUS
      <4>1. CASE n \in wireless
        BY <2>0, <3>1, <3>4, <4>1
      <4>2. CASE \E x \in new : x[1] = "wireless" /\ x[2] = n
        BY <3>1, <3>2, <3>4, <4>2
      <4> QED BY <3>1, <4>1, <4>2
    <3> QED BY <3>3, <3>4
  <2>2. ASSUME NEW p \in Platforms, SetUpPlatform(p)
        PROVE  {<<"wireless", n>> : n \in wireless'} \subseteq known'
    BY <2>0, <2>2 DEF SetUpPlatform, Names
  <2>3. CASE Unload \/ UNCHANGED <<known, wireless>>
    BY <2>0, <2>3 DEF Unload
  <2> QED BY <2>1, <2>2, <2>3
      DEF Next, vars, evars, StartPoll, ReadModem, FinishOk, FinishFail, SetUp,
          SetUpFails, Configure, Started, SkipPoll
<1>4. Scalars'
  <2>0. Scalars /\ ModemTypeOK
    BY DEF TypesFit, TypeOK, Scalars
  <2>1. CASE SetUp \/ SetUpFails \/ Configure \/ Unload
    BY <2>0, <2>1 DEF Scalars, SetUp, SetUpFails, Configure, Unload, evars
  <2>8. CASE StartPoll
    BY <2>0, <2>8 DEF Scalars, StartPoll
  <2>9. CASE Started
    <3>1. UNCHANGED <<layout, evars>> /\ starting' = FALSE
      BY <2>9 DEF Started
    <3> QED BY <2>0, <3>1 DEF Scalars, evars
  <2>2. CASE ReadModem
    BY <2>0, <2>2 DEF Scalars, ReadModem, Parsed, ModemTypeOK
  <2>3. CASE FinishOk
    <3>1. twice' \in BOOLEAN /\ grew' \in BOOLEAN
      BY <2>3 DEF FinishOk, Notify
    <3>2. whole' \in BOOLEAN
      BY <2>3 DEF FinishOk
    <3> QED BY <2>0, <2>3, <3>1, <3>2 DEF Scalars, FinishOk
  <2>7. CASE SkipPoll
    <3>1. twice' \in BOOLEAN /\ grew' \in BOOLEAN
      BY <2>7 DEF SkipPoll, Notify
    <3> QED BY <2>0, <2>7, <3>1 DEF Scalars, SkipPoll
  <2>4. CASE FinishFail
    <3>1. twice' \in BOOLEAN /\ grew' \in BOOLEAN
      BY <2>0, <2>4 DEF FinishFail, Notify, Scalars
    <3> QED BY <2>0, <2>4, <3>1 DEF Scalars, FinishFail
  <2>5. ASSUME NEW p \in Platforms, SetUpPlatform(p)
        PROVE  Scalars'
    <3>1. twice' \in BOOLEAN /\ grew' \in BOOLEAN
      BY <2>5 DEF SetUpPlatform
    <3> QED BY <2>0, <2>5, <3>1 DEF Scalars, SetUpPlatform
  <2>6. CASE UNCHANGED <<layout, starting, evars>>
    BY <2>0, <2>6 DEF Scalars, evars
  <2> QED BY <2>1, <2>2, <2>3, <2>4, <2>5, <2>6, <2>7, <2>8, <2>9 DEF Next, vars
<1> QED BY <1>0, <1>1, <1>2, <1>3, <1>4 DEF TypesFit, TypeOK, DataOK, PlatformsFit,
   Scalars

LEMMA InitTypes == Init => TypesFit
<1> SUFFICES ASSUME Init PROVE TypesFit
  OBVIOUS
<1>1. ModemTypeOK /\ Scalars
  BY DEF Init, ModemInit, ModemTypeOK, Scalars
<1>2. /\ data.parts \in [Parts -> States] /\ data.modem \in States
      /\ DOMAIN data.wireless = {}
  BY DEF Init, Nothing, States
<1>3. wireless = {} /\ DOMAIN shown = {} /\ platforms = {}
  BY DEF Init
<1> QED BY <1>1, <1>2, <1>3, FS_EmptySet DEF TypesFit, TypeOK, Scalars

-----------------------------------------------------------------------------
(* The interfaces that are discovered.                                     *)

(* Without sections that are off both sources find the same.               *)
LEMMA SameNames ==
  ASSUME NEW l, Plain(l)
  PROVE  DiscoverWirelessUci(l) = DiscoverWireless(l)
<1> DEFINE on == {i \in Sections(l) : l.sections[i].radio \notin l.disabled}
<1>1. Running(l) = on
  BY DEF Running, Plain
<1>2. \A i \in on : Twins(l, Sections(l), i) = Twins(l, on, i)
  BY DEF Twins
<1>3. \A i \in on : UciNames(l)[i] = RouterNames(l)[i]
  BY <1>1, <1>2 DEF UciNames, GeneratedIfname, RouterNames
<1>4. Kept(l, on, UciNames(l)) = Kept(l, on, RouterNames(l))
  BY <1>3 DEF Kept
<1>5. Confs(l, on, UciNames(l)) = Confs(l, on, RouterNames(l))
  <2>1. \A i \in Kept(l, on, RouterNames(l)) : i \in on
    BY DEF Kept
  <2> QED BY <1>3, <1>4, <2>1 DEF Confs
<1> QED BY <1>1, <1>5 DEF DiscoverWirelessUci, DiscoverWireless
(* Every mesh interface is read when all that runs answer.                 *)
LEMMA MeshNames ==
  ASSUME NEW l, NEW S, NEW names, NEW answering,
         \A i \in S : l.sections[i].id # None /\ names[i] \in answering
  PROVE  UpdateMesh(Confs(l, S, names), answering)
           = {names[i] : i \in {j \in S : /\ l.sections[j].mode = "mesh"
                                         /\ Listed(MeshDevices, names[j])}}
<1> DEFINE confs == Confs(l, S, names)
           wanted == {i \in DOMAIN confs : /\ confs[i].mode = "mesh"
                                           /\ Listed(MeshDevices, confs[i].name)}
           Good(i) == confs[i].id # None /\ confs[i].name \in answering
<1>1. /\ DOMAIN confs = Kept(l, S, names)
      /\ \A i \in Kept(l, S, names) : /\ confs[i].name = names[i]
                                       /\ confs[i].mode = l.sections[i].mode
                                       /\ confs[i].id = l.sections[i].id
  BY DEF Confs
<1>2. UpdateMesh(confs, answering)
        = {confs[i].name : i \in {j \in wanted : \A k \in wanted : k <= j => Good(k)}}
  BY DEF UpdateMesh
<1> HIDE DEF confs
<1>3. \A k \in wanted : Good(k)
  BY <1>1 DEF Kept
<1>4. wanted = {j \in S : l.sections[j].mode = "mesh" /\ Listed(MeshDevices, names[j])}
  BY <1>1 DEF Kept
<1>5. \A i \in wanted : confs[i].name = names[i]
  BY <1>1
<1> HIDE DEF wanted, Good
<1>6. {j \in wanted : \A k \in wanted : k <= j => Good(k)} = wanted
  BY <1>3
<1>7. UpdateMesh(confs, answering) = {names[i] : i \in wanted}
  BY <1>2, <1>5, <1>6
<1> QED BY <1>4, <1>7 DEF confs

-----------------------------------------------------------------------------
(* The theorems.                                                           *)

(* The names, counts and states are what they are meant to be; above all,  *)
(* what an entity shows is a number, the total a sum of numbers.           *)
THEOREM TypeCorrect == Spec => []TypeOK
<1>1. TypesFit => TypeOK
  BY DEF TypesFit
<1> QED BY <1>1, InitIInv, NextIInv, InitTypes, TypesStay, PTL DEF Spec

(* No entity is given to Home Assistant twice: the names known are those   *)
(* that have sensors, and only others get new ones.                        *)
THEOREM MadeOnce == Spec => []NoEntityTwice
<1>1. IInv => NoEntityTwice
  BY DEF IInv, EntitiesFit
<1> QED BY <1>1, InitIInv, NextIInv, PTL DEF Spec

(* Every interface in the data has its sensors.                            *)
THEOREM AllHaveSensors == Spec => []InterfacesHaveSensors
<1>1. IInv => InterfacesHaveSensors
  BY DEF IInv, EntitiesFit, KnownFit, InterfacesHaveSensors, InterfaceSensors
<1> QED BY <1>1, InitIInv, NextIInv, PTL DEF Spec

(* What is shown as a value is of the last poll that was not skipped,      *)
(* which was good.                                                         *)
THEOREM ShownCurrent == Spec => []ShownIsCurrent
<1>1. IInv => ShownIsCurrent
  BY DEF IInv, EntitiesFit
<1> QED BY <1>1, InitIInv, NextIInv, PTL DEF Spec

(* The total shown is that of all wireless interfaces, for the list that   *)
(* the total sensor sums has every name that is known.                     *)
THEOREM TotalSums == Spec => []TotalIsSum
<1>1. IInv => TotalIsSum
  BY DEF IInv, EntitiesFit
<1> QED BY <1>1, InitIInv, NextIInv, PTL DEF Spec

(* A whole poll finds every interface that runs, by either source: without *)
(* sections that are off uci counts what the router counts.                *)
THEOREM WholePoll == Spec => WholePollFindsAll
<1> DEFINE named(mode) == {RouterNames(layout)[i] : i \in
                             {j \in Running(layout) : layout.sections[j].mode = mode}}
<1>1. ASSUME IInv, [Next]_vars, poll # "idle", poll' = "idle", ok', up', whole', Plain(layout)
      PROVE  /\ DOMAIN data'.wireless
                  = {n \in named("ap") : WifiDevices \in {{}, WifiDevices \cup {n}}}
             /\ data'.mesh = {n \in named("mesh") : MeshDevices \in {{}, MeshDevices \cup {n}}}
  <2> DEFINE names == RouterNames(layout)
             found == Confs(layout, Running(layout), names)
  <2>1. FinishOk
    <3>1. ~(FinishFail \/ SetUpFails \/ Unload \/ SkipPoll \/ Started)
      BY <1>1 DEF FinishFail, SetUpFails, Unload, SkipPoll, Started, evars
    <3>2. ~(StartPoll \/ SetUp \/ ReadModem)
      BY <1>1 DEF StartPoll, SetUp, ReadModem, Parsed, IInv, ModemTypeOK
    <3>3. poll' # poll
      BY <1>1
    <3> QED BY <1>1, <3>1, <3>2, <3>3 DEF Next, vars, evars, Configure, SetUpPlatform
  <2>2. PICK parts \in PartAnswers :
          \E answers \in [Objects -> ApAnswers] : data' = Polled(Objects, answers, parts)
    <3>1. PICK answering \in SUBSET Objects, parts \in PartAnswers :
            \E answers \in [answering -> ApAnswers] :
              /\ data' = Polled(answering, answers, parts)
              /\ whole' = (answering = Objects)
      BY <2>1 DEF FinishOk
    <3>2. answering = Objects
      BY <1>1, <3>1
    <3> QED BY <3>1, <3>2
  <2>3. Discovered = found
    BY <1>1, SameNames DEF Discovered, DiscoverWireless
  <2>4. /\ DOMAIN data'.wireless = {c.name : c \in Aps(found)} \cap Objects
        /\ data'.mesh = UpdateMesh(found, Objects)
    BY <2>2, <2>3 DEF Polled
  <2>5. /\ \A i \in Running(layout) : names[i] \in Objects /\ layout.sections[i].id # None
        /\ Objects = {names[i] : i \in Running(layout)}
    BY <1>1 DEF Objects, Plain, Running
  <2> HIDE DEF names
  <2>6. {c.name : c \in Aps(found)} \cap Objects
          = {n \in {names[i] : i \in {j \in Running(layout) : layout.sections[j].mode = "ap"}} :
               Listed(WifiDevices, n)}
    <3>1. {c.name : c \in Aps(found)}
            = {names[i] : i \in {j \in Running(layout) : /\ layout.sections[j].mode = "ap"
                                                         /\ Listed(WifiDevices, names[j])}}
      BY ApNames
    <3>2. \A i \in Running(layout) : names[i] \in Objects
      BY <2>5
    <3> HIDE DEF found
    <3> QED BY <3>1, <3>2
  <2>7. UpdateMesh(found, Objects)
          = {n \in {names[i] : i \in {j \in Running(layout) : layout.sections[j].mode = "mesh"}} :
               Listed(MeshDevices, n)}
    <3>1. UpdateMesh(found, Objects)
            = {names[i] : i \in {j \in Running(layout) : /\ layout.sections[j].mode = "mesh"
                                                         /\ Listed(MeshDevices, names[j])}}
      BY <2>5, MeshNames
    <3> QED BY <3>1
  <2>8. \A n, filter : filter \in {{}, filter \cup {n}} <=> Listed(filter, n)
    BY DEF Listed
  <2> QED BY <2>4, <2>6, <2>7, <2>8 DEF names
<1>2. IInv /\ [Next]_vars =>
        ((poll # "idle" /\ poll' = "idle" /\ ok' /\ up' /\ whole' /\ Plain(layout)) =>
           /\ DOMAIN data'.wireless
                = {n \in named("ap") : WifiDevices \in {{}, WifiDevices \cup {n}}}
           /\ data'.mesh = {n \in named("mesh") : MeshDevices \in {{}, MeshDevices \cup {n}}})
  BY <1>1
<1> QED BY <1>2, InitIInv, NextIInv, PTL DEF Spec, WholePollFindsAll

-----------------------------------------------------------------------------
(* The counter of a radio and mode never repeats, whatever sections S are  *)
(* counted.                                                                *)
LEMMA TwinsGrow ==
  ASSUME NEW l \in Layouts, NEW S \in SUBSET Sections(l), NEW i \in S, NEW j \in S, i < j,
         l.sections[i].ifname = None,
         l.sections[i].radio = l.sections[j].radio, l.sections[i].mode = l.sections[j].mode
  PROVE  Cardinality(Twins(l, S, i)) # Cardinality(Twins(l, S, j))
<1>1. S \subseteq Int /\ IsFiniteSet(S)
  <2>1. Sections(l) \subseteq Int
    BY EntitiesAssumption DEF Sections
  <2> QED BY <2>1, FewSections, FS_Subset
<1>2. Twins(l, S, i) \subseteq Twins(l, S, j)
  <2>1. \A k \in S : k < i => k < j
    BY <1>1
  <2> QED BY <2>1 DEF Twins
<1>3. i \in Twins(l, S, j)
  BY DEF Twins
<1>4. i \notin Twins(l, S, i)
  <2>1. ~(i < i)
    BY <1>1
  <2> QED BY <2>1 DEF Twins
<1>5. Twins(l, S, j) \in SUBSET S
  BY DEF Twins
<1>6. IsFiniteSet(Twins(l, S, j))
  BY <1>1, <1>5, FS_Subset
<1> QED BY <1>2, <1>3, <1>4, <1>6, FS_Subset

(* Two sections without a name are never given the same one, be they       *)
(* counted by the router (what runs) or in uci (all of them), if the names *)
(* of the two radios differ in their digits (coordinator.py,               *)
(* generated_ifnames).                                                     *)
THEOREM GeneratedNamesDiffer ==
  ASSUME NEW l \in Layouts, NEW S \in SUBSET Sections(l), NEW i \in S, NEW j \in S, i # j,
         l.sections[i].ifname = None, l.sections[j].ifname = None,
         RadioNum[l.sections[i].radio] = RadioNum[l.sections[j].radio]
           => l.sections[i].radio = l.sections[j].radio
  PROVE  NameOf(l, i, Cardinality(Twins(l, S, i))) # NameOf(l, j, Cardinality(Twins(l, S, j)))
<1>1. i \in Int /\ j \in Int
  BY EntitiesAssumption DEF Sections
<1>2. CASE /\ l.sections[i].radio = l.sections[j].radio
           /\ l.sections[i].mode = l.sections[j].mode
  <2>1. Cardinality(Twins(l, S, i)) # Cardinality(Twins(l, S, j))
    BY <1>1, <1>2, TwinsGrow
  <2> QED BY <2>1 DEF NameOf
<1>3. CASE \/ l.sections[i].radio # l.sections[j].radio
           \/ l.sections[i].mode # l.sections[j].mode
  BY <1>3 DEF NameOf
<1> QED BY <1>2, <1>3
=============================================================================
