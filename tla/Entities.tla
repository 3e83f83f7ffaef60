------------------------------ MODULE Entities ------------------------------
(***************************************************************************)
(* The entities of one router's config entry: sensor.py, binary_sensor.py, *)
(* switch.py and entity.py, over the data of its polls (coordinator.py).   *)
(*                                                                         *)
(* The platforms are set up one by one, and a client tracker of another    *)
(* entry may ask for a poll in between.  An entity is a triple: platform,  *)
(* what it shows, and the interface's name or None; sensors that are made  *)
(* and become unavailable together are one (the rx and tx of a WAN device, *)
(* the signal and the peers of a mesh interface, and so on).               *)
(***************************************************************************)
EXTENDS Integers, FiniteSets, FiniteSetsExt, Discovery, ModemStats

CONSTANTS
  Layouts,      \* the wireless configurations that the router is given
  ApAnswers,    \* answers of hostapd: [clients, wps], wps "none" when it is not known
  PartAnswers   \* answers for the other parts of a poll: [Parts -> States]

Platforms == {"sensor", "binary_sensor", "switch"}

\* parts whose entities are made at the set-up only.  Of an interface of mwan3:
\* "idle" is offline; of a WAN device: down; of a disk: no space in total
Parts == {"uplink", "wan", "system", "disk"}
States == {"missing", "idle", "live"}

ASSUME EntitiesAssumption ==
  /\ \A l \in Layouts : Len(l.sections) \in Nat
  /\ PartAnswers \subseteq [Parts -> States]
  /\ ApAnswers \subseteq [clients: Nat, wps: {"none", "off", "on"}]

VARIABLES
  layout,      \* the router's wireless configuration
  starting,    \* Home Assistant is still starting
  via_uci,     \* the coordinator's _wireless_via_uci
  poll,        \* the poll in flight: sent, or the modem data it has read
  up,          \* runtime_data is set
  platforms,   \* the platforms that are set up
  data,        \* coordinator.data: wireless, mesh, parts, modem
  ok,          \* coordinator.last_update_success
  known,       \* known_wireless and known_mesh of the sensor platform
  wireless,    \* the list of wireless sensors that the total sensor sums
  late,        \* the total sensor hears of an update after the listener of sensor.py
  shown,       \* shown[e]: the state last written for the entity e
  twice,       \* history: an entity was given to Home Assistant twice
  grew,        \* history: the last notification brought a wireless interface
  whole        \* history: every call for wireless data of the last good poll was answered

evars == <<via_uci, poll, up, platforms, data, ok, known, wireless, late, shown,
           twice, grew, whole>>
vars == <<layout, starting, evars, mvars>>

Unavailable == -1
Names(d) == {<<"wireless", n>> : n \in DOMAIN d.wireless} \cup {<<"mesh", n>> : n \in d.mesh}
Nothing == [wireless |-> <<>>, mesh |-> {}, modem |-> "missing",
            parts |-> [p \in Parts |-> "missing"]]

TypeOK ==
  /\ layout \in Layouts /\ starting \in BOOLEAN /\ via_uci \in BOOLEAN
  /\ poll \in {"idle", "sent", "missing", "idle_modem", "live_modem"}
  /\ up \in BOOLEAN /\ platforms \subseteq Platforms
  /\ data.parts \in [Parts -> States] /\ data.modem \in States
  /\ \A n \in DOMAIN data.wireless : data.wireless[n] \in ApAnswers
  /\ ok \in BOOLEAN /\ late \in BOOLEAN
  /\ {<<"wireless", n>> : n \in wireless} \subseteq known
  /\ \A e \in DOMAIN shown : e[1] \in platforms /\ shown[e] \in Int
  /\ twice \in BOOLEAN /\ grew \in BOOLEAN /\ whole \in BOOLEAN
  /\ ModemTypeOK

Init ==
  /\ layout \in Layouts /\ starting \in BOOLEAN
  /\ via_uci = FALSE /\ poll = "idle" /\ up = FALSE /\ platforms = {}
  /\ data = Nothing /\ ok = TRUE
  /\ known = {} /\ wireless = {} /\ late \in BOOLEAN
  /\ shown = <<>>
  /\ twice = FALSE /\ grew = FALSE /\ whole = FALSE
  /\ ModemInit

-----------------------------------------------------------------------------
(* What an entity shows.                                                   *)

Code(state) == IF state = "live" THEN 1 ELSE 0

If(available, value) == IF available THEN value ELSE Unavailable

\* sensors of one interface
WirelessClients(n, d) == If(n \in DOMAIN d.wireless, d.wireless[n].clients)
MeshLink(n, d) == If(n \in d.mesh, 1)

\* the clients of the interfaces in S
ClientsOf(d, S) == MapThenSumSet(LAMBDA n : d.wireless[n].clients, S)

\* over the list of wireless sensors, those of them that are available
TotalClients(d, list) == ClientsOf(d, list \cap DOMAIN d.wireless)

\* sensors of the other parts
Mwan3Ratio(d) == If(d.parts["uplink"] # "missing", Code(d.parts["uplink"]))
WanRxTx(d) == If(d.parts["wan"] = "live", 1)
Hosts(d) == 1
SystemInfo(d) == If(d.parts["system"] # "missing", 1)
SystemDisk(d) == If(d.parts["system"] # "missing", Code(d.parts["disk"]))
ModemInfo(d) == If(d.modem # "missing", 1)
ModemMetric(d) == If(d.modem = "live", 1)

\* binary sensors and the switch
Device(d) == 1
Mwan3Online(d) == If(d.parts["uplink"] # "missing", Code(d.parts["uplink"]))
ModemRegistered(d) == If(d.modem # "missing", 1)
WpsSwitch(n, d) == If(n \in DOMAIN d.wireless, IF d.wireless[n].wps = "on" THEN 1 ELSE 0)

Shows(e, d, list) ==
  IF e[1] = "sensor"
  THEN CASE e[2] = "clients" -> WirelessClients(e[3], d)
         [] e[2] = "mesh"    -> MeshLink(e[3], d)
         [] e[2] = "total"   -> TotalClients(d, list)
         [] e[2] = "uplink"  -> Mwan3Ratio(d)
         [] e[2] = "wan"     -> WanRxTx(d)
         [] e[2] = "hosts"   -> Hosts(d)
         [] e[2] = "system"  -> SystemInfo(d)
         [] e[2] = "disk"    -> SystemDisk(d)
         [] e[2] = "modem"   -> ModemInfo(d)
         [] e[2] = "metric"  -> ModemMetric(d)
  ELSE CASE e[2] = "device"  -> Device(d)
         [] e[2] = "uplink"  -> Mwan3Online(d)
         [] e[2] = "modem"   -> ModemRegistered(d)
         [] e[2] = "wps"     -> WpsSwitch(e[3], d)

\* mutant: the availability of the coordinator is left out
StateIgnoringFailure(e, d, good, list) == Shows(e, d, list)

\* an entity of a coordinator is available after a good poll only
State(e, d, good, list) == If(good, Shows(e, d, list))

-----------------------------------------------------------------------------
(* Which entities are made.                                                *)

InterfaceSensors(names) ==
  {IF x[1] = "wireless" THEN <<"sensor", "clients", x[2]>> ELSE <<"sensor", "mesh", x[2]>> :
     x \in names}

\* what the set-up of a platform makes of the data at that moment
Made(platform, d) ==
  LET present(p) == d.parts[p] # "missing"
  IN CASE platform = "sensor" ->
            InterfaceSensors(Names(d)) \cup {<<"sensor", "hosts", None>>}
            \cup {e \in {<<"sensor", "total", None>>} : DOMAIN d.wireless # {}}
            \cup {<<"sensor", p, None>> : p \in {q \in {"uplink", "wan", "system"} : present(q)}}
            \cup {e \in {<<"sensor", "disk", None>>} :
                    present("system") /\ d.parts["disk"] = "live"}
            \cup {e \in {<<"sensor", "modem", None>>, <<"sensor", "metric", None>>} :
                    d.modem # "missing"}
       [] platform = "binary_sensor" ->
            {<<"binary_sensor", "device", None>>}
            \cup {e \in {<<"binary_sensor", "uplink", None>>} : present("uplink")}
            \cup {e \in {<<"binary_sensor", "modem", None>>} : d.modem # "missing"}
       [] platform = "switch" ->
            {<<"switch", "wps", n>> : n \in {m \in DOMAIN d.wireless : d.wireless[m].wps # "none"}}

\* mutant: the interfaces of the last data, so that one that comes back is new
KnowsCurrent(new, d) == Names(d)

\* the names that have had their sensors
Knows(new, d) == known \cup new

\* mutant: the sensors of later interfaces are left out
AppendedNone(new) == wireless

\* the list that the total sensor shares with the set-up
Appended(new) == wireless \cup {x[2] : x \in {y \in new : y[1] = "wireless"}}

\* mutant: looks for new interfaces when there are more of them
NewIfMore(d) == IF Cardinality(Names(d)) > Cardinality(known) THEN Names(d) \ known ELSE {}

New(d) == Names(d) \ known

\* the coordinator's listeners run on d: the entities write their states, and the
\* listener of sensor.py makes sensors for names it does not know, which write theirs
Notify(d, good) ==
  LET new == IF "sensor" \in platforms THEN New(d) ELSE {}
      made == InterfaceSensors(new)
      summed == IF late THEN Appended(new) ELSE wireless
  IN  /\ known' = IF "sensor" \in platforms THEN Knows(new, d) ELSE known
      /\ wireless' = Appended(new)
      /\ shown' = [e \in DOMAIN shown \cup made |-> State(e, d, good, summed)]
      /\ twice' = (twice \/ made \cap DOMAIN shown # {})
      /\ grew' = \E x \in new : x[1] = "wireless"

-----------------------------------------------------------------------------
(* Polls.                                                                  *)

StartPoll ==
  /\ up /\ poll = "idle" /\ ~starting
  /\ poll' = "sent"
  /\ whole' = FALSE
  /\ UNCHANGED <<layout, starting, via_uci, up, platforms, data, ok, known, wireless, late,
                 shown, twice, grew, mvars>>

\* while Home Assistant starts, a poll returns the data there is, as a good one
SkipPoll ==
  /\ up /\ poll = "idle" /\ starting
  /\ Notify(data, TRUE)
  /\ ok' = TRUE
  /\ UNCHANGED <<layout, starting, via_uci, poll, up, platforms, data, late, whole, mvars>>

\* mutant: an empty or partial file is not told apart
ParsedAsIs == file

\* a file that is missing, empty or no JSON gives no data
Parsed == CASE file \in {"none", "partial"} -> "missing"
            [] file = "null"                -> "idle_modem"
            [] file = "full"                -> "live_modem"

\* file.read; it may also be answered with an error
ReadModem ==
  /\ poll = "sent"
  /\ poll' \in {Parsed, "missing"}
  /\ UNCHANGED <<layout, starting, via_uci, up, platforms, data, ok, known, wireless, late,
                 shown, twice, grew, whole, mvars>>

Modem == CASE poll = "missing"    -> "missing"
           [] poll = "idle_modem" -> "idle"
           [] poll = "live_modem" -> "live"

\* network.wireless until it fails, and then uci as long as the coordinator lives
Discovered == IF via_uci' THEN DiscoverWirelessUci(layout) ELSE DiscoverWireless(layout)

\* the names that hostapd and iwinfo have objects for
Objects == {RouterNames(layout)[i] : i \in Running(layout)}

\* the data of a poll: an interface that does not answer is left out
Polled(answering, answers, parts) ==
  [wireless |-> [n \in {c.name : c \in Aps(Discovered)} \cap answering |-> answers[n]],
   mesh |-> UpdateMesh(Discovered, answering),
   modem |-> Modem,
   parts |-> parts]

FinishOk ==
  /\ poll \notin {"idle", "sent"}
  /\ via_uci' \in {via_uci, TRUE}
  /\ \E answering \in SUBSET Objects, parts \in PartAnswers :
       \E answers \in [answering -> ApAnswers] :
         /\ data' = Polled(answering, answers, parts)
         /\ whole' = (answering = Objects)
  /\ Notify(data', TRUE)
  /\ poll' = "idle" /\ ok' = TRUE /\ up' = TRUE
  /\ UNCHANGED <<layout, starting, platforms, late, mvars>>

\* a failed poll keeps the data, and a second failure in a row tells nobody
FinishFail ==
  /\ up /\ poll # "idle"
  /\ poll' = "idle" /\ ok' = FALSE
  /\ IF ok THEN Notify(data, FALSE) ELSE UNCHANGED <<known, wireless, shown, twice, grew>>
  /\ UNCHANGED <<layout, starting, via_uci, up, platforms, data, late, whole, mvars>>

-----------------------------------------------------------------------------
(* Set-up and unload.                                                      *)

\* a new coordinator; its first refresh is never skipped
SetUp ==
  /\ ~up /\ poll = "idle"
  /\ via_uci' = FALSE
  /\ poll' = "sent"
  /\ whole' = FALSE
  /\ UNCHANGED <<layout, starting, up, platforms, data, ok, known, wireless, late, shown,
                 twice, grew, mvars>>

SetUpFails ==
  /\ ~up /\ poll # "idle"
  /\ poll' = "idle"
  /\ UNCHANGED <<layout, starting, via_uci, up, platforms, data, ok, known, wireless, late,
                 shown, twice, grew, whole, mvars>>

\* async_setup_entry of a platform; that of the sensors adds its listener as well
SetUpPlatform(platform) ==
  /\ up /\ platform \notin platforms
  /\ platforms' = platforms \cup {platform}
  /\ IF platform = "sensor"
     THEN known' = Names(data) /\ wireless' = DOMAIN data.wireless
     ELSE UNCHANGED <<known, wireless>>
  /\ LET made == Made(platform, data)
     IN  /\ shown' = [e \in DOMAIN shown \cup made |->
                        IF e \in made THEN State(e, data, ok, wireless') ELSE shown[e]]
         /\ twice' = (twice \/ made \cap DOMAIN shown # {})
  /\ grew' = (grew /\ platform # "sensor")
  /\ UNCHANGED <<layout, starting, via_uci, poll, up, data, ok, late, whole, mvars>>

\* the entities and the coordinator go
Unload ==
  /\ platforms = Platforms
  /\ up' = FALSE /\ platforms' = {} /\ poll' = "idle"
  /\ data' = Nothing /\ ok' = TRUE
  /\ known' = {} /\ wireless' = {} /\ shown' = <<>>
  /\ late' \in BOOLEAN
  /\ grew' = FALSE /\ whole' = FALSE
  /\ UNCHANGED <<layout, starting, via_uci, twice, mvars>>

\* somebody changes the router's wireless configuration
Configure ==
  /\ layout' \in Layouts \ {layout}
  /\ UNCHANGED <<starting, evars, mvars>>

\* Home Assistant has started
Started ==
  /\ starting /\ starting' = FALSE
  /\ UNCHANGED <<layout, evars, mvars>>

Next ==
  \/ StartPoll \/ SkipPoll \/ ReadModem \/ FinishOk \/ FinishFail
  \/ SetUp \/ SetUpFails \/ Unload \/ Configure \/ Started
  \/ \E p \in Platforms : SetUpPlatform(p)
  \/ ModemNext /\ UNCHANGED <<layout, starting, evars>>

Spec == Init /\ [][Next]_vars

-----------------------------------------------------------------------------
(* Properties.                                                             *)

(* No entity is given to Home Assistant a second time, whatever interfaces *)
(* vanish, come back or change their source, and whenever the platforms    *)
(* are set up (sensor.py: known_wireless and known_mesh never shrink).     *)
NoEntityTwice == ~twice

(* Every wireless and mesh interface in the data has its sensors, however  *)
(* polls fall between the set-ups of the platforms (sensor.py:119).        *)
InterfacesHaveSensors ==
  "sensor" \in platforms => InterfaceSensors(Names(data)) \subseteq DOMAIN shown

(* What is shown as a value comes from the last poll, which was good, or,  *)
(* when that one was skipped, from the last one that was not; a poll that  *)
(* fails makes every entity unavailable, once.                             *)
ShownIsCurrent ==
  \A e \in DOMAIN shown :
    shown[e] # Unavailable =>
      /\ ok
      /\ e[2] = "clients" =>
           e[3] \in DOMAIN data.wireless /\ shown[e] = data.wireless[e[3]].clients
      /\ e[2] \in {"modem", "metric"} => data.modem # "missing"

(* The total shown is that of every wireless interface in the data, except *)
(* on the update that brought a new one: the total sensor may have written *)
(* its state before (sensor.py:130, "the total sensor sums this list").    *)
TotalIsSum ==
  LET total == <<"sensor", "total", None>>
  IN  ok /\ ~grew /\ total \in DOMAIN shown =>
        shown[total] = ClientsOf(data, DOMAIN data.wireless)

\* the interfaces of a layout all have names in the same way: no section is off
Plain(l) == \A i \in Sections(l) : ~l.sections[i].off /\ l.sections[i].id # None

(* A poll in which every interface answered has the router's interfaces,   *)
(* the same ones by uci as by network.wireless, unless single sections are *)
(* disabled: the names that uci gives count those (coordinator.py:99).     *)
WholePollFindsAll ==
  [][(poll # "idle" /\ poll' = "idle" /\ ok' /\ up' /\ whole' /\ Plain(layout)) =>
       LET named(mode) == {RouterNames(layout)[i] : i \in
                             {j \in Running(layout) : layout.sections[j].mode = mode}}
       IN  /\ DOMAIN data'.wireless = {n \in named("ap") : WifiDevices \in {{}, WifiDevices \cup {n}}}
           /\ data'.mesh = {n \in named("mesh") : MeshDevices \in {{}, MeshDevices \cup {n}}}]_vars
=============================================================================
