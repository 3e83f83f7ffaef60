----------------------------- MODULE Discovery -----------------------------
(***************************************************************************)
(* How a poll learns the names of the wireless interfaces                  *)
(* (coordinator.py): from the status of network.wireless, or from the uci  *)
(* configuration when that call fails, and which of them it keeps.         *)
(*                                                                         *)
(* A layout is the router's configuration: the wifi-iface sections in the  *)
(* order of their .index, each [radio, mode, ifname, id, off], and the     *)
(* radios that are disabled.  An interface without an option ifname is     *)
(* called phy{N}-{mode}{idx}, here the triple <<N, mode, idx>>.  The confs *)
(* found are a function on the places of their sections.  The code lists   *)
(* them in that order, network.wireless radio by radio: the sections of a  *)
(* radio stand together in a layout.                                       *)
(***************************************************************************)
EXTENDS Naturals, Sequences, FiniteSets

CONSTANTS
  RadioNum,      \* RadioNum[r]: the digits in the name of radio r, 0 without any
  WifiDevices,   \* option wifi_devices: the names in it, {} when it is empty
  MeshDevices,   \* option mesh_devices
  None           \* an option that a section does not have

Sections(layout) == 1..Len(layout.sections)

Listed(filter, name) == filter = {} \/ name \in filter

\* the sections in S whose interface is kept, given the names: access points are
\* filtered by wifi_devices here, mesh interfaces by UpdateMesh
Kept(layout, S, names) ==
  {i \in S : \/ layout.sections[i].mode = "ap" /\ Listed(WifiDevices, names[i])
             \/ layout.sections[i].mode = "mesh"}

Confs(layout, S, names) ==
  [i \in Kept(layout, S, names) |->
     [name |-> names[i], mode |-> layout.sections[i].mode, id |-> layout.sections[i].id]]

\* the sections in S without a name before the i-th, of the same radio and mode
Twins(layout, S, i) ==
  {j \in S : /\ j < i
             /\ layout.sections[j].ifname = None
             /\ layout.sections[j].radio = layout.sections[i].radio
             /\ layout.sections[j].mode = layout.sections[i].mode}

NameOf(layout, i, idx) ==
  LET s == layout.sections[i]
  IN  IF s.ifname # None THEN s.ifname ELSE <<RadioNum[s.radio], s.mode, idx>>

-----------------------------------------------------------------------------
(* The router.                                                             *)

\* what runs: sections that are not off, of radios that are not disabled
Running(layout) ==
  {i \in Sections(layout) : /\ layout.sections[i].radio \notin layout.disabled
                            /\ ~layout.sections[i].off}

\* the router numbers what runs, per radio and mode
RouterNames(layout) ==
  [i \in Sections(layout) |-> NameOf(layout, i, Cardinality(Twins(layout, Running(layout), i)))]

\* network.wireless status: what runs, by its name
DiscoverWireless(layout) == Confs(layout, Running(layout), RouterNames(layout))

-----------------------------------------------------------------------------
(* The uci configuration.                                                  *)

\* mutant: one counter for all modes of a radio
GeneratedPerRadio(layout, i) ==
  NameOf(layout, i, Cardinality({j \in 1..(i - 1) :
                      /\ layout.sections[j].ifname = None
                      /\ layout.sections[j].radio = layout.sections[i].radio}))

\* a counter per radio and mode, over all the sections without a name
GeneratedIfname(layout, i) ==
  NameOf(layout, i, Cardinality(Twins(layout, Sections(layout), i)))

UciNames(layout) == [i \in Sections(layout) |-> GeneratedIfname(layout, i)]

\* every section of a radio that is not disabled; its own option disabled is not read
DiscoverWirelessUci(layout) ==
  Confs(layout, {i \in Sections(layout) : layout.sections[i].radio \notin layout.disabled},
        UciNames(layout))

-----------------------------------------------------------------------------
(* What a poll reads of the interfaces found.                              *)

Aps(confs) == {confs[i] : i \in {j \in DOMAIN confs : confs[j].mode = "ap"}}

\* mesh interfaces are read in turn, and the first one that has no id or that
\* iwinfo does not know ends the loop
UpdateMesh(confs, answering) ==
  LET wanted == {i \in DOMAIN confs : /\ confs[i].mode = "mesh"
                                      /\ Listed(MeshDevices, confs[i].name)}
      Good(i) == confs[i].id # None /\ confs[i].name \in answering
  IN  {confs[i].name : i \in {j \in wanted : \A k \in wanted : k <= j => Good(k)}}
=============================================================================
