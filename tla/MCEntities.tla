----------------------------- MODULE MCEntities -----------------------------
(* Entities for TLC: two radios and a few layouts of their interfaces.     *)
EXTENDS Entities
CONSTANTS radio0, radio1, wlan, net

Num == [r \in {radio0, radio1} |-> IF r = radio0 THEN 0 ELSE 1]
Ap(r) == [radio |-> r, mode |-> "ap", ifname |-> None, id |-> net, off |-> FALSE]
Mesh(r) == [Ap(r) EXCEPT !.mode = "mesh"]
Off(s) == [s EXCEPT !.off = TRUE]
Named(s) == [s EXCEPT !.ifname = wlan]
Layout(sections, disabled) == [sections |-> sections, disabled |-> disabled]

Plainest == Layout(<<Ap(radio0)>>, {})

\* a mesh and two access points; a section that is off beside a radio that is disabled
FewLayouts ==
  {Plainest,
   Layout(<<Mesh(radio0), Ap(radio0), Named(Ap(radio1))>>, {}),
   Layout(<<Off(Ap(radio0)), Ap(radio0), Ap(radio1)>>, {radio1})}

ApValues == {[clients |-> 1, wps |-> "on"], [clients |-> 2, wps |-> "none"]}
PartValues ==
  {[p \in Parts |-> "live"],
   [p \in Parts |-> CASE p = "uplink" -> "missing" [] p = "wan" -> "idle"
                      [] OTHER -> IF p = "system" THEN "live" ELSE "missing"]}

\* what is out of the ordinary in the data of the last poll
Odd ==
  {n \in DOMAIN data.wireless : data.wireless[n].clients = 2}
  \cup {n \in {None} : data.parts["uplink"] = "missing"}
  \cup (Objects \ (DOMAIN data.wireless \cup data.mesh))

\* One thing at a time: the modem's file changes while there is one access point
\* that always answers, and no poll falls between the set-ups of the platforms;
\* and while there is no modem, the layout changes and one
\* interface, count or other part differs from the ordinary in a poll.
Explored ==
  IF /\ service = "off" /\ collection = "none" /\ file = "none"
     /\ poll \notin {"idle_modem", "live_modem"} /\ data.modem = "missing"
     /\ \A e \in DOMAIN shown : e[2] \notin {"modem", "metric"}
  THEN up => Cardinality(Odd) <= 1
  ELSE /\ layout = Plainest
       /\ up => Odd = {} /\ Names(data) = {<<"wireless", <<0, "ap", 0>>>>}
       /\ poll # "idle" => platforms \in {{}, Platforms}
=============================================================================
