------------------------------ MODULE BootTime ------------------------------
(***************************************************************************)
(* The boot time that the uptime sensor shows (sensor.py,                  *)
(* SystemUptimeSensor): computed from the uptime a poll read some time     *)
(* before it was published, kept while it hardly differs, and replaced     *)
(* when the uptime went down or the difference exceeds the tolerance.      *)
(*                                                                         *)
(* Time passes in ticks, of which the router's uptime is a count; the      *)
(* clock of Home Assistant's host, which the boot time is told by, may be  *)
(* set meanwhile.  The router's boots have distinct times, so the time of  *)
(* a boot stands for the boot.                                             *)
(***************************************************************************)
EXTENDS Integers

CONSTANTS
  Tolerance,   \* BOOT_TIME_TOLERANCE
  MaxLatency,  \* the longest time from system.info's answer to the end of its poll
  Offsets,     \* by how much the clock may be wrong: what it can be set to
  None,        \* no boot time
  Horizon      \* bound: the last tick

ASSUME BootTimeAssumption ==
  /\ Tolerance \in Nat /\ MaxLatency \in Nat /\ Offsets \subseteq Int /\ Horizon \in Nat
  /\ None \notin Int

VARIABLES
  now,          \* the time
  offset,       \* the clock of Home Assistant's host shows now + offset
  booted,       \* when the router booted last
  reading,      \* what system.info answered in the poll in flight
  data,         \* the published system_info
  boot_time,    \* _boot_time, None when there is none
  last_uptime,  \* _last_uptime
  shown_from,   \* history: the poll that boot_time was computed from
  read_from     \* history: the poll that last_uptime is from

sensor == <<boot_time, last_uptime, shown_from, read_from>>
vars == <<now, offset, booted, reading, data, sensor>>

\* an uptime of 0 is taken for an unknown one
Info == [uptime: Nat, boot: Int]
Blank == [uptime |-> 0, boot |-> 0]

\* of a poll: the boot of its uptime, the clock at its end, and how long after
\* the uptime was read it ended
Polls == [boot: Int, offset: Int, lag: Nat]
NoPoll == [boot |-> 0, offset |-> 0, lag |-> 0]

TypeOK ==
  /\ now \in Nat /\ offset \in Int /\ booted \in Int
  /\ reading \in [state: {"none", "read"}, info: Info, at: Nat]
  /\ data \in Info
  /\ boot_time \in Int \cup {None}
  /\ last_uptime \in IF boot_time = None THEN {0} ELSE Nat \ {0}
  /\ shown_from \in Polls /\ read_from \in Polls

NoReading == [state |-> "none", info |-> Blank, at |-> 0]
NewSensor ==
  boot_time' = None /\ last_uptime' = 0 /\ shown_from' = NoPoll /\ read_from' = NoPoll

Init ==
  /\ now = 0 /\ offset \in Offsets /\ booted = 0
  /\ reading = NoReading /\ data = Blank
  /\ boot_time = None /\ last_uptime = 0 /\ shown_from = NoPoll /\ read_from = NoPoll

-----------------------------------------------------------------------------
\* a poll ends, or fails, in time
Tick ==
  /\ now < Horizon
  /\ reading.state = "read" => now < reading.at + MaxLatency
  /\ now' = now + 1
  /\ UNCHANGED <<offset, booted, reading, data, sensor>>

\* the clock is set: by hand, or when it is synchronised after a start
SetClock ==
  /\ offset' \in Offsets \ {offset}
  /\ UNCHANGED <<now, booted, reading, data, sensor>>

Reboot ==
  /\ booted < now
  /\ booted' = now
  /\ UNCHANGED <<now, offset, reading, data, sensor>>

\* the router answers system.info, or with an error
Read ==
  /\ reading.state = "none"
  /\ \E info \in {[uptime |-> now - booted, boot |-> booted], Blank} :
       reading' = [state |-> "read", info |-> info, at |-> now]
  /\ UNCHANGED <<now, offset, booted, data, sensor>>

Fail ==
  /\ reading.state = "read"
  /\ reading' = NoReading
  /\ UNCHANGED <<now, offset, booted, data, sensor>>

Distance(a, b) == IF a < b THEN b - a ELSE a - b

\* mutant: only an uptime that went down is a reboot
WentDown(time, uptime) == boot_time # None => uptime < last_uptime

\* the computed time replaces the one there is
Replaces(time, uptime) ==
  boot_time # None => uptime < last_uptime \/ Distance(time, boot_time) > Tolerance

\* mutant: data of an earlier poll is taken as new
UpdateAgain(info, known, lag) ==
  LET time == now + offset - info.uptime
      from == [boot |-> info.boot, offset |-> offset, lag |-> lag]
  IN  /\ info.uptime > 0
      /\ IF Replaces(time, info.uptime)
         THEN boot_time' = time /\ shown_from' = from
         ELSE UNCHANGED <<boot_time, shown_from>>
      /\ last_uptime' = info.uptime /\ read_from' = from

\* mutant: an unknown uptime is computed with
UpdateUnknown(info, known, lag) ==
  LET from == [boot |-> info.boot, offset |-> offset, lag |-> lag]
  IN  IF known THEN UNCHANGED sensor
      ELSE /\ boot_time' = now + offset - info.uptime /\ shown_from' = from
           /\ last_uptime' = info.uptime /\ read_from' = from

\* _update_boot_time; known: the data is the object seen last; lag: the age of its
\* uptime.  The clock and the uptime count whole seconds, so that the time computed
\* may be one off.
Update(info, known, lag) ==
  \/ /\ known \/ info.uptime = 0
     /\ UNCHANGED sensor
  \/ /\ ~known /\ info.uptime > 0
     /\ LET from == [boot |-> info.boot, offset |-> offset, lag |-> lag]
        IN  /\ \E rounding \in {0, 1} :
                 LET time == now + offset - info.uptime + rounding
                 IN  \/ /\ Replaces(time, info.uptime)
                        /\ boot_time' = time /\ shown_from' = from
                     \/ /\ ~Replaces(time, info.uptime)
                        /\ UNCHANGED <<boot_time, shown_from>>
            /\ last_uptime' = info.uptime /\ read_from' = from

\* the poll ends: the sensor is created with its data, or updated
Publish ==
  /\ reading.state = "read"
  /\ reading' = NoReading
  /\ data' = reading.info
  /\ Update(reading.info, FALSE, now - reading.at)
  /\ UNCHANGED <<now, offset, booted>>

\* a failed or skipped poll calls the listeners with the data there is
Notify ==
  /\ Update(data, TRUE, 0)
  /\ UNCHANGED <<now, offset, booted, reading, data>>

\* the entry is reloaded, or Home Assistant restarts
Reload ==
  /\ reading' = NoReading /\ data' = Blank
  /\ NewSensor
  /\ UNCHANGED <<now, offset, booted>>

Next == Tick \/ SetClock \/ Reboot \/ Read \/ Fail \/ Publish \/ Notify \/ Reload

Spec == Init /\ [][Next]_vars

-----------------------------------------------------------------------------
Replaced == boot_time # None /\ boot_time' \notin {boot_time, None}

(* The shown boot time is replaced for a reason only: the uptime is of     *)
(* another boot, the clock was set since the shown time was computed, or   *)
(* one of the two polls took as long as the tolerance.  Polls that are     *)
(* delayed less, that fail or repeat their data, and the rounding of whole *)
(* seconds replace nothing (sensor.py, _update_boot_time).                 *)
ReplacedForCause ==
  [][Replaced => \/ read_from'.boot # shown_from.boot
                 \/ read_from'.offset # shown_from.offset
                 \/ read_from'.lag >= Tolerance
                 \/ shown_from.lag >= Tolerance]_vars

(* The shown boot time is never far from the boot the last uptime was read *)
(* of, as the clock told it then, even when several reboots in a row left  *)
(* an uptime that only grew, the clock was set or polls were slow.         *)
ShownIsClose ==
  boot_time # None =>
    Distance(boot_time, read_from.boot + read_from.offset) <= Tolerance + MaxLatency + 1

(* README.md: "System uptime, a timestamp that changes only on a reboot".  *)
ChangesOnReboot == [][Replaced => read_from'.boot # shown_from.boot]_vars
=============================================================================
