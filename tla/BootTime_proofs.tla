--------------------------- MODULE BootTime_proofs --------------------------
(***************************************************************************)
(* Proofs about BootTime.  Every time the sensor computes lies after the   *)
(* boot it was computed for by the poll's lag, or that and one second      *)
(* (InfoIsRead, ShownIsComputed), and within one boot uptimes grow         *)
(* (ReadIsPast).                                                           *)
(***************************************************************************)
EXTENDS BootTime, TLAPS

\* a poll's uptime is of a boot, read MaxLatency ago at most
InfoIsRead ==
  reading.state = "read" =>
    /\ reading.at <= now /\ now <= reading.at + MaxLatency
    /\ reading.info.uptime > 0 =>
         /\ reading.info.boot \in 0..booted
         /\ reading.info.uptime = reading.at - reading.info.boot

\* the poll in flight read its uptime after the one the sensor knows was read
ReadIsPast ==
  /\ booted \in 0..now
  /\ boot_time # None =>
       /\ read_from.boot \in 0..booted
       /\ read_from.boot + last_uptime <= now
       /\ reading.state = "read" /\ reading.info.uptime > 0 =>
            /\ read_from.boot <= reading.info.boot
            /\ read_from.boot + last_uptime <= reading.at

\* time was computed from the uptime of poll p
ComputedFrom(time, p) ==
  /\ p.lag <= MaxLatency
  /\ p.boot + p.offset + p.lag <= time /\ time <= p.boot + p.offset + p.lag + 1

ShownIsComputed ==
  boot_time # None =>
    shown_from.boot \in 0..read_from.boot /\ ComputedFrom(boot_time, shown_from)

IInv == TypeOK /\ InfoIsRead /\ ReadIsPast /\ ShownIsComputed /\ ShownIsClose

(* No time is None.                                                        *)
LEMMA NoneIsNoTime == \A t \in Int : t # None
BY BootTimeAssumption

LEMMA InitIInv == Init => IInv
<1> SUFFICES ASSUME Init PROVE IInv
  OBVIOUS
<1>1. TypeOK
  BY BootTimeAssumption DEF Init, TypeOK, NoReading, NoPoll, Polls, Info, Blank
<1> QED BY <1>1 DEF Init, IInv, InfoIsRead, ReadIsPast, ShownIsComputed, ShownIsClose, NoReading

(* A poll's end that the sensor computes with.                             *)
LEMMA Computes ==
  ASSUME IInv, Publish, reading.info.uptime > 0
  PROVE  LET from == [boot |-> reading.info.boot, offset |-> offset, lag |-> now - reading.at]
         IN  /\ from \in Polls /\ from.boot \in 0..booted
             /\ boot_time # None => read_from.boot <= from.boot
             /\ from.boot + reading.info.uptime <= now
             /\ last_uptime' = reading.info.uptime /\ read_from' = from
             /\ \E time \in Int :
                  /\ ComputedFrom(time, from)
                  /\ \/ /\ Replaces(time, reading.info.uptime)
                        /\ boot_time' = time /\ shown_from' = from
                     \/ /\ ~Replaces(time, reading.info.uptime)
                        /\ UNCHANGED <<boot_time, shown_from>>
<1> DEFINE info == reading.info
           from == [boot |-> info.boot, offset |-> offset, lag |-> now - reading.at]
<1>1. /\ info \in Info /\ now \in Nat /\ offset \in Int /\ reading.at \in Nat
      /\ reading.state = "read"
  BY DEF IInv, TypeOK, Publish
<1>2. /\ info.boot \in 0..booted /\ info.uptime = reading.at - info.boot
      /\ reading.at <= now /\ now <= reading.at + MaxLatency
      /\ boot_time # None => read_from.boot <= info.boot
  BY <1>1 DEF IInv, InfoIsRead, ReadIsPast
<1>3. /\ from \in Polls /\ from.boot \in 0..booted
      /\ boot_time # None => read_from.boot <= from.boot
      /\ from.boot + info.uptime <= now
  BY <1>1, <1>2 DEF Polls, Info
<1>4. /\ last_uptime' = info.uptime /\ read_from' = from
      /\ \E rounding \in {0, 1} :
           LET time == now + offset - info.uptime + rounding
           IN  \/ /\ Replaces(time, info.uptime)
                  /\ boot_time' = time /\ shown_from' = from
               \/ /\ ~Replaces(time, info.uptime)
                  /\ UNCHANGED <<boot_time, shown_from>>
  BY <1>1 DEF Publish, Update, Info
<1>5. ASSUME NEW rounding \in {0, 1}
      PROVE  /\ now + offset - info.uptime + rounding \in Int
             /\ ComputedFrom(now + offset - info.uptime + rounding, from)
  BY <1>1, <1>2, BootTimeAssumption DEF ComputedFrom, Info
<1> HIDE DEF from, info
<1>6. \E time \in Int :
        /\ ComputedFrom(time, from)
        /\ \/ /\ Replaces(time, info.uptime)
              /\ boot_time' = time /\ shown_from' = from
           \/ /\ ~Replaces(time, info.uptime)
              /\ UNCHANGED <<boot_time, shown_from>>
  BY <1>4, <1>5
<1> QED BY <1>3, <1>4, <1>6 DEF from, info

LEMMA PublishIInv == IInv /\ Publish => IInv'
<1> SUFFICES ASSUME IInv, Publish PROVE IInv'
  OBVIOUS
<1> DEFINE info == reading.info
           from == [boot |-> info.boot, offset |-> offset, lag |-> now - reading.at]
<1>0. /\ info \in Info /\ now \in Nat /\ booted \in Int /\ offset \in Int
      /\ UNCHANGED <<now, offset, booted>> /\ reading' = NoReading /\ data' = info
      /\ booted \in 0..now
  BY DEF IInv, TypeOK, Publish, ReadIsPast
<1>1. reading' \in [state: {"none", "read"}, info: Info, at: Nat] /\ InfoIsRead'
  BY <1>0 DEF NoReading, Info, Blank, InfoIsRead
<1>2. CASE info.uptime = 0
  <2>1. UNCHANGED sensor
    BY <1>2 DEF Publish, Update
  <2> QED BY <1>0, <1>1, <2>1
          DEF IInv, TypeOK, ReadIsPast, ShownIsComputed, ShownIsClose, ComputedFrom, sensor,
              NoReading
<1>3. CASE info.uptime > 0
  <2>1. /\ from \in Polls /\ from.boot \in 0..booted
        /\ boot_time # None => read_from.boot <= from.boot
        /\ from.boot + info.uptime <= now
        /\ last_uptime' = info.uptime /\ read_from' = from
    BY <1>3, Computes
  <2>2. PICK time \in Int :
          /\ ComputedFrom(time, from)
          /\ \/ /\ Replaces(time, info.uptime)
                /\ boot_time' = time /\ shown_from' = from
             \/ /\ ~Replaces(time, info.uptime)
                /\ UNCHANGED <<boot_time, shown_from>>
    BY <1>3, Computes
  <2> HIDE DEF from
  <2>3. boot_time' \in Int /\ boot_time' # None /\ shown_from' \in Polls
        /\ (~(boot_time' = time /\ shown_from' = from) =>
              /\ UNCHANGED <<boot_time, shown_from>> /\ boot_time # None
              /\ ~Replaces(time, info.uptime))
    BY <2>1, <2>2, NoneIsNoTime DEF IInv, TypeOK, Replaces
  <2>4. ShownIsComputed'
    <3>1. CASE boot_time' = time /\ shown_from' = from
      <4>1. from.boot \in 0..from.boot
        BY <1>0, <2>1
      <4> QED BY <2>1, <2>2, <3>1, <4>1 DEF ShownIsComputed, ComputedFrom
    <3>2. CASE UNCHANGED <<boot_time, shown_from>> /\ boot_time # None
      <4>1. shown_from.boot \in 0..read_from.boot /\ ComputedFrom(boot_time, shown_from)
        BY <3>2 DEF IInv, ShownIsComputed
      <4>2. shown_from.boot \in 0..from.boot
        BY <1>0, <2>1, <3>2, <4>1 DEF IInv, TypeOK, Polls
      <4> QED BY <2>1, <3>2, <4>1, <4>2 DEF ShownIsComputed, ComputedFrom
    <3> QED BY <2>3, <3>1, <3>2
  <2>5. ShownIsClose'
    <3>1. /\ from.boot \in Int /\ from.offset \in Int /\ from.lag \in Nat
          /\ Tolerance \in Nat /\ MaxLatency \in Nat
      BY <2>1, BootTimeAssumption DEF Polls
    <3> DEFINE base == from.boot + from.offset
    <3>2. base \in Int /\ base <= time /\ time <= base + MaxLatency + 1
      BY <2>2, <3>1 DEF ComputedFrom
    <3> HIDE DEF base
    <3>3. Distance(boot_time', base) <= Tolerance + MaxLatency + 1
      <4>1. CASE boot_time' = time
        BY <2>2, <3>1, <3>2, <4>1 DEF Distance
      <4>2. CASE boot_time' = boot_time /\ boot_time # None /\ ~Replaces(time, info.uptime)
        <5>1. Distance(time, boot_time) <= Tolerance
          BY <1>0, <2>3, <3>1, <4>2 DEF Replaces, Distance, IInv, TypeOK
        <5> QED BY <2>3, <3>1, <3>2, <4>2, <5>1 DEF Distance
      <4> QED BY <2>3, <4>1, <4>2
    <3> QED BY <2>1, <3>3 DEF ShownIsClose, base, Distance
  <2>6. TypeOK'
    BY <1>0, <1>1, <1>3, <2>1, <2>3 DEF TypeOK, Info
  <2>7. ReadIsPast'
    BY <1>0, <2>1 DEF ReadIsPast, NoReading
  <2> QED BY <1>1, <2>4, <2>5, <2>6, <2>7 DEF IInv
<1> QED BY <1>0, <1>2, <1>3 DEF Info

LEMMA NextIInv == IInv /\ [Next]_vars => IInv'
<1> SUFFICES ASSUME IInv, [Next]_vars PROVE IInv'
  OBVIOUS
<1> USE BootTimeAssumption DEF IInv, TypeOK, InfoIsRead, ReadIsPast, ShownIsComputed,
      ShownIsClose, ComputedFrom, sensor, Info, Blank, Distance
<1>1. CASE Tick
  BY <1>1 DEF Tick
<1>2. CASE SetClock
  BY <1>2 DEF SetClock
<1>3. CASE Reboot
  BY <1>3 DEF Reboot
<1>4. CASE Read
  BY <1>4 DEF Read
<1>5. CASE Fail
  BY <1>5 DEF Fail, NoReading
<1>6. CASE Publish
  BY <1>6, PublishIInv
<1>7. CASE Notify
  BY <1>7 DEF Notify, Update
<1>8. CASE Reload
  BY <1>8 DEF Reload, NewSensor, NoReading, NoPoll, Polls
<1>9. CASE UNCHANGED vars
  BY <1>9 DEF vars
<1> QED
  BY <1>1, <1>2, <1>3, <1>4, <1>5, <1>6, <1>7, <1>8, <1>9 DEF Next

LEMMA Invariance == Spec => []IInv
BY InitIInv, NextIInv, PTL DEF Spec

(* The sensor's state is well formed: a boot time goes with a positive     *)
(* last uptime.                                                            *)
THEOREM TypeCorrect == Spec => []TypeOK
<1>1. IInv => TypeOK
  BY DEF IInv
<1> QED BY <1>1, Invariance, PTL

(* For every tolerance and latency, and however the clock is set, the      *)
(* shown boot time is within their sum (and one second of rounding) of the *)
(* boot the sensor last heard of, as the clock told it then.               *)
THEOREM ShownClose == Spec => []ShownIsClose
<1>1. IInv => ShownIsClose
  BY DEF IInv
<1> QED BY <1>1, Invariance, PTL

(* A step that replaces the shown time is the end of a poll.               *)
LEMMA ReplacingStep ==
  ASSUME IInv, [Next]_vars, Replaced
  PROVE  /\ Publish /\ reading.info.uptime \in Nat \ {0}
         /\ \E time \in Int :
              /\ ComputedFrom(time, read_from') /\ Replaces(time, reading.info.uptime)
              /\ boot_time' = time /\ shown_from' = read_from'
<1>1. Publish
  BY DEF Replaced, Next, vars, sensor, Tick, SetClock, Reboot, Read, Fail, Notify, Update,
         Reload, NewSensor
<1>2. reading.info.uptime \in Nat
  BY DEF IInv, TypeOK, Info
<1>3. reading.info.uptime # 0
  BY <1>1 DEF Replaced, Publish, Update, sensor
<1>4. boot_time' # boot_time
  BY DEF Replaced
<1> QED BY <1>1, <1>2, <1>3, <1>4, Computes

(* For every tolerance and latency the shown boot time is replaced only on *)
(* the uptime of another boot, after the clock was set, or when one of the *)
(* two polls took as long as the tolerance: of two quick polls of one boot *)
(* the times differ by less than the tolerance and one second, and uptimes *)
(* of one boot never go down.                                              *)
THEOREM ReplacedOnlyForCause == Spec => ReplacedForCause
<1>1. ASSUME IInv, [Next]_vars, Replaced,
             read_from'.boot = shown_from.boot, read_from'.offset = shown_from.offset,
             ~(read_from'.lag >= Tolerance), ~(shown_from.lag >= Tolerance)
      PROVE  FALSE
  <2>1. Publish /\ reading.info.uptime \in Nat \ {0}
    BY <1>1, ReplacingStep
  <2>2. PICK time \in Int :
          ComputedFrom(time, read_from') /\ Replaces(time, reading.info.uptime)
    BY <1>1, ReplacingStep
  <2>3. read_from' = [boot |-> reading.info.boot, offset |-> offset, lag |-> now - reading.at]
        /\ read_from' \in Polls
    BY <1>1, <2>1, Computes
  <2>4. boot_time # None /\ boot_time \in Int /\ shown_from \in Polls /\ last_uptime \in Nat
        /\ Tolerance \in Nat /\ read_from \in Polls /\ reading.at \in Nat
        /\ reading.state = "read"
    BY <1>1, <2>1, BootTimeAssumption DEF Replaced, IInv, TypeOK, Publish
  <2>5. ~(reading.info.uptime < last_uptime)
    <3>1. /\ shown_from.boot \in 0..read_from.boot
          /\ read_from.boot <= reading.info.boot
          /\ read_from.boot + last_uptime <= reading.at
          /\ reading.info.uptime = reading.at - reading.info.boot
      BY <1>1, <2>1, <2>4 DEF IInv, ShownIsComputed, ReadIsPast, InfoIsRead
    <3>2. reading.info.boot = shown_from.boot
      BY <1>1, <2>3
    <3> QED BY <2>1, <2>4, <3>1, <3>2 DEF Polls
  <2>6. Distance(time, boot_time) <= Tolerance
    <3>1. ComputedFrom(boot_time, shown_from)
      BY <1>1, <2>4 DEF IInv, ShownIsComputed
    <3>2. \A t, u, base \in Int, k, l, m \in Nat :
            /\ base + k <= t /\ t <= base + k + 1 /\ ~(k >= m)
            /\ base + l <= u /\ u <= base + l + 1 /\ ~(l >= m)
            => Distance(t, u) <= m
      BY DEF Distance
    <3>3. shown_from.boot + shown_from.offset \in Int
          /\ read_from'.lag \in Nat /\ shown_from.lag \in Nat
      BY <2>3, <2>4 DEF Polls
    <3> QED BY <1>1, <2>2, <2>4, <3>1, <3>2, <3>3 DEF ComputedFrom
  <2> QED BY <2>2, <2>4, <2>5, <2>6, BootTimeAssumption, <2>1 DEF Replaces, Distance
<1>2. IInv /\ [Next]_vars =>
        [Replaced => \/ read_from'.boot # shown_from.boot
                     \/ read_from'.offset # shown_from.offset
                     \/ read_from'.lag >= Tolerance
                     \/ shown_from.lag >= Tolerance]_vars
  BY <1>1
<1> QED BY <1>2, Invariance, PTL DEF Spec, ReplacedForCause

(* Polls slower than the tolerance included (the uptime is read early in a *)
(* poll, sensor.py, BOOT_TIME_TOLERANCE): an uptime of the boot that is    *)
(* shown, read by the same clock, moves the shown time by no more than     *)
(* MaxLatency + 1.                                                         *)
THEOREM SlowPollsMoveLittle ==
  Spec => [][/\ Replaced
             /\ read_from'.boot = shown_from.boot /\ read_from'.offset = shown_from.offset
             => Distance(boot_time', boot_time) <= MaxLatency + 1]_vars
<1>1. ASSUME IInv, [Next]_vars, Replaced,
             read_from'.boot = shown_from.boot, read_from'.offset = shown_from.offset
      PROVE  Distance(boot_time', boot_time) <= MaxLatency + 1
  <2>1. PICK time \in Int : ComputedFrom(time, read_from') /\ boot_time' = time
    BY <1>1, ReplacingStep
  <2>2. read_from' \in Polls
    BY <1>1, ReplacingStep, Computes
  <2>3. boot_time # None /\ boot_time \in Int /\ shown_from \in Polls /\ MaxLatency \in Nat
    BY <1>1, BootTimeAssumption DEF Replaced, IInv, TypeOK
  <2>4. ComputedFrom(boot_time, shown_from)
    BY <1>1, <2>3 DEF IInv, ShownIsComputed
  <2>5. \A t, u, base \in Int, k, l, m \in Nat :
          /\ base + k <= t /\ t <= base + k + 1 /\ k <= m
          /\ base + l <= u /\ u <= base + l + 1 /\ l <= m
          => Distance(t, u) <= m + 1
    BY DEF Distance
  <2>6. shown_from.boot + shown_from.offset \in Int
        /\ read_from'.lag \in Nat /\ shown_from.lag \in Nat
    BY <2>2, <2>3 DEF Polls
  <2> QED BY <1>1, <2>1, <2>3, <2>4, <2>5, <2>6 DEF ComputedFrom
<1>2. IInv /\ [Next]_vars =>
        [/\ Replaced
         /\ read_from'.boot = shown_from.boot /\ read_from'.offset = shown_from.offset
         => Distance(boot_time', boot_time) <= MaxLatency + 1]_vars
  BY <1>1
<1> QED BY <1>2, Invariance, PTL DEF Spec
=============================================================================
