----------------------------- MODULE Poll_proofs ----------------------------
(***************************************************************************)
(* Proofs about Poll, for every set of sources that the router permits,    *)
(* any number of access points, boots and stragglers.                      *)
(***************************************************************************)
EXTENDS Poll, TLAPS

\* nobody has failed the poll in flight, and only its branches are waited for
InFlight ==
  /\ phase # "idle" => ended = "none"
  /\ broken => ended \in {"failed", "auth"}
  /\ \A t \in tasks : t.own => phase = "gather"

\* boots are heard of when they have happened
BootsHappened == info.boot <= boot /\ last_boot <= boot

\* BoardFollowsReboot, during a poll as well
BoardIsYoung == ~missed => \A b \in board : b >= last_boot

IInv == TypeOK /\ InFlight /\ BootsHappened /\ BoardIsYoung

-----------------------------------------------------------------------------
(* What a call does.                                                       *)

LEMMA AskTypes ==
  ASSUME TypeOK, NEW reply \in Replies, NEW fails \in BOOLEAN, AskFor(reply, fails)
  PROVE  /\ session' \in {"none", "live", "stale"} /\ acls' \in SUBSET Optional
         /\ failed' \in BOOLEAN
BY PollAssumption DEF AskFor, LogsIn, TypeOK

LEMMA FailPollFits ==
  ASSUME TypeOK, NEW reply, NEW left \in SUBSET tasks, FailPoll(reply, left)
  PROVE  /\ phase' = "idle" /\ ended' \in {"failed", "auth"} /\ info' = Unknown
         /\ tasks' \in SUBSET Task /\ \A t \in tasks' : ~t.own
<1>1. \A t \in tasks : [t EXCEPT !.own = FALSE] \in Task /\ ~[t EXCEPT !.own = FALSE].own
  BY DEF TypeOK, Task
<1> QED BY <1>1 DEF FailPoll

\* a branch goes on
LEMMA ContinueFits ==
  ASSUME TypeOK, InFlight, NEW t \in tasks, NEW next \in SUBSET Task,
         \A u \in next : u.own = t.own,
         Continue(t, next), UNCHANGED broken
  PROVE  /\ phase' \in Phases /\ ended' \in {ended, "published"} /\ info' \in {info, Unknown}
         /\ tasks' \in SUBSET Task
         /\ InFlight'
<1>1. t.own \in BOOLEAN
  BY DEF TypeOK, Task
<1>2. t.own => phase = "gather" /\ ended = "none" /\ ~broken
  BY DEF InFlight
<1>3. tasks' = (tasks \ {t}) \cup next /\ tasks' \in SUBSET Task
  BY DEF Continue, TypeOK
<1>4. CASE t.own /\ ~\E u \in tasks' : u.own
  BY <1>2, <1>3, <1>4 DEF Continue, InFlight, Phases
<1>5. CASE ~(t.own /\ ~\E u \in tasks' : u.own)
  BY <1>1, <1>2, <1>3, <1>5 DEF Continue, InFlight, TypeOK
<1> QED BY <1>4, <1>5

\* a branch ends with an error
LEMMA RaiseFits ==
  ASSUME TypeOK, InFlight, NEW t \in tasks, NEW reply \in {"broken", "rejected"},
         Raise(t, reply), Unanswered(reply, t.own)
  PROVE  /\ phase' \in Phases /\ ended' \in {ended, "failed", "auth"} /\ info' \in {info, Unknown}
         /\ tasks' \in SUBSET Task /\ broken' \in BOOLEAN
         /\ InFlight'
<1>1. CASE t.own
  <2>1. FailPoll(reply, tasks \ {t})
    BY <1>1 DEF Raise
  <2> QED BY <2>1, FailPollFits DEF InFlight, TypeOK, Phases, Unanswered
<1>2. CASE ~t.own
  BY <1>2 DEF Raise, Unanswered, Raises, InFlight, TypeOK
<1> QED BY <1>1, <1>2

-----------------------------------------------------------------------------
(* The branches.                                                           *)

\* what a branch's step may do
Steps ==
  /\ phase' \in Phases /\ ended' \in {ended, "published", "failed", "auth"}
  /\ info' \in {info, Unknown}
  /\ tasks' \in SUBSET Task /\ broken' \in BOOLEAN
  /\ InFlight'
  /\ session' \in {"none", "live", "stale"} /\ acls' \in SUBSET Optional
  /\ failed' \in BOOLEAN

LEMMA QuietlySteps ==
  ASSUME TypeOK, InFlight, NEW t \in tasks, NEW next \in SUBSET Task,
         \A u \in next : u.own = t.own, Quietly(t, next)
  PROVE  Steps
<1>1. Continue(t, next) /\ UNCHANGED <<session, acls, failed, broken>>
  BY DEF Quietly, client
<1> QED BY <1>1, ContinueFits DEF Steps, TypeOK, InFlight

LEMMA CallSteps ==
  ASSUME TypeOK, InFlight, NEW t \in tasks, NEW next \in SUBSET Task,
         \A u \in next : u.own = t.own,
         NEW reply \in Replies, NEW fails \in BOOLEAN,
         AskFor(reply, fails), Unanswered(reply, t.own),
         IF Raises(reply) THEN Raise(t, reply) ELSE Continue(t, next)
  PROVE  Steps
<1>1. CASE Raises(reply)
  BY <1>1, AskTypes, RaiseFits DEF Raises, Steps
<1>2. CASE ~Raises(reply)
  <2>1. UNCHANGED broken
    BY <1>2 DEF Unanswered, TypeOK
  <2> QED BY <1>2, <2>1, AskTypes, ContinueFits DEF Steps, TypeOK
<1> QED BY <1>1, <1>2

LEMMA BranchSteps ==
  ASSUME TypeOK, InFlight, NEW t \in tasks, Branch(t)
  PROVE  /\ Steps
         /\ UNCHANGED <<router, apis, board, last_uptime, last_boot, missed>>
         /\ via_uci' \in BOOLEAN
<1>1. t \in Task /\ t.own \in BOOLEAN /\ t.left \in 0..Aps
  BY DEF TypeOK, Task
<1>2. \A at \in Stages : /\ NewTask(at, 0, t.own) \in Task /\ NewTask(at, 0, t.own).own = t.own
                         /\ NewTask(at, Aps, t.own) \in Task /\ NewTask(at, Aps, t.own).own = t.own
  BY <1>1, PollAssumption DEF NewTask, Task
<1>3. /\ {} \in SUBSET Task /\ \A u \in {} : u.own = t.own
      /\ Found(t) \in SUBSET Task /\ \A u \in Found(t) : u.own = t.own
  BY <1>2 DEF Found, Stages
<1>4. CASE Discover(t)
  <2>1. PICK at \in {"native", "uci"} : Quietly(t, {NewTask(at, 0, t.own)})
    BY <1>4 DEF Discover
  <2>2. /\ {NewTask(at, 0, t.own)} \in SUBSET Task
        /\ \A u \in {NewTask(at, 0, t.own)} : u.own = t.own
    BY <1>2, <2>1 DEF Stages
  <2>3. Steps
    BY <2>1, <2>2, QuietlySteps
  <2> QED BY <1>4, <2>3 DEF Discover, Branch, polled, TypeOK
<1>5. CASE Native(t)
  <2>1. via_uci' \in BOOLEAN /\ UNCHANGED <<apis, board, last_uptime, last_boot, missed>>
    BY <1>5 DEF Native, TypeOK
  <2>2. ASSUME NEW reply \in Replies, Ask(reply), Unanswered(reply, t.own),
               IF Raises(reply) THEN Raise(t, reply)
               ELSE Continue(t, IF reply = "ok" THEN Found(t) ELSE {})
        PROVE  Steps
    <3>1. CASE reply = "ok"
      BY <1>3, <2>2, <3>1, CallSteps DEF Ask
    <3>2. CASE reply # "ok"
      BY <1>3, <2>2, <3>2, CallSteps DEF Ask
    <3> QED BY <3>1, <3>2
  <2>3. ASSUME AskFor("error", TRUE), Continue(t, {NewTask("uci", 0, t.own)}), UNCHANGED broken
        PROVE  Steps
    <3>1. /\ {NewTask("uci", 0, t.own)} \in SUBSET Task
          /\ \A u \in {NewTask("uci", 0, t.own)} : u.own = t.own
      BY <1>2 DEF Stages
    <3>2. "error" \in Replies /\ ~Raises("error") /\ Unanswered("error", t.own)
      BY <2>3 DEF Replies, Raises, Unanswered, TypeOK
    <3> QED BY <2>3, <3>1, <3>2, CallSteps
  <2> QED BY <1>5, <2>1, <2>2, <2>3 DEF Native, Branch
<1>6. ASSUME NEW next \in SUBSET Task, \A u \in next : u.own = t.own,
             \/ Quietly(t, {})
             \/ \E reply \in Replies :
                  /\ Ask(reply) /\ Unanswered(reply, t.own)
                  /\ IF Raises(reply) THEN Raise(t, reply)
                     ELSE Continue(t, next) \/ Continue(t, {})
      PROVE  Steps
  <2>1. CASE Quietly(t, {})
    BY <1>3, <2>1, QuietlySteps
  <2>2. ASSUME NEW reply \in Replies, Ask(reply), Unanswered(reply, t.own),
               IF Raises(reply) THEN Raise(t, reply) ELSE Continue(t, next) \/ Continue(t, {})
        PROVE  Steps
    <3>1. CASE Raises(reply) \/ Continue(t, next)
      BY <1>6, <2>2, <3>1, CallSteps DEF Ask
    <3>2. CASE ~Raises(reply) /\ Continue(t, {})
      BY <1>3, <2>2, <3>2, CallSteps DEF Ask
    <3> QED BY <2>2, <3>1, <3>2
  <2> QED BY <1>6, <2>1, <2>2
<1>7. CASE Uci(t)
  <2>1. \/ Quietly(t, {})
        \/ \E reply \in Replies : /\ Ask(reply) /\ Unanswered(reply, t.own)
                                  /\ IF Raises(reply) THEN Raise(t, reply)
                                     ELSE Continue(t, Found(t)) \/ Continue(t, {})
    BY <1>7 DEF Uci, Calls
  <2>2. Steps
    BY <1>3, <1>6, <2>1
  <2> QED BY <1>7, <2>2 DEF Uci, Branch, polled, TypeOK
<1>8. CASE Ap(t)
  <2>1. ASSUME t.left > 0
        PROVE  Steps
    <3>1. [t EXCEPT !.left = @ - 1] \in Task /\ [t EXCEPT !.left = @ - 1].own = t.own
      BY <1>1, <2>1, PollAssumption DEF Task
    <3> DEFINE next == {[t EXCEPT !.left = @ - 1]}
    <3>2. next \in SUBSET Task /\ \A u \in next : u.own = t.own
      BY <3>1
    <3>3. \E reply \in Replies : /\ Ask(reply) /\ Unanswered(reply, t.own)
                                 /\ IF Raises(reply) THEN Raise(t, reply) ELSE Continue(t, next)
      BY <1>8, <2>1 DEF Ap, Calls
    <3> HIDE DEF next
    <3> QED BY <3>2, <3>3, <1>6
  <2>2. ASSUME ~(t.left > 0)
        PROVE  Steps
    <3>1. Quietly(t, {})
      BY <1>8, <2>2 DEF Ap
    <3> QED BY <1>3, <1>6, <3>1
  <2>3. Steps
    BY <2>1, <2>2
  <2> QED BY <1>8, <2>3 DEF Ap, Branch, polled, TypeOK
<1>9. CASE Mesh(t)
  <2> DEFINE next == {NewTask("peers", 0, t.own)}
  <2>1. next \in SUBSET Task /\ \A u \in next : u.own = t.own
    BY <1>2 DEF Stages
  <2>2. \/ Quietly(t, {})
        \/ \E reply \in Replies : /\ Ask(reply) /\ Unanswered(reply, t.own)
                                  /\ IF Raises(reply) THEN Raise(t, reply)
                                     ELSE Continue(t, next) \/ Continue(t, {})
    BY <1>9 DEF Mesh, Calls
  <2> HIDE DEF next
  <2> QED BY <1>6, <1>9, <2>1, <2>2 DEF Mesh, Branch, polled, TypeOK
<1>10. CASE Peers(t) \/ Other(t)
  <2>1. Steps
    BY <1>3, <1>6, <1>10 DEF Peers, Other, Calls
  <2> QED BY <1>10, <2>1 DEF Peers, Other, Branch, polled, TypeOK
<1> QED BY <1>4, <1>5, <1>7, <1>8, <1>9, <1>10 DEF Branch

LEMMA BranchIInv ==
  ASSUME IInv, NEW t \in tasks, Branch(t)
  PROVE  IInv'
<1>1. /\ Steps /\ UNCHANGED <<router, apis, board, last_uptime, last_boot, missed>>
      /\ via_uci' \in BOOLEAN
  BY BranchSteps DEF IInv
<1>2. info' \in [uptime: Nat, boot: Nat] /\ info'.boot <= boot
  BY <1>1 DEF IInv, TypeOK, BootsHappened, Steps, Unknown
<1>3. TypeOK'
  BY <1>1, <1>2 DEF IInv, TypeOK, Steps, router
<1>4. BootsHappened' /\ BoardIsYoung'
  BY <1>1, <1>2 DEF IInv, BootsHappened, BoardIsYoung, router
<1>5. InFlight'
  BY <1>1 DEF IInv, Steps
<1> QED BY <1>3, <1>4, <1>5 DEF IInv

-----------------------------------------------------------------------------
(* The calls made in turn, and the router.                                 *)

LEMMA RouterIInv ==
  ASSUME IInv, Tick \/ Reboot \/ Expire \/ ChangePassword
  PROVE  IInv'
<1>0. accepts' \in BOOLEAN /\ UNCHANGED <<acls, failed, polled, run>>
  BY DEF IInv, TypeOK, Tick, Reboot, Expire, ChangePassword, router, client
<1>1. /\ boot' \in Nat /\ boot <= boot' /\ uptime' \in Nat
      /\ session' \in {"none", "live", "stale"}
  <2>1. CASE Tick \/ ChangePassword
    BY <2>1 DEF IInv, TypeOK, Tick, ChangePassword, client
  <2>2. CASE Reboot \/ Expire
    BY <2>2 DEF IInv, TypeOK, Reboot, Expire, SessionLost, router
  <2> QED BY <2>1, <2>2
<1>2. info.boot <= boot' /\ last_boot <= boot'
  BY <1>0, <1>1 DEF IInv, TypeOK, BootsHappened, polled, run
<1> QED BY <1>0, <1>1, <1>2
        DEF IInv, TypeOK, InFlight, BootsHappened, BoardIsYoung,
            polled, run

LEMMA StartPollIInv ==
  ASSUME IInv, StartPoll
  PROVE  IInv'
<1>1. /\ phase' \in {"load", "system"} /\ ended' = "none" /\ broken' = FALSE
      /\ UNCHANGED <<router, client, polled, info, tasks>>
  BY DEF StartPoll
<1>2. \A t \in tasks : ~t.own
  BY DEF StartPoll, IInv, InFlight, TypeOK, Task
<1> QED BY <1>1, <1>2 DEF IInv, TypeOK, Phases, InFlight, BootsHappened, BoardIsYoung,
                          router, client, polled

\* the poll in flight ends with an error
LEMMA FailIInv ==
  ASSUME IInv, phase # "idle", NEW reply \in {"broken", "rejected"},
         Ask(reply), Unanswered(reply, TRUE), FailPoll(reply, tasks),
         UNCHANGED <<router, apis, board, last_uptime, last_boot, missed>>,
         via_uci' \in BOOLEAN
  PROVE  IInv'
<1>1. /\ phase' = "idle" /\ ended' \in {"failed", "auth"} /\ info' = Unknown
      /\ tasks' \in SUBSET Task /\ \A t \in tasks' : ~t.own
  BY FailPollFits DEF IInv
<1>2. /\ session' \in {"none", "live", "stale"} /\ acls' \in SUBSET Optional
      /\ failed' \in BOOLEAN
  BY AskTypes DEF IInv, Ask, Replies
<1>3. broken' \in BOOLEAN
  BY DEF IInv, TypeOK, Unanswered, Raises
<1>4. info' \in [uptime: Nat, boot: Nat] /\ info'.boot <= boot
  BY <1>1 DEF Unknown, IInv, TypeOK
<1>5. TypeOK'
  BY <1>1, <1>2, <1>3, <1>4 DEF IInv, TypeOK, Phases, router
<1>6. InFlight'
  BY <1>1, <1>2 DEF InFlight
<1>7. BootsHappened' /\ BoardIsYoung'
  BY <1>4 DEF IInv, BootsHappened, BoardIsYoung, router
<1> QED BY <1>5, <1>6, <1>7 DEF IInv

\* the poll in flight goes on, when a call that it may have made did not raise
LEMMA GoesOnIInv ==
  ASSUME IInv, phase # "idle", phase' \in Phases \ {"idle"}, UNCHANGED <<router, ended, broken>>,
         session' \in {"none", "live", "stale"}, acls' \in SUBSET Optional,
         apis' \in SUBSET Optional, via_uci' \in BOOLEAN,
         failed' \in BOOLEAN,
         info' \in [uptime: Nat, boot: Nat], info'.boot <= boot,
         tasks' \in SUBSET Task, \A t \in tasks' : t.own => t \in tasks \/ phase' = "gather",
         phase = "gather" => phase' = "gather",
         board' \in SUBSET Nat, missed' \in BOOLEAN,
         last_uptime' \in Nat, last_boot' \in Nat, last_boot' <= boot, BoardIsYoung'
  PROVE  IInv'
<1>1. TypeOK'
  BY DEF IInv, TypeOK, router
<1>2. InFlight'
  BY DEF IInv, InFlight
<1>3. BootsHappened'
  BY DEF BootsHappened, router
<1> QED BY <1>1, <1>2, <1>3 DEF IInv

LEMMA LoadIInv ==
  ASSUME IInv, Load
  PROVE  IInv'
<1>1. /\ phase = "load" /\ via_uci' = FALSE
      /\ UNCHANGED <<router, board, last_uptime, last_boot, missed>>
  BY DEF Load
<1>2. CASE /\ UNCHANGED client \/ (LogsIn /\ failed' = FALSE)
           /\ apis' = acls' /\ phase' = "system"
           /\ UNCHANGED <<info, tasks, broken, ended>>
  <2>1. /\ session' \in {"none", "live", "stale"} /\ acls' \in SUBSET Optional
        /\ failed' \in BOOLEAN
    BY <1>2, PollAssumption DEF LogsIn, IInv, TypeOK, client
  <2>2. BoardIsYoung'
    BY <1>1 DEF IInv, BoardIsYoung
  <2> QED BY <1>1, <1>2, <2>1, <2>2, GoesOnIInv DEF IInv, TypeOK, BootsHappened, Phases
<1>3. ASSUME NEW reply \in {"broken", "rejected"}, Ask(reply), Unanswered(reply, TRUE),
             FailPoll(reply, tasks), UNCHANGED apis
      PROVE  IInv'
  BY <1>1, <1>3, FailIInv
<1> QED BY <1>2, <1>3 DEF Load

LEMMA SystemInfoIInv ==
  ASSUME IInv, SystemInfo
  PROVE  IInv'
<1>1. phase = "system" /\ UNCHANGED <<router, polled>>
  BY DEF SystemInfo
<1>2. PICK reply \in Replies :
        /\ Ask(reply) /\ Unanswered(reply, TRUE)
        /\ \/ Raises(reply) /\ FailPoll(reply, tasks)
           \/ /\ ~Raises(reply)
              /\ info' = IF reply = "ok" THEN [uptime |-> uptime, boot |-> boot] ELSE Unknown
              /\ phase' = "board"
              /\ UNCHANGED <<tasks, ended>>
  BY DEF SystemInfo
<1>3. CASE Raises(reply)
  BY <1>1, <1>2, <1>3, FailIInv DEF Raises, polled, IInv, TypeOK
<1>4. CASE ~Raises(reply)
  <2>1. UNCHANGED broken
    BY <1>2, <1>4 DEF Unanswered, IInv, TypeOK
  <2>2. info' \in [uptime: Nat, boot: Nat] /\ info'.boot <= boot
    BY <1>2, <1>4 DEF IInv, TypeOK, Unknown
  <2>3. /\ session' \in {"none", "live", "stale"} /\ acls' \in SUBSET Optional
        /\ failed' \in BOOLEAN
    BY <1>2, AskTypes DEF IInv, Ask
  <2>4. BoardIsYoung'
    BY <1>1 DEF IInv, BoardIsYoung, polled
  <2> QED BY <1>1, <1>2, <1>4, <2>1, <2>2, <2>3, <2>4, GoesOnIInv
          DEF IInv, TypeOK, BootsHappened, Phases, polled
<1> QED BY <1>3, <1>4

LEMMA GatherFits ==
  ASSUME IInv, Gather
  PROVE  phase' = "gather" /\ tasks' \in SUBSET Task /\ UNCHANGED <<info, ended>>
<1>1. \A b \in {"wireless"} \cup Others : [at |-> b, left |-> 0, own |-> TRUE] \in Task
  BY PollAssumption DEF Task, Stages
<1> QED BY <1>1 DEF Gather, IInv, TypeOK

LEMMA StoreUptimeFits ==
  ASSUME IInv, StoreUptime
  PROVE  last_uptime' \in Nat /\ last_boot' \in Nat /\ last_boot' <= boot
BY DEF StoreUptime, IInv, TypeOK, BootsHappened

LEMMA BoardIInv ==
  ASSUME IInv, Board
  PROVE  IInv'
<1>1. phase = "board" /\ UNCHANGED <<router, apis, via_uci>>
  BY DEF Board
<1>2. ASSUME NEW reply \in Replies, Ask(reply), Unanswered(reply, TRUE), Raises(reply),
             BoardFailed, FailPoll(reply, tasks)
      PROVE  IInv'
  BY <1>1, <1>2, FailIInv DEF Raises, BoardFailed, IInv, TypeOK
<1>3. ASSUME NEW reply \in Replies, Ask(reply), Unanswered(reply, TRUE), ~Raises(reply),
             board' = CASE reply = "ok" -> {boot} [] reply = "missing" -> {0}
                        [] reply = "error" -> board,
             missed' = (reply # "ok"), StoreUptime, Gather
      PROVE  IInv'
  <2>1. /\ session' \in {"none", "live", "stale"} /\ acls' \in SUBSET Optional
        /\ failed' \in BOOLEAN
    BY <1>3, AskTypes DEF IInv, Ask
  <2>2. UNCHANGED broken
    BY <1>3 DEF Unanswered, IInv, TypeOK
  <2>3. last_uptime' \in Nat /\ last_boot' \in Nat /\ last_boot' <= boot
    BY <1>3, StoreUptimeFits
  <2>4. board' \in SUBSET Nat /\ missed' \in BOOLEAN /\ BoardIsYoung'
    <3>1. reply \in {"ok", "missing", "error"}
      BY <1>3 DEF Replies, Raises
    <3>2. CASE reply = "ok"
      <4>1. board' = {boot} /\ boot \in Nat
        BY <1>3, <3>2 DEF IInv, TypeOK
      <4> QED BY <1>3, <2>3, <3>2, <4>1 DEF BoardIsYoung
    <3>3. CASE reply \in {"missing", "error"}
      <4>1. board' \in {{0}, board} /\ missed' = TRUE
        BY <1>3, <3>3
      <4> QED BY <4>1 DEF BoardIsYoung, IInv, TypeOK
    <3> QED BY <3>1, <3>2, <3>3
  <2>5. phase' = "gather" /\ tasks' \in SUBSET Task /\ UNCHANGED <<info, ended>>
    BY <1>3, GatherFits
  <2> QED BY <1>1, <2>1, <2>2, <2>3, <2>4, <2>5, GoesOnIInv
          DEF IInv, TypeOK, BootsHappened, Phases
<1>4. ASSUME ~RebootDetected, missed' = (missed \/ Untraced), StoreUptime, Gather,
             UNCHANGED <<board, client, broken>>
      PROVE  IInv'
  <2>1. last_uptime' \in Nat /\ last_boot' \in Nat /\ last_boot' <= boot
    BY <1>4, StoreUptimeFits
  <2>2. BoardIsYoung'
    <3> SUFFICES ASSUME ~missed, ~Untraced, NEW b \in board PROVE b >= last_boot'
      BY <1>4 DEF BoardIsYoung
    <3>1. b \in Nat /\ last_boot \in Nat /\ info.boot \in Nat /\ info.uptime \in Nat
          /\ b >= last_boot
      BY DEF IInv, TypeOK, BoardIsYoung
    <3>2. CASE info.uptime > 0
      <4>1. \A a \in IF last_boot = 0 THEN board ELSE {last_boot} : ~(a < info.boot)
        BY <1>4, <3>2 DEF Untraced
      <4>2. last_boot' = info.boot
        BY <1>4, <3>2 DEF StoreUptime
      <4>3. b >= info.boot
        BY <3>1, <4>1
      <4> QED BY <4>2, <4>3
    <3>3. CASE ~(info.uptime > 0)
      BY <1>4, <3>1, <3>3 DEF StoreUptime
    <3> QED BY <3>2, <3>3
  <2>3. phase' = "gather" /\ tasks' \in SUBSET Task /\ UNCHANGED <<info, ended>>
    BY <1>4, GatherFits
  <2>4. missed' \in BOOLEAN
    BY <1>4 DEF Untraced, IInv, TypeOK
  <2> QED BY <1>1, <1>4, <2>1, <2>2, <2>3, <2>4, GoesOnIInv
          DEF IInv, TypeOK, BootsHappened, Phases, client
<1> QED BY <1>2, <1>3, <1>4 DEF Board

LEMMA ReloadIInv ==
  ASSUME IInv, Reload
  PROVE  IInv'
<1>1. TypeOK'
  BY DEF IInv, TypeOK, Reload, Unknown, Phases, router
<1>2. InFlight'
  BY DEF Reload, InFlight
<1>3. BootsHappened' /\ BoardIsYoung'
  BY DEF IInv, TypeOK, Reload, Unknown, router, BootsHappened, BoardIsYoung
<1> QED BY <1>1, <1>2, <1>3 DEF IInv

LEMMA InitIInv == Init => IInv
<1> SUFFICES ASSUME Init PROVE IInv
  OBVIOUS
<1>0. /\ uptime \in Nat /\ boot \in Nat /\ last_uptime \in Nat /\ last_boot \in Nat
      /\ info \in [uptime: Nat, boot: Nat]
  BY PollAssumption DEF Init, Unknown
<1>1. TypeOK
  BY <1>0 DEF Init, TypeOK, Phases
<1>2. InFlight
  BY DEF Init, InFlight
<1>3. BootsHappened /\ BoardIsYoung
  BY DEF Init, Unknown, BootsHappened, BoardIsYoung
<1> QED BY <1>1, <1>2, <1>3 DEF IInv

(* Every step keeps the invariant.                                         *)
LEMMA NextIInv == IInv /\ [Next]_vars => IInv'
<1> SUFFICES ASSUME IInv, [Next]_vars PROVE IInv'
  OBVIOUS
<1>1. CASE UNCHANGED vars
  BY <1>1 DEF vars, router, client, polled, run, IInv, TypeOK, InFlight, BootsHappened,
              BoardIsYoung
<1> QED BY <1>1, RouterIInv, StartPollIInv, LoadIInv, SystemInfoIInv, BoardIInv, BranchIInv,
           ReloadIInv DEF Next

(* Type correctness of the poll and of what the client remembers.          *)
THEOREM TypeCorrect == Spec => []TypeOK
<1>1. IInv => TypeOK
  BY DEF IInv
<1> QED BY <1>1, InitIInv, NextIInv, PTL DEF Spec

(* The board information is as young as the uptime it is kept for, but for *)
(* reboots without a trace and board calls without an answer.              *)
THEOREM BoardFollows == Spec => []BoardFollowsReboot
<1>1. IInv => BoardFollowsReboot
  BY DEF IInv, BoardIsYoung, BoardFollowsReboot
<1> QED BY <1>1, InitIInv, NextIInv, PTL DEF Spec

(* No poll is published of which a call had no answer, whatever branches   *)
(* of other polls are still running.                                       *)
THEOREM PublishedAnswered == Spec => []PublishedIsAnswered
<1>1. IInv => PublishedIsAnswered
  BY DEF IInv, InFlight, PublishedIsAnswered
<1> QED BY <1>1, InitIInv, NextIInv, PTL DEF Spec
=============================================================================
