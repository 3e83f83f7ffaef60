-------------------------------- MODULE Ubus --------------------------------
(***************************************************************************)
(* The session handling of the ubus client (ubus.py, class Ubus): calls of *)
(* one router that run concurrently and share one session id.              *)
(*                                                                         *)
(* A call with a session is sent at once; a refused one drops the session, *)
(* logs in under a lock and is sent a second time, with whatever session   *)
(* there is then.  The router opens and forgets sessions, handles a        *)
(* request some time after it was sent and is answered later still; any    *)
(* request may end in a timeout, and any task may be cancelled.            *)
(***************************************************************************)
EXTENDS Naturals, Sequences, FiniteSets, Lines

CONSTANTS
  Calls,        \* the tasks that use the client, one api_call each at a time
  Denied,       \* the calls whose method the ACL does not allow
  SessionLimit  \* bound: sessions the router opens

ASSUME UbusAssumption == Denied \subseteq Calls /\ SessionLimit \in Nat

NoSession == 0
Sessions == Nat \ {NoSession}

VARIABLES
  session,  \* the client's session_id, NoSession for ""
  queue,    \* the login lock: its holder, then the waiting calls in FIFO order
  pc,       \* pc[c]: where call c is
  sent,     \* sent[c]: the session of the request in flight, of a login's reply
  reply,    \* reply[c]: the router's answer on its way back
  tried,    \* tried[c]: the session of the first try, NoSession when there was none
  result,   \* result[c]: how the last call of task c ended
  valid,    \* the sessions the router knows
  opened,   \* number of sessions the router has opened
  accepts,  \* the router accepts the configured credentials
  fresh,    \* history: a login has completed since c found itself without session
  forgot,   \* history: the router has forgotten a session since c began
  wrong     \* history: the router did not accept the credentials at some moment of c

cvars == <<session, queue, pc, sent, tried, result, fresh>>
vars == <<cvars, reply, valid, opened, accepts, forgot, wrong>>

Requests == {"first", "login", "second"}

TypeOK ==
  /\ session \in Nat
  /\ queue \in Seq(Calls)
  /\ pc \in [Calls -> Requests \cup {"idle", "lock"}]
  /\ sent \in [Calls -> Nat]
  /\ reply \in [Calls -> {"none", "ok", "missing", "rpc", "perm"}]
  /\ tried \in [Calls -> Nat]
  /\ result \in [Calls -> {"none", "answered", "denied", "auth", "failed"}]
  /\ valid \in SUBSET Sessions
  /\ opened \in Nat
  /\ accepts \in BOOLEAN
  /\ fresh \in [Calls -> BOOLEAN]
  /\ forgot \in [Calls -> BOOLEAN]
  /\ wrong \in [Calls -> BOOLEAN]

Init ==
  /\ session = NoSession
  /\ queue = <<>>
  /\ pc = [c \in Calls |-> "idle"]
  /\ sent = [c \in Calls |-> NoSession]
  /\ reply = [c \in Calls |-> "none"]
  /\ tried = [c \in Calls |-> NoSession]
  /\ result = [c \in Calls |-> "none"]
  /\ valid = {}
  /\ opened = 0
  /\ accepts \in BOOLEAN
  /\ fresh = [c \in Calls |-> FALSE]
  /\ forgot = [c \in Calls |-> FALSE]
  /\ wrong = [c \in Calls |-> FALSE]

-----------------------------------------------------------------------------
(* The client.                                                             *)

Goes(c, to) == pc' = [pc EXCEPT ![c] = to]

\* a data request of c leaves with session s
Sends(c, step, s) == Goes(c, step) /\ sent' = [sent EXCEPT ![c] = s]

Ends(c, how) ==
  /\ Goes(c, "idle")
  /\ sent' = [sent EXCEPT ![c] = NoSession]
  /\ tried' = [tried EXCEPT ![c] = NoSession]
  /\ result' = [result EXCEPT ![c] = how]
  /\ fresh' = [fresh EXCEPT ![c] = FALSE]

\* mutant: login() takes no lock
EntersLoginUnlocked(c) ==
  /\ queue' = Append(queue, c)
  /\ Sends(c, "login", NoSession)
  /\ fresh' = [fresh EXCEPT ![c] = FALSE]

\* login(), called without a session: a free lock is taken without waiting
EntersLogin(c) ==
  /\ queue' = Append(queue, c)
  /\ Sends(c, IF queue = <<>> THEN "login" ELSE "lock", NoSession)
  /\ fresh' = [fresh EXCEPT ![c] = FALSE]

Start(c) ==
  /\ pc[c] = "idle"
  /\ tried' = [tried EXCEPT ![c] = session]
  /\ result' = [result EXCEPT ![c] = "none"]
  /\ forgot' = [forgot EXCEPT ![c] = FALSE]
  /\ wrong' = [wrong EXCEPT ![c] = ~accepts]
  /\ UNCHANGED <<session, reply, valid, opened, accepts>>
  /\ \/ session # NoSession /\ Sends(c, "first", session) /\ UNCHANGED <<queue, fresh>>
     \/ session = NoSession /\ EntersLogin(c)

\* mutant: a waiter takes it that the holder has logged in
AcquireTrusting(c) ==
  /\ pc[c] = "lock" /\ c = Head(queue)
  /\ Sends(c, "second", session) /\ queue' = Tail(queue)
  /\ UNCHANGED <<session, reply, tried, result, valid, opened, accepts, fresh, forgot, wrong>>

\* the lock is free and c is the first that waits for it
Acquire(c) ==
  /\ pc[c] = "lock" /\ c = Head(queue)
  /\ IF session = NoSession
     THEN Sends(c, "login", NoSession) /\ UNCHANGED queue
     ELSE Sends(c, "second", session) /\ queue' = Tail(queue)
  /\ UNCHANGED <<session, reply, tried, result, valid, opened, accepts, fresh, forgot, wrong>>

\* a data request is answered: a result, {} for a missing object, or an error
Answered(c) ==
  /\ pc[c] \in {"first", "second"} /\ reply[c] \in {"ok", "missing", "rpc"}
  /\ Ends(c, IF reply[c] = "rpc" THEN "failed" ELSE "answered")
  /\ UNCHANGED <<session, queue>>

\* mutant: the refused session is kept
FirstRefusedKeeps(c) ==
  /\ pc[c] = "first" /\ reply[c] = "perm"
  /\ EntersLogin(c)
  /\ UNCHANGED <<session, tried, result>>

\* the first try is refused: drop the session, whichever it is by now, and log in
FirstRefused(c) ==
  /\ pc[c] = "first" /\ reply[c] = "perm"
  /\ session' = NoSession
  /\ EntersLogin(c)
  /\ UNCHANGED <<tried, result>>

\* mutant: the router's status is passed on as it is
SecondRefusedRaw(c) ==
  /\ pc[c] = "second" /\ reply[c] = "perm"
  /\ Ends(c, "perm")
  /\ UNCHANGED <<session, queue>>

SecondRefused(c) ==
  /\ pc[c] = "second" /\ reply[c] = "perm"
  /\ Ends(c, "denied")
  /\ UNCHANGED <<session, queue>>

\* mutant: the call is sent again as it was
LoggedInResends(c) ==
  /\ pc[c] = "login" /\ reply[c] = "ok"
  /\ session' = sent[c]
  /\ queue' = Tail(queue)
  /\ Sends(c, "second", tried[c])
  /\ fresh' = [d \in Calls |-> pc[d] \in {"lock", "login"} \/ fresh[d]]
  /\ UNCHANGED <<tried, result>>

\* the session is stored, the lock released and the call sent, in one go
LoggedIn(c) ==
  /\ pc[c] = "login" /\ reply[c] = "ok"
  /\ session' = sent[c]
  /\ queue' = Tail(queue)
  /\ Sends(c, "second", sent[c])
  /\ fresh' = [d \in Calls |-> pc[d] \in {"lock", "login"} \/ fresh[d]]
  /\ UNCHANGED <<tried, result>>

\* mutant: a rejected login does not release the lock
LoginFailedHolding(c) ==
  /\ pc[c] = "login" /\ reply[c] \in {"perm", "rpc", "missing"}
  /\ Ends(c, IF reply[c] = "perm" THEN "auth" ELSE "failed")
  /\ UNCHANGED <<session, queue>>

\* mutant: every error the router answers a login with is a rejection
LoginFailedAuth(c) ==
  /\ pc[c] = "login" /\ reply[c] \in {"perm", "rpc", "missing"}
  /\ queue' = Tail(queue)
  /\ Ends(c, "auth")
  /\ UNCHANGED session

\* UbusAuthError; any other error of the login is a connection error
LoginFailed(c) ==
  /\ pc[c] = "login" /\ reply[c] \in {"perm", "rpc", "missing"}
  /\ queue' = Tail(queue)
  /\ Ends(c, IF reply[c] = "perm" THEN "auth" ELSE "failed")
  /\ UNCHANGED session

Receive(c) ==
  /\ \/ Answered(c) \/ FirstRefused(c) \/ SecondRefused(c)
     \/ LoggedIn(c) \/ LoginFailed(c)
  /\ reply' = [reply EXCEPT ![c] = "none"]
  /\ UNCHANGED <<valid, opened, accepts, forgot, wrong>>

\* mutant: an ended call stays in the line
LeavesNot(c) == UNCHANGED queue

\* c leaves the lock, as its holder or while waiting for it
Leaves(c) == queue' = Without(queue, c)

\* no answer in time, no connection, a malformed reply
Broken(c) ==
  /\ pc[c] \in Requests
  /\ Leaves(c)
  /\ Ends(c, "failed")
  /\ reply' = [reply EXCEPT ![c] = "none"]
  /\ UNCHANGED <<session, valid, opened, accepts, forgot, wrong>>

\* the task is cancelled (the entry is unloaded)
Cancel(c) ==
  /\ pc[c] # "idle"
  /\ Leaves(c)
  /\ Ends(c, "none")
  /\ reply' = [reply EXCEPT ![c] = "none"]
  /\ UNCHANGED <<session, valid, opened, accepts, forgot, wrong>>

-----------------------------------------------------------------------------
(* The router (rpcd behind uhttpd).                                        *)

HandleCall(c) ==
  /\ pc[c] \in {"first", "second"} /\ reply[c] = "none"
  /\ \E r \in {"ok", "missing", "rpc", "perm"} :
       /\ r = "perm" <=> sent[c] \notin valid \/ c \in Denied
       /\ reply' = [reply EXCEPT ![c] = r]
  /\ UNCHANGED <<cvars, valid, opened, accepts, forgot, wrong>>

\* a new session; or the password is wrong; or rpcd is not ready
HandleLogin(c) ==
  /\ pc[c] = "login" /\ reply[c] = "none"
  /\ \/ /\ accepts /\ opened < SessionLimit
        /\ opened' = opened + 1
        /\ valid' = valid \cup {opened + 1}
        /\ sent' = [sent EXCEPT ![c] = opened + 1]
        /\ reply' = [reply EXCEPT ![c] = "ok"]
     \/ /\ \E r \in {"perm", "rpc", "missing"} :
             /\ r = "perm" => ~accepts
             /\ reply' = [reply EXCEPT ![c] = r]
        /\ UNCHANGED <<sent, valid, opened>>
  /\ UNCHANGED <<session, queue, pc, tried, result, accepts, fresh, forgot, wrong>>

\* sessions expire, or rpcd restarts and knows none
Forget ==
  /\ \E gone \in SUBSET valid :
       gone # {} /\ valid' = valid \ gone
  /\ forgot' = [c \in Calls |-> TRUE]
  /\ UNCHANGED <<cvars, reply, opened, accepts, wrong>>

ChangePassword ==
  /\ accepts' = ~accepts
  /\ wrong' = [c \in Calls |-> TRUE]
  /\ UNCHANGED <<cvars, reply, valid, opened, forgot>>

-----------------------------------------------------------------------------
Next ==
  \/ \E c \in Calls : \/ Start(c) \/ Acquire(c) \/ Receive(c) \/ Broken(c) \/ Cancel(c)
                      \/ HandleCall(c) \/ HandleLogin(c)
  \/ Forget \/ ChangePassword

Spec == Init /\ [][Next]_vars

(* Every request ends within its timeout, and the event loop runs a woken  *)
(* task: nothing else is assumed of the router or of the other calls.      *)
FairSpec ==
  Spec /\ \A c \in Calls : WF_vars(Receive(c) \/ Broken(c)) /\ WF_vars(Acquire(c))

-----------------------------------------------------------------------------
(* The second try of a call uses a session younger than the one its first  *)
(* try was refused with, however the refusals and logins of other calls    *)
(* interleave (ubus.py, api_call).                                         *)
RetryIsYounger ==
  \A c \in Calls : pc[c] = "second" => sent[c] > tried[c]

(* A call fails with UbusPermissionError only "after a fresh login"        *)
(* (ubus.py, docstring of api_call): a login that completed after the call *)
(* found itself without a session.                                         *)
SecondTryIsFresh ==
  \A c \in Calls : pc[c] = "second" => fresh[c]

(* A call the ACL allows that began with a session, stale or not, is not   *)
(* refused in the end unless the router forgets a session while it runs.   *)
StaleSessionHeals ==
  \A c \in Calls \ Denied :
    pc[c] = "second" /\ reply[c] = "perm" /\ tried[c] # NoSession => forgot[c]

(* The same of every allowed call: "log in first, and once more on a stale *)
(* session" (ubus.py, docstring of api_call).                              *)
NoSpuriousDenial ==
  \A c \in Calls \ Denied : pc[c] = "second" /\ reply[c] = "perm" => forgot[c]

(* Only wrong credentials end a call with UbusAuthError, which ends the    *)
(* router's polls and asks the user for new ones (coordinator.py,          *)
(* ConfigEntryAuthFailed): a router that is not ready for logins, forgets  *)
(* sessions or denies a method never does, whatever other calls' logins    *)
(* are answered (ubus.py, _login).                                         *)
AuthIsRejection == \A c \in Calls : result[c] = "auth" => wrong[c]

(* The lock has a holder that runs or is about to: no call waits for a     *)
(* lock that a cancelled, failed or answered call kept.                    *)
LockIsServed ==
  /\ queue # <<>> => pc[Head(queue)] \in {"login", "lock"}
  /\ \A c \in Calls : pc[c] \in {"login", "lock"} => Stands(c, queue)

(* Every call ends: refusals, rejected logins and cancelled holders leave  *)
(* nobody waiting for the lock for ever.                                   *)
CallEnds == \A c \in Calls : pc[c] # "idle" ~> pc[c] = "idle"

\* what ApiCalls sees of a call that stands in the lock
At == [c \in Calls |-> IF pc[c] = "lock" THEN "waiting" ELSE pc[c]]

A == INSTANCE ApiCalls WITH at <- At

(* The lock, the session check under it and the one retry implement what   *)
(* ApiCalls promises: one login at a time and none while there is a        *)
(* session, a second try only with a younger session, and no error but     *)
(* where api_call's docstring allows it (UbusPermissionError only after a  *)
(* login, UbusAuthError only from one).                                    *)
ImplementsApiCalls == A!ASpec
=============================================================================
