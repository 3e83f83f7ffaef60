------------------------------ MODULE ApiCalls ------------------------------
(***************************************************************************)
(* What Ubus.api_call promises to the code that calls it, and login() to   *)
(* api_call, without the line of the lock, the requests and the router:    *)
(* one login at a time, and none while there is a session; a call is tried *)
(* once with the session there was and once with a younger one; and each   *)
(* error is raised only where the docstring allows it.                     *)
(*                                                                         *)
(* Module Ubus, the code's own bookkeeping, is shown to implement it.      *)
(***************************************************************************)
EXTENDS Naturals

CONSTANT Calls   \* the tasks that use the client

NoSession == 0

VARIABLES
  session,  \* the shared session, numbered by age
  at,       \* at[c]: where call c is
  tried,    \* tried[c]: the session of the first try, NoSession when there was none
  result    \* result[c]: how the last call of task c ended

avars == <<session, at, tried, result>>

\* how a call may end, by where it ends; "none" for a cancelled task
Outcomes(place) ==
  CASE place = "first"   -> {"answered", "failed", "none"}
    [] place = "waiting" -> {"none"}
    [] place = "login"   -> {"auth", "failed", "none"}
    [] place = "second"  -> {"answered", "denied", "failed", "none"}

AInit ==
  /\ session = NoSession
  /\ at = [c \in Calls |-> "idle"]
  /\ tried = [c \in Calls |-> NoSession]
  /\ result = [c \in Calls |-> "none"]

NobodyLogsIn == \A c \in Calls : at[c] # "login"

\* c, which has no session, logs in if nobody else does or waits
Enters(c) ==
  \/ NobodyLogsIn /\ at' = [at EXCEPT ![c] = "login"]
  \/ at' = [at EXCEPT ![c] = "waiting"]

Begin(c) ==
  /\ at[c] = "idle"
  /\ tried' = [tried EXCEPT ![c] = session]
  /\ result' = [result EXCEPT ![c] = "none"]
  /\ UNCHANGED session
  /\ \/ session # NoSession /\ at' = [at EXCEPT ![c] = "first"]
     \/ session = NoSession /\ Enters(c)

\* the first try is refused
Refused(c) ==
  /\ at[c] = "first"
  /\ session' = NoSession
  /\ UNCHANGED <<tried, result>>
  /\ Enters(c)

LogIn(c) ==
  /\ at[c] = "waiting" /\ session = NoSession /\ NobodyLogsIn
  /\ at' = [at EXCEPT ![c] = "login"]
  /\ UNCHANGED <<session, tried, result>>

\* another call has logged in meanwhile: its session is younger than the one tried
Join(c) ==
  /\ at[c] = "waiting" /\ session > tried[c] /\ NobodyLogsIn
  /\ at' = [at EXCEPT ![c] = "second"]
  /\ UNCHANGED <<session, tried, result>>

\* the login ends with a session younger than any that a call was tried with
LoggedIn(c) ==
  /\ at[c] = "login" /\ session = NoSession
  /\ session' \in Nat /\ \A d \in Calls : session' > tried[d]
  /\ at' = [at EXCEPT ![c] = "second"]
  /\ UNCHANGED <<tried, result>>

End(c) ==
  /\ at[c] # "idle"
  /\ \E how \in Outcomes(at[c]) : result' = [result EXCEPT ![c] = how]
  /\ at' = [at EXCEPT ![c] = "idle"]
  /\ tried' = [tried EXCEPT ![c] = NoSession]
  /\ UNCHANGED session

ANext ==
  \E c \in Calls : \/ Begin(c) \/ Refused(c) \/ LogIn(c) \/ Join(c) \/ LoggedIn(c) \/ End(c)

ASpec == AInit /\ [][ANext]_avars
=============================================================================
