----------------------------- MODULE Ubus_proofs ----------------------------
(***************************************************************************)
(* Proofs about Ubus, for every set of calls, every ACL and every number   *)
(* of sessions.  The argument: logins are serialized by the lock, and the  *)
(* client has no session while one runs, so a session that is stored while *)
(* a call waits is younger than every session a call was sent with.        *)
(***************************************************************************)
EXTENDS Ubus, Lines_proofs

\* the call whose login is in flight holds the lock, and there is no session
LoginHoldsLock ==
  \A c \in Calls : pc[c] = "login" =>
    queue # <<>> /\ Head(queue) = c /\ session = NoSession

\* exactly the calls in the lock stand in the line, each once
LineOfTheLock ==
  /\ Distinct(queue)
  /\ \A c \in Calls : Stands(c, queue) <=> pc[c] \in {"lock", "login"}

\* sessions are opened in the order they are used in
SessionsOrdered ==
  /\ session <= opened /\ \A s \in valid : s <= opened
  /\ \A c \in Calls :
       /\ tried[c] <= opened
       /\ pc[c] = "idle" => tried[c] = NoSession
       /\ pc[c] = "login" /\ reply[c] = "ok" =>
            sent[c] <= opened /\ \A d \in Calls : sent[c] > tried[d]

\* what a waiting or retrying call finds is younger than what it tried
YoungerSession ==
  \A c \in Calls :
    /\ pc[c] = "lock" /\ session # NoSession => session > tried[c] /\ fresh[c]
    /\ pc[c] = "second" => sent[c] > tried[c] /\ fresh[c]

\* no session opened since c began is unknown to the router, unless it forgot one
StillKnown ==
  \A c \in Calls : pc[c] # "idle" /\ tried[c] # NoSession /\ ~forgot[c] =>
    /\ session > tried[c] => session \in valid
    /\ \A d \in Calls : pc[d] = "login" /\ reply[d] = "ok" => sent[d] \in valid
    /\ pc[c] = "second" => sent[c] \in valid /\ (reply[c] = "perm" => c \in Denied)

\* a request that is not in flight has no answer on its way
NoStrayReply == \A c \in Calls : pc[c] \in {"idle", "lock"} => reply[c] = "none"

IInv ==
  /\ TypeOK
  /\ LoginHoldsLock
  /\ LineOfTheLock
  /\ SessionsOrdered
  /\ YoungerSession
  /\ StillKnown
  /\ NoStrayReply

-----------------------------------------------------------------------------
LEMMA InitIInv == Init => IInv
<1> SUFFICES ASSUME Init PROVE IInv
  OBVIOUS
<1> USE DEF Init, Requests, Sessions, NoSession
<1>1. TypeOK
  BY EmptySeq DEF TypeOK
<1>2. LineOfTheLock
  BY DEF LineOfTheLock, Distinct, Stands
<1>3. LoginHoldsLock /\ SessionsOrdered /\ YoungerSession /\ StillKnown /\ NoStrayReply
  BY DEF LoginHoldsLock, SessionsOrdered, YoungerSession, StillKnown, NoStrayReply
<1> QED BY <1>1, <1>2, <1>3 DEF IInv


(* Stuttering. *)
LEMMA StutterIInv ==
  ASSUME IInv, UNCHANGED vars
  PROVE  IInv'
<1> USE DEF Requests, Sessions, NoSession
<1>11. TypeOK'
  BY DEF IInv, TypeOK, vars, cvars
<1>12. LoginHoldsLock'
  BY DEF IInv, TypeOK, LoginHoldsLock, LineOfTheLock, vars, cvars
<1>13. LineOfTheLock'
  BY DEF IInv, TypeOK, LineOfTheLock, vars, cvars
<1>14. SessionsOrdered'
  BY DEF IInv, TypeOK, LoginHoldsLock, SessionsOrdered, NoStrayReply, vars, cvars
<1>15. YoungerSession'
  BY DEF IInv, TypeOK, SessionsOrdered, YoungerSession, vars, cvars
<1>16. StillKnown'
  BY DEF IInv, StillKnown, vars, cvars
<1>17. NoStrayReply'
  BY DEF IInv, TypeOK, NoStrayReply, vars, cvars
<1> QED BY <1>11, <1>12, <1>13, <1>14, <1>15, <1>16, <1>17 DEF IInv

(* The router forgets sessions: every call in flight is marked. *)
LEMMA ForgetIInv ==
  ASSUME IInv, Forget
  PROVE  IInv'
<1> USE DEF Requests, Sessions, NoSession
<1>11. TypeOK'
  BY DEF IInv, TypeOK, Forget, cvars
<1>12. LoginHoldsLock'
  BY DEF IInv, TypeOK, LoginHoldsLock, LineOfTheLock, Forget, cvars
<1>13. LineOfTheLock'
  BY DEF IInv, TypeOK, LineOfTheLock, Forget, cvars
<1>14. SessionsOrdered'
  BY DEF IInv, TypeOK, LoginHoldsLock, SessionsOrdered, NoStrayReply, Forget, cvars
<1>15. YoungerSession'
  BY DEF IInv, TypeOK, SessionsOrdered, YoungerSession, Forget, cvars
<1>16. StillKnown'
  BY DEF StillKnown, Forget
<1>17. NoStrayReply'
  BY DEF IInv, TypeOK, NoStrayReply, Forget, cvars
<1> QED BY <1>11, <1>12, <1>13, <1>14, <1>15, <1>16, <1>17 DEF IInv

(* The credentials become right or wrong. *)
LEMMA ChangePasswordIInv ==
  ASSUME IInv, ChangePassword
  PROVE  IInv'
<1> USE DEF Requests, Sessions, NoSession
<1>11. TypeOK'
  BY DEF IInv, TypeOK, ChangePassword, cvars
<1>12. LoginHoldsLock'
  BY DEF IInv, TypeOK, LoginHoldsLock, LineOfTheLock, ChangePassword, cvars
<1>13. LineOfTheLock'
  BY DEF IInv, TypeOK, LineOfTheLock, ChangePassword, cvars
<1>14. SessionsOrdered'
  BY DEF IInv, TypeOK, LoginHoldsLock, SessionsOrdered, NoStrayReply, ChangePassword,
     cvars
<1>15. YoungerSession'
  BY DEF IInv, TypeOK, SessionsOrdered, YoungerSession, ChangePassword, cvars
<1>16. StillKnown'
  BY DEF IInv, StillKnown, ChangePassword, cvars
<1>17. NoStrayReply'
  BY DEF IInv, TypeOK, NoStrayReply, ChangePassword, cvars
<1> QED BY <1>11, <1>12, <1>13, <1>14, <1>15, <1>16, <1>17 DEF IInv

(* The router answers a data request. *)
LEMMA HandleCallIInv ==
  ASSUME IInv, NEW c \in Calls, HandleCall(c)
  PROVE  IInv'
<1> USE DEF Requests, Sessions, NoSession
<1>11. TypeOK'
  BY DEF IInv, TypeOK, HandleCall, cvars
<1>12. LoginHoldsLock'
  BY DEF IInv, TypeOK, LoginHoldsLock, LineOfTheLock, HandleCall, cvars
<1>13. LineOfTheLock'
  BY DEF IInv, TypeOK, LineOfTheLock, HandleCall, cvars
<1>14. SessionsOrdered'
  BY DEF IInv, TypeOK, LoginHoldsLock, SessionsOrdered, NoStrayReply, HandleCall, cvars
<1>15. YoungerSession'
  BY DEF IInv, TypeOK, SessionsOrdered, YoungerSession, HandleCall, cvars
<1>16. StillKnown'
  BY DEF IInv, StillKnown, HandleCall, cvars
<1>17. NoStrayReply'
  BY DEF IInv, TypeOK, NoStrayReply, HandleCall, cvars
<1> QED BY <1>11, <1>12, <1>13, <1>14, <1>15, <1>16, <1>17 DEF IInv

(* A login is answered with a session younger than every one before it.   *)
LEMMA NewSessionIInv ==
  ASSUME IInv, NEW c \in Calls, HandleLogin(c), opened' = opened + 1,
         valid' = valid \cup {opened + 1}, sent' = [sent EXCEPT ![c] = opened + 1],
         reply' = [reply EXCEPT ![c] = "ok"]
  PROVE  TypeOK' /\ SessionsOrdered' /\ StillKnown'
<1> USE DEF Requests, Sessions, NoSession
<1>1. /\ opened \in Nat /\ opened + 1 \in Nat \ {0} /\ session \in Nat
      /\ \A s \in valid : s \in Nat /\ s <= opened
      /\ \A d \in Calls : tried[d] \in Nat /\ tried[d] <= opened
  BY DEF IInv, TypeOK, SessionsOrdered
<1>2. TypeOK'
  BY <1>1 DEF IInv, TypeOK, HandleLogin
<1>3. /\ sent'[c] = opened + 1
      /\ \A d \in Calls : d # c => sent'[d] = sent[d] /\ reply'[d] = reply[d]
      /\ pc[c] = "login" /\ UNCHANGED <<pc, tried, session>>
  BY DEF IInv, TypeOK, HandleLogin
<1>4. \A d \in Calls : pc[d] = "login" => d = c
  BY <1>3 DEF IInv, LoginHoldsLock
<1>5. SessionsOrdered'
  BY <1>1, <1>3, <1>4 DEF IInv, SessionsOrdered
<1>6. StillKnown'
  BY <1>1, <1>3, <1>4 DEF IInv, StillKnown, HandleLogin
<1> QED BY <1>2, <1>5, <1>6

(* The router answers a login. *)
LEMMA HandleLoginIInv ==
  ASSUME IInv, NEW c \in Calls, HandleLogin(c)
  PROVE  IInv'
<1> USE DEF Requests, Sessions, NoSession
<1>11. TypeOK'
  <2>1. CASE sent' = [sent EXCEPT ![c] = opened + 1] /\ opened' = opened + 1 /\
             valid' = valid \cup {opened + 1} /\ reply' = [reply EXCEPT ![c] = "ok"]
    BY <2>1, NewSessionIInv
  <2>2. CASE UNCHANGED <<sent, valid, opened>> /\ reply'[c] # "ok"
    BY <2>2 DEF IInv, TypeOK, HandleLogin
  <2> QED BY <2>1, <2>2 DEF IInv, TypeOK, HandleLogin
<1>12. LoginHoldsLock'
  BY DEF IInv, TypeOK, LoginHoldsLock, LineOfTheLock, HandleLogin
<1>13. LineOfTheLock'
  BY DEF IInv, TypeOK, LineOfTheLock, HandleLogin
<1>14. SessionsOrdered'
  <2>1. CASE sent' = [sent EXCEPT ![c] = opened + 1] /\ opened' = opened + 1 /\
             valid' = valid \cup {opened + 1} /\ reply' = [reply EXCEPT ![c] = "ok"]
    BY <2>1, NewSessionIInv
  <2>2. CASE UNCHANGED <<sent, valid, opened>> /\ reply'[c] # "ok"
    BY <2>2 DEF IInv, TypeOK, LoginHoldsLock, SessionsOrdered, NoStrayReply, HandleLogin
  <2> QED BY <2>1, <2>2 DEF IInv, TypeOK, HandleLogin
<1>15. YoungerSession'
  BY DEF IInv, TypeOK, SessionsOrdered, YoungerSession, HandleLogin
<1>16. StillKnown'
  <2>1. CASE sent' = [sent EXCEPT ![c] = opened + 1] /\ opened' = opened + 1 /\
             valid' = valid \cup {opened + 1} /\ reply' = [reply EXCEPT ![c] = "ok"]
    BY <2>1, NewSessionIInv
  <2>2. CASE UNCHANGED <<sent, valid, opened>> /\ reply'[c] # "ok"
    BY <2>2 DEF IInv, TypeOK, StillKnown, HandleLogin
  <2> QED BY <2>1, <2>2 DEF IInv, TypeOK, HandleLogin
<1>17. NoStrayReply'
  BY DEF IInv, TypeOK, NoStrayReply, HandleLogin
<1> QED BY <1>11, <1>12, <1>13, <1>14, <1>15, <1>16, <1>17 DEF IInv

LEMMA StartWrong ==
  ASSUME IInv, NEW c \in Calls, Start(c)
  PROVE  /\ wrong' \in [Calls -> BOOLEAN]
         /\ tried' = [tried EXCEPT ![c] = session] /\ result' = [result EXCEPT ![c] = "none"]
         /\ forgot' = [forgot EXCEPT ![c] = FALSE]
         /\ UNCHANGED <<session, reply, valid, opened, accepts>>
<1> DEFINE seen == ~accepts
<1>1. wrong \in [Calls -> BOOLEAN] /\ wrong' = [wrong EXCEPT ![c] = seen]
  BY DEF IInv, TypeOK, Start
<1>2. seen \in BOOLEAN
  OBVIOUS
<1> HIDE DEF seen
<1>3. wrong' \in [Calls -> BOOLEAN]
  BY <1>1, <1>2
<1> QED BY <1>3 DEF Start

(* A call begins with the session there is. *)
LEMMA StartWithIInv ==
  ASSUME IInv, NEW c \in Calls, Start(c), session # NoSession
  PROVE  IInv'
<1> USE DEF Requests, Sessions, NoSession
<1>11. TypeOK'
  <2>1. Sends(c, "first", session) /\ UNCHANGED <<queue, fresh>>
    BY DEF Start
  <2> QED BY <2>1, StartWrong DEF IInv, TypeOK, Sends, Goes
<1>12. LoginHoldsLock'
  BY DEF IInv, TypeOK, LoginHoldsLock, LineOfTheLock, Start, Sends, Goes
<1>13. LineOfTheLock'
  BY DEF IInv, TypeOK, LineOfTheLock, Start, Sends, Goes
<1>14. SessionsOrdered'
  BY DEF IInv, TypeOK, LoginHoldsLock, SessionsOrdered, Start, Sends, Goes
<1>15. YoungerSession'
  BY DEF IInv, TypeOK, SessionsOrdered, YoungerSession, Start, Sends, Goes
<1>16. StillKnown'
  BY DEF IInv, TypeOK, LoginHoldsLock, StillKnown, Start, Sends, Goes
<1>17. NoStrayReply'
  BY DEF IInv, TypeOK, NoStrayReply, Start, Sends, Goes
<1> QED BY <1>11, <1>12, <1>13, <1>14, <1>15, <1>16, <1>17 DEF IInv

(* A call begins without a session and goes to the lock. *)
LEMMA StartWithoutIInv ==
  ASSUME IInv, NEW c \in Calls, Start(c), session = NoSession
  PROVE  IInv'
<1> USE DEF Requests, Sessions, NoSession
<1>1. queue \in Seq(Calls) /\ Distinct(queue) /\ ~Stands(c, queue)
  BY DEF IInv, TypeOK, LineOfTheLock, Start
<1>2. queue' = Append(queue, c)
  BY DEF Start, EntersLogin
<1>3. /\ queue' \in Seq(Calls) /\ queue' # <<>> /\ Distinct(queue')
      /\ \A d : Stands(d, queue') <=> Stands(d, queue) \/ d = c
      /\ queue # <<>> => Head(queue') = Head(queue)
      /\ queue = <<>> => Head(queue') = c
  <2> DEFINE line == Append(queue, c)
  <2>1. /\ line \in Seq(Calls) /\ line # <<>> /\ Distinct(line)
        /\ \A d : Stands(d, line) <=> Stands(d, queue) \/ d = c
        /\ queue # <<>> => Head(line) = Head(queue)
        /\ queue = <<>> => Head(line) = c
    BY <1>1, AppendLine
  <2> QED BY <1>2, <2>1
<1>11. TypeOK'
  <2>1. EntersLogin(c)
    BY DEF Start
  <2> QED BY <1>3, <2>1, StartWrong DEF IInv, TypeOK, EntersLogin, Sends, Goes
<1>12. LoginHoldsLock'
  BY <1>3 DEF IInv, TypeOK, LoginHoldsLock, Start, EntersLogin, Sends, Goes
<1>13. LineOfTheLock'
  BY <1>3 DEF IInv, TypeOK, LineOfTheLock, Start, EntersLogin, Sends, Goes
<1>14. SessionsOrdered'
  BY DEF IInv, TypeOK, SessionsOrdered, NoStrayReply, Start, EntersLogin, Sends, Goes
<1>15. YoungerSession'
  BY DEF IInv, TypeOK, YoungerSession, Start, EntersLogin, Sends, Goes
<1>16. StillKnown'
  BY DEF IInv, TypeOK, LoginHoldsLock, StillKnown, NoStrayReply, Start, EntersLogin,
     Sends, Goes
<1>17. NoStrayReply'
  BY DEF IInv, TypeOK, NoStrayReply, Start, EntersLogin, Sends, Goes
<1> QED BY <1>11, <1>12, <1>13, <1>14, <1>15, <1>16, <1>17 DEF IInv

(* The woken call still finds no session and logs in. *)
LEMMA AcquireLoginIInv ==
  ASSUME IInv, NEW c \in Calls, Acquire(c), session = NoSession
  PROVE  IInv'
<1> USE DEF Requests, Sessions, NoSession
<1>1. queue # <<>> /\ Head(queue) = c
  BY DEF Acquire, IInv, TypeOK, LineOfTheLock, Stands
<1>11. TypeOK'
  BY DEF IInv, TypeOK, Acquire, Sends, Goes
<1>12. LoginHoldsLock'
  BY <1>1 DEF IInv, TypeOK, LoginHoldsLock, LineOfTheLock, Acquire, Sends, Goes
<1>13. LineOfTheLock'
  BY DEF IInv, TypeOK, LineOfTheLock, Acquire, Sends, Goes
<1>14. SessionsOrdered'
  <2>1. /\ reply[c] = "none" /\ \A d \in Calls : d # c => pc'[d] = pc[d] /\ sent'[d] = sent[d]
        /\ UNCHANGED <<reply, tried, opened, valid, session>>
        /\ pc'[c] # "idle"
    BY DEF IInv, TypeOK, NoStrayReply, Acquire, Sends, Goes
  <2> QED BY <2>1 DEF IInv, SessionsOrdered
<1>15. YoungerSession'
  BY DEF IInv, TypeOK, SessionsOrdered, YoungerSession, Acquire, Sends, Goes
<1>16. StillKnown'
  BY DEF IInv, TypeOK, LoginHoldsLock, SessionsOrdered, StillKnown, NoStrayReply, Acquire,
     Sends, Goes
<1>17. NoStrayReply'
  BY DEF IInv, TypeOK, NoStrayReply, Acquire, Sends, Goes
<1> QED BY <1>11, <1>12, <1>13, <1>14, <1>15, <1>16, <1>17 DEF IInv

(* The woken call finds the session of another call's login. *)
LEMMA AcquireSessionIInv ==
  ASSUME IInv, NEW c \in Calls, Acquire(c), session # NoSession
  PROVE  IInv'
<1> USE DEF Requests, Sessions, NoSession
<1>1. queue \in Seq(Calls) /\ queue # <<>> /\ Head(queue) = c /\ Distinct(queue)
  BY DEF Acquire, IInv, TypeOK, LineOfTheLock, LoginHoldsLock, Stands
<1>2. queue' = Tail(queue)
  BY DEF Acquire
<1>3. /\ queue' \in Seq(Calls) /\ Distinct(queue')
      /\ \A d : Stands(d, queue') <=> Stands(d, queue) /\ d # c
  <2> DEFINE line == Tail(queue)
  <2>1. /\ line \in Seq(Calls) /\ Distinct(line)
        /\ \A d : Stands(d, line) <=> Stands(d, queue) /\ d # c
    BY <1>1, TailLine
  <2> QED BY <1>2, <2>1
<1>11. TypeOK'
  BY <1>3 DEF IInv, TypeOK, Acquire, Sends, Goes
<1>12. LoginHoldsLock'
  BY <1>3 DEF IInv, TypeOK, LoginHoldsLock, LineOfTheLock, Acquire, Sends, Goes
<1>13. LineOfTheLock'
  BY <1>3 DEF IInv, TypeOK, LineOfTheLock, Acquire, Sends, Goes
<1>14. SessionsOrdered'
  BY DEF IInv, TypeOK, LoginHoldsLock, SessionsOrdered, Acquire, Sends, Goes
<1>15. YoungerSession'
  BY DEF IInv, TypeOK, SessionsOrdered, YoungerSession, Acquire, Sends, Goes
<1>16. StillKnown'
  BY DEF IInv, TypeOK, LoginHoldsLock, YoungerSession, StillKnown, NoStrayReply, Acquire,
     Sends, Goes
<1>17. NoStrayReply'
  BY DEF IInv, TypeOK, NoStrayReply, Acquire, Sends, Goes
<1> QED BY <1>11, <1>12, <1>13, <1>14, <1>15, <1>16, <1>17 DEF IInv

(* The first try is refused. *)
LEMMA FirstRefusedIInv ==
  ASSUME IInv, NEW c \in Calls, Receive(c), FirstRefused(c)
  PROVE  IInv'
<1> USE DEF Requests, Sessions, NoSession
<1>1. queue \in Seq(Calls) /\ Distinct(queue) /\ ~Stands(c, queue)
  BY DEF IInv, TypeOK, LineOfTheLock, FirstRefused
<1>2. queue' = Append(queue, c)
  BY DEF FirstRefused, EntersLogin
<1>3. /\ queue' \in Seq(Calls) /\ queue' # <<>> /\ Distinct(queue')
      /\ \A d : Stands(d, queue') <=> Stands(d, queue) \/ d = c
      /\ queue # <<>> => Head(queue') = Head(queue)
      /\ queue = <<>> => Head(queue') = c
  <2> DEFINE line == Append(queue, c)
  <2>1. /\ line \in Seq(Calls) /\ line # <<>> /\ Distinct(line)
        /\ \A d : Stands(d, line) <=> Stands(d, queue) \/ d = c
        /\ queue # <<>> => Head(line) = Head(queue)
        /\ queue = <<>> => Head(line) = c
    BY <1>1, AppendLine
  <2> QED BY <1>2, <2>1
<1>11. TypeOK'
  BY <1>3 DEF IInv, TypeOK, Receive, FirstRefused, EntersLogin, Sends, Goes
<1>12. LoginHoldsLock'
  BY <1>3 DEF IInv, LoginHoldsLock, FirstRefused, EntersLogin, Sends, Goes
<1>13. LineOfTheLock'
  BY <1>3 DEF IInv, TypeOK, LineOfTheLock, FirstRefused, EntersLogin, Sends, Goes
<1>14. SessionsOrdered'
  BY DEF IInv, TypeOK, SessionsOrdered, Receive, FirstRefused, EntersLogin, Sends, Goes
<1>15. YoungerSession'
  BY DEF IInv, YoungerSession, FirstRefused, EntersLogin, Sends, Goes
<1>16. StillKnown'
  BY DEF IInv, TypeOK, StillKnown, Receive, FirstRefused, EntersLogin, Sends, Goes
<1>17. NoStrayReply'
  BY DEF IInv, TypeOK, NoStrayReply, Receive, FirstRefused, EntersLogin, Sends, Goes
<1> QED BY <1>11, <1>12, <1>13, <1>14, <1>15, <1>16, <1>17 DEF IInv

(* A login is answered: the session is stored and the call sent again. *)
LEMMA LoggedInIInv ==
  ASSUME IInv, NEW c \in Calls, Receive(c), LoggedIn(c)
  PROVE  IInv'
<1> USE DEF Requests, Sessions, NoSession
<1>1. queue \in Seq(Calls) /\ queue # <<>> /\ Head(queue) = c /\ Distinct(queue)
  BY DEF LoggedIn, IInv, TypeOK, LineOfTheLock, LoginHoldsLock, Stands
<1>2. queue' = Tail(queue)
  BY DEF LoggedIn
<1>3. /\ queue' \in Seq(Calls) /\ Distinct(queue')
      /\ \A d : Stands(d, queue') <=> Stands(d, queue) /\ d # c
  <2> DEFINE line == Tail(queue)
  <2>1. /\ line \in Seq(Calls) /\ Distinct(line)
        /\ \A d : Stands(d, line) <=> Stands(d, queue) /\ d # c
    BY <1>1, TailLine
  <2> QED BY <1>2, <2>1
<1>11. TypeOK'
  BY <1>3 DEF IInv, TypeOK, Receive, LoggedIn, Sends, Goes
<1>12. LoginHoldsLock'
  BY <1>3 DEF IInv, TypeOK, LoginHoldsLock, LoggedIn, Sends, Goes
<1>13. LineOfTheLock'
  BY <1>3 DEF IInv, TypeOK, LineOfTheLock, Receive, LoggedIn, Sends, Goes
<1>14. SessionsOrdered'
  BY DEF IInv, SessionsOrdered, Receive, LoggedIn, Sends, Goes
<1>15. YoungerSession'
  BY DEF IInv, TypeOK, SessionsOrdered, YoungerSession, LoggedIn, Sends, Goes
<1>16. StillKnown'
  BY DEF IInv, StillKnown, Receive, LoggedIn, Sends, Goes
<1>17. NoStrayReply'
  BY DEF IInv, TypeOK, NoStrayReply, Receive, LoggedIn, Sends, Goes
<1> QED BY <1>11, <1>12, <1>13, <1>14, <1>15, <1>16, <1>17 DEF IInv

(* A login is rejected, or not answered properly. *)
LEMMA LoginFailedIInv ==
  ASSUME IInv, NEW c \in Calls, Receive(c), LoginFailed(c)
  PROVE  IInv'
<1> USE DEF Requests, Sessions, NoSession
<1>1. queue \in Seq(Calls) /\ queue # <<>> /\ Head(queue) = c /\ Distinct(queue)
  BY DEF LoginFailed, IInv, TypeOK, LineOfTheLock, LoginHoldsLock, Stands
<1>2. queue' = Tail(queue)
  BY DEF LoginFailed
<1>3. /\ queue' \in Seq(Calls) /\ Distinct(queue')
      /\ \A d : Stands(d, queue') <=> Stands(d, queue) /\ d # c
  <2> DEFINE line == Tail(queue)
  <2>1. /\ line \in Seq(Calls) /\ Distinct(line)
        /\ \A d : Stands(d, line) <=> Stands(d, queue) /\ d # c
    BY <1>1, TailLine
  <2> QED BY <1>2, <2>1
<1>11. TypeOK'
  BY <1>3 DEF IInv, TypeOK, Receive, LoginFailed, Ends, Goes
<1>12. LoginHoldsLock'
  BY <1>3 DEF IInv, TypeOK, LoginHoldsLock, LoginFailed, Ends, Goes
<1>13. LineOfTheLock'
  BY <1>3 DEF IInv, TypeOK, LineOfTheLock, Receive, LoginFailed, Ends, Goes
<1>14. SessionsOrdered'
  BY DEF IInv, TypeOK, SessionsOrdered, Receive, LoginFailed, Ends, Goes
<1>15. YoungerSession'
  BY DEF IInv, YoungerSession, LoginFailed, Ends, Goes
<1>16. StillKnown'
  BY DEF IInv, StillKnown, Receive, LoginFailed, Ends, Goes
<1>17. NoStrayReply'
  BY DEF IInv, TypeOK, NoStrayReply, Receive, LoginFailed, Ends, Goes
<1> QED BY <1>11, <1>12, <1>13, <1>14, <1>15, <1>16, <1>17 DEF IInv

(* A data request is answered, or refused for good. *)
LEMMA AnsweredIInv ==
  ASSUME IInv, NEW c \in Calls, Receive(c), Answered(c) \/ SecondRefused(c)
  PROVE  IInv'
<1> USE DEF Requests, Sessions, NoSession
<1>1. /\ pc' = [pc EXCEPT ![c] = "idle"] /\ sent' = [sent EXCEPT ![c] = NoSession]
      /\ tried' = [tried EXCEPT ![c] = NoSession] /\ fresh' = [fresh EXCEPT ![c] = FALSE]
      /\ reply' = [reply EXCEPT ![c] = "none"]
      /\ result' \in [Calls -> {"none", "answered", "denied", "auth", "failed"}]
      /\ UNCHANGED <<session, valid, opened, accepts, forgot, wrong>>
  BY DEF IInv, TypeOK, Receive, Answered, SecondRefused, Ends, Goes
<1> UNCHANGED queue
  BY DEF Answered, SecondRefused
<1>11. TypeOK'
  BY <1>1 DEF IInv, TypeOK
<1>12. LoginHoldsLock'
  BY DEF IInv, TypeOK, LoginHoldsLock, Answered, SecondRefused, Ends, Goes
<1>13. LineOfTheLock'
  BY DEF IInv, TypeOK, LineOfTheLock, Answered, SecondRefused, Ends, Goes
<1>14. SessionsOrdered'
  BY <1>1 DEF IInv, TypeOK, LoginHoldsLock, SessionsOrdered, NoStrayReply
<1>15. YoungerSession'
  BY <1>1 DEF IInv, TypeOK, SessionsOrdered, YoungerSession
<1>16. StillKnown'
  BY <1>1 DEF IInv, TypeOK, LoginHoldsLock, SessionsOrdered, YoungerSession, StillKnown,
     NoStrayReply
<1>17. NoStrayReply'
  BY DEF IInv, TypeOK, NoStrayReply, Receive, Answered, SecondRefused, Ends, Goes
<1> QED BY <1>11, <1>12, <1>13, <1>14, <1>15, <1>16, <1>17 DEF IInv

(* A request breaks down or a task is cancelled; the lock is left. *)
LEMMA LeaveIInv ==
  ASSUME IInv, NEW c \in Calls, Broken(c) \/ Cancel(c)
  PROVE  IInv'
<1> USE DEF Requests, Sessions, NoSession
<1>1. queue \in Seq(Calls) /\ Distinct(queue)
  BY DEF IInv, TypeOK, LineOfTheLock
<1>2. queue' = Without(queue, c) /\ queue' \in Seq(Calls) /\ Distinct(queue')
  BY <1>1, WithoutType, WithoutDistinct DEF Broken, Cancel, Leaves
<1>3. \A d \in Calls : Stands(d, queue') <=> Stands(d, queue) /\ d # c
  <2> TAKE d \in Calls
  <2>1. Stands(d, queue') => Stands(d, queue)
    BY <1>1, <1>2, WithoutType DEF Stands
  <2>2. ~Stands(c, queue')
    BY <1>1, <1>2, WithoutDistinct
  <2>3. d # c /\ Stands(d, queue) => Stands(d, queue')
    BY <1>1, <1>2, WithoutKeeps
  <2> QED BY <2>1, <2>2, <2>3
<1>4. queue # <<>> /\ Head(queue) # c => queue' # <<>> /\ Head(queue') = Head(queue)
  BY <1>1, <1>2, WithoutHead
<1>5. /\ pc' = [pc EXCEPT ![c] = "idle"] /\ sent' = [sent EXCEPT ![c] = NoSession]
      /\ tried' = [tried EXCEPT ![c] = NoSession] /\ fresh' = [fresh EXCEPT ![c] = FALSE]
      /\ reply' = [reply EXCEPT ![c] = "none"]
      /\ result' \in [Calls -> {"none", "answered", "denied", "auth", "failed"}]
      /\ UNCHANGED <<session, valid, opened, accepts, forgot, wrong>>
  BY DEF IInv, TypeOK, Broken, Cancel, Ends, Goes
<1>11. TypeOK'
  BY <1>2, <1>5 DEF IInv, TypeOK
<1>12. LoginHoldsLock'
  BY <1>4 DEF IInv, TypeOK, LoginHoldsLock, Broken, Cancel, Ends, Goes
<1>13. LineOfTheLock'
  BY <1>2, <1>3 DEF IInv, TypeOK, LineOfTheLock, Broken, Cancel, Ends, Goes
<1>14. SessionsOrdered'
  BY <1>5 DEF IInv, TypeOK, LoginHoldsLock, SessionsOrdered, NoStrayReply
<1>15. YoungerSession'
  BY <1>5 DEF IInv, TypeOK, SessionsOrdered, YoungerSession
<1>16. StillKnown'
  BY <1>5 DEF IInv, TypeOK, LoginHoldsLock, SessionsOrdered, YoungerSession, StillKnown,
     NoStrayReply
<1>17. NoStrayReply'
  BY DEF IInv, TypeOK, NoStrayReply, Broken, Cancel, Ends, Goes
<1> QED BY <1>11, <1>12, <1>13, <1>14, <1>15, <1>16, <1>17 DEF IInv

-----------------------------------------------------------------------------
(* Every step keeps the invariant.                                         *)
LEMMA NextIInv == IInv /\ [Next]_vars => IInv'
<1> SUFFICES ASSUME IInv, [Next]_vars PROVE IInv'
  OBVIOUS
<1>1. CASE UNCHANGED vars
  BY <1>1, StutterIInv
<1>2. ASSUME NEW c \in Calls, Start(c) PROVE IInv'
  BY <1>2, StartWithIInv, StartWithoutIInv
<1>3. ASSUME NEW c \in Calls, Acquire(c) PROVE IInv'
  BY <1>3, AcquireLoginIInv, AcquireSessionIInv
<1>4. ASSUME NEW c \in Calls, Receive(c) PROVE IInv'
  BY <1>4, AnsweredIInv, FirstRefusedIInv, LoggedInIInv, LoginFailedIInv DEF Receive
<1>5. ASSUME NEW c \in Calls, Broken(c) \/ Cancel(c) PROVE IInv'
  BY <1>5, LeaveIInv
<1>6. ASSUME NEW c \in Calls, HandleCall(c) \/ HandleLogin(c) PROVE IInv'
  BY <1>6, HandleCallIInv, HandleLoginIInv
<1>7. CASE Forget \/ ChangePassword
  BY <1>7, ForgetIInv, ChangePasswordIInv
<1> QED BY <1>1, <1>2, <1>3, <1>4, <1>5, <1>6, <1>7 DEF Next

(* Type correctness of the ubus client.                                    *)
THEOREM TypeCorrect == Spec => []TypeOK
<1>1. IInv => TypeOK
  BY DEF IInv
<1> QED BY <1>1, InitIInv, NextIInv, PTL DEF Spec

(* The second try of a call uses a session younger than the refused one.   *)
THEOREM RetryYounger == Spec => []RetryIsYounger
<1>1. IInv => RetryIsYounger
  BY DEF IInv, YoungerSession, RetryIsYounger
<1> QED BY <1>1, InitIInv, NextIInv, PTL DEF Spec

(* A second try follows a login that completed after the call found itself *)
(* without a session, its own or another call's.                           *)
THEOREM SecondTryFresh == Spec => []SecondTryIsFresh
<1>1. IInv => SecondTryIsFresh
  BY DEF IInv, YoungerSession, SecondTryIsFresh
<1> QED BY <1>1, InitIInv, NextIInv, PTL DEF Spec

(* An allowed call that began with a session is refused in the end only if *)
(* the router forgot a session while the call ran.                         *)
THEOREM StaleHeals == Spec => []StaleSessionHeals
<1>1. IInv => StaleSessionHeals
  BY DEF IInv, StillKnown, StaleSessionHeals
<1> QED BY <1>1, InitIInv, NextIInv, PTL DEF Spec

(* Nobody waits for a lock whose holder is gone.                           *)
THEOREM LockServed == Spec => []LockIsServed
<1>1. IInv => LockIsServed
  <2> SUFFICES ASSUME IInv PROVE LockIsServed
    OBVIOUS
  <2>1. ASSUME queue # <<>> PROVE pc[Head(queue)] \in {"login", "lock"}
    <3>1. Head(queue) \in Calls /\ Stands(Head(queue), queue)
      BY <2>1, TailLine DEF IInv, TypeOK
    <3> QED BY <3>1 DEF IInv, LineOfTheLock
  <2>2. \A c \in Calls : pc[c] \in {"login", "lock"} => Stands(c, queue)
    BY DEF IInv, LineOfTheLock
  <2> QED BY <2>1, <2>2 DEF LockIsServed
<1> QED BY <1>1, InitIInv, NextIInv, PTL DEF Spec

-----------------------------------------------------------------------------
(* Rejected logins.                                                        *)

\* a login is refused only in a call that saw wrong credentials
RefusedIsWrong ==
  \A c \in Calls :
    /\ pc[c] # "idle" /\ ~accepts => wrong[c]
    /\ pc[c] = "login" /\ reply[c] = "perm" => wrong[c]
    /\ result[c] = "auth" => wrong[c]

\* a step of c that leaves the credentials alone
LEMMA CallKeepsWrong ==
  ASSUME IInv, RefusedIsWrong, NEW c \in Calls, UNCHANGED <<accepts, wrong>>,
         pc[c] # "idle",
         \A d \in Calls \ {c} : pc'[d] = pc[d] /\ reply'[d] = reply[d] /\ result'[d] = result[d],
         pc'[c] = "login" /\ reply'[c] = "perm" => wrong[c],
         result'[c] = "auth" => wrong[c]
  PROVE  RefusedIsWrong'
BY DEF RefusedIsWrong

LEMMA NextWrong == IInv /\ RefusedIsWrong /\ [Next]_vars => RefusedIsWrong'
<1> SUFFICES ASSUME IInv, RefusedIsWrong, [Next]_vars PROVE RefusedIsWrong'
  OBVIOUS
<1>1. CASE UNCHANGED vars \/ Forget
  BY <1>1 DEF vars, cvars, Forget, RefusedIsWrong
<1>2. CASE ChangePassword
  BY <1>2 DEF ChangePassword, RefusedIsWrong
<1>3. ASSUME NEW c \in Calls, Start(c) PROVE RefusedIsWrong'
  BY <1>3 DEF Start, EntersLogin, Sends, Goes, IInv, TypeOK, NoStrayReply, RefusedIsWrong
<1>4. ASSUME NEW c \in Calls, Acquire(c) PROVE RefusedIsWrong'
  BY <1>4, CallKeepsWrong DEF Acquire, Sends, Goes, IInv, TypeOK, NoStrayReply, RefusedIsWrong
<1>5. ASSUME NEW c \in Calls, Receive(c) PROVE RefusedIsWrong'
  <2>1. /\ pc[c] # "idle" /\ UNCHANGED <<accepts, wrong>> /\ reply'[c] = "none"
        /\ \A d \in Calls \ {c} : reply'[d] = reply[d]
    BY <1>5 DEF Receive, Answered, FirstRefused, SecondRefused, LoggedIn, LoginFailed, IInv, TypeOK
  <2>2. CASE Answered(c) \/ SecondRefused(c)
    <3>1. PICK how \in {"answered", "denied", "failed"} : Ends(c, how)
      BY <2>2 DEF Answered, SecondRefused
    <3> QED BY <2>1, <3>1, CallKeepsWrong DEF Ends, Goes, IInv, TypeOK
  <2>3. CASE FirstRefused(c) \/ LoggedIn(c)
    BY <2>1, <2>3, CallKeepsWrong
       DEF FirstRefused, LoggedIn, EntersLogin, Sends, Goes, IInv, TypeOK, RefusedIsWrong
  <2>4. CASE LoginFailed(c)
    BY <2>1, <2>4, CallKeepsWrong DEF LoginFailed, Ends, Goes, IInv, TypeOK, RefusedIsWrong
  <2> QED BY <1>5, <2>2, <2>3, <2>4 DEF Receive
<1>6. ASSUME NEW c \in Calls, Broken(c) \/ Cancel(c) PROVE RefusedIsWrong'
  <2>1. PICK how \in {"failed", "none"} : Ends(c, how)
    BY <1>6 DEF Broken, Cancel
  <2> QED BY <1>6, <2>1, CallKeepsWrong DEF Broken, Cancel, Requests, Ends, Goes, IInv, TypeOK
<1>7. ASSUME NEW c \in Calls, HandleCall(c) \/ HandleLogin(c) PROVE RefusedIsWrong'
  BY <1>7, CallKeepsWrong DEF HandleCall, HandleLogin, cvars, IInv, TypeOK, RefusedIsWrong
<1> QED BY <1>1, <1>2, <1>3, <1>4, <1>5, <1>6, <1>7 DEF Next

(* A call ends with UbusAuthError only if the router did not accept the    *)
(* credentials at some moment of the call: the refusal that ends it was    *)
(* given to its own login, which was sent and answered while it ran.       *)
THEOREM OnlyWrongCredentials == Spec => []AuthIsRejection
<1>1. Init => RefusedIsWrong
  BY DEF Init, RefusedIsWrong
<1>2. RefusedIsWrong => AuthIsRejection
  BY DEF RefusedIsWrong, AuthIsRejection
<1> QED BY <1>1, <1>2, InitIInv, NextIInv, NextWrong, PTL DEF Spec

-----------------------------------------------------------------------------
(* Ubus implements ApiCalls.                                               *)

\* what the step of a call does to its place
LEMMA PlaceOf ==
  ASSUME IInv, NEW c \in Calls, NEW to, pc' = [pc EXCEPT ![c] = to]
  PROVE  At' = [At EXCEPT ![c] = IF to = "lock" THEN "waiting" ELSE to]
BY DEF At, IInv, TypeOK

\* nobody logs in while the lock is free or its first call has yet to run
LEMMA FreeLock ==
  ASSUME IInv, queue = <<>> \/ pc[Head(queue)] = "lock"
  PROVE  A!NobodyLogsIn
BY DEF IInv, LoginHoldsLock, A!NobodyLogsIn, At

LEMMA EntersMaps ==
  ASSUME IInv, NEW c \in Calls, EntersLogin(c) PROVE A!Enters(c)
<1>1. CASE queue = <<>>
  <2>1. pc' = [pc EXCEPT ![c] = "login"]
    BY <1>1 DEF EntersLogin, Sends, Goes
  <2>2. At' = [At EXCEPT ![c] = "login"]
    BY <2>1, PlaceOf
  <2> QED BY <1>1, <2>2, FreeLock DEF A!Enters
<1>2. CASE queue # <<>>
  <2>1. pc' = [pc EXCEPT ![c] = "lock"]
    BY <1>2 DEF EntersLogin, Sends, Goes
  <2>2. At' = [At EXCEPT ![c] = "waiting"]
    BY <2>1, PlaceOf
  <2> QED BY <2>2 DEF A!Enters
<1> QED BY <1>1, <1>2

LEMMA StartMaps == ASSUME IInv, NEW c \in Calls, Start(c) PROVE A!Begin(c)
<1>1. /\ At[c] = "idle" /\ UNCHANGED session
      /\ tried' = [tried EXCEPT ![c] = session] /\ result' = [result EXCEPT ![c] = "none"]
  BY DEF Start, At
<1>2. CASE session # NoSession /\ Sends(c, "first", session)
  <2>1. At' = [At EXCEPT ![c] = "first"]
    BY <1>2, PlaceOf DEF Sends, Goes
  <2> QED BY <1>1, <1>2, <2>1 DEF A!Begin, A!NoSession, NoSession
<1>3. CASE session = NoSession /\ EntersLogin(c)
  BY <1>1, <1>3, EntersMaps DEF A!Begin, A!NoSession, NoSession
<1> QED BY <1>2, <1>3 DEF Start

LEMMA AcquireMaps ==
  ASSUME IInv, NEW c \in Calls, Acquire(c) PROVE A!LogIn(c) \/ A!Join(c)
<1>1. /\ At[c] = "waiting" /\ pc[c] = "lock" /\ c = Head(queue)
      /\ UNCHANGED <<session, tried, result>>
  BY DEF Acquire, At
<1>2. A!NobodyLogsIn
  BY <1>1, FreeLock
<1>3. CASE session = NoSession
  <2>1. At' = [At EXCEPT ![c] = "login"]
    BY <1>3, PlaceOf DEF Acquire, Sends, Goes
  <2> QED BY <1>1, <1>2, <1>3, <2>1 DEF A!LogIn, A!NoSession, NoSession
<1>4. CASE session # NoSession
  <2>1. At' = [At EXCEPT ![c] = "second"]
    BY <1>4, PlaceOf DEF Acquire, Sends, Goes
  <2>2. session > tried[c]
    BY <1>1, <1>4 DEF IInv, YoungerSession
  <2> QED BY <1>1, <1>2, <2>1, <2>2 DEF A!Join
<1> QED BY <1>3, <1>4

\* a call that ends from where it may end so
LEMMA EndsMaps ==
  ASSUME IInv, NEW c \in Calls, NEW how, pc[c] # "idle", Ends(c, how), UNCHANGED session,
         how \in A!Outcomes(At[c])
  PROVE  A!End(c)
<1>1. At' = [At EXCEPT ![c] = "idle"] /\ At[c] # "idle"
  BY PlaceOf DEF Ends, Goes, At
<1>2. /\ tried' = [tried EXCEPT ![c] = A!NoSession]
      /\ result' = [result EXCEPT ![c] = how]
  BY DEF Ends, A!NoSession, NoSession
<1> QED BY <1>1, <1>2 DEF A!End

LEMMA OutcomesOf ==
  ASSUME IInv, NEW c \in Calls
  PROVE  /\ pc[c] = "first" => A!Outcomes(At[c]) = {"answered", "failed", "none"}
         /\ pc[c] = "lock" => A!Outcomes(At[c]) = {"none"}
         /\ pc[c] = "login" => A!Outcomes(At[c]) = {"auth", "failed", "none"}
         /\ pc[c] = "second" => A!Outcomes(At[c]) = {"answered", "denied", "failed", "none"}
BY DEF A!Outcomes, At

LEMMA ReceiveMaps ==
  ASSUME IInv, NEW c \in Calls, Receive(c)
  PROVE  A!Refused(c) \/ A!LoggedIn(c) \/ A!End(c)
<1>1. CASE Answered(c)
  <2>1. PICK how \in {"answered", "failed"} : Ends(c, how)
    BY <1>1 DEF Answered
  <2> QED BY <1>1, <2>1, EndsMaps, OutcomesOf DEF Answered
<1>2. CASE FirstRefused(c)
  <2>1. A!Enters(c) /\ At[c] = "first"
    BY <1>2, EntersMaps DEF FirstRefused, At
  <2> QED BY <1>2, <2>1 DEF FirstRefused, A!Refused, A!NoSession, NoSession
<1>3. CASE SecondRefused(c)
  BY <1>3, EndsMaps, OutcomesOf DEF SecondRefused
<1>4. CASE LoggedIn(c)
  <2>1. pc[c] = "login" /\ reply[c] = "ok" /\ session' = sent[c] /\ UNCHANGED <<tried, result>>
    BY <1>4 DEF LoggedIn
  <2>2. At' = [At EXCEPT ![c] = "second"] /\ At[c] = "login"
    BY <1>4, <2>1, PlaceOf DEF LoggedIn, Sends, Goes, At
  <2>3. session = A!NoSession /\ sent[c] \in Nat /\ \A d \in Calls : sent[c] > tried[d]
    BY <2>1 DEF IInv, TypeOK, LoginHoldsLock, SessionsOrdered, A!NoSession, NoSession
  <2> QED BY <2>1, <2>2, <2>3 DEF A!LoggedIn
<1>5. CASE LoginFailed(c)
  <2>1. PICK how \in {"auth", "failed"} : Ends(c, how)
    BY <1>5 DEF LoginFailed
  <2> QED BY <1>5, <2>1, EndsMaps, OutcomesOf DEF LoginFailed
<1> QED BY <1>1, <1>2, <1>3, <1>4, <1>5 DEF Receive

LEMMA LeavesMaps ==
  ASSUME IInv, NEW c \in Calls, Broken(c) \/ Cancel(c) PROVE A!End(c)
<1>1. CASE Broken(c)
  BY <1>1, EndsMaps, OutcomesOf DEF Broken, Requests
<1>2. CASE Cancel(c)
  <2>1. pc[c] \in {"first", "lock", "login", "second"}
    BY <1>2 DEF Cancel, IInv, TypeOK, Requests
  <2> QED BY <1>2, <2>1, EndsMaps, OutcomesOf DEF Cancel
<1> QED BY <1>1, <1>2

LEMMA NextMaps == IInv /\ [Next]_vars => [A!ANext]_(A!avars)
<1> SUFFICES ASSUME IInv, [Next]_vars PROVE A!ANext \/ UNCHANGED A!avars
  OBVIOUS
<1>1. ASSUME NEW c \in Calls,
             Start(c) \/ Acquire(c) \/ Receive(c) \/ Broken(c) \/ Cancel(c)
      PROVE  A!ANext
  BY <1>1, StartMaps, AcquireMaps, ReceiveMaps, LeavesMaps DEF A!ANext
<1>2. CASE UNCHANGED <<session, pc, tried, result>>
  BY <1>2 DEF A!avars, At
<1>3. ASSUME NEW c \in Calls, HandleCall(c) \/ HandleLogin(c)
      PROVE  UNCHANGED <<session, pc, tried, result>>
  BY <1>3 DEF HandleCall, HandleLogin, cvars
<1>4. Forget \/ ChangePassword \/ UNCHANGED vars => UNCHANGED <<session, pc, tried, result>>
  BY DEF Forget, ChangePassword, vars, cvars
<1> QED BY <1>1, <1>2, <1>3, <1>4 DEF Next

LEMMA InitMaps == Init => A!AInit
BY DEF Init, A!AInit, A!NoSession, NoSession, At

(* The lock and the retry implement what api_call promises, for any number *)
(* of concurrent calls.                                                    *)
THEOREM Implements == Spec => ImplementsApiCalls
BY InitIInv, NextIInv, InitMaps, NextMaps, PTL DEF Spec, ImplementsApiCalls, A!ASpec
=============================================================================
