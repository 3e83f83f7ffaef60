----------------------------- MODULE MCServices -----------------------------
EXTENDS Services, Integers, TLC

\* one router, of those at the addresses, may accept either of the passwords
OneChanges == [a \in Addresses |->
  IF a = CHOOSE b \in Addresses : TRUE THEN Login
  ELSE [user : Users, password : {CHOOSE p \in Passwords : TRUE}]]

\* the session of the first entry may not run commands
AllButFirst == [e \in EntryIds |-> IF e = CHOOSE d \in EntryIds : TRUE THEN {"rc"}
                                   ELSE {"file", "rc"}]

UserFlows == Permutations(Flows)

\* bounds: two at a time, of the flows and the calls; no flow for a router of which no
\* entry can be created; nothing after the end of a call
Explored ==
  /\ Cardinality({f \in AllFlows : flow[f] # Idle})
       + Cardinality({c \in Calls : call[c].phase # "new"}) <= 2
  /\ (\E f \in Flows : flow[f].kind = "user") => \E e \in EntryIds : state[e] = "new"
  /\ \A c \in Calls : call[c].phase \notin {"done", "failed"}
=============================================================================
