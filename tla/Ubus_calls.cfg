SPECIFICATION FairSpec
CONSTANTS
  k1 = k1
  k2 = k2
  Calls = {k1, k2}
  Denied = {k2}
  SessionLimit = 3
INVARIANTS TypeOK RetryIsYounger SecondTryIsFresh StaleSessionHeals AuthIsRejection LockIsServed
PROPERTIES CallEnds ImplementsApiCalls
