SPECIFICATION FairSpec
CONSTANTS
  e1 = e1
  e2 = e2
  e3 = e3
  c1 = c1
  c2 = c2
  Entries = {e1, e2, e3}
  Clients = {c1}
  Nobody = Nobody
  RestartLimit = 2
INVARIANTS TypeOK OneTracker
PROPERTIES OwnerKeepsTracker StaleClaimTakenOver
CHECK_DEADLOCK FALSE
