SPECIFICATION Spec
CONSTANTS
  EntryIds = {e1, e2}
  Flows = {f1, f2}
  Addresses = {a1, a2}
  Users = {u1}
  Passwords = {p1, p2}
  Logins <- OneChanges
  NoEntry = none
  Calls = {k1}
  Kinds = {"exec"}
  Permits <- AllButFirst
INVARIANTS TypeOK NoEntryReplaced UsesStored RejectedIsPrompted EveryTargetServed
PROPERTY StoredWasAccepted
SYMMETRY UserFlows
CONSTRAINT Explored
