SPECIFICATION HSpec
CONSTANTS
  c1 = c1
  N = 3
  Clients = {c1}
  Owner <- OwnedByFirst
  Signal <- SignalTied
  Faults = TRUE
  Lossy = TRUE
  PollLimit <- FirstTwo
  GenLimit <- SecondTwice
INVARIANTS TypeOK WaitingIsDriven CountersAgree ShownIsPublished
PROPERTIES ImplementsPresence OneMoveIsNotLeaving
CONSTRAINT Explored
