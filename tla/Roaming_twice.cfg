SPECIFICATION HSpec
CONSTANTS
  c1 = c1
  N = 2
  Clients = {c1}
  Owner <- OwnedByFirst
  Signal <- SignalTied
  Faults = TRUE
  Lossy = FALSE
  PollLimit <- Each4
  GenLimit <- Each1
PROPERTY RoamingDoesNotFlap
