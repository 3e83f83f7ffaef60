SPECIFICATION FairPromise
CONSTANTS
  r1 = r1
  r2 = r2
  c1 = c1
  NoRouter = NoRouter
  Routers = {r1, r2}
  Clients = {c1}
  Owner <- OwnerByOne
PROPERTIES NeverAskedAgain DepartureDecided GoneIsShown
