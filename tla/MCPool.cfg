CONSTANTS
  Ports = {p1, p2}
  Requests = {r1, r2, r3}
  QueueMax = 2
  NoPort = NoPort
SPECIFICATION RaceFreeSpec
INVARIANTS TypeOK TicketsCoverWaiters ExclusiveLanes LanesAreTracked
PROPERTIES ImplementsLanePool
SYMMETRY Symmetry
