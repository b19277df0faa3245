CONSTANTS
  Ports = {p1}
  Requests = {r1, r2, r3}
  QueueMax = 2
  NoPort = NoPort
SPECIFICATION FairSpec
INVARIANT PortsConserved
PROPERTIES AcquireReturns
