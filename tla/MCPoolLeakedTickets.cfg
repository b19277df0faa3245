CONSTANTS
  Ports = {p1, p2}
  Requests = {r1, r2, r3}
  QueueMax = 1
  NoPort = NoPort
SPECIFICATION CalmSpec
PROPERTIES RejectedOnlyWhenSaturated
