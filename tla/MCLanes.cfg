CONSTANTS
  Requests = {r1, r2, r3}
  Ports = {p1, p2}
  NoPort = NoPort
  MaxRounds = 2
SPECIFICATION FairSpec
INVARIANTS TypeOK ActiveRequestsExact AnswersAreRecorded
PROPERTIES OnlyAgeUnlists EveryRequestEnds
