CONSTANTS
  Peers = {p1}
  Seeds = {s1, s2}
  Jobs = {j1, j2}
  Commits = {good, broken, slow}
  Broken = {broken}
  Unhealthy = {slow}
  NoPeer = NoPeer
  NoJob = NoJob
  NoSeed = NoSeed
SPECIFICATION EndpointSpec
INVARIANT OneSeedPerPeer
SYMMETRY Symmetry
