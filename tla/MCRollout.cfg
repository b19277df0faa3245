CONSTANTS
  Peers = {p1, p2}
  Seeds = {s1, s2}
  Jobs = {j1, j2}
  Commits = {good, bad}
  Broken = {bad}
  Unhealthy = {bad}
  NoPeer = NoPeer
  NoJob = NoJob
  NoSeed = NoSeed
SPECIFICATION OrderlySpec
INVARIANTS TypeOK OneSeedPerPeer PeersStayUp 
 
SYMMETRY Symmetry
