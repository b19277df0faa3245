CONSTANTS
  omega = omega
  beta = beta
  delta = delta
  Chain <- MCChain
  Weight <- MCWeight
  Enabled = {omega, beta}
  Tasks = {t1, t2}
  NoBackend = NoBackend
SPECIFICATION FairSpec
INVARIANT TypeOK
PROPERTIES ExactOnceStable DeadBackendIsDropped RecoveredBackendRejoins
