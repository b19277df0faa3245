CONSTANTS
  Omega = omega
  beta = beta
  delta = delta
  Chain <- MCChain
  Weight <- MCWeight
  Enabled = {omega, beta, delta}
  Tasks = {t1}
  NoBackend = NoBackend
SPECIFICATION ChatFairSpec
INVARIANT ChatTypeOK
PROPERTIES RouterSpec EveryRequestAnswered
