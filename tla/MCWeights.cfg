CONSTANTS
  omega = omega
  beta = beta
  delta = delta
  eta = eta
  Chain <- MCChain4
  Weight <- Weights5320
SPECIFICATION FairSpec
INVARIANTS CreditConserved CreditBounded FairShare
PROPERTY NobodyStarves
