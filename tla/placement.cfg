SPECIFICATION FairSpec
CONSTANTS
  r1 = r1
  r2 = r2
  r3 = r3
  k1 = k1
  k2 = k2
  contractA = contractA
  NoRequest = NoRequest
  Requests <- MCRequests
  Keys <- MCKeys
  KeyOf <- RetryAndOther
  Contract <- Lookalikes
  AutoKeys <- FirstKeyAuto
  Dedupes = FALSE
  ExactRecovery = FALSE
  Resends = TRUE
  Slow <- NoneSlow
  Definite <- EveryAnswer
CHECK_DEADLOCK FALSE
INVARIANTS
  TypeOK
  OneOrderPerKey
  ClaimCoversOrder
PROPERTIES
  CompletedClaimIsFinal
  EveryRequestAnswered
