SPECIFICATION Spec
CONSTANTS
  E8S_PER_ICP = 10000
  LEDGER_FEE = 1
  TOTAL_CYCLES = 10000000
  ROUTER_CYCLES_PER_TX = 1200000
  Claims <- AllClaims
  MaxByte = 28
  Amounts <- SampleAmounts
  Rates <- DriftingRates
  Bytes <- SampleBytes
CHECK_DEADLOCK FALSE
INVARIANTS
  ExactDenominations
  ClaimHidden
  SealAffordable
  ClaimMatches
