SPECIFICATION FairSpec
CONSTANTS
  d1 = d1
  d2 = d2
  None = None
  Deposits = {d1, d2}
  Slots = {s1}
  SecretReady = TRUE
  Amount <- TwoICP
  Pct <- LowPercent
  Byte <- FirstByte
  Rates <- SteadyRate
  Shortfalls <- SomeShortfalls
  E8S_PER_ICP = 10000
  LEDGER_FEE = 1
  TOTAL_CYCLES = 10000000
  ROUTER_CYCLES_PER_TX = 1200000
  RECYCLE_INTERVAL = 2
  POOL_SWEEP_THRESHOLD = 10000
  BUFFER_RESERVE = 1000
  Liquidity = 25000
  Operations = {"sweep_pool", "clear_lock"}
  FaultKinds = {"err"}
  MaxFaults = 1
  MaxCalls = 8
CHECK_DEADLOCK FALSE
INVARIANTS
  MixerCovers
  NoOrphanLock
PROPERTIES
  FinalizationsGoThrough
  LocksAreReleased
  FinalizationPays
