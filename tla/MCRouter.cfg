SPECIFICATION Spec
CONSTANTS
  d1 = d1
  d2 = d2
  None = None
  Deposits = {d1, d2}
  Slots = {s1, s2}
  SecretReady = FALSE
  Amount <- TwoICP
  Pct <- Percent
  Byte <- FirstByte
  Rates <- SteadyRate
  Shortfalls <- NoShortfall
  E8S_PER_ICP = 10000
  LEDGER_FEE = 1
  TOTAL_CYCLES = 10000000
  ROUTER_CYCLES_PER_TX = 1200000
  RECYCLE_INTERVAL = 2
  POOL_SWEEP_THRESHOLD = 10000
  BUFFER_RESERVE = 1000
  Liquidity = 0
  Operations = {"pause"}
  FaultKinds = {"err", "reject"}
  MaxFaults = 1
  MaxCalls = 8
CHECK_DEADLOCK FALSE
INVARIANTS
  TypeOK
  LockDiscipline
  CommitmentsExact
  NoDoublePayout
  PaymentsMatchRecords
PROPERTIES
  ImplementsEscrow
