SPECIFICATION FairSpec
CONSTANTS
  d1 = d1
  d2 = d2
  NoDeposit = NoDeposit
  Deposits = {d1}
  Pages <- TwoPages
  Amount <- OneICP
  StorageCount = 2
  MaxJobs = 2
  MaxMishaps = 2
  ResetThreshold = 1
  MaxQuarters = 2
CHECK_DEADLOCK FALSE
INVARIANTS
  TypeOK
  OnePayer
  ReportedIsPaid
PROPERTIES
  ClaimPays
  ClaimReported
