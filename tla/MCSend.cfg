SPECIFICATION FairSpec
CONSTANTS
  o1 = o1
  o2 = o2
  d1 = d1
  d2 = d2
  d3 = d3
  NoOrder = NoOrder
  NoDeposit = NoDeposit
  Orders = {o1}
  Deposits = {d1, d2, d3}
  Pages <- TwoPages
  Amount <- OneICP
  StorageCount = 2
  MAX_RETRIES = 2
  MaxMishaps = 2
CHECK_DEADLOCK FALSE
INVARIANTS
  TypeOK
  RecordBehindRouter
  StoragesAgree
  NothingForgotten
PROPERTIES
  OrderIsSent
