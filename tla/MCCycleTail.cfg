\* A worker with more deliveries than a cycle sends and more dates than a cycle
\* converts; the date that is never converted leaves one of two places free.
CONSTANTS
  Workers     = {k1}
  Deliveries  = {1, 2}
  Bills       <- ThreeDays
  DueDate     <- BillDate
  Quoted      <- BillQuoted
  Served      = {2, 3}
  TradingDays = {1, 2}
  Today0      = 2
  LastDay     = 3
  SendLimit   = 1
  DateLimit   = 2
  MaxFailures = 1
SPECIFICATION Spec
INVARIANTS
  SentHasArrived
  RateNotAfterBill
PROPERTIES
  ConvertedOnce
  EventuallyDelivered
  EventuallyConverted
