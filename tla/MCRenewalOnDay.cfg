\* A user whose date is ahead of the database's for one tick of three.
CONSTANTS
  Users     = {u1}
  Subs      = {s1}
  Workers   = {w1}
  Clients   = {c1}
  Owner     <- OneOwner
  Once      <- OneOff
  DateAfter <- ToyNextDate
  AnchorOf  <- ToyDayOf
  LastDay   <- ToyLastDay
  Inputs    <- OnDayInputs
  Cadences  <- SafetyCadences
  NoDate = NoDate
  NoSub = NoSub
  NoBill = NoBill
  NoRequest = NoRequest
  UserBillStatuses = {"refunded"}
  TicksPerDay = 3
  TimeZones = {1}
  FirstTick = 9
  LastTick  = 14
  MaxEdits  = 1
  ReminderLimit = 2
  RenewalLimit  = 1
SPECIFICATION QuietSpec
PROPERTIES
  RemindedBeforeRenewal
