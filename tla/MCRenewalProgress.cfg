\* Two subscriptions, one worker that reminds of both and renews one of them
\* per cycle.
CONSTANTS
  Users     = {u1}
  Subs      = {s1, s2}
  Workers   = {w1}
  Clients   = {c1}
  Owner     <- OneOwner
  Once      <- OneOff
  DateAfter <- ToyNextDate
  AnchorOf  <- ToyDayOf
  LastDay   <- ToyLastDay
  Inputs    <- ProgressInputs
  Cadences  <- ProgressCadences
  NoDate = NoDate
  NoSub = NoSub
  NoBill = NoBill
  NoRequest = NoRequest
  UserBillStatuses = {}
  TicksPerDay = 1
  TimeZones = {0}
  FirstTick = 4
  LastTick  = 5
  MaxEdits  = 3
  ReminderLimit = 2
  RenewalLimit  = 1
SPECIFICATION Spec
PROPERTIES
  EventuallyBilled
  EventuallyReminded
