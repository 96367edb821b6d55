\* One subscription, two workers, one open request.
CONSTANTS
  Users     = {u1}
  Subs      = {s1}
  Workers   = {w1, w2}
  Clients   = {c1}
  Owner     <- OneOwner
  Once      <- OneOff
  DateAfter <- ToyNextDate
  AnchorOf  <- ToyDayOf
  LastDay   <- ToyLastDay
  Inputs    <- SafetyInputs
  Cadences  <- SafetyCadences
  NoDate = NoDate
  NoSub = NoSub
  NoBill = NoBill
  NoRequest = NoRequest
  UserBillStatuses = {"refunded"}
  TicksPerDay = 2
  TimeZones = {0, 1}
  FirstTick = 7
  LastTick  = 10
  MaxEdits  = 3
  ReminderLimit = 2
  RenewalLimit  = 1
SPECIFICATION Spec
INVARIANTS
  ReadsStayTrue
  NoMissedPeriod
  AutomaticBillsOnPlan
PROPERTIES
  WorkerActsOnCurrentRow
  ArchivedIsFinal
  UserBillsKept
SYMMETRY WorkerSymmetry
