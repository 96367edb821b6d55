\* Schedule over sixteen Gregorian months.  The calendar ends, so a behaviour
\* may stop there: deadlock is not an error.
CONSTANTS
  MonthLengths <- GregorianMonths
  Cadences     <- AllCadences
  Starts       <- MonthEnds
  SaveDays     <- DaysOfSaving
SPECIFICATION Spec
INVARIANTS
  DatesFollowTheAnchor
  BilledWhenDue
  RefusedOnlyAtTheEnd
PROPERTIES
  CatchesUp
CHECK_DEADLOCK FALSE
