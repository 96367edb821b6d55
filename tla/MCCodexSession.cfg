CONSTANTS
  Sessions    = {1, 2}
  Msgs        = {1, 2, 3}
  Menu        <- TheMenu
  Threads     = {t1, t2}
  Others      = {t1}
  Requests    = {1}
  Capacity    = 1
  MaxTroubles = 1
  MaxEnds     = 1
  None        = None
SPECIFICATION Spec
INVARIANTS
  ResponseReachesOwnTurn
  PendingIsAwaited
  RunsOnce
  BindingAsTold
PROPERTIES
  EventuallyHandled
CHECK_DEADLOCK FALSE
