\* One account with the runner it has and the one a new login starts.  Once
\* every message is handled, everything may stop.
CONSTANTS
  Runners     = {r1, r2}
  MaxMessages = 2
  Limit       = 1
  MaxStarts   = 2
  MaxFailures = 1
SPECIFICATION Spec
INVARIANTS
  NothingSkipped
  AddsWhatWasShownOrRefused
PROPERTIES
  KeepsPromise
  EventuallyHandled
CHECK_DEADLOCK FALSE
