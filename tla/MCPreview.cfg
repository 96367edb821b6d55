\* One runner at a time, three messages, the rate limit of the code, and no call
\* or reply that fails: the gateway dies once and the model is away once.
CONSTANTS
  Runners     = {r1}
  MaxMessages = 3
  Limit       = 20
  MaxStarts   = 2
  MaxFailures = 0
SPECIFICATION Spec
INVARIANTS
  ConfirmsWhatWasSeen
CHECK_DEADLOCK FALSE
