\* One user, two senders, two calls of process at once.  Once the codes and
\* bindings are used up, everything may stop.
CONSTANTS
  Users      = {u1}
  Senders    = {w1, w2}
  MessageIds = {m1, m2}
  Fields     = {f1}
  WebFields  = {}
  Runs       = {r1, r2}
  Nothing    = Nothing
  MaxIssued  = 2
  MaxDrafts  = 1
  MaxUnbinds = 1
SPECIFICATION Spec
INVARIANTS
  BoundByOwnRequest
PROPERTIES
  AddedForTheBoundUser
SYMMETRY FlowSymmetry
CHECK_DEADLOCK FALSE
