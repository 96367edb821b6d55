\* One sender whose messages come again, in any order, and a web client.  Once
\* every message is answered, everything may stop.
CONSTANTS
  Users      = {u1}
  Senders    = {w1}
  MessageIds = {m1, m2, m3, m4}
  Fields     = {f1}
  WebFields  = {f1}
  Runs       = {r1}
  Nothing    = Nothing
  MaxIssued  = 1
  MaxDrafts  = 2
  MaxUnbinds = 0
SPECIFICATION Spec
INVARIANTS
  AddedOnce
  PreviewedFirst
  WarnedFirst
SYMMETRY FlowSymmetry
CHECK_DEADLOCK FALSE
