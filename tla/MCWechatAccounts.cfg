CONSTANTS
  Sessions    = {1}
  Legacy      = legacy
  Bots        = {b1}
  BotOf       <- OneBot
  Ids         = {0, 1, 2}
  LegacyId    = 1
  Orders      <- ById
  Runners     = {1, 2}
  Pruners     = {"minute"}
  MaxAccounts = 2
  MaxEnds     = 1
  MaxTroubles = 1
  None        = None
SPECIFICATION Spec
INVARIANTS
  ActiveHasToken
  OneAccountPerScan
  AnswersSurvive
  MergedIsServed
  ActiveIsServed
PROPERTIES
  DisabledFallSilent
CHECK_DEADLOCK FALSE
