\* Every backend on every way to the chat.
CONSTANTS
  Routes  = {"wechat", "wechat stream", "telegram", "telegram stream"}
  Sources = {"http", "codex", "cli", "echo"}
  Texts   <- SomeTexts
  Deltas  <- SomeDeltas
  Wide    = {"W"}
  Prefix  <- ThePrefix
  MaxChars   = 5
  MaxBytes   = 6
  MaxMessage = 7
  MaxOutput  = 6
  MaxEvents   = 5
  MaxTroubles = 2
SPECIFICATION Spec
INVARIANTS
  WeChatSaysItOnce
  TelegramKeepsItAll
  FitsTheChat
CHECK_DEADLOCK FALSE
