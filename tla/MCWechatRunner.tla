--------------------------- MODULE MCWechatRunner ---------------------------
(* One account with the runner it has and the one a new login starts.      *)
EXTENDS WechatRunner

=============================================================================
