-------------------------- MODULE MCWechatAccounts --------------------------
(* A login for the bot that the account of an earlier version serves.      *)
EXTENDS WechatAccounts

OneBot == [t \in Tokens |-> CHOOSE b \in Bots : TRUE]

\* One order, that of the ids: the account of the earlier version is walked
\* before or after the new one.
ById == {[a \in Ids |-> a]}
=============================================================================
