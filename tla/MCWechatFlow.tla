---------------------------- MODULE MCWechatFlow ----------------------------
(***************************************************************************)
(* WechatFlow for TLC.                                                     *)
(***************************************************************************)
EXTENDS WechatFlow, TLC

FlowSymmetry == Permutations(MessageIds) \cup Permutations(Senders)
                \cup Permutations(Runs)
=============================================================================
