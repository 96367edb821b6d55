---------------------------- MODULE MCReplyStream ----------------------------
(* Texts around the limits: one that fits, one that is cut after a sentence,   *)
(* one with a paragraph break, one of wide characters that Telegram can cut    *)
(* and one that it cannot.                                                     *)
EXTENDS ReplyStream

SomeTexts ==
  {<<"br">>, <<"a", "br">>, <<"b", "c", "d", ".", "e", "f">>, <<"g", "br", "h", "i", "j">>,
   <<"k", "l", "W", "W">>, <<"W", "W", "m", "n">>}
SomeDeltas == {<<"k", "l", "W", "W">>, <<"W", "n">>}
ThePrefix == <<"p">>
=============================================================================
