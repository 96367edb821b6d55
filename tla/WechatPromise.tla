---------------------------- MODULE WechatPromise ----------------------------
(***************************************************************************)
(* What the gateway and process together promise the sender of a WeChat    *)
(* message, without cursors, runners, calls or their failures:             *)
(*                                                                         *)
(*   - a message is acted on once at most, and only once every earlier one *)
(*     is finished with;                                                   *)
(*   - it is finished with when its sender has been told the recorded      *)
(*     result or has been asked to try again, and in the order of arrival; *)
(*   - nothing is created but by acting on a confirmation.                 *)
(*                                                                         *)
(* A message that was refused may still be acted on, when it comes again.  *)
(* WechatRunner is shown to implement this.                                *)
(***************************************************************************)
EXTENDS Integers, Sequences

CONSTANTS
  Messages,    \* places in the conversation
  Kinds,       \* "confirm", "other" (not for the API) and any others
  Replies      \* what acting on a message can result in

VARIABLES
  sent,        \* the messages, in the order of arrival
  record,      \* by message: the result of acting on it, or "none"
  created,     \* the messages that have created a subscription
  answered,    \* those whose sender was told the result
  refused,     \* those whose sender was asked to try again
  done         \* those finished with

vars == <<sent, record, created, answered, refused, done>>

Init ==
  /\ sent = <<>>
  /\ record = [m \in Messages |-> "none"]
  /\ created = {} /\ answered = {} /\ refused = {} /\ done = {}

\* All earlier messages are finished with.
ItsTurn(m) ==
  /\ m <= Len(sent)
  /\ \A n \in Messages : n < m => n \in done

ForTheApi(m) == ItsTurn(m) /\ sent[m] # "other"

Send ==
  /\ \E k \in Kinds : sent' = Append(sent, k)
  /\ UNCHANGED <<record, created, answered, refused, done>>

Act(m) ==
  /\ ForTheApi(m) /\ record[m] = "none"
  /\ \E a \in Replies : record' = [record EXCEPT ![m] = a]
  /\ \/ created' = created
     \/ created' = created \cup {m} /\ sent[m] = "confirm"
  /\ UNCHANGED <<sent, answered, refused, done>>

\* Telling and refusing may be the last that is done about a message.
MayEnd(m) == done' \in {done, done \cup {m}}

Tell(m) ==
  /\ ForTheApi(m) /\ record[m] # "none"
  /\ answered' = answered \cup {m}
  /\ MayEnd(m)
  /\ UNCHANGED <<sent, record, created, refused>>

Refuse(m) ==
  /\ ForTheApi(m)
  /\ refused' = refused \cup {m}
  /\ MayEnd(m)
  /\ UNCHANGED <<sent, record, created, answered>>

Finish(m) ==
  /\ ItsTurn(m)
  /\ m \in answered \cup refused \/ sent[m] = "other"
  /\ done' = done \cup {m}
  /\ UNCHANGED <<sent, record, created, answered, refused>>

Next ==
  \/ Send
  \/ \E m \in Messages : Act(m) \/ Tell(m) \/ Refuse(m) \/ Finish(m)

Spec == Init /\ [][Next]_vars

=============================================================================
