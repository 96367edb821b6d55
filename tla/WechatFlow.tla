----------------------------- MODULE WechatFlow -----------------------------
(***************************************************************************)
(* The WeChat state machine of the API: a user binds a WeChat sender with  *)
(* a code or a QR session, the sender's messages build a draft, and the    *)
(* confirmation of its preview creates a subscription.                     *)
(*                                                                         *)
(* The gateway delivers a message again when it had no answer, so process  *)
(* may run for one message any number of times, also at once.  It runs in  *)
(* one transaction: it takes the advisory lock of the sender, reads the    *)
(* binding, waits for the row of the user, and may hold both for as long   *)
(* as the model takes to read a text.  Any run can end in a rollback.      *)
(***************************************************************************)
EXTENDS Integers, FiniteSets

CONSTANTS
  Users,
  Senders,        \* gateway account and sender: the identity of a message
  MessageIds,     \* the ids a sender's messages can have
  Fields,         \* the complete fields of a subscription
  WebFields,      \* those that are also entered on the web
  Runs,           \* the calls of process that can be open at once
  Nothing,        \* no binding, code, session, draft, record, message or sender
  MaxIssued,      \* bound on the codes and bindings ever made
  MaxDrafts,      \* bound on the number of times a draft is written
  MaxUnbinds      \* bound on the number of times a user unbinds

VARIABLES
  code,       \* wechat_binding_codes: by user
  qr,         \* wechat_qr_sessions: by user, with who scanned it at the gateway
  binding,    \* wechat_bindings with their wechat_drafts: by user
  log,        \* wechat_messages: by sender and message id
  subs,       \* the subscriptions
  sent,       \* the contents of the messages that have arrived
  run,        \* the open calls of process
  issued,     \* how many codes and bindings were made
  drafts,     \* how many times a draft was written
  unbinds     \* how many times each user has unbound

vars == <<code, qr, binding, log, subs, sent, run, issued, drafts, unbinds>>

Partial == "partial"       \* fields that are not complete yet

Code == 1 .. MaxIssued

\* What a message can say; `id` is the code it holds.
Contents == [kind : {"upcoming", "cancel", "confirm", "force", "text"}, id : {0}]
              \cup [kind : {"code"}, id : Code]

\* `stamp` tells one writing of a draft from another; the code has no such
\* field: its version starts again at 1 for every new draft.
Draft == [fields : Fields \cup {Partial}, ready : BOOLEAN, warned : BOOLEAN,
          added : BOOLEAN, expired : BOOLEAN, stamp : 1 .. MaxDrafts]

\* `asked` is how often the user had unbound when the code or the session was
\* requested.
Binding == [id : Code, sender : Senders, draft : Draft \cup {Nothing},
            asked : 0 .. MaxUnbinds]

Replies == {"bound", "upcoming", "cancelled", "no_draft", "incomplete",
            "duplicate", "added", "preview", "question", "multiple"}

\* `stamp` is that of the draft the reply is about, 0 for none.
Record == [id : Code, reply : Replies, stamp : 0 .. MaxDrafts]

\* A subscription by the web has the message Nothing and stamp 0.  `current`
\* until it is paused, archived, edited or renewed.
Subscription == [user : Users, fields : Fields, stamp : 0 .. MaxDrafts,
                 sender : Senders \cup {Nothing},
                 message : MessageIds \cup {Nothing}, warned : BOOLEAN,
                 current : BOOLEAN]

Idle == [pc |-> "idle", sender |-> Nothing, message |-> Nothing,
         user |-> Nothing, id |-> 0, late |-> FALSE]

\* A code and a QR session that were asked for.
CodeRow == [id : Code, expired : BOOLEAN, asked : 0 .. MaxUnbinds]
QrRow == [scanned : Senders \cup {Nothing}, asked : 0 .. MaxUnbinds]

ASSUME FlowAssumption ==
  /\ WebFields \subseteq Fields
  /\ MaxIssued \in Nat /\ MaxDrafts \in Nat /\ MaxUnbinds \in Nat
  /\ Nothing \notin Users \cup Senders \cup MessageIds
  /\ Nothing \notin CodeRow \cup QrRow \cup Draft \cup Binding \cup Record
                      \cup Contents

TypeOK ==
  /\ code \in [Users -> CodeRow \cup {Nothing}]
  /\ qr \in [Users -> QrRow \cup {Nothing}]
  /\ binding \in [Users -> Binding \cup {Nothing}]
  /\ log \in [Senders -> [MessageIds -> {Nothing} \cup Record]]
  /\ subs \subseteq Subscription
  /\ sent \in [Senders -> [MessageIds -> Contents \cup {Nothing}]]
  /\ run \in [Runs -> [pc : {"idle", "waiting", "reading"},
                       sender : Senders \cup {Nothing},
                       message : MessageIds \cup {Nothing},
                       user : Users \cup {Nothing}, id : 0 .. MaxIssued,
                       late : BOOLEAN]]
  /\ issued \in 0 .. MaxIssued /\ drafts \in 0 .. MaxDrafts
  /\ unbinds \in [Users -> 0 .. MaxUnbinds]

Init ==
  /\ code = [u \in Users |-> Nothing]
  /\ qr = [u \in Users |-> Nothing]
  /\ binding = [u \in Users |-> Nothing]
  /\ log = [s \in Senders |-> [m \in MessageIds |-> Nothing]]
  /\ subs = {}
  /\ sent = [s \in Senders |-> [m \in MessageIds |-> Nothing]]
  /\ run = [r \in Runs |-> Idle]
  /\ issued = 0 /\ drafts = 0
  /\ unbinds = [u \in Users |-> 0]

-----------------------------------------------------------------------------

Bound(u) == binding[u] # Nothing

\* The user a sender is bound to: at most one, by a unique index.
BoundTo(s) == {u \in Users : Bound(u) /\ binding[u].sender = s}

\* user_lock does not have to wait: no call of process holds the user's row.
UserFree(u) == \A r \in Runs : run[r].pc = "reading" => run[r].user # u

\* The advisory lock of the sender is free.
SenderFree(s) == \A r \in Runs : run[r].pc # "idle" => run[r].sender # s

Issue == issued < MaxIssued /\ issued' = issued + 1

-----------------------------------------------------------------------------
(***************************************************************************)
(* The requests of the web client.  Each holds the row of the user.        *)
(***************************************************************************)

BindingCode(u) ==
  /\ UserFree(u) /\ Issue
  /\ code' = [code EXCEPT ![u] = [id |-> issued', expired |-> FALSE,
                                  asked |-> unbinds[u]]]
  /\ UNCHANGED <<qr, binding, log, subs, sent, run, drafts, unbinds>>

Qrcode(u) ==
  /\ UserFree(u) /\ ~Bound(u)
  /\ qr' = [qr EXCEPT ![u] = [scanned |-> Nothing, asked |-> unbinds[u]]]
  /\ UNCHANGED <<code, binding, log, subs, sent, run, issued, drafts, unbinds>>

\* The poll that finds the session confirmed at the gateway.  A user or a
\* sender that is bound already is an error and nothing is written.
QrcodeStatus(u) ==
  /\ UserFree(u) /\ Issue
  /\ qr[u] # Nothing /\ qr[u].scanned # Nothing
  /\ ~Bound(u) /\ BoundTo(qr[u].scanned) = {}
  /\ binding' = [binding EXCEPT ![u] =
       [id |-> issued', sender |-> qr[u].scanned, draft |-> Nothing,
        asked |-> qr[u].asked]]
  /\ code' = [code EXCEPT ![u] = Nothing]
  /\ qr' = [qr EXCEPT ![u] = Nothing]
  /\ UNCHANGED <<log, subs, sent, run, drafts, unbinds>>

\* Slip: unbinding leaves a code that has been requested.
KeepsCodes(u) == code

\* The codes after a user has unbound.
CodesAfterUnbind(u) == [code EXCEPT ![u] = Nothing]

\* The draft goes with the binding (ON DELETE CASCADE), the log stays.
Unbind(u) ==
  /\ UserFree(u)
  /\ unbinds[u] < MaxUnbinds
  /\ binding' = [binding EXCEPT ![u] = Nothing]
  /\ qr' = [qr EXCEPT ![u] = Nothing]
  /\ code' = CodesAfterUnbind(u)
  /\ unbinds' = [unbinds EXCEPT ![u] = @ + 1]
  /\ UNCHANGED <<log, subs, sent, run, issued, drafts>>

\* A subscription entered on the web, or resumed there: neither waits for the
\* row of the user.
CreateSubscription(u, f) ==
  /\ subs' = subs \cup {[user |-> u, fields |-> f, stamp |-> 0, sender |-> Nothing,
                         message |-> Nothing, warned |-> FALSE, current |-> TRUE]}
  /\ UNCHANGED <<code, qr, binding, log, sent, run, issued, drafts, unbinds>>

\* The user pauses, archives or edits a subscription, or the worker renews it:
\* it is not one with these fields that is active any more.
ChangeSubscription(x) ==
  /\ x.current
  /\ subs' = (subs \ {x}) \cup {[x EXCEPT !.current = FALSE]}
  /\ UNCHANGED <<code, qr, binding, log, sent, run, issued, drafts, unbinds>>

-----------------------------------------------------------------------------
(***************************************************************************)
(* WeChat, time and the worker.                                            *)
(***************************************************************************)

\* The QR code of a session is scanned, by whoever sees it.
Scan(s, u) ==
  /\ qr[u] # Nothing /\ qr[u].scanned = Nothing
  /\ qr' = [qr EXCEPT ![u].scanned = s]
  /\ UNCHANGED <<code, binding, log, subs, sent, run, issued, drafts, unbinds>>

CodeExpires(u) ==
  /\ code[u] # Nothing /\ ~code[u].expired
  /\ code' = [code EXCEPT ![u].expired = TRUE]
  /\ UNCHANGED <<qr, binding, log, subs, sent, run, issued, drafts, unbinds>>

QrExpires(u) ==
  /\ qr[u] # Nothing
  /\ qr' = [qr EXCEPT ![u] = Nothing]
  /\ UNCHANGED <<code, binding, log, subs, sent, run, issued, drafts, unbinds>>

HasDraft(u) == Bound(u) /\ binding[u].draft # Nothing

DraftExpires(u) ==
  /\ HasDraft(u) /\ ~binding[u].draft.expired
  /\ binding' = [binding EXCEPT ![u].draft.expired = TRUE]
  /\ UNCHANGED <<code, qr, log, subs, sent, run, issued, drafts, unbinds>>

\* The worker deletes what has expired, also under a call of process that
\* began before it expired.
CleanUpDrafts ==
  /\ \E u \in Users : HasDraft(u) /\ binding[u].draft.expired
  /\ binding' = [u \in Users |-> IF HasDraft(u) /\ binding[u].draft.expired
                                   THEN [binding[u] EXCEPT !.draft = Nothing]
                                   ELSE binding[u]]
  /\ UNCHANGED <<code, qr, log, subs, sent, run, issued, drafts, unbinds>>

CleanUpCodes ==
  /\ \E u \in Users : code[u] # Nothing /\ code[u].expired
  /\ code' = [u \in Users |-> IF code[u] # Nothing /\ code[u].expired
                                THEN Nothing ELSE code[u]]
  /\ UNCHANGED <<qr, binding, log, subs, sent, run, issued, drafts, unbinds>>

-----------------------------------------------------------------------------
(***************************************************************************)
(* process.                                                                *)
(***************************************************************************)

\* A message arrives, for the first time or again: the transaction begins,
\* has the advisory lock and has read the binding of the sender, or, for a
\* code, the user the code was made for.  What it has to answer without a user
\* leaves no trace.  `late` says that it began after what has expired by now
\* expired; before it, and waited for the lock, it sees that as it was.
Receive(r, s, m, content, late) ==
  /\ run[r] = Idle /\ SenderFree(s)
  /\ sent[s][m] \in {Nothing, content}
  /\ sent' = [sent EXCEPT ![s][m] = content]
  /\ \E u \in Users :
       /\ \/ /\ content.kind = "code" /\ BoundTo(s) = {}
             /\ code[u] # Nothing /\ code[u].id = content.id
             /\ ~(late /\ code[u].expired)
          \/ content.kind # "code" /\ u \in BoundTo(s)
       /\ run' = [run EXCEPT ![r] =
            [pc |-> "waiting", sender |-> s, message |-> m, user |-> u,
             id |-> IF Bound(u) THEN binding[u].id ELSE 0,
             late |-> late /\ HasDraft(u) /\ binding[u].draft.expired]]
  /\ UNCHANGED <<code, qr, binding, log, subs, issued, drafts, unbinds>>

\* A rollback: an error, a failed model, a client that went away.  Nothing of
\* the transaction is left.
Rollback(r) ==
  /\ run[r] # Idle
  /\ run' = [run EXCEPT ![r] = Idle]
  /\ UNCHANGED <<code, qr, binding, log, subs, sent, issued, drafts, unbinds>>

Content(r) == sent[run[r].sender][run[r].message]

\* The code must still be there: who comes second finds it consumed.
BindByCode(r) ==
  LET u == run[r].user
      s == run[r].sender
  IN
  /\ run[r].pc = "waiting" /\ Content(r).kind = "code" /\ UserFree(u) /\ Issue
  /\ code[u] # Nothing /\ code[u].id = Content(r).id
  /\ ~Bound(u) /\ BoundTo(s) = {}
  /\ log[s][run[r].message] = Nothing
  /\ binding' = [binding EXCEPT ![u] =
       [id |-> issued', sender |-> s, draft |-> Nothing, asked |-> code[u].asked]]
  /\ code' = [code EXCEPT ![u] = Nothing]
  /\ log' = [log EXCEPT ![s][run[r].message] = [id |-> issued', reply |-> "bound",
                                                 stamp |-> 0]]
  /\ run' = [run EXCEPT ![r] = Idle]
  /\ UNCHANGED <<qr, subs, sent, drafts, unbinds>>

\* Slip: the binding is not looked up again when the user's row is locked.
BoundBefore(r) == Bound(run[r].user)

\* The binding that was read before the user's row was locked still exists.
StillBound(r) == Bound(run[r].user) /\ binding[run[r].user].id = run[r].id

\* Slip: the reply of a message is not recorded.
Unrecorded(r, draft, reply) == log

\* The log with the reply of the message.
Recorded(r, draft, reply) ==
  [log EXCEPT ![run[r].sender][run[r].message] =
     [id |-> run[r].id, reply |-> reply,
      stamp |-> IF draft = Nothing THEN 0 ELSE draft.stamp]]

\* The draft the transaction sees, one that expired before it began deleted.
DraftOf(r) == IF run[r].late THEN Nothing ELSE binding[run[r].user].draft

\* The message has not been answered before (it is under this binding or an
\* older one).
Unanswered(r) ==
  /\ run[r].pc = "waiting" /\ Content(r).kind # "code"
  /\ UserFree(run[r].user) /\ StillBound(r)
  /\ log[run[r].sender][run[r].message] = Nothing

\* Everything but the draft and the log that a commit with no new subscription
\* leaves alone.
CommitDraft(r, draft, reply) ==
  /\ binding' = [binding EXCEPT ![run[r].user].draft = draft]
  /\ log' = Recorded(r, draft, reply)
  /\ run' = [run EXCEPT ![r] = Idle]
  /\ UNCHANGED <<code, qr, sent, issued, unbinds>>

Upcoming(r) ==
  /\ Unanswered(r) /\ Content(r).kind = "upcoming"
  /\ CommitDraft(r, DraftOf(r), "upcoming")
  /\ UNCHANGED <<subs, drafts>>

Cancel(r) ==
  /\ Unanswered(r) /\ Content(r).kind = "cancel"
  /\ CommitDraft(r, Nothing, "cancelled")
  /\ UNCHANGED <<subs, drafts>>

\* The active subscriptions of the user with the fields of the draft.
Duplicates(u, f) == {x \in subs : x.user = u /\ x.fields = f /\ x.current}

\* The draft has its result already.
Added(draft) == draft.added

Confirms(r) == Unanswered(r) /\ Content(r).kind \in {"confirm", "force"}

\* confirm, where it only answers.
ConfirmRefused(r) ==
  /\ Confirms(r)
  /\ LET d == DraftOf(r) IN
     \/ d = Nothing /\ CommitDraft(r, d, "no_draft")
     \/ d # Nothing /\ Added(d) /\ CommitDraft(r, d, "added")
     \/ d # Nothing /\ ~Added(d) /\ ~d.ready /\ CommitDraft(r, d, "incomplete")
  /\ UNCHANGED <<subs, drafts>>

Confirmable(r) ==
  /\ Confirms(r) /\ DraftOf(r) # Nothing
  /\ ~Added(DraftOf(r)) /\ DraftOf(r).ready

\* The user has been warned of this draft and says so.
Forced(r) == Content(r).kind = "force" /\ DraftOf(r).warned

\* confirm, where it warns of a duplicate.
ConfirmWarns(r) ==
  /\ Confirmable(r)
  /\ Duplicates(run[r].user, DraftOf(r).fields) # {} /\ ~Forced(r)
  /\ CommitDraft(r, [DraftOf(r) EXCEPT !.warned = TRUE], "duplicate")
  /\ UNCHANGED <<subs, drafts>>

\* confirm, where it creates the subscription.  The worker may delete a draft
\* that expires meanwhile before the result is written to it.
ConfirmCreates(r) ==
  /\ Confirmable(r)
  /\ LET d == DraftOf(r) IN
     /\ Duplicates(run[r].user, d.fields) = {} \/ Forced(r)
     /\ subs' = subs \cup
          {[user |-> run[r].user, fields |-> d.fields, stamp |-> d.stamp,
            sender |-> run[r].sender, message |-> run[r].message,
            warned |-> Forced(r), current |-> TRUE]}
     /\ \/ CommitDraft(r, [d EXCEPT !.added = TRUE], "added")
        \/ d.expired /\ CommitDraft(r, Nothing, "added")
  /\ UNCHANGED drafts

\* Anything else goes to the model, with the locks held.
AskModel(r) ==
  /\ Unanswered(r) /\ Content(r).kind = "text"
  /\ run' = [run EXCEPT ![r].pc = "reading"]
  /\ UNCHANGED <<code, qr, binding, log, subs, sent, issued, drafts, unbinds>>

\* Slip: new fields keep the warning given for the old ones.
StillWarned(old) == old # Nothing /\ old.warned

\* Whether a draft that is written again counts as warned of.
WarnedAgain(old) == FALSE

\* Slip: a complete draft is ready although the model has a question.
ReadyWhenComplete(fields, asks) == fields # Partial

\* Whether the reply shows the draft for confirmation.
Previewed(fields, asks) == fields # Partial /\ ~asks

\* The model has read one subscription: the draft is written, and previewed
\* when it is complete and there is nothing to ask.  It is written anew when
\* the worker deleted the one that was there.
WriteDraft(r, fields, asks) ==
  /\ run[r].pc = "reading" /\ drafts < MaxDrafts
  /\ drafts' = drafts + 1
  /\ CommitDraft(r, [fields |-> fields, ready |-> Previewed(fields, asks),
                     warned |-> WarnedAgain(DraftOf(r)),
                     added |-> FALSE, expired |-> FALSE, stamp |-> drafts'],
                 IF fields # Partial /\ ~asks THEN "preview" ELSE "question")
  /\ UNCHANGED subs

\* The model has read several subscriptions: the draft stays.
Multiple(r) ==
  /\ run[r].pc = "reading"
  /\ CommitDraft(r, DraftOf(r), "multiple")
  /\ UNCHANGED <<subs, drafts>>

-----------------------------------------------------------------------------

WebStep ==
  \E u \in Users :
    \/ BindingCode(u) \/ Qrcode(u) \/ QrcodeStatus(u) \/ Unbind(u)
    \/ \E f \in WebFields : CreateSubscription(u, f)

SubscriptionStep == \E x \in subs : ChangeSubscription(x)

Environment ==
  \/ \E s \in Senders, u \in Users : Scan(s, u)
  \/ \E u \in Users : CodeExpires(u) \/ QrExpires(u) \/ DraftExpires(u)
  \/ CleanUpDrafts \/ CleanUpCodes

ProcessStep(r) ==
  \/ \E s \in Senders, m \in MessageIds, content \in Contents :
       \E late \in BOOLEAN : Receive(r, s, m, content, late)
  \/ BindByCode(r) \/ Upcoming(r) \/ Cancel(r)
  \/ ConfirmRefused(r) \/ ConfirmWarns(r) \/ ConfirmCreates(r)
  \/ AskModel(r) \/ Multiple(r) \/ Rollback(r)
  \/ \E f \in Fields \cup {Partial}, asks \in BOOLEAN : WriteDraft(r, f, asks)

Next == WebStep \/ SubscriptionStep \/ Environment \/ \E r \in Runs : ProcessStep(r)

Spec == Init /\ [][Next]_vars

-----------------------------------------------------------------------------

ByMessage == {x \in subs : x.sender # Nothing}

\* However often its confirmation is delivered, and whatever was drafted since,
\* a message adds one subscription at most; so does a draft, however many
\* messages confirm it.
AddedOnce ==
  \A x, y \in ByMessage :
    \/ x.sender = y.sender /\ x.message = y.message
    \/ x.stamp = y.stamp
    => x = y

\* The reply is about the draft, in answer to a message of the sender.
Answered(s, reply, stamp) ==
  \E m \in MessageIds :
    log[s][m] # Nothing /\ log[s][m].reply = reply /\ log[s][m].stamp = stamp

\* Nothing is added that was not shown to the sender as a preview, as it was
\* added.
PreviewedFirst == \A x \in ByMessage : Answered(x.sender, "preview", x.stamp)

\* Who has added the same subscription twice was warned of this very draft.
WarnedFirst ==
  /\ \A x \in ByMessage : x.warned => Answered(x.sender, "duplicate", x.stamp)
  /\ \A x, y \in ByMessage :
       x # y /\ x.user = y.user /\ x.fields = y.fields /\ x.current /\ y.current
         => x.warned \/ y.warned

\* A message adds a subscription to the user its sender is bound to at that
\* moment, although the binding was read before a wait.
AddedForTheBoundUser ==
  [][\A x \in subs' \ subs :
       x.sender # Nothing /\ x.current =>
         Bound(x.user) /\ binding[x.user].sender = x.sender]_vars

\* A binding goes back to a code or a session the user has asked for since the
\* last time they unbound: nothing that was under way binds them again.
BoundByOwnRequest ==
  \A u \in Users : Bound(u) => binding[u].asked = unbinds[u]
=============================================================================
