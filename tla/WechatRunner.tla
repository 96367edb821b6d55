---------------------------- MODULE WechatRunner ----------------------------
(***************************************************************************)
(* The gateway's runner of a WeChat account, between the inbox that iLink  *)
(* keeps and process of the API.  It polls from its cursor, hands every    *)
(* message of the batch to the API, sends the reply, tries again until     *)
(* both have worked, and stores the cursor after the whole batch.          *)
(*                                                                         *)
(* A new login for the account starts a second runner while the first may  *)
(* still be busy with its batch; the gateway can die at any step.  Either  *)
(* way messages are handed over again, and the API answers those it has    *)
(* recorded from its records.                                              *)
(*                                                                         *)
(* The deployed configuration is modelled: inline_images, no streaming, no *)
(* access list.  The messages are those of one bound sender of one account *)
(* (two accounts that turn out to be one bot are merged; that is left      *)
(* out).  WechatFlow has process in full; here it is what the runner can   *)
(* tell apart.                                                             *)
(***************************************************************************)
EXTENDS Integers, Sequences, FiniteSets

CONSTANTS
  Runners,        \* the runners that can be alive at once
  MaxMessages,    \* bound on the messages of the sender
  Limit,          \* calls of process for a sender within a minute
  MaxStarts,      \* bound on the number of runners ever started
  MaxFailures     \* bound on the calls and replies that fail

ASSUME RunnerAssumption ==
  /\ MaxMessages \in Nat /\ Limit \in Nat
  /\ MaxStarts \in Nat /\ MaxFailures \in Nat

VARIABLES
  inbox,      \* what the sender has sent, as iLink keeps it
  file,       \* the cursor on disk: the number of messages it is past
  runner,     \* by runner
  log,        \* wechat_messages: the recorded reply of each message
  draft,      \* the message that wrote wechat_drafts last, 0 for none
  added,      \* the confirmations that have created a subscription
  attempts,   \* wechat_rate_limits: the calls within the current minute
  shown,      \* the message of the last preview that has reached the sender
  told,       \* the messages whose recorded reply has reached the sender
  excused,    \* the messages answered otherwise than from their record
  handled,    \* the messages some runner has finished with
  meant,      \* the preview a confirmation was sent for
  overlap,    \* two runners of the account have been alive at once
  starts, failures

store == <<log, draft, added, attempts, excused>>
counts == <<overlap, starts, failures>>
vars == <<inbox, file, runner, store, shown, told, handled, meant, counts>>

\* What process and the runner tell apart: a confirmation, any other text with
\* or without images, and what parse_inbound drops.
Kinds == {"text", "confirm", "other"}
Messages == 1 .. MaxMessages
Recorded == {"preview", "question", "done"}

\* `cur` is the cursor in memory, `to` that of the batch, `at` the message at
\* hand.  `again` after a failure, when the images are inlined already.
Runner == [pc : {"off", "poll", "batch", "reply"}, stop : BOOLEAN,
           again : BOOLEAN, cur : 0 .. MaxMessages, to : 0 .. MaxMessages,
           at : 1 .. MaxMessages + 1, reply : Recorded \cup {"none", "excuse"}]

\* Between two batches.
Idle(pc, cur, stop) == [pc |-> pc, stop |-> stop, again |-> FALSE, cur |-> cur,
                        to |-> 0, at |-> 1, reply |-> "none"]
Off == Idle("off", 0, FALSE)

TypeOK ==
  /\ inbox \in Seq(Kinds) /\ Len(inbox) <= MaxMessages
  /\ file \in 0 .. MaxMessages
  /\ runner \in [Runners -> Runner]
  /\ log \in [Messages -> Recorded \cup {"none"}]
  /\ draft \in 0 .. MaxMessages
  /\ added \subseteq [draft : Messages, by : Messages, shown : 0 .. MaxMessages]
  /\ attempts \in 0 .. Limit
  /\ shown \in 0 .. MaxMessages
  /\ told \subseteq Messages /\ excused \subseteq Messages
  /\ handled \subseteq Messages
  /\ meant \in [Messages -> 0 .. MaxMessages]
  /\ overlap \in BOOLEAN
  /\ starts \in 0 .. MaxStarts /\ failures \in 0 .. MaxFailures

Init ==
  /\ inbox = <<>> /\ file = 0
  /\ runner = [r \in Runners |-> Off]
  /\ log = [m \in Messages |-> "none"]
  /\ draft = 0 /\ added = {} /\ attempts = 0
  /\ shown = 0 /\ told = {} /\ excused = {} /\ handled = {}
  /\ meant = [m \in Messages |-> 0]
  /\ overlap = FALSE /\ starts = 0 /\ failures = 0

-----------------------------------------------------------------------------
(***************************************************************************)
(* The sender, iLink and the clock.                                        *)
(***************************************************************************)

\* A sender that has had an answer to everything confirms the preview it has
\* seen last; one that does not wait means none in particular.
Arrive(k) ==
  /\ Len(inbox) < MaxMessages
  /\ inbox' = Append(inbox, k)
  /\ meant' = IF k = "confirm" /\ 1 .. Len(inbox) \subseteq handled
                THEN [meant EXCEPT ![Len(inbox) + 1] = shown]
                ELSE meant
  /\ UNCHANGED <<file, runner, store, shown, told, handled, counts>>

\* A minute has passed since the window of the rate limit began.
NewWindow ==
  /\ attempts > 0
  /\ attempts' = 0
  /\ UNCHANGED <<inbox, file, runner, log, draft, added, excused, shown, told,
                 handled, meant, counts>>

\* The draft is a day old: the worker or the next call deletes it.
Expire ==
  /\ draft # 0 /\ draft' = 0
  /\ UNCHANGED <<inbox, file, runner, log, added, attempts, excused, shown,
                 told, handled, meant, counts>>

-----------------------------------------------------------------------------
(***************************************************************************)
(* Runners start and stop.                                                 *)
(***************************************************************************)

Alive(r) == runner[r].pc # "off"

\* register_and_start, or the start of the gateway: the runner there is gets
\* told to stop and the new one begins with the cursor on disk.
StartRunner(r) ==
  /\ starts < MaxStarts /\ ~Alive(r)
  /\ runner' = [q \in Runners |->
       IF q = r THEN Idle("poll", file, FALSE)
       ELSE IF Alive(q) THEN [runner[q] EXCEPT !.stop = TRUE]
       ELSE runner[q]]
  /\ overlap' = (overlap \/ \E q \in Runners : Alive(q))
  /\ starts' = starts + 1
  /\ UNCHANGED <<inbox, file, store, shown, told, handled, meant, failures>>

\* Slip: the cursor is stored once the batch is handed over.
SavesEarly(r) == runner[r].pc = "batch"

\* The gateway dies.  save_cursor_for_account truncates the file before it
\* writes: a runner at that point may leave it empty.
SavingCursor(r) == runner[r].pc = "batch" /\ runner[r].at > runner[r].to

Crash ==
  /\ starts < MaxStarts
  /\ \E r \in Runners : Alive(r)
  /\ \/ file' = file
     \/ file' = 0 /\ \E r \in Runners : SavingCursor(r)
  /\ runner' = [r \in Runners |-> Off]
  /\ UNCHANGED <<inbox, store, shown, told, handled, meant, counts>>

\* shutdown_rx.changed() ends the poll.
StopPolling(r) ==
  /\ runner[r].pc = "poll" /\ runner[r].stop
  /\ runner' = [runner EXCEPT ![r] = Off]
  /\ UNCHANGED <<inbox, file, store, shown, told, handled, meant, counts>>

-----------------------------------------------------------------------------
(***************************************************************************)
(* One batch.                                                              *)
(***************************************************************************)

Here(r) == runner[r].at

\* The kind of the message at hand.
HasMessage(r) == runner[r].pc = "batch" /\ Here(r) <= runner[r].to
KindHere(r) == inbox[Here(r)]

\* getupdates returns some of the messages after the cursor.  A poll that
\* fails or finds nothing changes nothing.
Poll(r) ==
  /\ runner[r].pc = "poll" /\ ~runner[r].stop
  /\ \E n \in runner[r].cur + 1 .. Len(inbox) :
       runner' = [runner EXCEPT ![r].pc = "batch", ![r].to = n,
                                ![r].at = runner[r].cur + 1]
  /\ UNCHANGED <<inbox, file, store, shown, told, handled, meant, counts>>

GoOn(r) == [runner EXCEPT ![r].pc = "batch", ![r].at = @ + 1,
                          ![r].again = FALSE, ![r].reply = "none"]

\* Slip: a message that was tried before counts as a duplicate.
SkipSeen(r) ==
  /\ HasMessage(r) /\ (KindHere(r) = "other" \/ runner[r].again)
  /\ runner' = GoOn(r)
  /\ handled' = handled \cup {Here(r)}
  /\ UNCHANGED <<inbox, file, store, shown, told, meant, counts>>

\* parse_inbound makes nothing of the message.
Skip(r) ==
  /\ HasMessage(r) /\ KindHere(r) = "other"
  /\ runner' = GoOn(r)
  /\ handled' = handled \cup {Here(r)}
  /\ UNCHANGED <<inbox, file, store, shown, told, meant, counts>>

\* Its images cannot be fetched or are refused.  The sender is asked to send
\* the message again, and whether that notice arrives is not looked at.
RefuseImage(r) ==
  /\ HasMessage(r) /\ KindHere(r) = "text" /\ ~runner[r].again
  /\ runner' = GoOn(r)
  /\ handled' = handled \cup {Here(r)}
  /\ excused' = excused \cup {Here(r)}
  /\ UNCHANGED <<inbox, file, log, draft, added, attempts, shown, told, meant,
                 counts>>

-----------------------------------------------------------------------------
(***************************************************************************)
(* process of the API: one transaction, calls of a sender one at a time.   *)
(***************************************************************************)

Answer(r, a) == runner' = [runner EXCEPT ![r].pc = "reply", ![r].reply = a]

Calls(r) == HasMessage(r) /\ KindHere(r) # "other"

\* Twenty calls a minute; a call beyond them is answered at once.
TooMany(r) ==
  /\ Calls(r) /\ attempts = Limit
  /\ Answer(r, "excuse")
  /\ excused' = excused \cup {Here(r)}
  /\ UNCHANGED <<inbox, file, log, draft, added, attempts, shown, told,
                 handled, meant, counts>>

Counted(r) == Calls(r) /\ attempts < Limit /\ attempts' = attempts + 1

\* The message has a record: its reply is given again.
Repeat(r) ==
  /\ Counted(r) /\ log[Here(r)] # "none"
  /\ Answer(r, log[Here(r)])
  /\ UNCHANGED <<inbox, file, log, draft, added, excused, shown, told,
                 handled, meant, counts>>

\* Neither the text recognition nor the model answers, or the message cannot be
\* taken at all: the sender is told so and nothing is recorded.
Unavailable(r) ==
  /\ Counted(r) /\ log[Here(r)] = "none" /\ KindHere(r) = "text"
  /\ Answer(r, "excuse")
  /\ excused' = excused \cup {Here(r)}
  /\ UNCHANGED <<inbox, file, log, draft, added, shown, told, handled, meant,
                 counts>>

\* A description writes the draft and is answered by a preview, or by a
\* question when something is missing.
Describe(r) ==
  /\ Counted(r) /\ log[Here(r)] = "none" /\ KindHere(r) = "text"
  /\ \E a \in {"preview", "question"} :
       /\ Answer(r, a)
       /\ log' = [log EXCEPT ![Here(r)] = a]
  /\ draft' = Here(r)
  /\ UNCHANGED <<inbox, file, added, excused, shown, told, handled, meant,
                 counts>>

\* A cancellation deletes the draft; a question about reminders and several
\* subscriptions at once leave it.
Remark(r) ==
  /\ Counted(r) /\ log[Here(r)] = "none" /\ KindHere(r) = "text"
  /\ Answer(r, "done")
  /\ log' = [log EXCEPT ![Here(r)] = "done"]
  /\ draft' \in {draft, 0}
  /\ UNCHANGED <<inbox, file, added, excused, shown, told, handled, meant,
                 counts>>

\* A draft that was previewed and not added yet.
Confirmable ==
  /\ draft # 0 /\ log[draft] = "preview"
  /\ \A a \in added : a.draft # draft

\* A confirmable draft is added, unless a subscription like it exists.
Confirm(r) ==
  /\ Counted(r) /\ log[Here(r)] = "none" /\ KindHere(r) = "confirm"
  /\ Answer(r, "done")
  /\ log' = [log EXCEPT ![Here(r)] = "done"]
  /\ \/ /\ Confirmable
        /\ added' = added \cup
             {[draft |-> draft, by |-> Here(r), shown |-> shown]}
     \/ UNCHANGED added
  /\ UNCHANGED <<inbox, file, draft, excused, shown, told, handled, meant,
                 counts>>

-----------------------------------------------------------------------------
(***************************************************************************)
(* The reply.                                                              *)
(***************************************************************************)

\* The reply has reached the sender.
Reaches(r) ==
  /\ shown' = IF runner[r].reply = "preview" THEN Here(r) ELSE shown
  /\ told' = IF runner[r].reply \in Recorded THEN told \cup {Here(r)} ELSE told

Deliver(r) ==
  /\ runner[r].pc = "reply"
  /\ Reaches(r)
  /\ runner' = GoOn(r)
  /\ handled' = handled \cup {Here(r)}
  /\ UNCHANGED <<inbox, file, store, meant, counts>>

\* Slip: a reply that fails is not tried again.
FailedGoesOn(r) ==
  IF runner[r].stop THEN [runner EXCEPT ![r] = Off] ELSE GoOn(r)

\* Slip: a failure ends the runner.
FailedStops(r) == [runner EXCEPT ![r] = Off]

\* The call fails, or its answer or the reply is lost.  A runner that was told
\* to stop leaves its batch here; any other waits five seconds.
Failed(r) ==
  IF runner[r].stop
    THEN [runner EXCEPT ![r] = Off]
    ELSE [runner EXCEPT ![r].pc = "batch", ![r].again = TRUE,
                        ![r].reply = "none"]

\* The transaction of a call that fails is rolled back; the call may have been
\* counted before it.
Fail(r) ==
  /\ failures < MaxFailures
  /\ \/ Calls(r) /\ UNCHANGED attempts
     \/ Counted(r)
     \/ runner[r].pc = "reply" /\ UNCHANGED attempts
  /\ runner' = Failed(r)
  /\ failures' = failures + 1
  /\ UNCHANGED <<inbox, file, log, draft, added, excused, shown, told, handled,
                 meant, overlap, starts>>

\* iLink has sent the reply and its answer is lost.
DeliverUnsure(r) ==
  /\ failures < MaxFailures /\ runner[r].pc = "reply"
  /\ Reaches(r)
  /\ runner' = Failed(r)
  /\ failures' = failures + 1
  /\ UNCHANGED <<inbox, file, store, handled, meant, overlap, starts>>

\* apply_getupdates_response.  Whether the file could be written is not looked
\* at.
SaveCursor(r) ==
  /\ SavingCursor(r)
  /\ runner' = [runner EXCEPT
                 ![r] = Idle("poll", runner[r].to, runner[r].stop)]
  /\ \/ file' = runner[r].to /\ UNCHANGED failures
     \/ failures < MaxFailures /\ failures' = failures + 1 /\ UNCHANGED file
  /\ UNCHANGED <<inbox, store, shown, told, handled, meant, overlap, starts>>

-----------------------------------------------------------------------------

Process(r) == \/ TooMany(r) \/ Repeat(r) \/ Unavailable(r) \/ Describe(r)
              \/ Remark(r) \/ Confirm(r)

\* What a runner does when nothing fails.
Step(r) == \/ StopPolling(r) \/ Poll(r) \/ Skip(r) \/ Process(r) \/ Deliver(r)
           \/ SaveCursor(r)

Next ==
  \/ \E k \in Kinds : Arrive(k)
  \/ NewWindow
  \/ Expire
  \/ Crash
  \/ \E r \in Runners : \/ StartRunner(r) \/ RefuseImage(r) \/ Fail(r)
                        \/ DeliverUnsure(r) \/ Step(r)

\* The tasks of the gateway run, and the container is restarted when it dies.
Fairness ==
  /\ \A r \in Runners : WF_vars(Step(r))
  /\ WF_vars(/\ \A r \in Runners : ~Alive(r)
             /\ \E r \in Runners : StartRunner(r))

Spec == Init /\ [][Next]_vars /\ Fairness

-----------------------------------------------------------------------------
(***************************************************************************)
(* Properties.                                                             *)
(***************************************************************************)

\* No cursor, on disk or in memory, is past a message that no runner has
\* finished with ("Persist the cursor only after processing and reply
\* delivery"): whatever dies or starts next, the message is handed over again.
NothingSkipped ==
  /\ 1 .. file \subseteq handled
  /\ \A r \in Runners : 1 .. runner[r].cur \subseteq handled

\* The runner and process keep what they promise the sender (WechatPromise),
\* whatever dies, fails, comes again or overlaps: a message is acted on once at
\* most (docs/wechat.md:80), in its turn, and is finished with only when its
\* recorded result has reached the sender or a refusal was given.
Promise == INSTANCE WechatPromise
             WITH sent <- inbox, record <- log, created <- {a.by : a \in added},
                  answered <- told, refused <- excused, done <- handled,
                  Replies <- Recorded
KeepsPromise == Promise!Spec

\* The sender has been told the result of every message that was acted on and
\* is finished with, unless it was also answered with a refusal at some time
\* (too many calls, no model, no image): a reply that is lost is given again.
ResultTold ==
  \A m \in handled : log[m] # "none" => m \in told \cup excused

\* As long as no two runners have been alive at once, what a confirmation adds
\* is what the last preview that reached the sender says, however often the
\* gateway dies and calls and replies fail; but for a description and a
\* confirmation that were also answered with a refusal.
AddsWhatWasShownOrRefused ==
  ~overlap => \A a \in added :
    \/ a.draft = a.shown
    \/ {a.draft, a.by} \cap excused # {}

\* A sender that has had an answer to everything and confirms the preview it
\* has seen last adds what that preview says (docs/wechat.md:64-65: complete
\* information is shown as a preview, and the reply to it creates).
ConfirmsWhatWasSeen ==
  \A a \in added : meant[a.by] # 0 => a.draft = meant[a.by]

\* Every message is finished with at last: no failure that ends, crash or new
\* login blocks the account for ever.  There are MaxMessages of them, so from
\* some time on nothing is left.
EventuallyHandled == <>[](1 .. Len(inbox) \subseteq handled)

=============================================================================
