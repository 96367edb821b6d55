------------------------ MODULE WechatRunnerProofs ------------------------
(***************************************************************************)
(* Proofs about WechatRunner, for any number of messages, runners, starts  *)
(* and failures, in three layers, each an invariant that rests on the one  *)
(* before.                                                                 *)
(*                                                                         *)
(* Placed: everything before a runner and its cursors is finished with.    *)
(* Known: what is finished with was told its record, refused or dropped.   *)
(* Current: so a message process has not seen is the first such one, and   *)
(* the draft it confirms the last one before it; and as long as there is   *)
(* one runner, its place says which preview the sender has seen last.      *)
(***************************************************************************)
EXTENDS WechatRunner, TLAPS

USE RunnerAssumption

-----------------------------------------------------------------------------
(***************************************************************************)
(* The invariants.                                                         *)
(***************************************************************************)

\* A runner's batch is part of the inbox and begins after its cursor, and
\* what is before the runner is finished with.
PlacedAt(x) ==
  /\ x.cur <= Len(inbox)
  /\ \A m \in Messages : m <= x.cur => m \in handled
  /\ x.pc = "reply" => x.at <= x.to
  /\ x.pc \in {"batch", "reply"} =>
       /\ x.cur < x.at /\ x.at <= x.to + 1 /\ x.to <= Len(inbox)
       /\ \A m \in Messages : m < x.at => m \in handled

\* The cursor on disk is in the inbox and not past what is finished with.
FilePlaced ==
  /\ file <= Len(inbox)
  /\ \A m \in Messages : m <= file => m \in handled

Placed == TypeOK /\ FilePlaced /\ \A r \in Runners : PlacedAt(runner[r])

\* The reply a runner holds is the recorded one or a refusal.
ReplyKnown(x) ==
  x.pc = "reply" => \/ x.reply \in Recorded /\ x.reply = log[x.at]
                    \/ x.reply = "excuse" /\ x.at \in excused

\* A message that is finished with was told its record, refused, or dropped.
Finished(m) == m \in told \cup excused \/ inbox[m] = "other"

HandledFinished == \A m \in handled : m <= Len(inbox) /\ Finished(m)

\* A recorded message is in the inbox and was not dropped.
LogOfInbox ==
  \A m \in Messages : log[m] # "none" => m <= Len(inbox) /\ inbox[m] # "other"

ToldRecorded == \A m \in told : log[m] # "none"

Known == /\ \A r \in Runners : ReplyKnown(runner[r])
         /\ HandledFinished /\ LogOfInbox /\ ToldRecorded

\* The API records the messages in their order, but for those it refuses.
RecordedInOrder ==
  \A n \in Messages : log[n] # "none" =>
    \A m \in Messages : m < n =>
      log[m] # "none" \/ m \in excused \/ inbox[m] = "other"

\* The draft is that of the last description recorded, unless that message was
\* refused before.
DraftIsLast ==
  draft # 0 =>
    /\ log[draft] \in {"preview", "question"}
    /\ draft \notin excused =>
         \A n \in Messages : n > draft => log[n] \notin {"preview", "question"}

\* To a sender that has been answered up to f, the draft is the preview seen
\* last.
Seen(f) ==
  draft # 0 /\ draft < f /\ draft \notin excused /\ log[draft] = "preview"
    => shown = draft

\* The message a runner is at, or the next one it will poll.
Front(x) == IF x.pc = "poll" THEN x.cur + 1 ELSE x.at

\* What holds as long as no two runners were alive at once.
Alone ==
  ~overlap =>
    /\ \A q, r \in Runners : Alive(q) /\ Alive(r) => q = r
    /\ \A r \in Runners : ~runner[r].stop

SeenLast ==
  ~overlap =>
    /\ Seen(file + 1)
    /\ \A r \in Runners :
         Alive(r) => file <= runner[r].cur /\ Seen(Front(runner[r]))

Current == RecordedInOrder /\ DraftIsLast /\ Alone /\ SeenLast
             /\ AddsWhatWasShownOrRefused

-----------------------------------------------------------------------------
(***************************************************************************)
(* How a runner moves.                                                     *)
(***************************************************************************)

LEMMA OffRunner == Off \in Runner
  BY DEF Off, Idle, Runner

LEMMA Moves ==
  ASSUME TypeOK, NEW r \in Runners, NEW x \in Runner,
         runner' = [runner EXCEPT ![r] = x]
  PROVE  /\ runner' \in [Runners -> Runner]
         /\ runner'[r] = x
         /\ \A q \in Runners : q # r => runner'[q] = runner[q]
  BY DEF TypeOK

\* The fields of a runner.
LEMMA Fields ==
  ASSUME TypeOK, NEW r \in Runners
  PROVE  /\ runner[r] \in Runner
         /\ runner[r].cur \in 0 .. MaxMessages
         /\ runner[r].to \in 0 .. MaxMessages
         /\ runner[r].at \in 1 .. MaxMessages + 1
         /\ runner[r].stop \in BOOLEAN
         /\ runner[r].pc \in {"off", "poll", "batch", "reply"}
         /\ Len(inbox) \in Nat /\ Len(inbox) <= MaxMessages
<1>1. runner[r] \in Runner /\ Len(inbox) \in Nat /\ Len(inbox) <= MaxMessages
  BY DEF TypeOK
<1>. QED
  BY <1>1 DEF Runner

\* A runner with a message at hand.
Busy(r) == HasMessage(r) \/ runner[r].pc = "reply"

LEMMA AtMessage ==
  ASSUME Placed, NEW r \in Runners, Busy(r)
  PROVE  /\ Here(r) \in Messages /\ Here(r) <= Len(inbox)
         /\ Here(r) <= runner[r].to /\ runner[r].to <= Len(inbox)
         /\ runner[r].cur < Here(r)
         /\ Front(runner[r]) = Here(r) /\ Alive(r)
         /\ \A m \in Messages : m < Here(r) => m \in handled
<1>1. PlacedAt(runner[r]) /\ TypeOK
  BY DEF Placed
<1>2. runner[r].pc \in {"batch", "reply"} /\ runner[r].at <= runner[r].to
  BY <1>1 DEF PlacedAt, Busy, HasMessage, Here
<1>3. /\ runner[r].cur < runner[r].at /\ runner[r].to <= Len(inbox)
      /\ \A m \in Messages : m < runner[r].at => m \in handled
  BY <1>1, <1>2 DEF PlacedAt
<1>4. Front(runner[r]) = runner[r].at /\ Alive(r)
  BY <1>2 DEF Front, Alive
<1>5. runner[r].at \in Messages
  BY <1>1, <1>2, Fields DEF Messages
<1>6. runner[r].at <= Len(inbox)
  BY <1>1, <1>2, <1>3, Fields
<1>. QED
  BY <1>2, <1>3, <1>4, <1>5, <1>6 DEF Here

\* The next message.
LEMMA GoOnMoves ==
  ASSUME TypeOK, NEW r \in Runners, Here(r) \in Messages, runner' = GoOn(r)
  PROVE  /\ runner' \in [Runners -> Runner]
         /\ runner'[r].pc = "batch" /\ runner'[r].at = runner[r].at + 1
         /\ runner'[r].cur = runner[r].cur /\ runner'[r].to = runner[r].to
         /\ runner'[r].stop = runner[r].stop
         /\ \A q \in Runners : q # r => runner'[q] = runner[q]
<1>. DEFINE x == [runner[r] EXCEPT !.pc = "batch", !.at = runner[r].at + 1,
                                   !.again = FALSE, !.reply = "none"]
<1>1. runner[r] \in Runner /\ runner[r].at + 1 \in 1 .. MaxMessages + 1
  BY DEF TypeOK, Here, Messages
<1>2. x \in Runner
  BY <1>1 DEF Runner
<1>3. runner' = [runner EXCEPT ![r] = x]
  BY DEF GoOn, TypeOK
<1>4. /\ x.pc = "batch" /\ x.at = runner[r].at + 1 /\ x.cur = runner[r].cur
      /\ x.to = runner[r].to /\ x.stop = runner[r].stop
  BY <1>1 DEF Runner
<1>. QED
  <2>. HIDE DEF x
  <2>. QED BY <1>2, <1>3, <1>4, Moves

\* The message again, or the end of the runner.
LEMMA FailedMoves ==
  ASSUME TypeOK, NEW r \in Runners, runner' = Failed(r)
  PROVE  /\ runner' \in [Runners -> Runner]
         /\ \/ runner[r].stop /\ runner'[r] = Off
            \/ /\ ~runner[r].stop
               /\ runner'[r].pc = "batch" /\ runner'[r].at = runner[r].at
               /\ runner'[r].cur = runner[r].cur
               /\ runner'[r].to = runner[r].to
               /\ runner'[r].stop = runner[r].stop
         /\ \A q \in Runners : q # r => runner'[q] = runner[q]
<1>. DEFINE x == [runner[r] EXCEPT !.pc = "batch", !.again = TRUE,
                                   !.reply = "none"]
<1>1. runner[r] \in Runner
  BY DEF TypeOK
<1>2. x \in Runner
  BY <1>1 DEF Runner
<1>3. runner[r].stop => runner' = [runner EXCEPT ![r] = Off]
  BY DEF Failed
<1>4. ~runner[r].stop => runner' = [runner EXCEPT ![r] = x]
  BY DEF Failed, TypeOK
<1>5. /\ x.pc = "batch" /\ x.at = runner[r].at /\ x.cur = runner[r].cur
      /\ x.to = runner[r].to /\ x.stop = runner[r].stop
  BY <1>1 DEF Runner
<1>. QED
  <2>. HIDE DEF x
  <2>1. CASE runner[r].stop
    BY <2>1, <1>3, OffRunner, Moves
  <2>2. CASE ~runner[r].stop
    BY <2>2, <1>2, <1>4, <1>5, Moves
  <2>. QED BY <2>1, <2>2

\* The API has answered.
LEMMA AnswerMoves ==
  ASSUME TypeOK, NEW r \in Runners, NEW a \in Recorded \cup {"excuse"},
         Answer(r, a)
  PROVE  /\ runner' \in [Runners -> Runner]
         /\ runner'[r].pc = "reply" /\ runner'[r].reply = a
         /\ runner'[r].at = runner[r].at
         /\ runner'[r].cur = runner[r].cur /\ runner'[r].to = runner[r].to
         /\ runner'[r].stop = runner[r].stop
         /\ \A q \in Runners : q # r => runner'[q] = runner[q]
<1>. DEFINE x == [runner[r] EXCEPT !.pc = "reply", !.reply = a]
<1>1. runner[r] \in Runner
  BY DEF TypeOK
<1>2. x \in Runner
  BY <1>1 DEF Runner
<1>3. runner' = [runner EXCEPT ![r] = x]
  BY DEF Answer, TypeOK
<1>4. /\ x.pc = "reply" /\ x.reply = a /\ x.at = runner[r].at
      /\ x.cur = runner[r].cur /\ x.to = runner[r].to
      /\ x.stop = runner[r].stop
  BY <1>1 DEF Runner
<1>. QED
  <2>. HIDE DEF x
  <2>. QED BY <1>2, <1>3, <1>4, Moves

LEMMA PollMoves ==
  ASSUME TypeOK, NEW r \in Runners, Poll(r)
  PROVE  /\ runner' \in [Runners -> Runner]
         /\ runner[r].pc = "poll" /\ ~runner[r].stop
         /\ runner'[r].pc = "batch" /\ runner'[r].at = runner[r].cur + 1
         /\ runner'[r].to \in runner[r].cur + 1 .. Len(inbox)
         /\ runner'[r].cur = runner[r].cur
         /\ runner'[r].stop = runner[r].stop
         /\ \A q \in Runners : q # r => runner'[q] = runner[q]
<1>1. runner[r] \in Runner
  BY DEF TypeOK
<1>2. PICK n \in runner[r].cur + 1 .. Len(inbox) :
        runner' = [runner EXCEPT ![r].pc = "batch", ![r].to = n,
                                 ![r].at = runner[r].cur + 1]
  BY DEF Poll
<1>. DEFINE x == [runner[r] EXCEPT !.pc = "batch", !.to = n,
                                   !.at = runner[r].cur + 1]
<1>3. n \in 0 .. MaxMessages /\ runner[r].cur + 1 \in 1 .. MaxMessages + 1
  <2>1. runner[r].cur \in 0 .. MaxMessages
    BY <1>1 DEF Runner
  <2>2. Len(inbox) \in Nat /\ Len(inbox) <= MaxMessages
    BY DEF TypeOK
  <2>. QED BY <2>1, <2>2
<1>4. x \in Runner
  BY <1>1, <1>3 DEF Runner
<1>5. runner' = [runner EXCEPT ![r] = x]
  BY <1>2 DEF TypeOK
<1>6. /\ x.pc = "batch" /\ x.at = runner[r].cur + 1 /\ x.to = n
      /\ x.cur = runner[r].cur /\ x.stop = runner[r].stop
  BY <1>1 DEF Runner
<1>7. runner[r].pc = "poll" /\ ~runner[r].stop
  BY DEF Poll
<1>. QED
  <2>. HIDE DEF x
  <2>. QED BY <1>4, <1>5, <1>6, <1>7, Moves

LEMMA SaveMoves ==
  ASSUME TypeOK, NEW r \in Runners, SaveCursor(r)
  PROVE  /\ runner' \in [Runners -> Runner]
         /\ runner[r].pc = "batch" /\ runner[r].at > runner[r].to
         /\ runner'[r].pc = "poll" /\ runner'[r].cur = runner[r].to
         /\ runner'[r].stop = runner[r].stop
         /\ \A q \in Runners : q # r => runner'[q] = runner[q]
<1>. DEFINE x == Idle("poll", runner[r].to, runner[r].stop)
<1>1. x \in Runner
  <2>1. /\ runner[r].to \in 0 .. MaxMessages /\ runner[r].stop \in BOOLEAN
        /\ 0 \in 0 .. MaxMessages /\ 1 \in 1 .. MaxMessages + 1
    BY Fields
  <2>. QED BY <2>1 DEF Idle, Runner
<1>2. runner' = [runner EXCEPT ![r] = x]
  BY DEF SaveCursor
<1>3. x.pc = "poll" /\ x.cur = runner[r].to /\ x.stop = runner[r].stop
  BY DEF Idle
<1>4. runner[r].pc = "batch" /\ runner[r].at > runner[r].to
  BY DEF SaveCursor, SavingCursor
<1>. QED
  <2>. HIDE DEF x
  <2>. QED BY <1>1, <1>2, <1>3, <1>4, Moves

LEMMA StartMoves ==
  ASSUME TypeOK, NEW r \in Runners, StartRunner(r)
  PROVE  /\ runner' \in [Runners -> Runner]
         /\ ~Alive(r)
         /\ runner'[r].pc = "poll" /\ runner'[r].cur = file
         /\ ~runner'[r].stop
         /\ \A q \in Runners : q # r =>
              /\ runner'[q].pc = runner[q].pc /\ runner'[q].cur = runner[q].cur
              /\ runner'[q].at = runner[q].at /\ runner'[q].to = runner[q].to
              /\ runner'[q].reply = runner[q].reply
              /\ ~Alive(q) => runner'[q] = runner[q]
<1>. DEFINE new == Idle("poll", file, FALSE)
            ended(q) == [runner[q] EXCEPT !.stop = TRUE]
<1>1. new \in Runner /\ new.pc = "poll" /\ new.cur = file /\ ~new.stop
  <2>1. file \in 0 .. MaxMessages /\ 0 \in 0 .. MaxMessages
          /\ 1 \in 1 .. MaxMessages + 1
    BY DEF TypeOK
  <2>. QED BY <2>1 DEF Idle, Runner
<1>2. \A q \in Runners :
        /\ runner[q] \in Runner /\ ended(q) \in Runner
        /\ ended(q).pc = runner[q].pc /\ ended(q).cur = runner[q].cur
        /\ ended(q).at = runner[q].at /\ ended(q).to = runner[q].to
        /\ ended(q).reply = runner[q].reply
  BY ZenonT(40) DEF TypeOK, Runner
<1>3. runner' = [q \in Runners |-> IF q = r THEN new
                                   ELSE IF Alive(q) THEN ended(q)
                                   ELSE runner[q]]
  BY DEF StartRunner
<1>4. ~Alive(r)
  BY DEF StartRunner
<1>. QED
  <2>. HIDE DEF new, ended
  <2>. QED BY <1>1, <1>2, <1>3, <1>4

-----------------------------------------------------------------------------
(***************************************************************************)
(* The forms a step takes, for the inbox, the cursors and what is handled. *)
(***************************************************************************)

Advance(r) ==
  /\ Busy(r) /\ runner' = GoOn(r) /\ handled' = handled \cup {Here(r)}
  /\ UNCHANGED <<inbox, file>>

Retry(r) ==
  /\ Busy(r) /\ runner' = Failed(r)
  /\ UNCHANGED <<inbox, file, handled>>

Answers(r) ==
  /\ HasMessage(r)
  /\ \E a \in Recorded \cup {"excuse"} : Answer(r, a)
  /\ UNCHANGED <<inbox, file, handled>>

LEMMA Forms ==
  ASSUME Placed, NEW r \in Runners
  PROVE  /\ Skip(r) \/ RefuseImage(r) \/ Deliver(r) => Advance(r)
         /\ Fail(r) \/ DeliverUnsure(r) => Retry(r)
         /\ Process(r) => Answers(r)
<1>1. Skip(r) \/ RefuseImage(r) \/ Deliver(r) => Advance(r)
  BY DEF Skip, RefuseImage, Deliver, Advance, Busy
<1>2. Fail(r) \/ DeliverUnsure(r) => Retry(r)
  BY DEF Fail, DeliverUnsure, Retry, Busy, Calls, Counted, HasMessage
<1>3. ASSUME Process(r) PROVE Answers(r)
  <2>1. HasMessage(r) /\ UNCHANGED <<inbox, file, handled>>
    BY <1>3 DEF Process, TooMany, Repeat, Unavailable, Describe, Remark,
                Confirm, Counted, Calls
  <2>2. Here(r) \in Messages
    BY <2>1, AtMessage DEF Busy
  <2>3. log[Here(r)] \in Recorded \cup {"none"}
    BY <2>2 DEF Placed, TypeOK
  <2>4. \E a \in Recorded \cup {"excuse"} : Answer(r, a)
    BY <1>3, <2>3 DEF Process, TooMany, Repeat, Unavailable, Describe, Remark,
                      Confirm, Recorded
  <2>. QED BY <2>1, <2>4 DEF Answers
<1>. QED BY <1>1, <1>2, <1>3

LEMMA TypeStep ==
  ASSUME Placed, Next
  PROVE  TypeOK'
<1>1. TypeOK
  BY DEF Placed
<1>2. \A r \in Runners : Busy(r) => Here(r) \in Messages
  BY AtMessage
<1>3. runner' \in [Runners -> Runner]
  <2>1. CASE (\E k \in Kinds : Arrive(k)) \/ NewWindow \/ Expire
    BY <1>1, <2>1 DEF Arrive, NewWindow, Expire, TypeOK
  <2>2. CASE Crash
    BY <2>2, OffRunner DEF Crash
  <2>3. ASSUME NEW r \in Runners,
               StartRunner(r) \/ StopPolling(r) \/ Poll(r) \/ SaveCursor(r)
        PROVE  runner' \in [Runners -> Runner]
    BY <1>1, <2>3, StartMoves, PollMoves, SaveMoves, OffRunner, Moves
       DEF StopPolling
  <2>4. ASSUME NEW r \in Runners, Advance(r) \/ Retry(r) \/ Answers(r)
        PROVE  runner' \in [Runners -> Runner]
    BY <1>1, <1>2, <2>4, GoOnMoves, FailedMoves, AnswerMoves
       DEF Advance, Retry, Answers
  <2>. QED BY <2>1, <2>2, <2>3, <2>4, Forms DEF Next, Step
<1>. DEFINE Others == \E r \in Runners : \/ StartRunner(r) \/ RefuseImage(r)
                                       \/ Fail(r) \/ DeliverUnsure(r) \/ Step(r)
<1>4. /\ inbox' \in Seq(Kinds) /\ Len(inbox') <= MaxMessages
      /\ meant' \in [Messages -> 0 .. MaxMessages]
  <2>1. ASSUME NEW k \in Kinds, Arrive(k)
        PROVE  /\ inbox' \in Seq(Kinds) /\ Len(inbox') <= MaxMessages
               /\ meant' \in [Messages -> 0 .. MaxMessages]
    <3>1. inbox' \in Seq(Kinds) /\ Len(inbox') = Len(inbox) + 1
      BY <1>1, <2>1 DEF Arrive, TypeOK
    <3>2. Len(inbox) \in Nat /\ Len(inbox) < MaxMessages
      BY <1>1, <2>1 DEF Arrive, TypeOK
    <3>3. meant' \in [Messages -> 0 .. MaxMessages]
      BY <1>1, <2>1 DEF Arrive, TypeOK
    <3>. QED BY <3>1, <3>2, <3>3
  <2>2. CASE NewWindow \/ Expire \/ Crash \/ Others
    <3>1. UNCHANGED <<inbox, meant>>
      BY <2>2 DEF NewWindow, Expire, Crash, StartRunner, RefuseImage, Fail,
                  DeliverUnsure, Step, StopPolling, Poll, Skip, Process,
                  TooMany, Repeat, Unavailable, Describe, Remark, Confirm,
                  Deliver, SaveCursor
    <3>. QED BY <1>1, <3>1 DEF TypeOK
  <2>. QED BY <2>1, <2>2 DEF Next
<1>5. file' \in 0 .. MaxMessages
  <2>1. CASE Crash
    BY <1>1, <2>1 DEF Crash, TypeOK
  <2>2. ASSUME NEW r \in Runners, SaveCursor(r) PROVE file' \in 0 .. MaxMessages
    BY <1>1, <2>2, Fields DEF SaveCursor, TypeOK
  <2>3. CASE UNCHANGED file
    BY <1>1, <2>3 DEF TypeOK
  <2>. QED
    BY <2>1, <2>2, <2>3
       DEF Next, Arrive, NewWindow, Expire, StartRunner, RefuseImage, Fail,
           DeliverUnsure, Step, StopPolling, Poll, Skip, Process, TooMany,
           Repeat, Unavailable, Describe, Remark, Confirm, Deliver
<1>6. /\ overlap' \in BOOLEAN /\ starts' \in 0 .. MaxStarts
      /\ failures' \in 0 .. MaxFailures
  <2>1. ASSUME NEW r \in Runners, StartRunner(r)
        PROVE  /\ overlap' \in BOOLEAN /\ starts' \in 0 .. MaxStarts
               /\ failures' \in 0 .. MaxFailures
    <3>1. overlap' \in BOOLEAN
      BY <2>1 DEF StartRunner
    <3>2. starts' = starts + 1 /\ starts < MaxStarts /\ failures' = failures
      BY <2>1 DEF StartRunner
    <3>. QED BY <1>1, <3>1, <3>2 DEF TypeOK
  <2>2. ASSUME NEW r \in Runners, Fail(r) \/ DeliverUnsure(r) \/ SaveCursor(r)
        PROVE  /\ overlap' \in BOOLEAN /\ starts' \in 0 .. MaxStarts
               /\ failures' \in 0 .. MaxFailures
    <3>1. UNCHANGED <<overlap, starts>>
      BY <2>2 DEF Fail, DeliverUnsure, SaveCursor
    <3>2. \/ failures' = failures
          \/ failures' = failures + 1 /\ failures < MaxFailures
      BY <2>2 DEF Fail, DeliverUnsure, SaveCursor
    <3>. QED BY <1>1, <3>1, <3>2 DEF TypeOK
  <2>3. CASE UNCHANGED counts
    BY <1>1, <2>3 DEF counts, TypeOK
  <2>. QED
    BY <2>1, <2>2, <2>3
       DEF Next, Arrive, NewWindow, Expire, Crash, RefuseImage, Step,
           StopPolling, Poll, Skip, Process, TooMany, Repeat, Unavailable,
           Describe, Remark, Confirm, Deliver
<1>7. shown' \in 0 .. MaxMessages /\ told' \subseteq Messages
  <2>1. ASSUME NEW r \in Runners, Reaches(r), runner[r].pc = "reply"
        PROVE  shown' \in 0 .. MaxMessages /\ told' \subseteq Messages
    <3>1. Here(r) \in Messages /\ Here(r) \in 0 .. MaxMessages
      BY <1>2, <2>1 DEF Busy, Messages
    <3>2. shown' \in {shown, Here(r)}
      BY <2>1 DEF Reaches
    <3>3. told' \in {told, told \cup {Here(r)}}
      BY <2>1 DEF Reaches
    <3>. QED BY <1>1, <3>1, <3>2, <3>3 DEF TypeOK
  <2>2. CASE UNCHANGED <<shown, told>>
    BY <1>1, <2>2 DEF TypeOK
  <2>. QED
    BY <2>1, <2>2
       DEF Next, Arrive, NewWindow, Expire, Crash, StartRunner, RefuseImage,
           Fail, DeliverUnsure, Step, StopPolling, Poll, Skip, Process,
           TooMany, Repeat, Unavailable, Describe, Remark, Confirm, Deliver,
           SaveCursor
<1>8. handled' \subseteq Messages /\ excused' \subseteq Messages
  BY <1>1, <1>2
     DEF TypeOK, store, Busy, Next, Arrive, NewWindow, Expire, Crash,
         StartRunner, RefuseImage, Fail, DeliverUnsure, Step, StopPolling,
         Poll, Skip, Process, TooMany, Repeat, Unavailable, Describe, Remark,
         Confirm, Deliver, SaveCursor, Counted, Calls
<1>9. attempts' \in 0 .. Limit
  <2>1. \/ attempts' = attempts \/ attempts' = 0
        \/ attempts' = attempts + 1 /\ attempts < Limit
    BY ZenonT(40) DEF store, Next, Arrive, NewWindow, Expire, Crash, StartRunner,
           RefuseImage, Fail, DeliverUnsure, Step, StopPolling, Poll, Skip,
           Process, TooMany, Repeat, Unavailable, Describe, Remark, Confirm,
           Deliver, SaveCursor, Counted
  <2>. QED BY <1>1, <2>1 DEF TypeOK
<1>10. /\ log' \in [Messages -> Recorded \cup {"none"}]
       /\ draft' \in 0 .. MaxMessages
       /\ added' \subseteq [draft : Messages, by : Messages,
                            shown : 0 .. MaxMessages]
  <2>1. ASSUME NEW r \in Runners, Describe(r) \/ Remark(r) \/ Confirm(r)
        PROVE  /\ log' \in [Messages -> Recorded \cup {"none"}]
               /\ draft' \in 0 .. MaxMessages
               /\ added' \subseteq [draft : Messages, by : Messages,
                                    shown : 0 .. MaxMessages]
    <3>1. Here(r) \in Messages
      BY <1>2, <2>1 DEF Describe, Remark, Confirm, Counted, Calls, Busy
    <3>2. /\ log' \in [Messages -> Recorded \cup {"none"}]
          /\ draft' \in 0 .. MaxMessages
      <4>1. draft' \in {draft, Here(r), 0}
        BY <2>1 DEF Describe, Remark, Confirm
      <4>2. \E a \in Recorded : log' = [log EXCEPT ![Here(r)] = a]
        BY <2>1 DEF Describe, Remark, Confirm, Recorded
      <4>3. log' \in [Messages -> Recorded \cup {"none"}]
        BY <1>1, <4>2 DEF TypeOK
      <4>. QED BY <1>1, <3>1, <4>1, <4>3 DEF TypeOK, Messages
    <3>3. draft # 0 => [draft |-> draft, by |-> Here(r), shown |-> shown]
            \in [draft : Messages, by : Messages, shown : 0 .. MaxMessages]
      BY <1>1, <3>1 DEF TypeOK, Messages
    <3>4. added' \subseteq [draft : Messages, by : Messages,
                            shown : 0 .. MaxMessages]
      BY <1>1, <2>1, <3>3 DEF Describe, Remark, Confirm, Confirmable, TypeOK
    <3>. QED BY <3>2, <3>4
  <2>2. CASE UNCHANGED <<log, added>> /\ draft' \in {draft, 0}
    BY <1>1, <2>2 DEF TypeOK
  <2>. QED
    BY <2>1, <2>2
       DEF store, Next, Arrive, NewWindow, Expire, Crash, StartRunner,
           RefuseImage, Fail, DeliverUnsure, Step, StopPolling, Poll, Skip,
           Process, TooMany, Repeat, Unavailable, Deliver, SaveCursor
<1>. QED
  BY <1>3, <1>4, <1>5, <1>6, <1>7, <1>8, <1>9, <1>10 DEF TypeOK

-----------------------------------------------------------------------------
(***************************************************************************)
(* Where runners stand.                                                    *)
(***************************************************************************)

\* Nothing is taken back from the inbox or from what is handled.
LEMMA Grows ==
  ASSUME Placed, Next
  PROVE  /\ Len(inbox) <= Len(inbox') /\ Len(inbox') \in Nat
         /\ \A m \in Messages : m <= Len(inbox) => inbox'[m] = inbox[m]
         /\ handled \subseteq handled'
<1>1. inbox \in Seq(Kinds) /\ Len(inbox) \in Nat
  BY DEF Placed, TypeOK
<1>2. handled \subseteq handled'
  BY DEF Next, Arrive, NewWindow, Expire, Crash, StartRunner, RefuseImage,
         Fail, DeliverUnsure, Step, StopPolling, Poll, Skip, Process, TooMany,
         Repeat, Unavailable, Describe, Remark, Confirm, Deliver, SaveCursor
<1>3. CASE \E k \in Kinds : Arrive(k)
  BY <1>1, <1>2, <1>3 DEF Arrive, Messages
<1>4. CASE ~ \E k \in Kinds : Arrive(k)
  <2>1. inbox' = inbox
    BY <1>4 DEF Next, NewWindow, Expire, Crash, StartRunner, RefuseImage, Fail,
                DeliverUnsure, Step, StopPolling, Poll, Skip, Process, TooMany,
                Repeat, Unavailable, Describe, Remark, Confirm, Deliver,
                SaveCursor
  <2>. QED BY <1>1, <1>2, <2>1
<1>. QED BY <1>3, <1>4

\* A place stays good while inbox and handled grow.
LEMMA PlaceKept ==
  ASSUME Placed, Next, NEW q \in Runners,
         /\ runner'[q].pc = runner[q].pc /\ runner'[q].cur = runner[q].cur
         /\ runner'[q].at = runner[q].at /\ runner'[q].to = runner[q].to
  PROVE  PlacedAt(runner[q])'
<1>1. /\ Len(inbox) <= Len(inbox') /\ Len(inbox') \in Nat
      /\ handled \subseteq handled'
  BY Grows
<1>2. PlacedAt(runner[q]) /\ TypeOK
  BY DEF Placed
<1>3. /\ runner[q].cur \in Nat /\ runner[q].to \in Nat /\ Len(inbox) \in Nat
  BY <1>2, Fields
<1>. QED
  BY <1>1, <1>2, <1>3 DEF PlacedAt

LEMMA OffPlaced ==
  ASSUME TypeOK', NEW q \in Runners, runner'[q] = Off
  PROVE  PlacedAt(runner[q])'
<1>1. Off.pc = "off" /\ Off.cur = 0
  BY DEF Off, Idle
<1>2. Len(inbox') \in Nat
  BY DEF TypeOK
<1>. QED
  BY <1>1, <1>2 DEF PlacedAt, Messages

LEMMA PlacedStep ==
  ASSUME Placed, Next
  PROVE  Placed'
<1>1. TypeOK /\ TypeOK' /\ FilePlaced /\ \A q \in Runners : PlacedAt(runner[q])
  BY TypeStep DEF Placed
<1>2. /\ Len(inbox) <= Len(inbox') /\ Len(inbox) \in Nat /\ Len(inbox') \in Nat
      /\ handled \subseteq handled'
  BY <1>1, Grows DEF TypeOK
<1>3. file \in Nat /\ \A q \in Runners : runner[q].to \in Nat
  <2>1. file \in 0 .. MaxMessages
    BY <1>1 DEF TypeOK
  <2>2. \A q \in Runners : runner[q].to \in 0 .. MaxMessages
    BY <1>1, Fields
  <2>. QED BY <2>1, <2>2
<1>4. FilePlaced'
  <2>1. CASE file' = file \/ file' = 0
    BY <1>1, <1>2, <1>3, <2>1 DEF FilePlaced, Messages
  <2>2. ASSUME NEW r \in Runners, SavingCursor(r), file' = runner[r].to
        PROVE  FilePlaced'
    <3>1. /\ runner[r].to <= Len(inbox) /\ runner[r].at > runner[r].to
          /\ \A m \in Messages : m < runner[r].at => m \in handled
      BY <1>1, <2>2 DEF SavingCursor, PlacedAt
    <3>2. runner[r].at \in Nat
      BY <1>1, Fields
    <3>3. \A m \in Messages : m <= runner[r].to => m \in handled'
      BY <1>2, <1>3, <3>1, <3>2 DEF Messages
    <3>. QED BY <1>2, <1>3, <2>2, <3>1, <3>3 DEF FilePlaced
  <2>. QED
    BY <2>1, <2>2, Zenon
       DEF Next, Arrive, NewWindow, Expire, Crash, StartRunner, RefuseImage,
           Fail, DeliverUnsure, Step, StopPolling, Poll, Skip, Process,
           TooMany, Repeat, Unavailable, Describe, Remark, Confirm, Deliver,
           SaveCursor
<1>5. ASSUME NEW q \in Runners PROVE PlacedAt(runner[q])'
  <2>1. CASE runner' = runner
    BY <2>1, PlaceKept
  <2>2. CASE Crash
    BY <1>1, <2>2, OffPlaced DEF Crash
  <2>3. ASSUME NEW r \in Runners, r # q,
               \/ StopPolling(r) \/ Poll(r) \/ SaveCursor(r)
               \/ Advance(r) \/ Retry(r) \/ Answers(r)
        PROVE  PlacedAt(runner[q])'
    <3>1. Advance(r) \/ Answers(r) => Here(r) \in Messages
      BY AtMessage DEF Advance, Answers, Busy
    <3>2. runner'[q] = runner[q]
      BY <1>1, <2>3, <3>1, OffRunner, Moves, PollMoves, SaveMoves, GoOnMoves,
         FailedMoves, AnswerMoves DEF StopPolling, Advance, Retry, Answers
    <3>. QED BY <3>2, PlaceKept
  <2>4. ASSUME NEW r \in Runners, StartRunner(r) PROVE PlacedAt(runner[q])'
    <3>1. CASE q # r
      BY <1>1, <2>4, <3>1, StartMoves, PlaceKept
    <3>2. CASE q = r
      <4>1. runner'[q].pc = "poll" /\ runner'[q].cur = file
        BY <1>1, <2>4, <3>2, StartMoves
      <4>. QED BY <1>1, <1>2, <1>3, <4>1 DEF PlacedAt, FilePlaced
    <3>. QED BY <3>1, <3>2
  <2>5. CASE StopPolling(q)
    <3>1. runner'[q] = Off
      BY <1>1, <2>5, OffRunner, Moves DEF StopPolling
    <3>. QED BY <1>1, <3>1, OffPlaced
  <2>6. CASE Poll(q)
    <3>1. /\ runner'[q].pc = "batch" /\ runner'[q].at = runner[q].cur + 1
          /\ runner'[q].to \in runner[q].cur + 1 .. Len(inbox)
          /\ runner'[q].cur = runner[q].cur
      BY <1>1, <2>6, PollMoves
    <3>2. runner[q].cur \in Nat
      BY <1>1, Fields
    <3>3. /\ runner'[q].cur < runner'[q].at /\ runner'[q].at <= runner'[q].to + 1
          /\ runner'[q].to <= Len(inbox')
      BY <1>2, <3>1, <3>2
    <3>4. \A m \in Messages : m < runner'[q].at \/ m <= runner'[q].cur
                                => m \in handled'
      BY <1>1, <1>2, <3>1, <3>2 DEF PlacedAt, Messages
    <3>5. runner'[q].cur <= Len(inbox')
      BY <1>1, <1>2, <3>1, <3>2 DEF PlacedAt
    <3>. QED BY <3>1, <3>3, <3>4, <3>5 DEF PlacedAt
  <2>7. CASE SaveCursor(q)
    <3>1. /\ runner[q].pc = "batch" /\ runner[q].at > runner[q].to
          /\ runner'[q].pc = "poll" /\ runner'[q].cur = runner[q].to
      BY <1>1, <2>7, SaveMoves
    <3>2. /\ runner[q].to <= Len(inbox)
          /\ \A m \in Messages : m < runner[q].at => m \in handled
      BY <1>1, <3>1 DEF PlacedAt
    <3>3. runner[q].at \in Nat
      BY <1>1, Fields
    <3>4. \A m \in Messages : m <= runner[q].to => m \in handled'
      BY <1>2, <1>3, <3>1, <3>2, <3>3 DEF Messages
    <3>. QED BY <1>2, <1>3, <3>1, <3>2, <3>4 DEF PlacedAt
  <2>8. ASSUME Busy(q), Advance(q) \/ Retry(q) \/ Answers(q)
        PROVE  PlacedAt(runner[q])'
    <3>1. /\ Here(q) \in Messages /\ Here(q) <= runner[q].to
          /\ runner[q].to <= Len(inbox) /\ runner[q].cur < Here(q)
          /\ \A m \in Messages : m < Here(q) => m \in handled
      BY <2>8, AtMessage
    <3>2. runner[q].cur \in Nat /\ runner[q].cur <= Len(inbox)
            /\ \A m \in Messages : m <= runner[q].cur => m \in handled
      BY <1>1, Fields DEF PlacedAt
    <3>3. CASE Advance(q)
      <4>1. /\ runner'[q].pc = "batch" /\ runner'[q].at = Here(q) + 1
            /\ runner'[q].cur = runner[q].cur /\ runner'[q].to = runner[q].to
            /\ handled' = handled \cup {Here(q)}
        BY <1>1, <3>1, <3>3, GoOnMoves DEF Advance, Here
      <4>2. \A m \in Messages : m < Here(q) + 1 => m \in handled'
        BY <3>1, <4>1 DEF Messages
      <4>3. /\ runner[q].cur < Here(q) + 1 /\ Here(q) + 1 <= runner[q].to + 1
            /\ runner[q].to <= Len(inbox') /\ runner[q].cur <= Len(inbox')
        BY <1>2, <1>3, <3>1, <3>2 DEF Messages
      <4>. QED BY <1>2, <3>2, <4>1, <4>2, <4>3 DEF PlacedAt
    <3>4. CASE Retry(q)
      <4>1. \/ runner'[q] = Off
            \/ /\ runner'[q].pc = "batch" /\ runner'[q].at = Here(q)
               /\ runner'[q].cur = runner[q].cur /\ runner'[q].to = runner[q].to
        BY <1>1, <3>4, FailedMoves DEF Retry, Here
      <4>2. CASE runner'[q] = Off
        BY <1>1, <4>2, OffPlaced
      <4>3. CASE runner'[q] # Off
        <5>1. /\ Here(q) <= runner[q].to + 1
              /\ runner[q].to <= Len(inbox') /\ runner[q].cur <= Len(inbox')
          BY <1>2, <1>3, <3>1, <3>2 DEF Messages
        <5>. QED BY <1>2, <3>1, <3>2, <4>1, <4>3, <5>1 DEF PlacedAt
      <4>. QED BY <4>2, <4>3
    <3>5. CASE Answers(q)
      <4>1. /\ runner'[q].pc = "reply" /\ runner'[q].at = Here(q)
            /\ runner'[q].cur = runner[q].cur /\ runner'[q].to = runner[q].to
        BY <1>1, <3>5, AnswerMoves DEF Answers, Here
      <4>2. /\ Here(q) <= runner[q].to + 1
            /\ runner[q].to <= Len(inbox') /\ runner[q].cur <= Len(inbox')
        BY <1>2, <1>3, <3>1, <3>2 DEF Messages
      <4>. QED BY <1>2, <3>1, <3>2, <4>1, <4>2 DEF PlacedAt
    <3>. QED BY <2>8, <3>3, <3>4, <3>5
  <2>9. \A r \in Runners : Advance(r) \/ Retry(r) \/ Answers(r) => Busy(r)
    BY DEF Advance, Retry, Answers, Busy
  <2>. QED
    BY <2>1, <2>2, <2>3, <2>4, <2>5, <2>6, <2>7, <2>8, <2>9, Forms
       DEF Next, Step, Arrive, NewWindow, Expire
<1>. QED
  BY <1>1, <1>4, <1>5 DEF Placed

LEMMA PlacedInit == Init => Placed
<1>. SUFFICES ASSUME Init PROVE Placed
  OBVIOUS
<1>1. runner \in [Runners -> Runner] /\ \A r \in Runners : runner[r] = Off
  BY OffRunner DEF Init
<1>2. inbox \in Seq(Kinds) /\ Len(inbox) = 0 /\ file = 0
  BY DEF Init
<1>3. TypeOK
  <2>1. /\ log \in [Messages -> Recorded \cup {"none"}]
        /\ meant \in [Messages -> 0 .. MaxMessages]
    BY DEF Init, Messages
  <2>2. /\ file \in 0 .. MaxMessages /\ draft \in 0 .. MaxMessages
        /\ attempts \in 0 .. Limit /\ shown \in 0 .. MaxMessages
        /\ starts \in 0 .. MaxStarts /\ failures \in 0 .. MaxFailures
    BY DEF Init
  <2>3. /\ added \subseteq [draft : Messages, by : Messages, shown : 0 .. MaxMessages]
        /\ told \subseteq Messages /\ excused \subseteq Messages
        /\ handled \subseteq Messages /\ overlap \in BOOLEAN
    BY DEF Init
  <2>. QED BY <1>1, <1>2, <2>1, <2>2, <2>3 DEF TypeOK
<1>4. FilePlaced /\ \A r \in Runners : PlacedAt(runner[r])
  BY <1>1, <1>2 DEF FilePlaced, PlacedAt, Off, Idle, Messages
<1>. QED
  BY <1>3, <1>4 DEF Placed

\* Stuttering.
LEMMA PlacedNext == Placed /\ [Next]_vars => Placed'
<1>1. ASSUME Placed, UNCHANGED vars PROVE Placed'
  <2>1. TypeOK'
    BY <1>1 DEF Placed, TypeOK, vars, store, counts
  <2>2. FilePlaced' /\ \A r \in Runners : PlacedAt(runner[r])'
    BY <1>1 DEF Placed, FilePlaced, PlacedAt, vars
  <2>. QED BY <2>1, <2>2 DEF Placed
<1>. QED
  BY <1>1, PlacedStep

LEMMA AlwaysPlaced == Spec => []Placed
  BY PlacedInit, PlacedNext, PTL DEF Spec

\* The types of WechatRunner, for any values of its bounds.
THEOREM TypeCorrect == Spec => []TypeOK
<1>1. Placed => TypeOK
  BY DEF Placed
<1>. QED
  BY <1>1, AlwaysPlaced, PTL

\* The gateway never moves a cursor, on disk or in memory, past a message that
\* is not finished with: whatever dies, fails or is started again.
THEOREM NothingIsSkipped == Spec => []NothingSkipped
<1>1. Placed => NothingSkipped
  <2>. SUFFICES ASSUME Placed PROVE NothingSkipped
    OBVIOUS
  <2>1. /\ file \in 0 .. MaxMessages /\ \A m \in Messages : m <= file => m \in handled
    BY DEF Placed, TypeOK, FilePlaced
  <2>2. \A r \in Runners : /\ runner[r].cur \in 0 .. MaxMessages
                           /\ \A m \in Messages : m <= runner[r].cur => m \in handled
    BY Fields DEF Placed, PlacedAt
  <2>. QED BY <2>1, <2>2 DEF NothingSkipped, Messages
<1>. QED
  BY <1>1, AlwaysPlaced, PTL

-----------------------------------------------------------------------------
(***************************************************************************)
(* What is finished with is known to the sender.                           *)
(***************************************************************************)

\* A record is written once, for a message some runner is at; what was told or
\* refused stays so.
LEMMA Records ==
  ASSUME Placed, Next
  PROVE  /\ excused \subseteq excused' /\ told \subseteq told'
         /\ \A m \in Messages :
              \/ log'[m] = log[m]
              \/ /\ log[m] = "none" /\ inbox[m] # "other"
                 /\ \E r \in Runners : Busy(r) /\ Here(r) = m
<1>1. TypeOK
  BY DEF Placed
<1>2. excused \subseteq excused' /\ told \subseteq told'
  BY DEF store, Next, Arrive, NewWindow, Expire, Crash, StartRunner,
         RefuseImage, Fail, DeliverUnsure, Step, StopPolling, Poll, Skip,
         Process, TooMany, Repeat, Unavailable, Describe, Remark, Confirm,
         Deliver, SaveCursor, Reaches
<1>3. ASSUME NEW r \in Runners, Describe(r) \/ Remark(r) \/ Confirm(r),
             NEW m \in Messages
      PROVE  \/ log'[m] = log[m]
             \/ log[m] = "none" /\ inbox[m] # "other" /\ Busy(r) /\ Here(r) = m
  <2>1. /\ log[Here(r)] = "none" /\ inbox[Here(r)] # "other" /\ Busy(r)
        /\ \E a \in Recorded : log' = [log EXCEPT ![Here(r)] = a]
    BY <1>3 DEF Describe, Remark, Confirm, Counted, Calls, KindHere, Busy,
                Recorded
  <2>. QED BY <1>1, <2>1 DEF TypeOK
<1>4. CASE \A r \in Runners : ~(Describe(r) \/ Remark(r) \/ Confirm(r))
  <2>1. log' = log
    BY <1>4 DEF store, Next, Arrive, NewWindow, Expire, Crash, StartRunner,
                RefuseImage, Fail, DeliverUnsure, Step, StopPolling, Poll,
                Skip, Process, TooMany, Repeat, Unavailable, Deliver,
                SaveCursor
  <2>. QED BY <1>2, <2>1
<1>. QED BY <1>2, <1>3, <1>4

LEMMA ReplyKept ==
  ASSUME Placed, Next, NEW q \in Runners, ReplyKnown(runner[q]),
         /\ runner'[q].pc = runner[q].pc /\ runner'[q].at = runner[q].at
         /\ runner'[q].reply = runner[q].reply
  PROVE  ReplyKnown(runner[q])'
<1>. SUFFICES ASSUME runner[q].pc = "reply" PROVE ReplyKnown(runner[q])'
  BY DEF ReplyKnown
<1>1. Here(q) \in Messages
  BY AtMessage DEF Busy
<1>2. runner[q].reply \in Recorded => runner[q].reply # "none"
  BY DEF Recorded
<1>. QED
  BY <1>1, <1>2, Records DEF ReplyKnown, Here

LEMMA KnownStep ==
  ASSUME Placed, Known, Next
  PROVE  Known'
<1>1. /\ TypeOK /\ HandledFinished /\ LogOfInbox /\ ToldRecorded
      /\ \A q \in Runners : ReplyKnown(runner[q])
  BY DEF Placed, Known
<1>2. /\ excused \subseteq excused' /\ told \subseteq told'
      /\ \A m \in Messages :
           \/ log'[m] = log[m]
           \/ /\ log[m] = "none" /\ inbox[m] # "other"
              /\ \E r \in Runners : Busy(r) /\ Here(r) = m
  BY Records
<1>3. /\ Len(inbox) <= Len(inbox') /\ Len(inbox) \in Nat /\ Len(inbox') \in Nat
      /\ \A m \in Messages : m <= Len(inbox) => inbox'[m] = inbox[m]
  BY <1>1, Grows DEF TypeOK
<1>4. \A r \in Runners : Busy(r) => Here(r) \in Messages /\ Here(r) <= Len(inbox)
  BY AtMessage
<1>5. LogOfInbox'
  <2>. SUFFICES ASSUME NEW m \in Messages, log'[m] # "none"
                PROVE  m <= Len(inbox') /\ inbox'[m] # "other"
    BY DEF LogOfInbox, Messages
  <2>1. m <= Len(inbox) /\ inbox[m] # "other"
    BY <1>1, <1>2, <1>4 DEF LogOfInbox
  <2>. QED BY <1>3, <2>1 DEF Messages
<1>6. ASSUME NEW m \in told', m \notin told
      PROVE  m \in Messages /\ log'[m] # "none"
  <2>1. PICK r \in Runners : Deliver(r) \/ DeliverUnsure(r)
    BY <1>6 DEF Next, Arrive, NewWindow, Expire, Crash, StartRunner,
                RefuseImage, Fail, Step, StopPolling, Poll, Skip, Process,
                TooMany, Repeat, Unavailable, Describe, Remark, Confirm,
                SaveCursor
  <2>2. /\ runner[r].pc = "reply" /\ runner[r].reply \in Recorded /\ m = Here(r)
        /\ log' = log
    BY <1>6, <2>1 DEF Deliver, DeliverUnsure, Reaches, store
  <2>3. log[m] \in Recorded
    BY <1>1, <2>2 DEF ReplyKnown, Here, Recorded
  <2>. QED BY <1>4, <2>2, <2>3 DEF Busy, Recorded
<1>7. ToldRecorded'
  <2>1. told \subseteq Messages
    BY <1>1 DEF TypeOK
  <2>. QED BY <1>1, <1>2, <1>6, <2>1 DEF ToldRecorded
<1>8. HandledFinished'
  <2>. SUFFICES ASSUME NEW m \in handled' PROVE m <= Len(inbox') /\ Finished(m)'
    BY DEF HandledFinished
  <2>1. CASE m \in handled
    <3>1. m \in Messages /\ m <= Len(inbox) /\ Finished(m)
      BY <1>1, <2>1 DEF HandledFinished, TypeOK
    <3>. QED BY <1>2, <1>3, <3>1 DEF Finished, Messages
  <2>2. CASE m \notin handled
    <3>1. PICK r \in Runners : Skip(r) \/ RefuseImage(r) \/ Deliver(r)
      BY <2>2 DEF Next, Arrive, NewWindow, Expire, Crash, StartRunner, Fail,
                  DeliverUnsure, Step, StopPolling, Poll, Process, TooMany,
                  Repeat, Unavailable, Describe, Remark, Confirm, SaveCursor
    <3>2. Busy(r) /\ m = Here(r) /\ inbox' = inbox
      BY <2>2, <3>1, Forms DEF Advance
    <3>3. Finished(m)'
      <4>1. CASE Skip(r)
        BY <3>2, <4>1 DEF Skip, KindHere, Finished
      <4>2. CASE RefuseImage(r)
        BY <3>2, <4>2 DEF RefuseImage, Finished
      <4>3. CASE Deliver(r)
        BY <1>1, <1>2, <3>2, <4>3 DEF Deliver, Reaches, ReplyKnown, Finished,
                                      Here
      <4>. QED BY <3>1, <4>1, <4>2, <4>3
    <3>. QED BY <1>4, <3>2, <3>3
  <2>. QED BY <2>1, <2>2
<1>9. ASSUME NEW q \in Runners PROVE ReplyKnown(runner[q])'
  <2>1. CASE runner'[q].pc # "reply"
    BY <2>1 DEF ReplyKnown
  <2>2. CASE runner'[q] = runner[q]
    BY <1>1, <2>2, ReplyKept
  <2>3. ASSUME NEW r \in Runners, StartRunner(r) PROVE ReplyKnown(runner[q])'
    <3>1. \/ runner'[q].pc = "poll"
          \/ /\ runner'[q].pc = runner[q].pc /\ runner'[q].at = runner[q].at
             /\ runner'[q].reply = runner[q].reply
      BY <1>1, <2>3, StartMoves
    <3>. QED BY <1>1, <2>1, <3>1, ReplyKept
  <2>4. ASSUME NEW r \in Runners, r # q,
               \/ StopPolling(r) \/ Poll(r) \/ SaveCursor(r)
               \/ Advance(r) \/ Retry(r) \/ Answers(r)
        PROVE  runner'[q] = runner[q]
    BY <1>1, <1>4, <2>4, OffRunner, Moves, PollMoves, SaveMoves, GoOnMoves,
       FailedMoves, AnswerMoves DEF StopPolling, Advance, Retry, Answers, Busy
  <2>5. CASE Crash \/ StopPolling(q) \/ Poll(q) \/ SaveCursor(q) \/ Advance(q)
               \/ Retry(q)
    <3>1. Off.pc = "off"
      BY DEF Off, Idle
    <3>2. runner'[q].pc # "reply"
      BY <1>1, <1>4, <2>5, <3>1, OffRunner, Moves, PollMoves, SaveMoves, GoOnMoves,
         FailedMoves DEF Crash, StopPolling, Advance, Retry
    <3>. QED BY <2>1, <3>2
  <2>6. CASE Process(q)
    <3>1. /\ HasMessage(q) /\ Here(q) \in Messages
          /\ log[Here(q)] \in Recorded \cup {"none"}
      BY <1>1, <1>4, <2>6, Forms DEF Answers, Busy, TypeOK
    <3>2. ASSUME NEW a \in Recorded \cup {"excuse"}, Answer(q, a)
          PROVE  runner'[q].reply = a /\ runner'[q].at = Here(q)
      BY <1>1, <3>2, AnswerMoves DEF Here
    <3>3. CASE TooMany(q) \/ Unavailable(q)
      BY <3>2, <3>3 DEF TooMany, Unavailable, ReplyKnown
    <3>4. CASE Repeat(q)
      <4>1. log[Here(q)] \in Recorded /\ Answer(q, log[Here(q)]) /\ log' = log
        BY <3>1, <3>4 DEF Repeat
      <4>. QED BY <3>2, <4>1 DEF ReplyKnown
    <3>5. CASE Describe(q) \/ Remark(q) \/ Confirm(q)
      <4>1. PICK a \in Recorded : Answer(q, a) /\ log' = [log EXCEPT ![Here(q)] = a]
        BY <3>5 DEF Describe, Remark, Confirm, Recorded
      <4>2. log'[Here(q)] = a
        BY <1>1, <3>1, <4>1 DEF TypeOK
      <4>. QED BY <3>2, <4>1, <4>2 DEF ReplyKnown
    <3>. QED BY <2>6, <3>3, <3>4, <3>5 DEF Process
  <2>. QED
    BY <2>2, <2>3, <2>4, <2>5, <2>6, Forms DEF Next, Step, Arrive, NewWindow,
                                               Expire
<1>. QED
  BY <1>5, <1>7, <1>8, <1>9 DEF Known

LEMMA KnownNext == Placed /\ Known /\ [Next]_vars => Known'
<1>1. ASSUME Known, UNCHANGED vars PROVE Known'
  BY <1>1 DEF Known, ReplyKnown, HandledFinished, Finished, LogOfInbox,
              ToldRecorded, vars, store
<1>. QED
  BY <1>1, KnownStep

LEMMA KnownInit == Init => Known
  BY DEF Init, Known, ReplyKnown, Off, Idle, HandledFinished, LogOfInbox,
         ToldRecorded

LEMMA AlwaysKnown == Spec => []Known
  BY AlwaysPlaced, KnownInit, KnownNext, PTL DEF Spec

\* A message that was acted on and is finished with has its result told to the
\* sender, unless it was refused at some time: a lost reply is given again.
THEOREM ResultsAreTold == Spec => []ResultTold
<1>1. Placed /\ Known => ResultTold
  BY DEF Placed, TypeOK, Known, HandledFinished, Finished, LogOfInbox,
         ResultTold
<1>. QED
  BY <1>1, AlwaysPlaced, AlwaysKnown, PTL

-----------------------------------------------------------------------------
(***************************************************************************)
(* What the sender has seen last.                                          *)
(***************************************************************************)

\* All that is before a runner is recorded, refused or dropped.
LEMMA Before ==
  ASSUME Placed, Known, NEW r \in Runners, Busy(r)
  PROVE  \A m \in Messages : m < Here(r) =>
           log[m] # "none" \/ m \in excused \/ inbox[m] = "other"
  BY AtMessage DEF Known, HandledFinished, Finished, ToldRecorded

LEMMA OrderStep ==
  ASSUME Placed, Known, RecordedInOrder, Next
  PROVE  RecordedInOrder'
<1>. SUFFICES ASSUME NEW n \in Messages, log'[n] # "none",
                     NEW m \in Messages, m < n
              PROVE  log'[m] # "none" \/ m \in excused' \/ inbox'[m] = "other"
  BY DEF RecordedInOrder, Messages
<1>1. n <= Len(inbox)
  BY Records, AtMessage DEF Known, LogOfInbox
<1>2. log[m] # "none" \/ m \in excused \/ inbox[m] = "other"
  BY Records, Before DEF RecordedInOrder
<1>3. m <= Len(inbox) /\ Len(inbox) \in Nat
  BY <1>1 DEF Messages, Placed, TypeOK
<1>. QED
  BY <1>2, <1>3, Records, Grows

\* A description that is recorded becomes the draft; nothing else touches it.
LEMMA DraftMoves ==
  ASSUME Next
  PROVE  \/ UNCHANGED <<log, draft>>
         \/ Expire
         \/ \E r \in Runners : Describe(r) \/ Remark(r) \/ Confirm(r)
  BY DEF store, Next, Arrive, NewWindow, Expire, Crash, StartRunner,
         RefuseImage, Fail, DeliverUnsure, Step, StopPolling, Poll, Skip,
         Process, TooMany, Repeat, Unavailable, Deliver, SaveCursor

LEMMA DraftStep ==
  ASSUME Placed, Known, RecordedInOrder, DraftIsLast, Next
  PROVE  DraftIsLast'
<1>1. TypeOK /\ excused \subseteq excused'
  BY Records DEF Placed
<1>2. CASE UNCHANGED <<log, draft>>
  BY <1>1, <1>2 DEF DraftIsLast, Messages
<1>3. ASSUME NEW r \in Runners, Describe(r) PROVE DraftIsLast'
  <2>1. /\ Busy(r) /\ log[Here(r)] = "none" /\ inbox[Here(r)] # "other"
        /\ draft' = Here(r)
        /\ \E a \in {"preview", "question"} : log' = [log EXCEPT ![Here(r)] = a]
    BY <1>3 DEF Describe, Counted, Calls, KindHere, Busy
  <2>2. Here(r) \in Messages
    BY <2>1, AtMessage
  <2>3. /\ log'[Here(r)] \in {"preview", "question"}
        /\ \A n \in Messages : n # Here(r) => log'[n] = log[n]
    BY <1>1, <2>1, <2>2 DEF TypeOK
  <2>4. ASSUME Here(r) \notin excused, NEW n \in Messages, n > Here(r)
        PROVE  log'[n] = "none"
    <3>1. Here(r) < n /\ n # Here(r)
      BY <2>2, <2>4 DEF Messages
    <3>. QED BY <2>1, <2>2, <2>3, <2>4, <3>1 DEF RecordedInOrder
  <2>. QED BY <1>1, <2>1, <2>3, <2>4 DEF DraftIsLast, Messages
<1>4. ASSUME NEW r \in Runners, Remark(r) \/ Confirm(r) PROVE DraftIsLast'
  <2>1. /\ Busy(r) /\ log[Here(r)] = "none" /\ draft' \in {draft, 0}
        /\ log' = [log EXCEPT ![Here(r)] = "done"]
    BY <1>4 DEF Remark, Confirm, Counted, Calls, Busy
  <2>2. \A n \in Messages : log'[n] = log[n] \/ log'[n] = "done"
    BY <1>1, <2>1 DEF TypeOK
  <2>3. draft # 0 => draft \in Messages /\ draft # Here(r)
    BY <1>1, <2>1 DEF DraftIsLast, TypeOK, Messages
  <2>4. draft # 0 => log'[draft] = log[draft]
    BY <1>1, <2>1, <2>3 DEF TypeOK
  <2>. QED BY <1>1, <2>1, <2>2, <2>4 DEF DraftIsLast, Messages
<1>5. CASE Expire
  BY <1>5 DEF Expire, DraftIsLast
<1>. QED
  BY <1>2, <1>3, <1>4, <1>5, DraftMoves

\* As long as there has been one runner, a step leaves at most one.
LEMMA OneMover ==
  ASSUME Placed, Alone, Next, ~overlap'
  PROVE  /\ ~overlap
         /\ \/ \A q \in Runners : runner'[q] = Off
            \/ UNCHANGED <<runner, file>>
            \/ \E r \in Runners :
                 /\ \/ StartRunner(r) \/ StopPolling(r) \/ Poll(r) \/ SaveCursor(r)
                    \/ Skip(r) \/ RefuseImage(r) \/ Deliver(r)
                    \/ Retry(r) \/ Answers(r)
                 /\ ~runner'[r].stop
                 /\ \A q \in Runners : q # r => runner'[q] = runner[q] /\ ~Alive(q)
<1>1. TypeOK /\ Off.stop = FALSE /\ Off.pc = "off"
  BY DEF Placed, Off, Idle
<1>2. ~overlap
  BY DEF counts, Next, Arrive, NewWindow, Expire, Crash, StartRunner,
         RefuseImage, Fail, DeliverUnsure, Step, StopPolling, Poll, Skip,
         Process, TooMany, Repeat, Unavailable, Describe, Remark, Confirm,
         Deliver, SaveCursor
<1>3. /\ \A q, r \in Runners : Alive(q) /\ Alive(r) => q = r
      /\ \A r \in Runners : ~runner[r].stop
  BY <1>2 DEF Alone
<1>4. ASSUME NEW r \in Runners, StartRunner(r)
      PROVE  /\ ~runner'[r].stop
             /\ \A q \in Runners : q # r => runner'[q] = runner[q] /\ ~Alive(q)
  <2>1. \A q \in Runners : ~Alive(q)
    BY <1>4 DEF StartRunner
  <2>. QED BY <1>1, <1>4, <2>1, StartMoves
<1>5. ASSUME NEW r \in Runners,
             \/ StopPolling(r) \/ Poll(r) \/ SaveCursor(r)
             \/ Advance(r) \/ Retry(r) \/ Answers(r)
      PROVE  /\ ~runner'[r].stop
             /\ \A q \in Runners : q # r => runner'[q] = runner[q] /\ ~Alive(q)
  <2>1. Alive(r)
    BY <1>5 DEF StopPolling, Poll, SaveCursor, SavingCursor, Advance, Retry,
                Answers, Busy, HasMessage, Alive
  <2>2. Advance(r) \/ Answers(r) => Here(r) \in Messages
    BY AtMessage DEF Advance, Answers, Busy
  <2>3. /\ \A q \in Runners : q # r => runner'[q] = runner[q]
        /\ runner'[r] = Off \/ runner'[r].stop = runner[r].stop
    BY <1>1, <1>5, <2>2, OffRunner, Moves, PollMoves, SaveMoves, GoOnMoves,
       FailedMoves, AnswerMoves DEF StopPolling, Advance, Retry, Answers
  <2>. QED BY <1>1, <1>3, <2>1, <2>3
<1>6. CASE Crash
  BY <1>2, <1>6 DEF Crash
<1>. QED
  BY <1>2, <1>4, <1>5, <1>6, Forms DEF Next, Step, Arrive, NewWindow, Expire

LEMMA AloneStep ==
  ASSUME Placed, Alone, Next
  PROVE  Alone'
<1>. SUFFICES ASSUME ~overlap'
              PROVE  /\ \A q, r \in Runners : Alive(q)' /\ Alive(r)' => q = r
                     /\ \A r \in Runners : ~runner'[r].stop
  BY DEF Alone
<1>1. Off.stop = FALSE /\ Off.pc = "off"
  BY DEF Off, Idle
<1>2. /\ \A q, r \in Runners : Alive(q) /\ Alive(r) => q = r
      /\ \A r \in Runners : ~runner[r].stop
  BY OneMover DEF Alone
<1>. QED
  BY <1>1, <1>2, OneMover DEF Alive

\* What a step does to the preview seen last.
LEMMA SeenMoves ==
  ASSUME Placed, Next
  PROVE  \/ UNCHANGED shown
         \/ \E r \in Runners :
              /\ runner[r].pc = "reply" /\ runner[r].reply = "preview"
              /\ shown' = Here(r) /\ UNCHANGED <<log, draft, excused, file>>
              /\ Advance(r) \/ Retry(r)
  BY Forms, ZenonT(40)
     DEF store, Next, Arrive, NewWindow, Expire, Crash, StartRunner,
         RefuseImage, Fail, DeliverUnsure, Step, StopPolling, Poll, Skip,
         Process, TooMany, Repeat, Unavailable, Describe, Remark, Confirm,
         Deliver, SaveCursor, Reaches

\* A preview seen by a sender stays the one seen, up to where runners are.
LEMMA SeenKept ==
  ASSUME Placed, Known, DraftIsLast, Next, NEW f \in Nat, Seen(f),
         \A r \in Runners : Busy(r) => f <= Here(r)
  PROVE  draft' # 0 /\ draft' < f /\ draft' \notin excused'
           /\ log'[draft'] = "preview" => shown' = draft'
<1>. SUFFICES ASSUME draft' # 0, draft' < f, draft' \notin excused',
                     log'[draft'] = "preview"
              PROVE  shown' = draft'
  OBVIOUS
<1>1. TypeOK /\ excused \subseteq excused'
  BY Records DEF Placed
<1>2. \A r \in Runners : Busy(r) => Here(r) \in Messages
  BY AtMessage
<1>3. draft' = draft /\ log[draft] = "preview" /\ draft \in Messages
  <2>1. CASE UNCHANGED <<log, draft>>
    BY <1>1, <2>1 DEF TypeOK, Messages
  <2>2. ASSUME NEW r \in Runners, Describe(r) PROVE FALSE
    <3>1. Busy(r) /\ draft' = Here(r)
      BY <2>2 DEF Describe, Counted, Calls, Busy
    <3>. QED BY <1>2, <3>1 DEF Messages
  <2>3. ASSUME NEW r \in Runners, Remark(r) \/ Confirm(r)
        PROVE  draft' = draft /\ log[draft] = "preview" /\ draft \in Messages
    <3>1. /\ Busy(r) /\ draft' \in {draft, 0} /\ log[Here(r)] = "none"
          /\ log' = [log EXCEPT ![Here(r)] = "done"]
      BY <2>3 DEF Remark, Confirm, Counted, Calls, Busy
    <3>2. draft \in Messages
      BY <1>1, <3>1 DEF TypeOK, Messages
    <3>3. draft # Here(r)
      BY <3>1, <3>2 DEF DraftIsLast, Messages
    <3>. QED BY <1>1, <3>1, <3>2, <3>3 DEF TypeOK
  <2>4. CASE Expire
    BY <2>4 DEF Expire
  <2>. QED BY <2>1, <2>2, <2>3, <2>4, DraftMoves
<1>4. shown = draft
  BY <1>1, <1>3 DEF Seen
<1>5. ASSUME NEW r \in Runners, runner[r].pc = "reply",
             runner[r].reply = "preview"
      PROVE  FALSE
  <2>1. Busy(r) /\ Here(r) \in Messages /\ draft < Here(r)
    BY <1>2, <1>3, <1>5 DEF Busy, Messages
  <2>2. log[Here(r)] = "preview"
    BY <1>5 DEF Known, ReplyKnown, Here
  <2>. QED BY <1>1, <1>3, <2>1, <2>2 DEF DraftIsLast, Messages
<1>. QED
  BY <1>3, <1>4, <1>5, SeenMoves

\* A runner that goes on has shown its sender the draft of its message.
LEMMA SeenNext ==
  ASSUME Placed, Known, DraftIsLast, NEW r \in Runners, Seen(Here(r)),
         Skip(r) \/ RefuseImage(r) \/ Deliver(r)
  PROVE  draft' # 0 /\ draft' < Here(r) + 1 /\ draft' \notin excused'
           /\ log'[draft'] = "preview" => shown' = draft'
<1>. SUFFICES ASSUME draft' # 0, draft' < Here(r) + 1, draft' \notin excused',
                     log'[draft'] = "preview"
              PROVE  shown' = draft'
  OBVIOUS
<1>1. /\ TypeOK /\ UNCHANGED <<log, draft>> /\ excused \subseteq excused'
      /\ Busy(r)
  BY Forms DEF Placed, Skip, RefuseImage, Deliver, store, Advance
<1>2. Here(r) \in Messages /\ draft \in Messages
  BY <1>1, AtMessage DEF TypeOK, Messages
<1>3. draft < Here(r) \/ draft = Here(r)
  BY <1>1, <1>2 DEF Messages
<1>4. draft < Here(r) => shown = draft
  BY <1>1 DEF Seen
<1>5. CASE Skip(r)
  BY <1>1, <1>2, <1>3, <1>4, <1>5 DEF Skip, KindHere, Known, LogOfInbox
<1>6. CASE RefuseImage(r)
  BY <1>1, <1>3, <1>4, <1>6 DEF RefuseImage
<1>7. CASE Deliver(r)
  <2>1. /\ runner[r].pc = "reply"
        /\ shown' = IF runner[r].reply = "preview" THEN Here(r) ELSE shown
    BY <1>7 DEF Deliver, Reaches
  <2>2. \/ runner[r].reply \in Recorded /\ runner[r].reply = log[Here(r)]
        \/ runner[r].reply = "excuse" /\ Here(r) \in excused
    BY <2>1 DEF Known, ReplyKnown, Here
  <2>3. CASE draft = Here(r)
    BY <1>1, <2>1, <2>2, <2>3
  <2>4. CASE draft < Here(r)
    <3>1. log[Here(r)] # "preview"
      BY <1>1, <1>2, <2>4 DEF DraftIsLast, Messages
    <3>. QED BY <1>1, <1>4, <2>1, <2>2, <2>4, <3>1
  <2>. QED BY <1>3, <2>3, <2>4
<1>. QED
  BY <1>5, <1>6, <1>7

LEMMA SeenStep ==
  ASSUME Placed, Known, DraftIsLast, Alone, SeenLast, Next
  PROVE  SeenLast'
<1>. SUFFICES ASSUME ~overlap'
              PROVE  /\ Seen(file + 1)'
                     /\ \A q \in Runners : Alive(q)' =>
                          /\ file' <= runner'[q].cur
                          /\ Seen(Front(runner[q]))'
  BY DEF SeenLast
<1>. DEFINE Shown(f) == draft' # 0 /\ draft' < f /\ draft' \notin excused'
                          /\ log'[draft'] = "preview" => shown' = draft'
<1>1. TypeOK /\ TypeOK' /\ Off.pc = "off"
  BY TypeStep DEF Placed, Off, Idle
<1>2. /\ \A q, r \in Runners : Alive(q) /\ Alive(r) => q = r
      /\ Seen(file + 1)
      /\ \A q \in Runners : Alive(q) => file <= runner[q].cur
                                          /\ Seen(Front(runner[q]))
  BY OneMover DEF Alone, SeenLast
<1>3. file \in Nat /\ draft' \in Nat /\ file + 1 \in Nat
  BY <1>1 DEF TypeOK
<1>4. \A q \in Runners : /\ runner[q].cur \in Nat /\ runner[q].to \in Nat
                         /\ runner[q].at \in Nat
  BY <1>1, Fields
<1>5. \A q \in Runners : Busy(q) => /\ Alive(q) /\ runner[q].cur < Here(q)
                                    /\ Front(runner[q]) = Here(q)
                                    /\ Here(q) \in Nat
  BY AtMessage DEF Messages
<1>6. Shown(file + 1)
  <2>1. \A q \in Runners : Busy(q) => file + 1 <= Here(q)
    BY <1>2, <1>3, <1>4, <1>5
  <2>. QED BY <1>2, <1>3, <2>1, SeenKept
<1>7. ASSUME NEW r \in Runners, Alive(r)
      PROVE  Shown(Front(runner[r])) /\ Front(runner[r]) \in Nat
  <2>1. Front(runner[r]) \in Nat
    BY <1>4 DEF Front
  <2>2. \A q \in Runners : Busy(q) => Front(runner[r]) <= Here(q)
    BY <1>2, <1>5, <1>7, <2>1
  <2>. QED BY <1>2, <1>7, <2>1, <2>2, SeenKept
<1>8. ASSUME NEW r \in Runners, SavingCursor(r)
      PROVE  Front(runner[r]) = runner[r].to + 1 /\ Alive(r)
  <2>1. /\ runner[r].pc = "batch" /\ runner[r].at > runner[r].to
        /\ runner[r].at <= runner[r].to + 1
    BY <1>8 DEF SavingCursor, Placed, PlacedAt
  <2>. QED BY <1>4, <2>1 DEF Front, Alive
<1>9. Seen(file + 1)'
  <2>1. CASE file' = file
    BY <1>6, <2>1 DEF Seen
  <2>2. CASE file' = 0
    BY <1>3, <2>2 DEF Seen
  <2>3. ASSUME NEW r \in Runners, SavingCursor(r), file' = runner[r].to
        PROVE  Seen(file + 1)'
    BY <1>7, <1>8, <2>3 DEF Seen
  <2>. QED
    BY <2>1, <2>2, <2>3, Zenon
       DEF Next, Arrive, NewWindow, Expire, Crash, StartRunner, RefuseImage,
           Fail, DeliverUnsure, Step, StopPolling, Poll, Skip, Process,
           TooMany, Repeat, Unavailable, Describe, Remark, Confirm, Deliver,
           SaveCursor
<1>10. ASSUME NEW q \in Runners, Alive(q)'
       PROVE  file' <= runner'[q].cur /\ Shown(Front(runner'[q]))
  <2>1. ASSUME Alive(q), file' = file, runner'[q].cur = runner[q].cur,
               Front(runner'[q]) = Front(runner[q])
        PROVE  file' <= runner'[q].cur /\ Shown(Front(runner'[q]))
    BY <1>2, <1>7, <2>1
  <2>2. CASE runner'[q] = Off
    BY <1>1, <1>10, <2>2 DEF Alive
  <2>3. CASE UNCHANGED <<runner, file>>
    BY <1>10, <2>1, <2>3 DEF Alive
  <2>4. ASSUME NEW r \in Runners, r # q, runner'[q] = runner[q], ~Alive(q)
        PROVE  FALSE
    BY <1>10, <2>4 DEF Alive
  <2>5. CASE StartRunner(q)
    <3>1. runner'[q].pc = "poll" /\ runner'[q].cur = file /\ file' = file
      BY <1>1, <2>5, StartMoves DEF StartRunner
    <3>. QED BY <1>3, <1>6, <3>1 DEF Front
  <2>6. CASE StopPolling(q)
    BY <1>1, <2>2, <2>6, OffRunner, Moves DEF StopPolling
  <2>7. CASE Poll(q)
    <3>1. /\ runner[q].pc = "poll" /\ runner'[q].pc = "batch"
          /\ runner'[q].at = runner[q].cur + 1
          /\ runner'[q].cur = runner[q].cur /\ file' = file
      BY <1>1, <2>7, PollMoves DEF Poll
    <3>. QED BY <2>1, <3>1 DEF Front, Alive
  <2>8. CASE SaveCursor(q)
    <3>1. /\ runner'[q].pc = "poll" /\ runner'[q].cur = runner[q].to
          /\ SavingCursor(q)
      BY <1>1, <2>8, SaveMoves DEF SaveCursor
    <3>2. Front(runner'[q]) = Front(runner[q]) /\ Alive(q)
      BY <1>8, <3>1 DEF Front
    <3>3. file' = runner[q].to \/ file' = file
      BY <2>8, Zenon DEF SaveCursor
    <3>4. file <= runner[q].to
      <4>1. runner[q].cur < runner[q].at /\ runner[q].at <= runner[q].to + 1
        BY <3>1 DEF SavingCursor, Placed, PlacedAt
      <4>. QED BY <1>2, <1>3, <1>4, <3>2, <4>1
    <3>. QED BY <1>4, <1>7, <3>1, <3>2, <3>3, <3>4
  <2>9. CASE Skip(q) \/ RefuseImage(q) \/ Deliver(q)
    <3>1. /\ Busy(q) /\ file' = file /\ runner'[q].pc = "batch"
          /\ runner'[q].at = Here(q) + 1 /\ runner'[q].cur = runner[q].cur
      BY <1>1, <2>9, Forms, AtMessage, GoOnMoves DEF Advance, Here
    <3>2. Seen(Here(q)) /\ file <= runner[q].cur
      BY <1>2, <1>5, <3>1
    <3>3. Shown(Here(q) + 1)
      BY <2>9, <3>2, SeenNext
    <3>. QED BY <3>1, <3>2, <3>3 DEF Front
  <2>10. CASE Retry(q)
    <3>1. /\ Busy(q) /\ file' = file
          /\ \/ runner'[q] = Off
             \/ /\ runner'[q].pc = "batch" /\ runner'[q].at = Here(q)
                /\ runner'[q].cur = runner[q].cur
      BY <1>1, <2>10, FailedMoves DEF Retry, Here
    <3>. QED BY <1>5, <2>1, <2>2, <3>1 DEF Front
  <2>11. CASE Answers(q)
    <3>1. /\ Busy(q) /\ file' = file
          /\ runner'[q].pc = "reply" /\ runner'[q].at = Here(q)
          /\ runner'[q].cur = runner[q].cur
      BY <1>1, <2>11, AnswerMoves DEF Answers, Busy, Here
    <3>. QED BY <1>5, <2>1, <3>1 DEF Front
  <2>. QED
    BY <2>2, <2>3, <2>4, <2>5, <2>6, <2>7, <2>8, <2>9, <2>10, <2>11, OneMover
<1>. QED
  BY <1>9, <1>10 DEF Seen, Front

\* A confirmation that process has not seen adds the draft last shown.
LEMMA AddsStep ==
  ASSUME Placed, Known, Current, Next
  PROVE  AddsWhatWasShownOrRefused'
<1>. SUFFICES ASSUME ~overlap', NEW a \in added'
              PROVE  a.draft = a.shown \/ {a.draft, a.by} \cap excused' # {}
  BY DEF AddsWhatWasShownOrRefused
<1>1. /\ TypeOK /\ ~overlap /\ RecordedInOrder /\ DraftIsLast /\ SeenLast
      /\ excused \subseteq excused'
  BY OneMover, Records DEF Placed, Current
<1>2. CASE a \in added
  BY <1>1, <1>2 DEF Current, AddsWhatWasShownOrRefused
<1>3. CASE a \notin added
  <2>1. PICK r \in Runners : Confirm(r)
    BY <1>3 DEF store, Next, Arrive, NewWindow, Expire, Crash, StartRunner,
                RefuseImage, Fail, DeliverUnsure, Step, StopPolling, Poll,
                Skip, Process, TooMany, Repeat, Unavailable, Describe, Remark,
                Deliver, SaveCursor
  <2>2. /\ Busy(r) /\ log[Here(r)] = "none" /\ inbox[Here(r)] = "confirm"
        /\ Confirmable
        /\ a = [draft |-> draft, by |-> Here(r), shown |-> shown]
    BY <1>3, <2>1 DEF Confirm, Counted, Calls, KindHere, Busy
  <2>3. /\ draft # 0 /\ log[draft] = "preview" /\ draft \in Messages
        /\ Here(r) \in Messages /\ Alive(r) /\ Front(runner[r]) = Here(r)
    BY <1>1, <2>2, AtMessage DEF Confirmable, TypeOK, Messages
  <2>4. a.draft = draft /\ a.by = Here(r) /\ a.shown = shown
    BY <2>2
  <2>5. CASE draft > Here(r)
    <3>1. Here(r) \in excused
      BY <1>1, <2>2, <2>3, <2>5 DEF RecordedInOrder, Messages
    <3>. QED BY <1>1, <2>4, <3>1
  <2>6. CASE draft < Here(r)
    <3>1. Seen(Here(r))
      BY <1>1, <2>3 DEF SeenLast
    <3>2. shown = draft \/ draft \in excused
      BY <2>3, <2>6, <3>1 DEF Seen
    <3>. QED BY <1>1, <2>4, <3>2
  <2>7. draft # Here(r)
    BY <2>2, <2>3
  <2>. QED BY <2>3, <2>5, <2>6, <2>7 DEF Messages
<1>. QED
  BY <1>2, <1>3

LEMMA CurrentNext == Placed /\ Known /\ Current /\ [Next]_vars => Current'
<1>1. ASSUME Placed, Known, Current, Next PROVE Current'
  BY <1>1, OrderStep, DraftStep, AloneStep, SeenStep, AddsStep DEF Current
<1>2. ASSUME Current, UNCHANGED vars PROVE Current'
  BY <1>2 DEF Current, RecordedInOrder, DraftIsLast, Alone, Alive, SeenLast,
              Seen, Front, AddsWhatWasShownOrRefused, vars, store, counts
<1>. QED
  BY <1>1, <1>2

LEMMA CurrentInit == Init => Current
  BY DEF Init, Current, RecordedInOrder, DraftIsLast, Alone, Alive, SeenLast,
         Seen, Off, Idle, AddsWhatWasShownOrRefused

\* While no two runners of the account have been alive at once, a confirmation
\* adds what the preview seen last says, however often the gateway dies and
\* calls and replies fail, unless the description or the confirmation was also
\* answered with a refusal.
THEOREM AddsWhatWasShown == Spec => []AddsWhatWasShownOrRefused
<1>1. Spec => []Current
  BY AlwaysPlaced, AlwaysKnown, CurrentInit, CurrentNext, PTL DEF Spec
<1>2. Current => AddsWhatWasShownOrRefused
  BY DEF Current
<1>. QED
  BY <1>1, <1>2, PTL

-----------------------------------------------------------------------------
(***************************************************************************)
(* The runner implements the promise.                                      *)
(***************************************************************************)

Creators == {a.by : a \in added}

\* A runner is at a message whose turn it is.
LEMMA TurnHere ==
  ASSUME Placed, NEW r \in Runners, Busy(r)
  PROVE  Here(r) \in Messages /\ Promise!ItsTurn(Here(r))
  BY AtMessage DEF Promise!ItsTurn

\* So is a message a runner has called process for, and it is not dropped.
LEMMA ForTheApiHere ==
  ASSUME Placed, Known, NEW r \in Runners, Calls(r) \/ runner[r].pc = "reply",
         KindHere(r) # "other"
  PROVE  Promise!ForTheApi(Here(r))
  BY TurnHere DEF Promise!ForTheApi, KindHere, Busy, Calls

\* Acting on a message.
LEMMA ActsOnce ==
  ASSUME Placed, Known, NEW r \in Runners,
         Describe(r) \/ Remark(r) \/ Confirm(r)
  PROVE  Promise!Act(Here(r))
<1>1. Promise!ForTheApi(Here(r))
  BY ForTheApiHere DEF Describe, Remark, Confirm, Counted, Calls
<1>2. /\ log[Here(r)] = "none"
      /\ \E a \in Recorded : log' = [log EXCEPT ![Here(r)] = a]
  BY DEF Describe, Remark, Confirm, Recorded
<1>3. UNCHANGED <<inbox, told, excused, handled>>
  BY DEF Describe, Remark, Confirm
<1>4. \/ Creators' = Creators
      \/ Creators' = Creators \cup {Here(r)} /\ inbox[Here(r)] = "confirm"
  <2>1. CASE added' = added
    BY <2>1 DEF Creators
  <2>2. CASE added' # added
    <3>1. /\ inbox[Here(r)] = "confirm"
          /\ added' = added \cup
               {[draft |-> draft, by |-> Here(r), shown |-> shown]}
      BY <2>2 DEF Describe, Remark, Confirm, KindHere
    <3>. QED BY <3>1 DEF Creators
  <2>. QED BY <2>1, <2>2
<1>. QED
  BY <1>1, <1>2, <1>3, <1>4 DEF Promise!Act, Creators

\* Refusing one.
LEMMA Refuses ==
  ASSUME Placed, Known, NEW r \in Runners,
         TooMany(r) \/ Unavailable(r) \/ RefuseImage(r)
  PROVE  Promise!Refuse(Here(r))
<1>1. HasMessage(r) /\ KindHere(r) # "other"
  BY DEF TooMany, Unavailable, RefuseImage, Counted, Calls
<1>2. Promise!ForTheApi(Here(r))
  BY <1>1, ForTheApiHere DEF Calls
<1>3. /\ excused' = excused \cup {Here(r)}
      /\ handled' \in {handled, handled \cup {Here(r)}}
      /\ UNCHANGED <<inbox, log, told, added>>
  BY DEF TooMany, Unavailable, RefuseImage
<1>. QED
  BY <1>2, <1>3 DEF Promise!Refuse, Promise!MayEnd

\* A reply that reaches the sender.
LEMMA Tells ==
  ASSUME Placed, Known, NEW r \in Runners, Deliver(r) \/ DeliverUnsure(r)
  PROVE  \/ Promise!Tell(Here(r)) \/ Promise!Finish(Here(r))
         \/ UNCHANGED <<inbox, log, added, told, excused, handled>>
<1>1. /\ runner[r].pc = "reply" /\ Busy(r)
      /\ handled' \in {handled, handled \cup {Here(r)}}
      /\ UNCHANGED <<inbox, log, added, excused>>
  BY DEF Deliver, DeliverUnsure, Busy, store
<1>2. Here(r) \in Messages /\ Promise!ItsTurn(Here(r))
  BY <1>1, TurnHere
<1>3. CASE runner[r].reply \in Recorded
  <2>1. log[Here(r)] # "none" /\ inbox[Here(r)] # "other"
    BY <1>1, <1>2, <1>3 DEF Known, ReplyKnown, LogOfInbox, Here, Recorded
  <2>2. told' = told \cup {Here(r)}
    BY <1>3 DEF Deliver, DeliverUnsure, Reaches
  <2>. QED
    BY <1>1, <1>2, <2>1, <2>2 DEF Promise!Tell, Promise!ForTheApi,
                                   Promise!MayEnd
<1>4. CASE runner[r].reply \notin Recorded
  <2>1. Here(r) \in excused /\ told' = told
    BY <1>1, <1>4 DEF Known, ReplyKnown, Here, Deliver, DeliverUnsure, Reaches
  <2>. QED
    BY <1>1, <1>2, <2>1 DEF Promise!Finish
<1>. QED
  BY <1>3, <1>4

LEMMA PromiseStep ==
  Placed /\ Known /\ [Next]_vars => [Promise!Next]_(Promise!vars)
<1>. SUFFICES ASSUME Placed, Known, [Next]_vars
              PROVE  Promise!Next \/ UNCHANGED Promise!vars
  OBVIOUS
<1>1. ASSUME UNCHANGED <<inbox, log, added, told, excused, handled>>
      PROVE  UNCHANGED Promise!vars
  BY <1>1 DEF Promise!vars
<1>2. \A r \in Runners : Busy(r) => Here(r) \in Messages
  BY TurnHere
<1>3. ASSUME NEW k \in Kinds, Arrive(k)
      PROVE  Promise!Next
  BY <1>3 DEF Arrive, store, Promise!Next, Promise!Send
<1>4. CASE NewWindow \/ Expire \/ Crash \/ UNCHANGED vars
  BY <1>1, <1>4 DEF NewWindow, Expire, Crash, store, vars
<1>5. ASSUME NEW r \in Runners,
             \/ StartRunner(r) \/ Fail(r) \/ StopPolling(r) \/ Poll(r)
             \/ Repeat(r) \/ SaveCursor(r)
      PROVE  UNCHANGED Promise!vars
  BY <1>1, <1>5 DEF StartRunner, Fail, StopPolling, Poll, Repeat, SaveCursor,
                    store
<1>6. ASSUME NEW r \in Runners, Skip(r)
      PROVE  Promise!Next
  <2>1. /\ Busy(r) /\ inbox[Here(r)] = "other"
        /\ handled' = handled \cup {Here(r)}
        /\ UNCHANGED <<inbox, log, added, told, excused>>
    BY <1>6 DEF Skip, Busy, KindHere, store
  <2>2. Here(r) \in Messages /\ Promise!Finish(Here(r))
    BY <2>1, TurnHere DEF Promise!Finish
  <2>. QED BY <2>2 DEF Promise!Next
<1>7. ASSUME NEW r \in Runners, Describe(r) \/ Remark(r) \/ Confirm(r)
      PROVE  Promise!Next
  <2>1. Busy(r)
    BY <1>7 DEF Describe, Remark, Confirm, Counted, Calls, Busy
  <2>2. Promise!Act(Here(r))
    BY <1>7, ActsOnce
  <2>3. \E m \in Messages : Promise!Act(m)
    BY <1>2, <2>1, <2>2 DEF Promise!Act
  <2>. QED BY <2>3 DEF Promise!Next
<1>8. ASSUME NEW r \in Runners, TooMany(r) \/ Unavailable(r) \/ RefuseImage(r)
      PROVE  Promise!Next
  <2>1. Busy(r)
    BY <1>8 DEF TooMany, Unavailable, RefuseImage, Counted, Calls, Busy
  <2>2. Promise!Refuse(Here(r))
    BY <1>8, Refuses
  <2>. QED BY <1>2, <2>1, <2>2 DEF Promise!Next
<1>9. ASSUME NEW r \in Runners, Deliver(r) \/ DeliverUnsure(r)
      PROVE  Promise!Next \/ UNCHANGED Promise!vars
  BY <1>1, <1>2, <1>9, Tells DEF Promise!Next, Deliver, DeliverUnsure, Busy
<1>. QED
  BY <1>3, <1>4, <1>5, <1>6, <1>7, <1>8, <1>9 DEF Next, Step, Process

\* The runner with process implements WechatPromise: whatever dies, fails, comes
\* again or overlaps, a message is acted on once at most and in its turn
\* (docs/wechat.md:80, adapter.rs stores the cursor last), and is finished with
\* only when its result has reached the sender or it was refused.
THEOREM PromiseIsKept == Spec => KeepsPromise
<1>1. Init => Promise!Init
  BY DEF Init, Promise!Init
<1>. QED
  BY <1>1, AlwaysPlaced, AlwaysKnown, PromiseStep, PTL
     DEF Spec, KeepsPromise, Promise!Spec

=============================================================================
