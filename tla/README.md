# Renuxa: models and proofs

Renuxa keeps a user's subscriptions, works out when each is billed next, reminds
the user over the web and Telegram, and lets them add subscriptions by writing to
a WeChat bot. This directory holds TLA+ models of the parts of it that change
state, TLC configurations that check them on small instances, and theorems about
them that TLAPS has checked for every value of the constants.

Paths below are relative to the root of the repository. `server` stands for
`server/src`, `gateway` for `im-channel-gateway/src`.

Contents: [1 The system](#1-the-system) ·
[2 Modules](#2-the-modules-and-the-code) ·
[3 Runs](#3-what-the-runs-check) ·
[4 Fairness](#4-fairness) ·
[5 Proofs](#5-what-is-proved) ·
[6 Disagreements](#6-where-the-code-and-its-documents-disagree) ·
[7 Not modelled](#7-what-is-not-modelled) ·
[8 Plan](#8-plan)

## 1 The system

Three programs share one PostgreSQL database and one internal HTTP interface:

    web client --HTTP--> API ------ PostgreSQL ------ worker --HTTPS--> Telegram,
                          ^                                             rates
                          | /process (service token)
                       gateway --long poll--> iLink (WeChat)

### 1.1 Components

**Billing calendar** (`server/subscriptions/schedule.rs`, and `advance` and
`anchored_month` in `server/worker.rs`). No state of its own: from a start, a
cadence and today it computes the dates paid so far and the next one. *Hard:* the
API and the worker each have a date function, and the anchor has to survive
months too short for it. *Correct when* the dates that come out of the two, one
after the other, are those the start alone determines, and nothing is refused
that the calendar still holds.

**Subscriptions API** (`server/subscriptions.rs`, `server/routes.rs`). Keeps
`subscriptions`, `bills`, `reminder_policies`. Operations: create, update
(re-plans, and reconciles the automatic bills with the new plan), status change,
archive, change of a bill's status. Each is a transaction that locks the
subscription's row. *Hard:* edits of start and cadence after periods were billed;
`now()` is the time the transaction began, which may be before midnight when the
lock is granted after it. *Correct when* no period of the plan before the next
date lacks a bill, no automatic bill lies off the plan, and what the user decided
about a bill survives.

**Renewal and reminder worker** (`server/worker.rs:6-80`). Keeps
`notifications` and `notification_deliveries`; each minute one transaction
selects what to remind of and what to renew (`FOR UPDATE SKIP LOCKED`), inserts
bills and notifications, and advances the subscriptions. *Hard:* other workers
and requests in between, failing transactions, limits per cycle, two clocks (the
database's and the user's). *Correct when* it acts only on rows that still are
what it read, and every due subscription is billed in the end.

**Notification delivery** (`server/worker.rs:82-136`). Sends what is pending
over Telegram, records success or a back-off. No lock outlives a statement.
*Hard:* a message that arrives although the worker dies or reads an error.
*Correct when* nothing is recorded as sent that has not arrived, and everything
arrives in the end.

**Exchange rates** (`server/exchange_rates.rs`). Keeps snapshots of rates and the
converted amounts on the bills. Fetches the latest rates, then back-fills five
dates per cycle within thirty seconds. *Hard:* rates that are published during
the day, dates that can never be converted, two workers with different
snapshots. *Correct when* a bill is converted once, with a rate of its day or
before, and in the end.

**WeChat conversation** (`server/wechat.rs`). Keeps bindings, codes, QR sessions,
drafts, the record of every message, and rate limits. `process` takes the
sender's advisory lock and the user's row, may wait for the model, and writes
everything in one transaction. *Hard:* messages delivered twice or late, drafts
that are overwritten or expire while the model is asked, a binding that changes
between two reads. *Correct when* a subscription is added at most once, only
after a preview and, if there is one like it, after a warning, and only for the
user the sender is bound to.

**WeChat gateway runner** (`gateway/platforms/wechat/adapter.rs`, `channel.rs`,
the cursor in `registry.rs`, `gateway/pipeline.rs`, `gateway/agent/http_sse`).
One task per account polls iLink from a cursor, passes each message to `process`,
sends the reply, retries until both succeed, and stores the cursor after the
batch. *Hard:* the process dies between any two of these; a new login starts
another runner while the first is busy. *Correct when* no message is skipped, the
sender learns each result, and a confirmation adds what the sender was shown.

**Accounts and QR logins** (`gateway/admin_api.rs`, `wechat/registry.rs`,
`wechat/channel.rs`). Keeps the registry of accounts in memory and in a file, a
token file per account, a map of runners, and the QR sessions. Operations: start a
session, ask for its status (which registers an account once iLink confirms the
scan), remove an account, start the channel, prune the runners of disabled
accounts; a runner that learns from a message which bot it serves merges its
account into one that serves that bot already. *Hard:* five kinds of task, of which
only the registrations exclude each other; three files written one after the other;
requests whose client goes away. *Correct when* a scan makes one account, what was
answered survives a restart, and every active account is served.

**Queue and Codex back end** (`gateway/queue.rs`, `agent/codex_app_server`). Keeps
two lanes of messages per chat, the thread each chat is bound to (in memory and in a
file), and the server's requests that wait for a person. A prompt runs as a turn of
the chat's thread; `/approve`, `/deny` and `/answer` overtake it in a lane of their
own. *Hard:* a response may come late, from another chat, or not fit; a binding may
name a thread that the server has lost; a worker goes on when its stream is dropped.
*Correct when* a response reaches only a turn of its own chat, a prompt runs once,
the chat is bound as it was told, and nobody waits for ever.

**Streaming pipeline** (`gateway/pipeline.rs`, `pipeline/streaming.rs`, `text.rs`,
the sinks of `wechat` and `telegram`, the CLI and echo back ends). Turns the events
of one reply into messages: placeholders, edits, buffers, pieces. No state outlives
the reply. *Hard:* texts that are announced or not, repeated, or cut at a limit, and
every call of the chat may fail. *Correct when* the user reads what the agent said,
once, in order, or the reply ends in an error.

**The clients** (`src/app`, `src-tauri`) and the rest: see section 7.

### 1.2 How they interact

| from | to | through | what is hard about it |
|---|---|---|---|
| API | worker | rows of `subscriptions`, `bills` | row locks, and dates computed on each side |
| worker | API | drafts and codes it deletes | a draft goes while `process` waits for the model |
| renewal | delivery | `notification_deliveries` | the same loop, but no common transaction |
| renewal | rates | bills without a conversion | bills come and go while rates are fetched |
| gateway | API | `process`, one call per message | lost answers, retries, rate limit before the record |
| iLink | gateway | a cursor the gateway stores | everything since the cursor comes again |
| QR logins | runners | the registry, and the map of runners | a login stops a runner and does not wait for it |
| chat | agent | two lanes, one lock for all of them | a full lane holds up every chat; a turn waits for the other lane |
| agent | app-server | one connection per turn, thread ids in a file | threads, turns and requests outlive what names them |
| agent | chat | a stream of events | each event is several calls, each of which may fail |

The hazards, each at its line and with the properties that would catch it, are in
`PROJECT.json` under `hazards`; a hazard that no property covers says why.

## 2 The modules and the code

    Calendar <-- Schedule <-- ScheduleProofs, MCSchedule
        ^
        +------- MCRenewal --> Renewal <-- RenewalProofs
                                      CycleTail <-- CycleTailProofs, MCCycleTail
                                     WechatFlow <-- WechatFlowProofs, MCWechatFlow
                 WechatPromise <~~ WechatRunner <-- WechatRunnerProofs, MCWechatRunner
                                 WechatAccounts <-- WechatAccountsProofs, MCWechatAccounts
                                   CodexSession <-- CodexSessionProofs, MCCodexSession
                                    ReplyStream <-- ReplyStreamProofs, MCReplyStream

An `MC` module gives the constants their values; `<~~` is an implementation of the
module on its left. `map` in `PROJECT.json` names for every definition the lines it
stands for; `WechatPromise` is a promise and stands for none.

### Calendar, Schedule

`Calendar` has dates as natural numbers over any sequence of month lengths; a
month and a day of it are what an anchor needs. `NextDate` translates `next_date`
(the API) and `advance` (the worker) with their clamping. `Schedule` is one plan:
`PushPaidDate` is a round of `billing_plan`'s loop, `ReturnPlan` its end (or the
refusal of a date past the calendar), `WorkerRenews` the worker that takes over
with what is stored, `DayPasses` the clock.

### Renewal

`subs` and `bills` are tables, `reminded` and `noticed` the keys of the two kinds
of `notifications` a cycle inserts; `worker[w]` is what
worker `w` has read in its open transaction, hence the rows it has locked;
`request[c]` is a request that has begun (its `now()` is fixed) and waits for its
row. `ScanReminders` and `ScanRenewals` are the two queries, `CommitCycle` all
that is written and the commit, `AbortCycle` a rollback. `CommitCreate`,
`CommitUpdate`, `SetStatus`, `Archive`, `UpdateBill` are the requests: the last
three are single statements and need no open request. A request that must wait
for a lock is one whose commit is not enabled. `now` counts ticks; a day has
`TicksPerDay`, and a time zone shifts a user's date by some ticks.

`DateAfter` is a constant: Renewal holds for every calendar in which a period
moves forward and keeps the order of dates (`DateAfterAssumption`). TLC evaluates
that for the toy calendar, and `DatesMoveForward` proves it of the program's own date
arithmetic (section 5).

### CycleTail

The part of a cycle after the transaction of Renewal. A worker goes through `pc`:
`cycle` (selects deliveries), `sending` and `recording` for each, then `syncing`,
`listing` (selects dates), `fetching` and `applying` for each. Nothing is locked between
two statements, so `Crash` and the other workers may come anywhere; `arrived` is what is in the user's chat, which the
program cannot see. `FetchHangs` is the thirty-second limit that drops the future.
A rate is a date: `Out` are the trading days whose rate is out, today's once it is
published. The right answer, `IsRateFor`, is the last of them that is not after the
date asked for; but the provider may answer with any date, a wrong one counting as a
failure. `TooLate` is the check of that answer (`exchange_rates.rs:105-107`): a date
after the one asked for is an error that ends the whole back-fill, not that date only.
`FetchFails` is a request that fails, which passes its date over; `BackfillDone` is
also an `apply_history` that fails, which ends the back-fill.

### WechatFlow

`run[r]` is a call of `process`: `Receive` takes the sender's lock and reads
binding and record, `Rollback` is any error, and there is an action for every way a call can
end: `BindByCode`, `Upcoming`, `Cancel`, `ConfirmRefused`,
`ConfirmWarns`, `ConfirmCreates`, `WriteDraft`, `Multiple`; `AskModel` is the wait
before a draft is written. `SenderFree` and `UserFree` are the locks. Web requests
(`BindingCode`, `Qrcode`, `QrcodeStatus`, `Unbind`, `CreateSubscription`), expiry
and the worker's clean-up are actions of the environment. Messages are named by
ids: an id that is received again has the same content, and a reply records the
draft's stamp so that a property can say which draft was shown.

### WechatRunner

`inbox` is what iLink keeps, `file` the cursor on disk, `runner[r]` a task: it
`poll`s, goes through a `batch`, holds a `reply`. `SaveCursor` ends the batch;
`Fail` and `DeliverUnsure` are a call or a reply that fails, or whose answer is
lost; `Crash` is the gateway's process; `StartRunner` is both the restart and a new
login, which asks the present runner to stop (`stop`) and does not wait for it.
`process` is here what a runner can tell of it: it records a reply, or refuses
(`TooMany`, `Unavailable`, `RefuseImage`) and records nothing. The configuration is
the one deployed, `docker/wechat.toml`: images in the text, no streaming, one
account. `meant`, `shown`, `told`, `excused`, `handled` and `overlap` are history
variables: what the sender has seen and what came of each message.

`WechatPromise` says what the sender may rely on, with no cursors, runners, calls or
failures: a message is acted on once at most (`Act`), in its turn, and finished with
once its sender was told the recorded result (`Tell`) or asked to try again
(`Refuse`). `KeepsPromise` maps `log` to its `record`, the confirmations in `added` to
`created`, and the history variables to the rest.

### WechatAccounts

`mem` and `file` are the registry in memory and on disk, `token` the token files,
`slot` the channel's map of runners, `session` and `scan` a QR session and what iLink
says about its code. `job["login"]` is the registration under
`wechat_registration_lock` and `job["boot"]` the start of the channel; both go
through `Spawn` and `PutRunner`, which is `start_runner` on the two sides of its
await. `AskStatus` and `TakeLock` are a status request before and under the lock
with the second look at the session; `SaveToken`, `Insert`, `StopOld`, `NoteAccount`
are `register_and_start`, one action for each file or lock. `RemoveSlot` and
`DisableRemoved` are a removal, `PruneList` and `PruneApply` a pruning, `MergeToken`,
`Retire`, `LearnBot` and `NameBot` what `upsert_bot_user_id` does for a message. The
pruning that comes round every minute starts when the accounts are started; a request
that lists the accounts (another of `Pruners`) prunes at any time, also while that one
does.
`Load` is the start with the migration of an earlier version's token, `End` the end
of the process between any two steps, also while a token file is written.
`DropRequest` is a client that goes away. `Insert` may fail to write the registry;
`Disable` and `NameBot` are modelled with a write that succeeds.

`First` is the account a look-up in a hash table finds first: the first in `order`, in
which the table is walked. `Load` builds a table and `Insert` may make it grow; either
may leave any order of `Orders`. `born`, `promised`, `asked` and `gone` are history;
`mishaps` records, for each account, what no later step makes up for, so that a
property can name exactly the exceptions it has. One of them, "reordered", is needed:
account 1 of a bot finds account 2 first and gives it its token; a login inserts an
account, the table grows, and account 2 now finds account 1 first and gives the token
back; both then disable themselves (`registry.rs:264-272`), and the bot has no account.

### CodexSession

`lane` and `busy` are the queue: `Post` and `Enqueue` are `enqueue` before and after
it gets room (it holds the lock of all lanes in between), `Dequeue` a consumer.
`job[m]` is how far message `m` is; for a prompt this is `run_prompt_stream` and its
worker: `BeginPrompt`, `StartTurn` on the bound thread, `CreateThread` on a new one,
`EndTurn`, `Deadline`, `FailCall`, `SaveBinding`. `Recover` is the retry on a new
thread, `New`, `ListThreads`, `ResumeToBind` the commands. `Ask` is a request of the
server, `TakeRequest` and `Respond` the two halves of `cmd_pending_response`, between
which the request is nobody's. `DropStream` leaves a worker alone, `LoseThread` is
the server, `Restart` the gateway's process. `told` is history: the binding the chat
was last told of.

### ReplyStream

One reply: the steps of the pipeline follow each other in one task, so an action is
one event taken or one call of the chat. `Blocked` is `check_blocked_with_flags` for
every kind of sender; a blocked one gets the refusal, and no back end is asked. A back
end yields events. The three branches of `sse_json_stream` are `HttpAnnounces` and
`HttpCompletes` (a message in progress, completed or failed), `HttpStreams` (a delta)
and `HttpSpeaks` (the response). A delta is an increment: a message may have any number
of them, and nothing makes them agree with the text it is completed with. A completed
message has a text, or a text block that is empty, or no content (`Messages`); several
blocks of one message are one text here. The other events are `CodexAsks`, `CliPrints`,
`Echoes` and so on. `TakeAnnounced` to `TakeError` are
`process_with_sink` and `process_native` for each kind of event, `outbox` the calls
the handler still has to make, `SendWeChat`, `SendTelegram`, `Place` and `Change` those
calls, which may fail. `SplitChars`, `FullChunks` and `SplitBytes` are
`split_text_chars`, `take_full_chunks` and `split_text`. A text is a sequence of
characters, among them a paragraph break, the end of a sentence, and characters of
three bytes; prefix, placeholder and fixed answers are characters of their own, so how
the question of a server request is worded is not modelled.

## 3 What the runs check

| run | question | bounds |
|---|---|---|
| `schedule` | are the dates of loop and worker those of the start? | 16 Gregorian months with 29 February 2024; 5 starts, 5 days of saving, 7 cadences |
| `renewal_safety` | can workers, a request and midnight together lose, double or misplace a bill? | 1 subscription, 2 workers, 1 request, 3 edits, 2 ticks a day, 2 time zones |
| `renewal_progress` | is everything billed and reminded in the end? | 2 subscriptions, 1 worker, two reminders and one renewal a cycle, 3 edits |
| `on_day_reminder` | is a reminder created once its date is reached? (**violated**) | 1 user ahead of UTC by one tick of three |
| `wechat_drafts` | is anything added twice, unseen or unwarned? | 1 sender, 4 messages in any order any number of times, 2 drafts |
| `wechat_binding` | can a message act for a user it is not bound to? | 2 senders, 2 calls at once, 2 codes, 1 unbinding |
| `cycle_tail` | is delivery honest, conversion final, and both done in the end? | 2 deliveries and one sent a cycle, 3 bills of three days, two dates a cycle, one date that can never be converted, 1 failure |
| `wechat_runner` | is a message skipped, its result untold, the wrong thing added? | 2 runners, 2 messages, 1 call a minute, 2 starts, 1 failure |
| `preview_confirmed` | does a confirmation add the preview it answers? (**violated**) | 1 runner, 3 messages, 2 starts, no failure |
| `wechat_accounts` | do logins, removals, merges and ends of the process leave every account whole and served? | 1 QR session polled twice at once, 1 earlier account, 1 bot, 3 ids, 2 runners, the pruning of every minute, 1 end, removal or failure |
| `codex_session` | does a response reach its turn, a prompt run once, a chat stay bound as told, and everything get on? | 2 chats, 3 messages, 2 threads, 1 request, lanes of one, 1 failure, 1 restart |
| `reply_stream` | does the user read what the agent said? | every back end on every way to the chat; 6 texts and 2 deltas around limits of 5 characters and 6 bytes, empty text blocks; 5 events, 2 failing calls |

### The properties

*Schedule.* `DatesFollowTheAnchor`: the k-th billed date is the one `KthDate`
computes from the start without the dates between, whoever billed it.
`BilledWhenDue`: nothing is billed before its day, and once the worker has caught
up every date that has come is billed. `RefusedOnlyAtTheEnd`: a plan is refused only when it has no
date after today in the calendar. `CatchesUp`: the next date gets ahead of today, in the end.

*Renewal.* `ReadsStayTrue`, `WorkerActsOnCurrentRow`: what the locks are for, from
what a worker has read to what a commit acts on.
`NoMissedPeriod`: every date of the plan before the next billing date has a bill.
`AutomaticBillsOnPlan`: an automatic bill is on the *current* plan and before the
next date, through every edit. `ArchivedIsFinal`, `UserBillsKept`: action
properties. `EventuallyBilled`: what is due is billed in the end. `EventuallyReminded`:
once a reminder is due and the user leaves the subscription as it is, the reminder is
created; a renewal that moves the subscription on without it violates this, and so does
a query that never comes to its row. The one excuse is a date on which no cycle
committed. It is stated for users whose date is the database's (`on_day_reminder` has
the others) and from when the user is done, since an edit between the two queries of a
cycle may still make a subscription due for the second that the first did not see.

*CycleTail.* `SentHasArrived`: what is recorded as sent is in the chat.
`RateNotAfterBill`: whatever the provider answers, no bill is converted with a rate of a
later day. `ConvertedOnce` (an action property): a conversion is final.
`EventuallyDelivered`; `EventuallyConverted`: again and again, nothing that can be
converted is left.

*WechatFlow.* `AddedOnce`: a message adds one subscription at most, and so does
a draft. `PreviewedFirst`, `WarnedFirst`: before a draft
is added there is a record of a preview of it, and of a warning if the subscription
existed already. `AddedForTheBoundUser`: the step that adds finds the sender bound
to that user at that moment. `BoundByOwnRequest`: a binding comes
from a request made since the last unbinding.

*WechatRunner.* `NothingSkipped`: no cursor is past a message no runner has finished
with. `KeepsPromise`: the runner implements `WechatPromise` (section 2).
`AddsWhatWasShownOrRefused`, `EventuallyHandled`, and, violated,
`ConfirmsWhatWasSeen` (section 6).

*WechatAccounts.* `ActiveHasToken`: wherever the process ends, what is active on disk
can be served by the next start. `OneAccountPerScan`: one scan never leaves two
active accounts. `AnswersSurvive`: an account the API has named is on disk, one it
has removed is never active there again. `MergedIsServed`: the bot of a merged
account is served by another. `ActiveIsServed`: when no task is about to start one,
an active account has a runner that goes on. `DisabledFallSilent` (liveness): the runner a race has
left to a disabled account stops. Each names the mishaps it excepts.

*CodexSession.* `ResponseReachesOwnTurn`: whichever id it names and however late it
comes. `PendingIsAwaited`: what is pending belongs to a turn that waits for it, so
that a bare `/approve` means the last question. `RunsOnce`: a prompt is not run again
because its turn failed. `BindingAsTold`: between two messages a chat is bound as it
was told last. `EventuallyHandled` (liveness): a full lane, a turn that asks and a
person who does not answer hold the others up until the deadline at most.

*ReplyStream.* `WeChatSaysItOnce`: a reply without an error is, message after
message, the prefix once and what the agent said, each text once and in order.
`TelegramKeepsItAll`: no text is lost among placeholders and edits; with streaming the
question of a waiting turn can be read. `FitsTheChat`: no message is too long for its
platform, and what WeChat's streaming sink sends is never empty (without streaming an
empty message does occur, section 6).

The type invariant `TypeOK` is proved of Schedule, Renewal, WechatFlow, WechatRunner,
CodexSession, WechatAccounts and ReplyStream, and of CycleTail as far as its proofs need
it (`Shape`); no run spends its time on it.

### Why the bounds are enough

*Schedule* has every way a month end can be clamped (28, 29, 30, 31 from 31), both
kinds of February, every unit, and days of saving in, before and after a clamped
month. The calendar ends, so that run does not check for deadlock.

*Renewal, safety.* What can go wrong goes wrong on one row: rows interact only by
the limits, and those matter for progress. Two workers are enough for a race for a
row, one open request for a wait over midnight; three edits make a plan, change
it, and change it back. The toy months (3, 2 and 3 days) clamp an anchor as
February does, with a fraction of the states. Workers are symmetric and
interchangeable in every formula, and the run has no liveness property. What the
bounds cannot show the proofs do.

*Renewal, progress.* Two subscriptions, one of them two periods behind, and one
renewal a cycle are the least with competition for a cycle. The reminders are two a
cycle, as many as there can be rows: this limit is reached and never exceeded, because
with more rows than its limit the property does not hold (with `ReminderLimit = 1` TLC
finds the starvation of section 6).

*CycleTail.* Two deliveries where a cycle sends one. Three dates where a cycle takes
two; the first is outside the provider's history (and its bill's currency is not
quoted), so that it keeps one of the two places for good; the second gets its rate in
the course of the day, the third has none of its own. With one place (`DateLimit = 1`) TLC finds
`EventuallyConverted` violated. The number of workers is 1 in the run; the safety
properties are proved for any.

*WechatFlow.* A draft and the one that overwrites it need two drafts; draft,
repetition, confirmation and its repetition need four messages. A race of bindings
needs two senders, two calls and a second code.

*WechatRunner.* Two runners overlap, one message is handed over again behind
another, a limit of one call is reached by the first retry. Three messages (the
least for the counterexample of `preview_confirmed`) are beyond the run with two
runners and within that with one; the proofs are for any number.

*WechatAccounts.* Two requests poll one session at once; two accounts of one bot, the
one of the earlier version and the new one, are the least that merge. The migrated
id lies between the two others, so that the look-up finds the new account before it
in some behaviours and after it in others. Two runners overlap on one account or
serve one each. One mishap at a time: an end of the process, a removal, a request
cut off or a failed write. The table is walked in the order of the ids (`ById`); that
it may be any other, or change, is in the proofs, which cover the five safety
properties for any number of everything. So are the requests that list accounts and
prune while the pruning of every minute does. `DisabledFallSilent` is left to the run.

*CodexSession.* The first chat prompts, binds, lists, asks and answers; the second
only responds, with the id of a request that is not its own. Three messages are a
prompt that asks, its answer, and one between or after them. A lane of one is full
with the second message. One thread is the gateway's and one another client's, and
each may be lost.

*ReplyStream.* The texts are one of nothing but a break, one that fits, one cut after a sentence, one with a
paragraph break, one of wide characters that Telegram can cut and one that it
cannot. One delta is too long for an edit and is shown behind the ellipsis; the other makes
it a text that is cut inside a character. Five events are an announced message with two deltas and
its end, and an unannounced one that repeats or contradicts it; two failing calls are a
placeholder and an edit of the same message.

Where runs say `CHECK_DEADLOCK FALSE`, the inputs are used up in the end and then
the system may stop. Each bound is a constant: `LastTick`, `MaxEdits`,
`ReminderLimit`, `RenewalLimit`; `LastDay`, `SendLimit`, `DateLimit`,
`MaxFailures`; `MaxIssued`, `MaxDrafts`, `MaxUnbinds`; `MaxMessages`, `MaxStarts`,
`Limit`. The limits named `...Limit` are the program's own (300, 100, 50, 5, 20),
made small so that they are reached; all but `ReminderLimit` are also exceeded.
In the gateway's modules, `MaxAccounts`, `Capacity`, `MaxChars`, `MaxBytes`,
`MaxMessage` and `MaxOutput` are the program's; `MaxEnds`, `MaxTroubles` and
`MaxEvents` are bounds.

## 4 Fairness

* *Schedule*: the loop goes on, the worker runs each minute, days pass.
* *Renewal*: the worker's loop begins a cycle each minute (weak fairness of
  `ScanReminders`). A transaction may fail, a row may be locked, but not for ever:
  strong fairness of `ScanRenewals` and `CommitCycle`. The loop logs the error of a
  cycle and begins another a minute later, which is the code's part; that the
  database commits one of them in the end is the environment's. An open request commits or is
  dropped (weak).
* *CycleTail*: the worker goes on (`Runs(w)`, also after a crash: the container
  restarts), and a back-off passes (`RetryDue(d)`). Failures are bounded by
  `MaxFailures`, so fairness need not exclude them.
* *WechatRunner*: a runner goes on, and when none is alive one is started. The
  second is `restart: unless-stopped` of `compose.yml` and the start of all
  accounts at the gateway's start; a new login while one is alive is not fair.
* *WechatAccounts*: as long as some task can go on, one of them does
  (`WF_vars(Tasks)`), and the pruning comes round every minute
  (`WF_vars(Prune("minute"))`). Nothing is assumed of people, of requests that list
  accounts, of iLink and of what ends the process.
* *CodexSession*: consumers and workers run, and time passes: a message that is
  handled gets on, if only to its deadline (weak, per message), and a chat whose
  consumer is free goes on to its next message (weak, per chat). Nothing is
  assumed of the server or of the person who is asked.
* *WechatFlow* and *ReplyStream* have none: their properties are safety.

## 5 What is proved

TLAPS has checked every leaf of these. They hold for all values of the constants
that satisfy the assumptions named in the modules, which TLC evaluates for those of
the runs.

**ScheduleProofs** (assumes `MonthLengthsAssumption`: a calendar has a month, and every
month a day; `ScheduleAssumption`: cadences have the units and intervals the API
accepts, starts and days of saving are dates). `FirstDay` adds up the months
recursively, so the first lemmas are about recursion: `Induction` (a set of numbers with
0 and every successor is all of them, from the well-foundedness of `<`) gives
`FirstDayUnfolds`, that the recursive definition has the values it states, and then
`FirstDaysIncrease`; `MonthExists` and `MonthIsUnique` make month and day of a date
well defined. From these, `DatesMoveForward`: the next date of a plan is later and
keeps the order of dates, which is what Renewal assumes; and `AdvanceIsNextDate`: the
worker's function is the API's. `NextOfKth` relates a step of the program to the
reference: the date after the k-th is the (k+1)-th, which the start alone determines,
however many short months lie between. The invariant `IInv` adds to the properties that
the next date is the reference's at the number of dates billed, or the end of the
calendar (`DateIsNext`), that what was billed had come, and that a one-off is billed
once. From it `TypeCorrect`, `DatesFollow`, `Billing`, `Refusal`.

**RenewalProofs** (assumes `RenewalAssumption`: the constants have their types;
`DateAfterAssumption`: a period goes forward and keeps the order of dates, as
`DatesMoveForward` proves of the program's calendar;
`NullAssumption`: the null values are not rows, bills or requests).
`Inductive` is `Spec => []IInv`, where `IInv` is `TypeOK`, `RowsHeldOnce`,
`ReadsStayTrue`, `NoMissedPeriod`, `AutomaticBillsOnPlan` and two more:
`WorkerState` (what a worker may hold in each phase, and that the rows it renews
were active and due on a date when read), without which `ReadsStayTrue` does not
survive the step from the first query to the second; and `PlanState` (a subscription with a start has its anchor
from there, and its next date is on its plan or past the last date), without which advancing it by a period would not stay on the plan. There is a lemma
per action. From it: `TypeCorrect`, `LocksHold`, `NoPeriodIsMissed`,
`AutomaticBillsAreOnPlan`, and the action properties `ArchivedStays`,
`UserBillsAreKept`, `WorkersActOnCurrentRows`. The lemmas about plans, among them
`PlannedNextIsFirst` (what `billing_plan` returns is the first date of the plan
after today), carry the argument that an update which re-plans leaves no gap: the
plan is the least set closed under the period, and a date between two neighbours of
it would contradict the order `DateAfterAssumption` keeps.

**CycleTailProofs** (assumes `TailAssumption`). `TailInductive` is the inductive
invariant: the rows have their types, what is recorded as sent has arrived, no rate
is later than its bill, *and* the same of what each worker is about to write
(`AboutToRecord`, `AboutToApply`), since between the reading and the writing of a
worker nothing is locked. Nothing is assumed of the dates the provider answers with:
`AboutToApply` rests on the check `TooLate`, after which a worker that goes on has a
date not after the one it asked for. From it `SentArrived`, `NoLaterRate`,
`ConversionIsFinal`, for any number of workers.

**WechatFlowProofs** (assumes `FlowAssumption`: what the web form adds is among the
contents of a draft, the bounds are numbers, and the null value is no row). `CallInv`:
an open call of `process` has a message of its sender, whose lock it holds. `IdInv`:
the id of a binding says whose it is, and while the model reads, the binding stays and
the message has no record; with it what a call has read before its waits is still true
after them. `AskedInv`: codes, sessions and bindings were asked for since their user
last unbound. `StampInv`: a draft that may be added is the only one with its stamp, and
nothing was added with it. `ShownInv`: a draft that is ready has its preview among the
recorded replies to its sender, and one that was warned of its warning. `LogInv`: the
message that added a subscription has its record. The frames `LogGrows`,
`BindingsStay` and `DraftsStay` cover the actions that write no draft. From it
`NothingIsAddedTwice`, `AdditionsWerePreviewed`, `DuplicatesWereWarned`,
`BindingsWereAskedFor`, and the action property `AddsForItsUser`.

**WechatRunnerProofs** (assumes `RunnerAssumption`), in three layers, each an
inductive invariant relative to those below. `Placed`: types, and where each cursor
and runner stands in the inbox; from it `TypeCorrect`, `NothingIsSkipped`. `Known`:
the reply a runner holds is the recorded one or a refusal, and every message that
is finished with was told its record, refused or dropped; from it `ResultsAreTold`.
`Current`: without an overlap of runners, messages are recorded in their order, the
draft is that of the last description recorded, and the preview last shown is that
draft's, refused messages apart; from it `AddsWhatWasShown`. `PromiseIsKept` is the
refinement: under `Placed` and `Known` every step of the runner is a step of
`WechatPromise` or leaves its variables alone, one lemma per action of it (`ActsOnce`,
`Refuses`, `Tells`).

**CodexSessionProofs** (assumes `SessionAssumption`). The inductive invariant has a
part for each relation between a message and what it left elsewhere: `LaneInv` (a
message is in one lane at most, the one of its chat and priority, and is "queued"),
`MsgInv`, `StartInv` (a message that may still start a turn has started none, or its
thread was lost before the turn began), `RequestInv` (what a request names is a turn,
and a turn waits for one request), `TakenInv` (a response that has taken a request is
of the same chat), `BindingInv` (in every phase of the ordinary lane, memory, file
and what the chat was told agree, up to the step that is going on). Four frame
predicates, `Works`, `StartsNothing`, `AsksNothing`, `BindsNothing`, say what an action
leaves alone, so that most actions need one lemma. From it
`ResponsesReachTheirTurn`, `RequestsAreAwaited`, `PromptsRunOnce`,
`BindingsAreAsTold`.

**WechatAccountsProofs** (assumes `AccountsAssumption`: every order of the table puts the
accounts in different places, and the null value is no id, token, bot or runner), in
four layers, each an inductive invariant relative to those below.

* `IInv`. `TokenInv`: an active account has its token, on disk and in what is about to
  be written; `FileInv`: file and memory differ only by what is about to be saved;
  `BornInv`, `SessionInv`, `ScanInv`: the account a scan has made, the session and the
  waiting requests agree, so that the second look under the lock finds it; `GoneInv`:
  what was removed stays disabled in memory and on disk. `Calm` and `Rewrites` are the
  frames of the actions that leave the registry alone and that change one entry. From
  it `ActiveAccountsHaveTokens`, `ScansMakeOneAccount`, `AnswersOutliveTheProcess`.
* `BotInv`: the names in the registry, the token files, the login under way and the
  runners are all of the bot an account was created for, also after tokens were moved
  by merges.
* `SInv`, for `ActiveAccountsAreServed`. `HeldInv`: a runner in the map, or on its way
  there, belongs to one account only and polls, unless the account was disabled; so a
  task that finds a place taken may rely on it. `ServedInv`: an account without such a
  runner is due, that is, the start of the channel has not come to it yet or the login
  is about to stop or start its runner. `MapStays` and `MapIsCleared` are the frames of
  the steps that leave the map alone and that take runners from it (a login, a
  removal, a pruning).
* `MInv`, for `MergedAccountsAreServed`. `KeptInv`: a bot of which an account was merged
  away, or is going to be (its runner is between the token and the entry), has a
  *keeper*: an active account that comes first in the table, so that every look-up
  finds it, and that no runner is merging away. `KeeperStays`: an account that is
  inserted or named may come before the keeper and is the keeper then. `FileKept` says
  the same of the file, for the process that loads it. `OneRunner` is why an overlap of
  runners is excepted: one could name the account that the other is merging away.

**ReplyStreamProofs** (assumes `ReplyAssumption`: texts are sequences, the limits are
positive numbers, a piece fits a message, and the dots of the ellipsis take one byte).
Texts are cut by recursive functions and joined by folds, so the module begins with what
an induction over sets gives: `FlattenIs` and `FlattenConcat` (the joined text of a
sequence is the one text with the pieces in a row), `CutsExist` (a function that cuts
from each position onwards has the values it states, for every place at which it may
cut), and from these `SplitCharsKeepsText`, `FullChunksKeepText` and
`SplitBytesKeepsText`: the pieces in a row are the text, each is within the limit, and
none of a text that is not empty is empty. `InkConcat` and `InkOfTrim` say what of a text can be read.
`TypeCorrect` has one lemma per group of actions. `FitInv`, for `MessagesFit`: the
messages fit, and so do the edits that still have to be made; a text that is shown to
its end is the one that `ShownFits` is about; what WeChat sends with streaming is not
empty, since that sink passes over a blank text. `SayInv`, for `WeChatSaysOnce`, is an
account of the reply: what can be read in the chat, then the calls to come, then the
buffer are together the prefix and the distinct texts said so far (`OnItsWay`); the sink
has seen exactly the texts said, and nothing is in it or on its way unless it has seen
one (`SeenOnce`), without which the whole reply at the end could be left out or sent in
addition; and nothing stays in the buffer of a reply that is over (`Flushed`).
`TelegramKeepsAll` rests on three invariants. `TelegramInv`: each text that is due is a
row of messages of the chat that no placeholder and no call to come names (`Holds`), or
a call to come brings it (`Kept`); that takes `Places`, by which the last edit of a
message is the only call and its message no placeholder any more, so that no later edit
or deletion reaches a text that arrived. `HeldIsRead` then finds the text in what can be
read. `PartsInv`: without streaming, until Codex asks, there are no parts, or
an empty one, or the last text; so what Telegram sends instead of the last text is that
text or has nothing that could be lost. `CodexInv`: Codex is answered by sends
alone, and a question that waits is spoken or to come; wherever it is cut, one of its
messages holds its character (`CharacterIsSomewhere`, `HeldQuestion`).

**Only model-checked.** All liveness (`EventuallyBilled`, `EventuallyReminded`,
`EventuallyDelivered`, `EventuallyConverted`, both `EventuallyHandled`,
`DisabledFallSilent`, `CatchesUp`): liveness under fairness is out of this prover's
reach. Every invariant of the runs that are expected to pass is proved.

## 6 Where the code and its documents disagree

Two of these are runs that TLC must find violated:

* **A reminder for the day itself can be skipped** (`on_day_reminder`). Reminders
  are selected by `current_date`, the database's (`server/worker.rs:17`),
  renewals by the user's date (line 49). For a user ahead of UTC the cycle after
  local midnight renews the subscription and moves its next date before the
  database's date arrives; a reminder with zero days before is never created.
  `docs/architecture.md:43-44` says that it is created once its date is reached.
  `QuietSpec` excludes requests while a cycle runs, so that the two clocks are all
  there is to blame.
* **A confirmation can add something else than the preview it answers**
  (`preview_confirmed`). A message that is refused leaves no record, and the
  cursor is stored after the whole batch. When the gateway dies in between, the
  message comes again after the preview of a later one was shown, becomes the draft,
  and the confirmation on its way adds it. `docs/wechat.md:64-65` says that what is
  previewed is created. `AddsWhatWasShownOrRefused` is what does hold, and is
  proved.

The others are described only:

* **Reminders beyond the limit may wait for ever.** The query for reminders
  (`server/worker.rs:17`) has a limit of 300 rows, no order, and selects rows again
  whose notification exists (the insert ignores them, lines 24-32). With more than 300
  rows of active subscriptions between reminder and next date, which 300 come is the
  database's choice, and it may be the same ones each minute until the date has passed.
  `docs/architecture.md:43-44` says that a notification is created once the date is
  reached. `EventuallyReminded` holds in its run because the limit is as large as the
  number of rows; with `ReminderLimit = 1` in `MCRenewalProgress.cfg` TLC finds it
  violated.
* **Bills nobody can convert stop all later ones.** The five earliest dates with an
  open bill are taken each cycle (`server/exchange_rates.rs:92`); those whose currency
  is not quoted, or from before the provider's history, keep their places.
  `docs/architecture.md:69-70` says that later cycles go on with the rest.
  `EventuallyConverted` holds because such dates leave a place free in its run; with
  `DateLimit = 1` in `MCCycleTail.cfg` TLC finds it violated. A date that the provider
  answers with a later day each time does the same to all dates behind it, since that
  error ends the back-fill (lines 105-107); in the run wrong answers are among the
  failures, of which there is one.
* **The rate of the day before, for good.** A bill of today is converted before
  today's rate is out, with the last one, and a complete conversion is not touched
  again (`server/exchange_rates.rs:92,105`). `docs/architecture.md:66-67` says that
  the day before stands in on days without trading.
* **A question of Codex that cannot be read until it is too late.** The turn waits
  for the answer (`gateway/agent/codex_app_server/client.rs:452-453`) while its
  question is an event of the stream (`mod.rs:518-521`). WeChat's sink buffers
  (`wechat/stream.rs:201-229,315-321`), and without streaming everything waits for
  the end. `TelegramKeepsItAll` says that streaming over Telegram shows it; on the other
  ways the turn ends at its deadline.
* **A reply that is empty and no error.** A reply without usable text is to be
  "(no response)", says the log line at `gateway/pipeline.rs:112`, or an error on WeChat;
  but the condition (line 106) wants no part either, and a message of HTTP whose text block
  is empty is a part (`http_sse/convert.rs:207-228`). Without streaming WeChat then
  sends an empty message (`wechat/adapter.rs:717-727`), and Telegram sends nothing and
  no notice. `FitsTheChat` leaves WeChat without streaming out for this reason.
* **A program outlives its time limit.** The comment at
  `gateway/agent/cli/runner.rs:13` has one program of a session at a time. At the
  limit the future and the lock are dropped (lines 105-116), which does not end the
  program: the next message starts a second one beside it.

## 7 What is not modelled

`PROJECT.json` lists every component with its status. In short:

* *Gateway accounts*: the login command of the terminal, a second process on the same
  registry file (`wechat/login.rs`); renaming and describing accounts; a removal or a
  merge that cannot write the registry; starting and supervising several channels
  (`manager.rs`).
* *Codex*: commands that read or rename; a connection that is never established
  (`client.rs:250` has no time limit, and the model lets every call end by the
  deadline); several requests of one turn at once.
* *Replies*: media, reasoning and tool events; several text blocks of one message
  (they are one text); the wording of a question; events whose bytes are cut in the
  middle of a character (`http_sse/sse.rs:20` decodes chunk by chunk); the text of a
  failure, which the streaming way does not show (`streaming.rs:106`); the filter
  over a program's output, and several programs at once.
* *Telegram channel*: polling, reconnects and the buffer for messages without text.
  Renuxa's deployment has this channel disabled.
* *Import* is create in a loop within a transaction. *Read-only routes*, *mark as
  read* and *icon search* change nothing, or one column.
* *Authentication and start-up, the parsing of the configuration, the desktop shell,
  scripts*: input and output, or no state between two calls. *Web client*: section 8.
* Within the modules: amounts, names and wording; rates other than by their date;
  the length of a back-off (it is "later"); connection pools; the rate limits in
  WechatFlow (they only refuse; WechatRunner has them, where a refusal matters).
* Reading committed data is taken from PostgreSQL: a statement sees what was
  committed when it began, and a statement that waited for a lock evaluates its
  condition again.

## 8 Plan

The order is that of importance to a user: first what is charged, then what is sent
and converted, then what WeChat adds.

1. `Calendar`, `Schedule`, `ScheduleProofs`, `Renewal`, `RenewalProofs`: done.
2. `CycleTail`, `CycleTailProofs`: done.
3. `WechatFlow`, `WechatFlowProofs`; `WechatRunner`, `WechatRunnerProofs`: done.
4. `WechatAccounts`, `WechatAccountsProofs`: done. A composition with WechatRunner at
   `Spawn` would replace its `StartRunner`.
5. `CodexSession`, `CodexSessionProofs`: done.
6. `ReplyStream`, `ReplyStreamProofs`: done for the back ends and chats there are. The login command and
   the buffer of Telegram's messages without text would be modules of their own.
7. `WechatPromise`, implemented by WechatRunner: done.
8. *Web client*: `billing.ts` against `Schedule`.
