------------------------------ MODULE CycleTail ------------------------------
(***************************************************************************)
(* What a worker does after the transaction of its cycle: it sends the     *)
(* Telegram notifications that wait, fetches the latest exchange rates and *)
(* converts bills with the rates of their days.                            *)
(*                                                                         *)
(* None of it holds a lock from one statement to the next: FOR UPDATE ends *)
(* with the SELECT, which runs without a transaction.  Several workers may *)
(* so do the same work, and each may stop after any statement.             *)
(***************************************************************************)
EXTENDS Integers, FiniteSets, FiniteSetsExt

CONSTANTS
  Workers,
  Deliveries,      \* numbered in the order of their creation
  Bills,
  DueDate(_),      \* the date of a bill
  Quoted(_),       \* whether the provider quotes both currencies of a bill
  Served,          \* the dates of which the provider has a history
  TradingDays,     \* the days that get a rate of their own
  Today0, LastDay, \* the first day, and the bound on the days that pass
  SendLimit,       \* deliveries per cycle: 50 in the code
  DateLimit,       \* dates per cycle: 5 in the code
  MaxFailures      \* bound on what fails, or is answered wrongly, where it
                   \* could have succeeded

ASSUME TailAssumption ==
  /\ Today0 \in Nat /\ LastDay \in Nat /\ Today0 <= LastDay
  /\ TradingDays \subseteq 1 .. LastDay
  /\ \A b \in Bills : DueDate(b) \in 1 .. LastDay
  /\ Deliveries \subseteq Nat /\ MaxFailures \in Nat

VARIABLES
  delivery,   \* notification_deliveries of the telegram channel
  arrived,    \* the deliveries that have reached the user's chat
  enabled,    \* telegram_enabled of the user
  bill,       \* bills: none yet, open (not converted), converted or deleted
  rate,       \* exchange_rate_date of the converted bills, 0 of the others
  cache,      \* the dates of the snapshots in exchange_rates
  today,      \* current_date
  published,  \* whether today's rate, if there is one, is out
  worker,     \* what each worker is doing
  failures    \* how many statements, requests and processes have failed

vars == <<delivery, arrived, enabled, bill, rate, cache, today, published, worker,
          failures>>

Dates == 0 .. LastDay

\* `todo` are the rows selected; they are worked on from the least.  `date` is
\* that of the snapshot fetched, `sent` the result of a request to Telegram,
\* `slow` says that a request for a rate ran into its timeout.
Start == [pc |-> "cycle", todo |-> {}, date |-> 0, sent |-> FALSE, slow |-> FALSE]

TypeOK ==
  /\ delivery \in [Deliveries -> {"none", "pending", "waiting", "sent"}]
  /\ arrived \subseteq Deliveries
  /\ enabled \in BOOLEAN /\ published \in BOOLEAN
  /\ bill \in [Bills -> {"none", "open", "converted", "deleted"}]
  /\ rate \in [Bills -> Dates]
  /\ \A b \in Bills : bill[b] = "converted" <=> rate[b] # 0
  /\ cache \subseteq Dates
  /\ today \in Today0 .. LastDay
  /\ failures \in 0 .. MaxFailures
  /\ worker \in [Workers ->
       [pc : {"cycle", "sending", "recording", "syncing", "listing", "fetching",
              "applying"},
        todo : SUBSET (Deliveries \cup Dates), date : Dates, sent : BOOLEAN,
        slow : BOOLEAN]]

Init ==
  /\ delivery = [d \in Deliveries |-> "none"]
  /\ arrived = {}
  /\ enabled \in BOOLEAN
  /\ bill = [b \in Bills |-> "none"]
  /\ rate = [b \in Bills |-> 0]
  /\ cache = {}
  /\ today = Today0
  /\ published = FALSE
  /\ worker = [w \in Workers |-> Start]
  /\ failures = 0

-----------------------------------------------------------------------------

\* The n least of the set.
First(S, n) == {x \in S : Cardinality({y \in S : y < x}) < n}

Current(w) == Min(worker[w].todo)

Rest(w) == worker[w].todo \ {Current(w)}

Goes(w, pc) == worker' = [worker EXCEPT ![w].pc = pc]

\* The trading days whose rate is out.
Out == {d \in TradingDays : d < today \/ (d = today /\ published)}

\* The right answer of the provider: the rates of the day or of the last day
\* before that has some.  An answer may have any other date as well.
IsRateFor(due, date) ==
  date \in Out /\ date <= due /\ \A d \in Out : d <= due => d <= date

Answerable(due) == due \in Served /\ \E date \in Out : date <= due

NothingSent == UNCHANGED <<delivery, arrived>>
NothingConverted == UNCHANGED <<bill, rate, cache>>
Outside == UNCHANGED <<enabled, today, published>>

\* A step that succeeds, and one that fails where it could have succeeded.
Succeeds == UNCHANGED failures
Fails == failures < MaxFailures /\ failures' = failures + 1

-----------------------------------------------------------------------------
(***************************************************************************)
(* The other transactions, Telegram's user, time and the provider.         *)
(***************************************************************************)

\* A reminder is created with its delivery.
Remind(d) ==
  /\ delivery[d] = "none"
  /\ delivery' = [delivery EXCEPT ![d] = "pending"]
  /\ UNCHANGED <<arrived, worker, failures>> /\ NothingConverted /\ Outside

\* next_attempt_at of a delivery that failed is reached.
RetryDue(d) ==
  /\ delivery[d] = "waiting"
  /\ delivery' = [delivery EXCEPT ![d] = "pending"]
  /\ UNCHANGED <<arrived, worker, failures>> /\ NothingConverted /\ Outside

SwitchTelegram ==
  /\ enabled' = ~enabled
  /\ UNCHANGED <<today, published, worker, failures>> /\ NothingSent /\ NothingConverted

\* A bill is entered, or leaves with a plan that is changed.
AddBill(b) ==
  /\ bill[b] = "none"
  /\ bill' = [bill EXCEPT ![b] = "open"]
  /\ UNCHANGED <<rate, cache, worker, failures>> /\ NothingSent /\ Outside

DropBill(b) ==
  /\ bill[b] \in {"open", "converted"}
  /\ bill' = [bill EXCEPT ![b] = "deleted"]
  /\ rate' = [rate EXCEPT ![b] = 0]
  /\ UNCHANGED <<cache, worker, failures>> /\ NothingSent /\ Outside

NextDay ==
  /\ today < LastDay
  /\ today' = today + 1
  /\ published' = FALSE
  /\ UNCHANGED <<enabled, worker, failures>> /\ NothingSent /\ NothingConverted

Publish ==
  /\ today \in TradingDays /\ ~published
  /\ published' = TRUE
  /\ UNCHANGED <<enabled, today, worker, failures>> /\ NothingSent /\ NothingConverted

-----------------------------------------------------------------------------
(***************************************************************************)
(* deliver_telegram.                                                       *)
(***************************************************************************)

SelectDeliveries(w) ==
  /\ worker[w].pc = "cycle"
  /\ LET ready == {d \in Deliveries : enabled /\ delivery[d] = "pending"}
     IN worker' = [worker EXCEPT ![w].pc = "sending",
                                 ![w].todo = First(ready, SendLimit)]
  /\ NothingSent /\ NothingConverted /\ Outside /\ Succeeds

\* Telegram takes the message and says so.
Send(w, d) ==
  /\ worker[w].pc = "sending" /\ worker[w].todo # {} /\ d = Current(w)
  /\ arrived' = arrived \cup {d}
  /\ worker' = [worker EXCEPT ![w].pc = "recording", ![w].sent = TRUE]
  /\ UNCHANGED delivery /\ NothingConverted /\ Outside /\ Succeeds

\* It does not, or its answer is lost.
SendFails(w) ==
  /\ worker[w].pc = "sending" /\ worker[w].todo # {}
  /\ \/ UNCHANGED arrived
     \/ arrived' = arrived \cup {Current(w)}
  /\ worker' = [worker EXCEPT ![w].pc = "recording", ![w].sent = FALSE]
  /\ UNCHANGED delivery /\ NothingConverted /\ Outside /\ Fails

\* Slip: an attempt counts as sent whatever Telegram said.
SentAnyway(status, sent) == "sent"

\* Slip: a failure is a status of its own, which no query selects.
GivenUp(status, sent) == IF sent THEN "sent" ELSE "failed"

\* The status after an attempt; a failure puts off the next one and leaves the
\* status of a delivery that another worker has sent.
AfterAttempt(status, sent) ==
  IF sent THEN "sent" ELSE IF status = "sent" THEN "sent" ELSE "waiting"

\* The result of the attempt is written; the error of that statement is
\* ignored.
RecordDelivery(w) ==
  /\ worker[w].pc = "recording"
  /\ \/ /\ delivery' = [delivery EXCEPT ![Current(w)] = AfterAttempt(@, worker[w].sent)]
        /\ Succeeds
     \/ UNCHANGED delivery /\ Fails
  /\ worker' = [worker EXCEPT ![w].pc = "sending", ![w].todo = Rest(w),
                              ![w].sent = FALSE]
  /\ UNCHANGED arrived /\ NothingConverted /\ Outside

\* No more rows; the end also of a SELECT that failed.
DeliveriesDone(w) ==
  /\ \/ worker[w].pc = "sending" /\ worker[w].todo = {} /\ Succeeds
     \/ worker[w].pc = "cycle" /\ Fails
  /\ Goes(w, "syncing")
  /\ NothingSent /\ NothingConverted /\ Outside

-----------------------------------------------------------------------------
(***************************************************************************)
(* sync and backfill.                                                      *)
(***************************************************************************)

\* A step that takes an answer; a wrong one counts as a failure.
Answered(right) == IF right THEN Succeeds ELSE Fails

\* Without a snapshot of today or later the latest is fetched and stored,
\* whatever its date.  An error leaves what is there.
Sync(w) ==
  /\ worker[w].pc = "syncing"
  /\ \/ UNCHANGED cache /\ Succeeds
     \/ /\ \A d \in cache : d < today
        /\ \E date \in 1 .. LastDay :
             Answered(IsRateFor(today, date)) /\ cache' = cache \cup {date}
  /\ Goes(w, "listing")
  /\ UNCHANGED <<bill, rate>> /\ NothingSent /\ Outside

\* The bills that are due and have no conversion.
Unconverted == {b \in Bills : bill[b] = "open" /\ DueDate(b) <= today}

SelectDates(w) ==
  /\ worker[w].pc = "listing"
  /\ worker' = [worker EXCEPT ![w].pc = "fetching",
       ![w].todo = First({DueDate(b) : b \in Unconverted}, DateLimit)]
  /\ NothingSent /\ NothingConverted /\ Outside /\ Succeeds

\* Slip: the date of an answer is not looked at.
NeverTooLate(due, date) == FALSE

\* An answer with rates of a later day than was asked for.
TooLate(due, date) == date > due

\* The provider answers: rates of a later day end backfill with an error, and
\* with it the work on the other dates.
Fetch(w, due) ==
  /\ worker[w].pc = "fetching" /\ worker[w].todo # {} /\ due = Current(w)
  /\ \E date \in 1 .. LastDay :
       /\ Answered(due \in Served /\ IsRateFor(due, date))
       /\ worker' = [worker EXCEPT ![w] =
            IF TooLate(due, date) THEN Start
              ELSE [@ EXCEPT !.pc = "applying", !.date = date]]
  /\ NothingSent /\ NothingConverted /\ Outside

\* Without a right answer the request always fails.
FetchFailed(w) == IF Answerable(Current(w)) THEN Fails ELSE Succeeds

\* Slip: a date that fails ends backfill.
FetchFailsForAll(w) ==
  /\ worker[w].pc = "fetching" /\ worker[w].todo # {} /\ FetchFailed(w)
  /\ worker' = [worker EXCEPT ![w] = Start]
  /\ NothingSent /\ NothingConverted /\ Outside

\* The date is passed over.
FetchFails(w) ==
  /\ worker[w].pc = "fetching" /\ worker[w].todo # {} /\ FetchFailed(w)
  /\ worker' = [worker EXCEPT ![w].todo = Rest(w)]
  /\ NothingSent /\ NothingConverted /\ Outside

\* A request that takes all of its 15 seconds; after two of them the 30
\* seconds of backfill are over.
FetchHangs(w) ==
  /\ worker[w].pc = "fetching" /\ worker[w].todo # {} /\ FetchFailed(w)
  /\ worker' = [worker EXCEPT ![w] =
       IF @.slow THEN Start ELSE [@ EXCEPT !.todo = Rest(w), !.slow = TRUE]]
  /\ NothingSent /\ NothingConverted /\ Outside

\* Slip: the rates of a day are used for everything up to it, converted or not.
EveryBill(due) == {b \in Bills : bill[b] \in {"open", "converted"} /\ DueDate(b) <= due}

\* The bills of the day that have no conversion yet.
BillsOf(due) == {b \in Bills : bill[b] = "open" /\ DueDate(b) = due}

\* apply_history: one transaction.  A bill without a quote stays as it is.
Apply(w, due) ==
  /\ worker[w].pc = "applying" /\ due = Current(w)
  /\ cache' = cache \cup {worker[w].date}
  /\ LET done == {b \in BillsOf(due) : Quoted(b)} IN
     /\ bill' = [b \in Bills |-> IF b \in done THEN "converted" ELSE bill[b]]
     /\ rate' = [b \in Bills |-> IF b \in done THEN worker[w].date ELSE rate[b]]
  /\ worker' = [worker EXCEPT ![w].pc = "fetching", ![w].todo = Rest(w),
                              ![w].date = 0]
  /\ NothingSent /\ Outside /\ Succeeds

\* No more dates; or a transaction that fails, which ends backfill.
BackfillDone(w) ==
  /\ \/ worker[w].pc = "fetching" /\ worker[w].todo = {} /\ Succeeds
     \/ worker[w].pc \in {"listing", "applying"} /\ Fails
  /\ worker' = [worker EXCEPT ![w] = Start]
  /\ NothingSent /\ NothingConverted /\ Outside

\* The process ends anywhere and is started again.
Crash(w) ==
  /\ worker[w] # Start
  /\ worker' = [worker EXCEPT ![w] = Start]
  /\ NothingSent /\ NothingConverted /\ Outside /\ Fails

-----------------------------------------------------------------------------

Runs(w) ==
  \/ SelectDeliveries(w) \/ SendFails(w) \/ RecordDelivery(w) \/ DeliveriesDone(w)
  \/ \E d \in Deliveries : Send(w, d)
  \/ Sync(w) \/ SelectDates(w) \/ FetchFails(w) \/ FetchHangs(w) \/ BackfillDone(w)
  \/ \E due \in Dates : Fetch(w, due) \/ Apply(w, due)

Environment ==
  \/ \E d \in Deliveries : Remind(d) \/ RetryDue(d)
  \/ \E b \in Bills : AddBill(b) \/ DropBill(b)
  \/ SwitchTelegram \/ NextDay \/ Publish

Next == Environment \/ \E w \in Workers : Runs(w) \/ Crash(w)

\* A worker goes on, and time with it.
Fairness ==
  /\ \A w \in Workers : WF_vars(Runs(w))
  /\ \A d \in Deliveries : WF_vars(RetryDue(d))

Spec == Init /\ [][Next]_vars /\ Fairness

-----------------------------------------------------------------------------

\* What is recorded as sent has reached the user, whichever worker recorded it
\* last and wherever a worker stopped.
SentHasArrived == \A d \in Deliveries : delivery[d] = "sent" => d \in arrived

\* A bill is never converted with a rate of a later day, whatever the provider
\* answers and whichever other rates are in the cache by then.
RateNotAfterBill == \A b \in Bills : bill[b] = "converted" => rate[b] <= DueDate(b)

\* A conversion is final, also for a worker that fetched another rate before or
\* after (已有完整折算结果不覆盖).
ConvertedOnce ==
  [][\A b \in Bills :
       bill[b] = "converted" /\ bill'[b] = "converted" => rate'[b] = rate[b]]_vars

\* A notification reaches the user and is recorded as sent, unless Telegram is
\* switched off.
EventuallyDelivered ==
  \A d \in Deliveries : delivery[d] = "pending" ~> delivery[d] = "sent" \/ ~enabled

\* A bill that is open although it is due and the provider has its rates.
Convertible(b) ==
  bill[b] = "open" /\ DueDate(b) <= today /\ Quoted(b) /\ Answerable(DueDate(b))

\* The worker catches up: what one cycle leaves, later cycles convert, until
\* nothing is left that can be (每轮最多处理 5 个日期, 后续轮次继续处理剩余记录).
\* It holds where the dates that cannot be converted leave one of the places of
\* a cycle free, and is violated where they take them all.
EventuallyConverted == []<>(\A b \in Bills : ~Convertible(b))

=============================================================================
