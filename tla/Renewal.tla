------------------------------- MODULE Renewal -------------------------------
(***************************************************************************)
(* Subscriptions, their bills and their reminders: the API requests that   *)
(* edit a subscription and the worker cycles that remind, bill and move it *)
(* to its next date, as concurrent PostgreSQL transactions.                *)
(*                                                                         *)
(* Every writer of a subscription row holds its row lock until it commits; *)
(* the worker takes its locks with SKIP LOCKED, a request waits for them.  *)
(* now() is the time a transaction began, so a request that waited for a   *)
(* lock over midnight still computes with yesterday's date.                *)
(*                                                                         *)
(* Time is counted in ticks, TicksPerDay to a day, so that a user whose    *)
(* clock is ahead of UTC has a date of their own.                          *)
(***************************************************************************)
EXTENDS Integers, FiniteSets

CONSTANTS
  Users,
  Subs,              \* the rows subscriptions can have
  Owner,             \* [Subs -> Users]
  Workers,           \* the worker processes
  Clients,           \* the API transactions that can be open at once
  Cadences,          \* cadence_unit and cadence_interval
  Once,              \* the cadence of a one-off
  DateAfter(_, _, _), \* the date after a date, for a cadence and an anchor day
  AnchorOf(_),          \* the day of the month of a date
  LastDay,           \* the last date the code supports (9999-12-31)
  NoDate, NoSub, NoBill, NoRequest,
  Inputs,            \* the bodies of the create and update requests
  UserBillStatuses,  \* the statuses users give to bills
  TicksPerDay,
  TimeZones,         \* offsets from UTC, in ticks
  FirstTick, LastTick,
  MaxEdits,          \* bound on the number of user operations
  ReminderLimit,     \* LIMIT 300 of the reminder query
  RenewalLimit       \* LIMIT 100 of the renewal query

Date == 1 .. LastDay

ReminderDays == UNION {i.reminders : i \in Inputs}

UtcDate(t)        == t \div TicksPerDay
LocalDate(tz, t)  == (t + tz) \div TicksPerDay

ASSUME RenewalAssumption ==
  /\ Owner \in [Subs -> Users]
  /\ Once \in Cadences
  /\ LastDay \in Nat \ {0}
  /\ NoDate \notin Int
  /\ \A i \in Inputs :
       /\ i.start \in Date \cup {NoDate} /\ i.next \in Date \cup {NoDate}
       /\ i.cadence \in Cadences /\ i.reminders \subseteq Nat
  /\ TicksPerDay \in Nat \ {0} /\ TimeZones \subseteq Int /\ TimeZones # {}
  /\ FirstTick \in Nat /\ LastTick \in Nat /\ FirstTick <= LastTick
  /\ \A t \in FirstTick .. LastTick, tz \in TimeZones :
       LocalDate(tz, t) \in Date
  /\ MaxEdits \in Nat

\* Dates only move forward, and a later date never has an earlier successor.
\* ScheduleProofs proves it of the calendar arithmetic (DatesMoveForward), and
\* that billing_plan and the worker's advance agree (AdvanceIsNextDate): here
\* they are one function.
ASSUME DateAfterAssumption ==
  \A c \in Cadences \ {Once}, a \in Date, d \in Date :
    /\ DateAfter(c, AnchorOf(a), d) \in Int
    /\ DateAfter(c, AnchorOf(a), d) > d
    /\ \A e \in Date :
         d <= e => DateAfter(c, AnchorOf(a), d) <= DateAfter(c, AnchorOf(a), e)

-----------------------------------------------------------------------------

\* A set of dates closed under the period of a schedule.
Closed(P, start, c) ==
  /\ start \in P
  /\ c # Once => \A d \in P : LET n == DateAfter(c, AnchorOf(start), d)
                              IN  n <= LastDay => n \in P

\* The dates of a schedule: the least closed set.
Plan == [start \in Date |-> [c \in Cadences |->
           {d \in Date : \A P \in SUBSET Date : Closed(P, start, c) => d \in P}]]

\* What billing_plan returns: the dates that have come, and the first that has
\* not (for a one-off, its date in either case).
PaidDates(start, c, today) == {d \in Plan[start][c] : d <= today}

Upcoming(start, c, today) ==
  IF c = Once THEN {start} ELSE {d \in Plan[start][c] : d > today}

PlannedNext(start, c, today) ==
  CHOOSE d \in Upcoming(start, c, today) :
    \A e \in Upcoming(start, c, today) : d <= e

\* billing_plan fails when the date after today is out of range.
PlanExists(start, c, today) == Upcoming(start, c, today) # {}
-----------------------------------------------------------------------------

VARIABLES
  now,        \* the tick
  timezone,   \* users.timezone, an offset
  subs,       \* the table subscriptions, with subscription_reminders
  bills,      \* the table bills, by subscription and due date: the unique key
              \* renewal:<id>:<date> allows one row for each
  reminded,   \* the keys reminder:<id>:<date>:<days> in notifications
  noticed,    \* the keys renewal-notice:<id>:<date> in notifications
  worker,     \* the open transaction of each worker
  request,    \* the open transaction of each API client
  edits       \* the number of user operations so far

tables == <<subs, bills, reminded, noticed>>
vars == <<now, timezone, tables, worker, request, edits>>

Statuses == {"active", "paused", "cancelled", "archived"}

Row == [status : Statuses, start : Date \cup {NoDate}, cadence : Cadences,
        anchor : {AnchorOf(d) : d \in Date}, next : Nat \ {0}, reminders : SUBSET Nat]

Bill == [source : {"schedule", "renewal", "manual"},
         status : {"paid", "estimated"} \cup UserBillStatuses]

\* What the worker read: the rows it reminds of, and those it renews.
Reminder == [sub : Subs, due : Nat, days : Nat]
Renewal  == [sub : Subs, row : Row]

Cycle == [pc : {"idle", "reminding", "renewing"}, at : FirstTick .. LastTick,
          remind : SUBSET Reminder, renew : SUBSET Renewal]

\* An open transaction of an API client; now() is the time it began.
Request == [kind : {"create", "update"}, sub : Subs, input : Inputs,
            at : FirstTick .. LastTick]

ASSUME NullAssumption ==
  NoSub \notin Row /\ NoBill \notin Bill /\ NoRequest \notin Request

Idle == [pc |-> "idle", at |-> FirstTick, remind |-> {}, renew |-> {}]

TypeOK ==
  /\ now \in FirstTick .. LastTick
  /\ timezone \in [Users -> TimeZones]
  /\ subs \in [Subs -> Row \cup {NoSub}]
  /\ bills \in [Subs \X Date -> Bill \cup {NoBill}]
  /\ reminded \subseteq Subs \X Nat \X Nat
  /\ noticed \subseteq Subs \X Nat
  /\ worker \in [Workers -> Cycle]
  /\ request \in [Clients -> Request \cup {NoRequest}]
  /\ edits \in 0 .. MaxEdits

Init ==
  /\ now = FirstTick
  /\ timezone \in [Users -> TimeZones]
  /\ subs = [s \in Subs |-> NoSub]
  /\ bills = [k \in Subs \X Date |-> NoBill]
  /\ reminded = {} /\ noticed = {}
  /\ worker = [w \in Workers |-> Idle]
  /\ request = [c \in Clients |-> NoRequest]
  /\ edits = 0

-----------------------------------------------------------------------------

Exists(s) == subs[s] # NoSub
Active(s) == Exists(s) /\ subs[s].status = "active"

\* The rows a worker's transaction holds locked.
Holds(w) == {r.sub : r \in worker[w].remind} \cup {r.sub : r \in worker[w].renew}

\* Slip: a request does not wait for the worker.
IgnoresLocks(s) == TRUE

\* Nobody holds the row: a request that writes it does not have to wait.
Unlocked(s) == \A w \in Workers : s \notin Holds(w)

\* A worker does not see the rows other workers hold (SKIP LOCKED).
Available(w, s) == \A v \in Workers \ {w} : s \notin Holds(v)

\* The rows an open update may hold when a worker's query passes them over.
HeldByRequests ==
  {request[c].sub : c \in {d \in Clients : /\ request[d] # NoRequest
                                         /\ request[d].kind = "update"
                                         /\ Unlocked(request[d].sub)}}

\* The user's date in a transaction that began at tick t.
Today(s, t) == LocalDate(timezone[Owner[s]], t)

\* The bills after inserting one for every key of `keys` that has none
\* (ON CONFLICT DO NOTHING).
Inserted(keys, bill, table) ==
  [k \in DOMAIN table |-> IF k \in keys /\ table[k] = NoBill THEN bill ELSE table[k]]

PaidBySchedule == [source |-> "schedule", status |-> "paid"]
ToBeConfirmed  == [source |-> "renewal", status |-> "estimated"]

-----------------------------------------------------------------------------
(***************************************************************************)
(* The worker's transaction: run_cycle, from its BEGIN to its COMMIT.      *)
(***************************************************************************)

\* Slip: a reminder is due on its day only, so a cycle that comes late or a
\* subscription entered late has none.
ToRemindOnTheDay(w, t) ==
  {r \in [sub : Subs, due : Date, days : ReminderDays] :
     /\ Available(w, r.sub) /\ Active(r.sub)
     /\ r.due = subs[r.sub].next /\ r.days \in subs[r.sub].reminders
     /\ r.due - r.days = UtcDate(t)}

\* The rows of the reminder query: due within `days` of the date of the
\* database, not before it.  Those already notified are among them.
ToRemind(w, t) ==
  {r \in [sub : Subs, due : Date, days : ReminderDays] :
     /\ Available(w, r.sub) /\ Active(r.sub)
     /\ r.due = subs[r.sub].next /\ r.days \in subs[r.sub].reminders
     /\ r.due - r.days <= UtcDate(t) /\ r.due >= UtcDate(t)}

\* Slip: a subscription due today is not due.
ToRenewLate(w, t) ==
  {r \in {[sub |-> s, row |-> subs[s]] : s \in {x \in Subs : Active(x)}} :
     /\ Available(w, r.sub)
     /\ r.row.next < Today(r.sub, t)}

\* The rows of the renewal query: due by the date of their user.
ToRenew(w, t) ==
  {r \in {[sub |-> s, row |-> subs[s]] : s \in {x \in Subs : Active(x)}} :
     /\ Available(w, r.sub)
     /\ r.row.next <= Today(r.sub, t)}

Smaller(m, n) == IF m <= n THEN m ELSE n

\* The transaction begins and the reminder query takes at most its LIMIT of
\* rows, any of them, and locks their subscriptions.
ScanReminders(w) ==
  /\ worker[w].pc = "idle"
  /\ \E skipped \in SUBSET HeldByRequests :
     LET due == {r \in ToRemind(w, now) : r.sub \notin skipped} IN
     \E R \in SUBSET due :
       /\ Cardinality(R) = Smaller(ReminderLimit, Cardinality(due))
       /\ worker' = [worker EXCEPT ![w] = [pc |-> "reminding", at |-> now,
                                           remind |-> R, renew |-> {}]]
  /\ UNCHANGED <<now, timezone, tables, request, edits>>

\* The rows taken are the ones due first.
DueFirst(R, candidates) ==
  \A r \in R, q \in candidates \ R : r.row.next <= q.row.next

\* The renewal query takes at most its LIMIT of rows and locks them too.
ScanRenewals(w) ==
  /\ worker[w].pc = "reminding"
  /\ \E skipped \in SUBSET HeldByRequests :
     LET due == {r \in ToRenew(w, worker[w].at) : r.sub \notin skipped} IN
     \E R \in SUBSET due :
       /\ Cardinality(R) = Smaller(RenewalLimit, Cardinality(due))
       /\ DueFirst(R, due)
       /\ worker' = [worker EXCEPT ![w].pc = "renewing", ![w].renew = R]
  /\ UNCHANGED <<now, timezone, tables, request, edits>>

\* A renewed row: a one-off is completed, the others move one period.
Renewed(row, read) ==
  IF read.cadence = Once
    THEN [row EXCEPT !.status = "cancelled"]
    ELSE [row EXCEPT !.next = DateAfter(read.cadence, read.anchor, read.next)]

RenewedSubs(w)  == {r.sub : r \in worker[w].renew}
RenewedRow(w, s) == (CHOOSE r \in worker[w].renew : r.sub = s).row

\* Everything the transaction inserted and updated becomes visible.
CommitCycle(w) ==
  /\ worker[w].pc = "renewing"
  /\ reminded' = reminded \cup {<<r.sub, r.due, r.days>> : r \in worker[w].remind}
  /\ noticed' = noticed \cup {<<r.sub, r.row.next>> : r \in worker[w].renew}
  /\ bills' =
       LET charged(scheduled) ==
             {<<r.sub, r.row.next>> : r \in {q \in worker[w].renew :
                                (q.row.start # NoDate) = scheduled}}
       IN  Inserted(charged(TRUE), PaidBySchedule,
                    Inserted(charged(FALSE), ToBeConfirmed, bills))
  /\ subs' = [s \in Subs |->
       IF s \in RenewedSubs(w)
         THEN Renewed(subs[s], RenewedRow(w, s)) ELSE subs[s]]
  /\ worker' = [worker EXCEPT ![w] = Idle]
  /\ UNCHANGED <<now, timezone, request, edits>>

\* A failed statement or a crash of the process: the database rolls back.
AbortCycle(w) ==
  /\ worker[w].pc # "idle"
  /\ worker' = [worker EXCEPT ![w] = Idle]
  /\ UNCHANGED <<now, timezone, tables, request, edits>>

-----------------------------------------------------------------------------
(***************************************************************************)
(* The requests that create and update a subscription: a transaction that  *)
(* begins, may wait for the row lock, and commits.                         *)
(***************************************************************************)

Edit == edits < MaxEdits /\ edits' = edits + 1

BeginRequest(c, kind, s, input) ==
  /\ Edit
  /\ request[c] = NoRequest
  /\ \/ /\ kind = "create" /\ ~Exists(s)
        /\ \A d \in Clients : request[d] # NoRequest => request[d].sub # s
     \/ kind = "update" /\ Exists(s)
  /\ request' = [request EXCEPT ![c] = [kind |-> kind, sub |-> s,
                                        input |-> input, at |-> now]]
  /\ UNCHANGED <<now, timezone, tables, worker>>

\* A refused, cancelled or rolled back request.
DropRequest(c) ==
  /\ request[c] # NoRequest
  /\ request' = [request EXCEPT ![c] = NoRequest]
  /\ UNCHANGED <<now, timezone, tables, worker, edits>>

\* prepare: the next date of a subscription saved with this start, and the
\* dates to be billed as paid.  With no start date the user gives the next one.
Prepared(start, i, today) ==
  /\ start # NoDate \/ i.next # NoDate
  /\ start # NoDate => PlanExists(start, i.cadence, today)

PreparedNext(start, i, today) ==
  IF start # NoDate THEN PlannedNext(start, i.cadence, today) ELSE i.next

History(start, c, today) ==
  IF start # NoDate THEN PaidDates(start, c, today) ELSE {}

\* sync_history closes a one-off whose date has come.
StatusAfter(status, c, history) ==
  IF c = Once /\ history # {} THEN "cancelled" ELSE status

SavedRow(status, start, i, next) ==
  [status |-> status, start |-> start, cadence |-> i.cadence,
   anchor |-> AnchorOf(IF start # NoDate THEN start ELSE next),
   next |-> next, reminders |-> i.reminders]

CommitCreate(c) ==
  /\ request[c] # NoRequest /\ request[c].kind = "create"
  /\ LET s == request[c].sub
         i == request[c].input
         today == Today(s, request[c].at)
         history == History(i.start, i.cadence, today)
     IN  /\ ~Exists(s)
         /\ Prepared(i.start, i, today)
         /\ subs' = [subs EXCEPT ![s] =
              SavedRow(StatusAfter("active", i.cadence, history),
                       i.start, i, PreparedNext(i.start, i, today))]
         /\ bills' = Inserted({s} \X history, PaidBySchedule, bills)
  /\ request' = [request EXCEPT ![c] = NoRequest]
  /\ UNCHANGED <<now, timezone, reminded, noticed, worker, edits>>

\* Slip: the bills of the old plan stay.
Unreconciled(s, history, table) == table

\* Slip: reconciling deletes every bill that left the plan, the ones the user
\* has edited and the unconfirmed ones with it.
ReconciledAll(s, history, table) ==
  [k \in DOMAIN table |->
     IF k[1] = s /\ k[2] \notin history THEN NoBill ELSE table[k]]

\* sync_history with reconcile: automatic bills that are not in the history
\* are deleted.
Reconciled(s, history, table) ==
  [k \in DOMAIN table |->
     IF /\ k[1] = s /\ k[2] \notin history
        /\ table[k] # NoBill /\ table[k].source = "schedule"
       THEN NoBill ELSE table[k]]

\* Slip: every edit gives the row a new next date, a change of price too.
ReplansAlways(row, start, i) == TRUE

\* Whether an update gives the row a new next date.
ReplansNext(row, start, i) ==
  \/ start # row.start \/ i.cadence # row.cadence
  \/ row.start = NoDate

\* The start and the cadence are kept or replaced; when they change, the
\* history is reconciled with the new plan.
CommitUpdate(c) ==
  /\ request[c] # NoRequest /\ request[c].kind = "update"
  /\ LET s == request[c].sub
         i == request[c].input
         today == Today(s, request[c].at)
         row == subs[s]
         start == IF i.start # NoDate THEN i.start ELSE row.start
         changed == start # row.start \/ i.cadence # row.cadence
         history == History(start, i.cadence, today)
         resync == changed /\ start # NoDate
         next == IF ReplansNext(row, start, i)
                   THEN PreparedNext(start, i, today) ELSE row.next
     IN  /\ Unlocked(s)
         /\ Exists(s) /\ row.status # "archived"
         /\ Prepared(start, i, today)
         /\ subs' = [subs EXCEPT ![s] =
              SavedRow(IF resync THEN StatusAfter(row.status, i.cadence, history)
                       ELSE row.status, start, i, next)]
         /\ bills' =
              IF resync
                THEN Inserted({s} \X history, PaidBySchedule,
                              Reconciled(s, history, bills))
                ELSE bills
  /\ request' = [request EXCEPT ![c] = NoRequest]
  /\ UNCHANGED <<now, timezone, reminded, noticed, worker, edits>>

-----------------------------------------------------------------------------
(***************************************************************************)
(* The requests that are one statement.                                    *)
(***************************************************************************)

SetStatus(s, status) ==
  /\ Edit
  /\ Unlocked(s)
  /\ Exists(s) /\ subs[s].status # "archived"
  /\ status \in {"active", "paused", "cancelled"} \ {subs[s].status}
  /\ subs' = [subs EXCEPT ![s].status = status]
  /\ UNCHANGED <<now, timezone, bills, reminded, noticed, worker, request>>

Archive(s) ==
  /\ Edit
  /\ Unlocked(s) /\ Exists(s)
  /\ subs' = [subs EXCEPT ![s].status = "archived"]
  /\ UNCHANGED <<now, timezone, bills, reminded, noticed, worker, request>>

\* A bill whose status the user sets is the user's from then on.
UpdateBill(k, status) ==
  /\ Edit
  /\ bills[k] # NoBill
  /\ bills' = [bills EXCEPT ![k] = [source |-> "manual", status |-> status]]
  /\ UNCHANGED <<now, timezone, subs, reminded, noticed, worker, request>>

\* Opening the WeChat binding page sets the user's time zone to the browser's.
SetTimezone(u, tz) ==
  /\ Edit
  /\ timezone[u] # tz
  /\ timezone' = [timezone EXCEPT ![u] = tz]
  /\ UNCHANGED <<now, tables, worker, request>>

Tick ==
  /\ now < LastTick
  /\ now' = now + 1
  /\ UNCHANGED <<timezone, tables, worker, request, edits>>

UserStep ==
  \/ \E c \in Clients :
       \/ \E s \in Subs, i \in Inputs, kind \in {"create", "update"} :
            BeginRequest(c, kind, s, i)
       \/ CommitCreate(c)
       \/ CommitUpdate(c)
       \/ DropRequest(c)
  \/ \E s \in Subs : Archive(s) \/ \E status \in Statuses : SetStatus(s, status)
  \/ \E k \in Subs \X Date, status \in UserBillStatuses : UpdateBill(k, status)
  \/ \E u \in Users, tz \in TimeZones : SetTimezone(u, tz)

WorkerStep(w) ==
  ScanReminders(w) \/ ScanRenewals(w) \/ CommitCycle(w) \/ AbortCycle(w)

Next == Tick \/ UserStep \/ \E w \in Workers : WorkerStep(w)

\* A worker loops for ever, one cycle a minute; its transactions may fail, but
\* not each of them.  An open request is answered, one way or the other: the
\* server commits it or rolls it back.  Nothing else is assumed of the users.
Fairness ==
  /\ \A w \in Workers :
       /\ WF_vars(ScanReminders(w)) /\ SF_vars(ScanRenewals(w))
       /\ SF_vars(CommitCycle(w))
  /\ \A c \in Clients : WF_vars(CommitCreate(c) \/ CommitUpdate(c) \/ DropRequest(c))

Spec == Init /\ [][Next]_vars /\ Fairness

-----------------------------------------------------------------------------
(***************************************************************************)
(* What the locks are for.                                                 *)
(***************************************************************************)

\* No two workers hold one row.
RowsHeldOnce ==
  \A v, w \in Workers : v # w => Holds(v) \cap Holds(w) = {}

\* Between its queries and its commit, what a worker has read of a row stays
\* true: the row is active and due on the date it read.
ReadsStayTrue ==
  \A w \in Workers :
    /\ \A r \in worker[w].renew : subs[r.sub] = r.row
    /\ \A r \in worker[w].remind : Active(r.sub) /\ subs[r.sub].next = r.due

\* A subscription archived, paused, cancelled or moved by a request is never
\* billed or reminded of by a cycle that had read it before.
WorkerActsOnCurrentRow ==
  [][\A w \in Workers : worker[w].pc = "renewing" /\ worker'[w].pc = "idle" =>
       /\ \A k \in Subs \X Date :
            bills[k] = NoBill /\ bills'[k] # NoBill =>
              Active(k[1]) /\ subs[k[1]].next = k[2]
       /\ \A n \in reminded' \ reminded :
            Active(n[1]) /\ subs[n[1]].next = n[2]]_vars

\* An archived subscription stays as it is; a cycle that closes a one-off
\* does not bring it back as cancelled.
ArchivedIsFinal ==
  [][\A s \in Subs :
       Exists(s) /\ subs[s].status = "archived" => subs'[s] = subs[s]]_vars

-----------------------------------------------------------------------------
(***************************************************************************)
(* The bills of a subscription that has a start date.                      *)
(***************************************************************************)

Scheduled(s) == Exists(s) /\ subs[s].start # NoDate

PlanOf(s) == Plan[subs[s].start][subs[s].cadence]

\* No period is lost: every date of the plan before the next billing date has
\* a bill, whatever edits, pauses, failed cycles and late transactions came
\* between.
NoMissedPeriod ==
  \A s \in Subs : Scheduled(s) /\ subs[s].cadence # Once =>
    \A d \in PlanOf(s) : d < subs[s].next => bills[<<s, d>>] # NoBill

\* No period is charged off the plan or ahead of time: an automatic bill lies
\* on the current plan, before the date the subscription waits for.
AutomaticBillsOnPlan ==
  \A s \in Subs, d \in Date :
    bills[<<s, d>>] # NoBill /\ bills[<<s, d>>].source = "schedule" =>
      /\ Scheduled(s)
      /\ d \in PlanOf(s)
      /\ subs[s].cadence # Once => d < subs[s].next

\* A bill the user has decided on is left alone by every cycle and by every
\* change of the subscription's plan.
UserBillsKept ==
  [][\A k \in Subs \X Date :
       /\ bills[k] # NoBill /\ bills[k].source = "manual"
       /\ worker' # worker \/ request' # request
       => bills'[k] = bills[k]]_vars

-----------------------------------------------------------------------------
(***************************************************************************)
(* The inductive invariant that the safety properties follow from.         *)
(***************************************************************************)

\* What a worker holds at each point of its transaction, and that the rows it
\* renews are active and due on a date.
WorkerState ==
  \A w \in Workers :
    /\ worker[w].pc = "idle" => worker[w].remind = {} /\ worker[w].renew = {}
    /\ worker[w].pc = "reminding" => worker[w].renew = {}
    /\ \A r \in worker[w].renew : r.row.status = "active" /\ r.row.next \in Date

\* The row of a scheduled subscription is anchored at its start and waits for
\* a date of its plan, or has come to the end of time.
PlanState ==
  \A s \in Subs : Scheduled(s) =>
    /\ subs[s].anchor = AnchorOf(subs[s].start)
    /\ subs[s].cadence = Once => subs[s].next = subs[s].start
    /\ subs[s].cadence # Once => subs[s].next \in PlanOf(s) \/ subs[s].next > LastDay

IInv ==
  /\ TypeOK
  /\ RowsHeldOnce /\ WorkerState /\ ReadsStayTrue
  /\ PlanState /\ NoMissedPeriod /\ AutomaticBillsOnPlan

-----------------------------------------------------------------------------
(***************************************************************************)
(* What must happen.                                                       *)
(***************************************************************************)

Overdue(s) == Active(s) /\ subs[s].next <= Today(s, now)

\* A reminder for the next date, whose day has come; the date has not passed.
Awaited(s, due, days) ==
  /\ Active(s) /\ subs[s].next = due /\ days \in subs[s].reminders
  /\ due - days <= UtcDate(now) /\ UtcDate(now) <= due
  /\ <<s, due, days>> \notin reminded

\* The dates whose reminders fall into the time of the run.
RemindedDates ==
  {due \in Date : \E days \in ReminderDays :
     due - days <= UtcDate(LastTick) /\ due >= UtcDate(FirstTick)}

\* No cycle is under way, and the user is done.
AtRest ==
  /\ \A w \in Workers : worker[w].pc = "idle"
  /\ \A c \in Clients : request[c] = NoRequest
  /\ edits = MaxEdits

\* The date has passed and no cycle was committed on it.
PassedBy(s, due) == Exists(s) /\ subs[s].next = due /\ due < UtcDate(now)

\* A subscription that is behind, even by several periods, is brought up to
\* date, whatever cycles fail.
EventuallyBilled == \A s \in Subs : Overdue(s) ~> ~Overdue(s)

\* Once a reminder is due and the user leaves the subscription as it is, the
\* reminder is created: no renewal moves the subscription on without it, and
\* only a date on which every cycle fails can pass by.  It holds as long as the
\* reminder query never has more rows than its LIMIT and the date of the user is
\* that of the database.
EventuallyReminded ==
  \A s \in Subs, due \in RemindedDates, days \in ReminderDays :
    AtRest /\ Awaited(s, due, days)
      ~> <<s, due, days>> \in reminded \/ PassedBy(s, due)

\* A reminder set for a date has been created by the time the worker renews
\* the subscription on that date, the day it falls on at the user's place.
RemindedBeforeRenewal ==
  [][\A w \in Workers : worker[w].pc = "renewing" /\ worker'[w].pc = "idle" =>
       \A r \in worker[w].renew :
         r.row.next = Today(r.sub, worker[w].at) =>
           \A days \in r.row.reminders :
             <<r.sub, r.row.next, days>> \in reminded']_vars
=============================================================================
