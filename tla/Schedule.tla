------------------------------ MODULE Schedule ------------------------------
(***************************************************************************)
(* One subscription's billing dates, from the loop of billing_plan that    *)
(* back-fills them when the subscription is saved to the worker that takes *)
(* over, one period per cycle.  The two compute dates with two functions   *)
(* of the code, and the worker starts from what the loop left.             *)
(***************************************************************************)
EXTENDS Calendar

CONSTANTS
  Cadences,      \* the cadences users choose
  Starts,        \* the start dates users choose
  SaveDays       \* the days on which a subscription is saved

\* The units the table and `validate` accept.
Units == {"day", "week", "month", "quarter", "year", "once"}

ASSUME ScheduleAssumption ==
  /\ Cadences \subseteq [unit : Units, interval : Nat \ {0}]
  /\ Starts \subseteq Date /\ SaveDays \subseteq Date

VARIABLES
  start,      \* start_date
  cadence,    \* cadence_unit and cadence_interval
  today,      \* the date at the user's place
  date,       \* the loop's `date`, then the column next_billing_date
  paid,       \* the dates billed so far, in the order they were billed
  phase       \* "loop" | "saved" | "invalid" | "completed"

vars == <<start, cadence, today, date, paid, phase>>

TypeOK ==
  /\ start \in Date /\ cadence \in Cadences
  /\ today \in Date /\ date \in 1 .. Beyond
  /\ paid \in Seq(Date)
  /\ phase \in {"loop", "saved", "invalid", "completed"}

Init ==
  /\ start \in Starts /\ cadence \in Cadences /\ today \in SaveDays
  /\ date = start
  /\ paid = <<>>
  /\ phase = "loop"

-----------------------------------------------------------------------------

\* Slip: the anchor is taken from the date reached.
day_of_date == DayOf(date)

\* The day of the month the plan is anchored at.
anchor_day == DayOf(start)

\* Slip: the day a subscription is due on does not count.
IsOverdue == date < today

\* The worker's test.
IsDue == date <= today

\* One turn of the loop.  A one-off plan breaks after its only date and is
\* saved as cancelled; running out of the calendar rejects the request.
PushPaidDate ==
  /\ phase = "loop" /\ date <= today
  /\ paid' = Append(paid, date)
  /\ IF cadence.unit = "once"
       THEN phase' = "completed" /\ UNCHANGED date
       ELSE LET next == NextDate(cadence, anchor_day, date)
            IN  IF next = Beyond
                  THEN phase' = "invalid" /\ UNCHANGED date
                  ELSE date' = next /\ UNCHANGED phase
  /\ UNCHANGED <<start, cadence, today>>

\* The loop ends at the first date after today.
ReturnPlan ==
  /\ phase = "loop" /\ date > today
  /\ phase' = "saved"
  /\ UNCHANGED <<start, cadence, today, date, paid>>

DayPasses ==
  /\ phase = "saved" /\ today + 1 < Beyond
  /\ today' = today + 1
  /\ UNCHANGED <<start, cadence, date, paid, phase>>

\* A worker cycle that finds the subscription due: bill the date it is due
\* on and move it one period, or close a one-off.
WorkerRenews ==
  /\ phase = "saved" /\ IsDue
  /\ paid' = Append(paid, date)
  /\ IF cadence.unit = "once"
       THEN phase' = "completed" /\ UNCHANGED date
       ELSE date' = Advance(date, cadence, anchor_day) /\ UNCHANGED phase
  /\ UNCHANGED <<start, cadence, today>>

Next == PushPaidDate \/ ReturnPlan \/ DayPasses \/ WorkerRenews

\* The loop runs, the worker runs every minute and the days pass.
Spec ==
  /\ Init /\ [][Next]_vars
  /\ WF_vars(PushPaidDate \/ ReturnPlan)
  /\ WF_vars(WorkerRenews) /\ WF_vars(DayPasses)

-----------------------------------------------------------------------------

\* The reference: the k-th date of a plan computed from the start alone,
\* without going through the dates before it.
KthDate(k) ==
  CASE k = 0 -> start
    [] k > 0 /\ cadence.unit \in {"day", "week"} ->
         start + k * cadence.interval
               * (IF cadence.unit = "week" THEN 7 ELSE 1)
    [] OTHER ->
         Anchored(MonthOf(start) + k * MonthsIn(cadence.unit) * cadence.interval,
                  DayOf(start))

\* No drift: every date billed, by the loop or by the worker, is the date the
\* start alone determines, in order and without a gap; a start on the 31st is
\* not pulled to the 28th by a February on the way.
DatesFollowTheAnchor ==
  /\ \A k \in DOMAIN paid : paid[k] = KthDate(k - 1)
  /\ phase \in {"loop", "saved"} =>
       \/ date = KthDate(Len(paid))
       \/ date = Beyond
  /\ cadence.unit = "once" => Len(paid) <= 1

\* A date is billed only when it has come, and once the plan is saved and the
\* worker has caught up every date of the reference that has come is billed
\* (if one were missing, so would be one of the first Len(paid) + 1).
BilledWhenDue ==
  /\ \A k \in DOMAIN paid : paid[k] <= today
  /\ phase = "saved" /\ date > today /\ cadence.unit # "once" =>
       \A k \in 0 .. Len(paid) :
         KthDate(k) <= today => \E i \in DOMAIN paid : paid[i] = KthDate(k)

\* The request is refused only when the plan has no date after today, and
\* the loop always ends.
RefusedOnlyAtTheEnd ==
  phase = "invalid" => KthDate(Len(paid)) >= Beyond

\* Every saved subscription reaches a point from which it is not behind: the
\* worker's one period per cycle keeps up with the days.
CatchesUp == <>[](phase \in {"invalid", "completed"} \/ date > today)
=============================================================================
