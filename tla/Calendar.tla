------------------------------ MODULE Calendar ------------------------------
(***************************************************************************)
(* The date arithmetic of the billing code, over a calendar given as the   *)
(* lengths of its consecutive months.  A date is the ordinal of a day, the *)
(* first day of the first month being 1; the last day of the calendar      *)
(* stands for 9999-12-31, the last date billing_plan accepts.              *)
(*                                                                         *)
(* A cadence is a record [unit |-> ..., interval |-> ...], the columns     *)
(* cadence_unit and cadence_interval of a subscription.                    *)
(***************************************************************************)
EXTENDS Integers, Sequences

CONSTANT MonthLengths        \* the lengths of the consecutive months

ASSUME MonthLengthsAssumption ==
  /\ MonthLengths \in Seq(Nat \ {0})
  /\ MonthLengths # <<>>

-----------------------------------------------------------------------------

MonthCount == Len(MonthLengths)

\* FirstDay[m] is the first date of month m; the entry after the last month
\* is the first date the calendar does not have.
FirstDay ==
  LET first[m \in 1 .. MonthCount + 1] ==
        IF m = 1 THEN 1 ELSE first[m - 1] + MonthLengths[m - 1]
  IN  first

Beyond == FirstDay[MonthCount + 1]
Date   == 1 .. Beyond - 1

MonthOf(d) ==
  CHOOSE m \in 1 .. MonthCount : FirstDay[m] <= d /\ d < FirstDay[m + 1]

DayOf(d) == d - FirstDay[MonthOf(d)] + 1

-----------------------------------------------------------------------------

\* Day `anchor` of month m, or the last day of a month that is too short.
Anchored(m, anchor) ==
  IF m > MonthCount
    THEN Beyond
    ELSE FirstDay[m] - 1 + (IF anchor <= MonthLengths[m]
                              THEN anchor ELSE MonthLengths[m])

\* The number of months in a unit that is counted in months.
MonthsIn(unit) == CASE unit = "month" -> 1
                    [] unit = "quarter" -> 3
                    [] unit = "year" -> 12

\* Days after d, stopping at the end of the calendar.
DaysAfter(d, days) == IF d + days < Beyond THEN d + days ELSE Beyond

\* Slip: a month that is too short for the anchor day is an error.
NextDateStrict(c, anchor, d) ==
  CASE c.unit = "day"  -> DaysAfter(d, c.interval)
    [] c.unit = "week" -> DaysAfter(d, 7 * c.interval)
    [] OTHER -> LET m == MonthOf(d) + MonthsIn(c.unit) * c.interval
                IN  IF m <= MonthCount /\ anchor <= MonthLengths[m]
                      THEN Anchored(m, anchor) ELSE Beyond

\* The date that follows d in billing_plan: Beyond is the error "out of the
\* supported range".
NextDate(c, anchor, d) ==
  CASE c.unit = "day"  -> DaysAfter(d, c.interval)
    [] c.unit = "week" -> DaysAfter(d, 7 * c.interval)
    [] OTHER -> Anchored(MonthOf(d) + MonthsIn(c.unit) * c.interval, anchor)

\* Slip: months are counted from the last date instead of the anchor day.
AdvanceUnanchored(d, c, anchor) ==
  CASE c.unit \in {"month", "quarter", "year"} ->
         Anchored(MonthOf(d) + MonthsIn(c.unit) * c.interval, DayOf(d))
    [] OTHER -> DaysAfter(d, c.interval)

\* The date the worker moves a renewed subscription to.  A separate function
\* in the code, with its own arithmetic: any unit that is not counted in
\* weeks or months is taken for days.
Advance(d, c, anchor) ==
  CASE c.unit \in {"month", "quarter", "year"} ->
         Anchored(MonthOf(d) + MonthsIn(c.unit) * c.interval, anchor)
    [] c.unit = "week" -> DaysAfter(d, 7 * c.interval)
    [] OTHER -> DaysAfter(d, c.interval)
=============================================================================
