------------------------------ MODULE MCRenewal ------------------------------
(***************************************************************************)
(* Renewal on a toy calendar: months of two and three days, so that an     *)
(* anchor on the third day is clamped in a short month, and a few days of  *)
(* time, of two ticks each.                                                *)
(***************************************************************************)
EXTENDS Renewal, TLC

ToyMonths == <<3, 2, 3>>

Cal == INSTANCE Calendar WITH MonthLengths <- ToyMonths

OneOff  == [unit |-> "once", interval |-> 1]
Monthly == [unit |-> "month", interval |-> 1]
Daily   == [unit |-> "day", interval |-> 1]

ToyLastDay == Cal!Beyond - 1
ToyNextDate(c, anchor, d) == Cal!NextDate(c, anchor, d)
ToyDayOf(d) == Cal!DayOf(d)

Input(start, next, cadence, reminders) ==
  [start |-> start, next |-> next, cadence |-> cadence, reminders |-> reminders]

WorkerSymmetry == Permutations(Workers)

OneOwner == [s \in Subs |-> CHOOSE u \in Users : TRUE]

\* Monthly from day 3 (clamped to day 2 of the second month), daily, a
\* one-off, and a subscription of an old client that has no start date.
SafetyCadences == {Monthly, Daily, OneOff}

SafetyInputs ==
  {Input(3, NoDate, Monthly, {1}), Input(4, NoDate, Daily, {0}),
   Input(4, NoDate, OneOff, {}), Input(NoDate, 4, Monthly, {0})}

\* A daily subscription that starts a day behind, with a reminder on the day,
\* and a one-off with a reminder the day before.
ProgressCadences == {Daily, OneOff}
ProgressInputs ==
  {Input(NoDate, 3, Daily, {0}), Input(5, NoDate, OneOff, {1})}

\* A user at UTC+8 (one tick of three), who wants to be reminded on the day.
OnDayInputs == {Input(NoDate, 4, Monthly, {0})}

\* No request comes while a cycle runs: what is left is the two clocks.
QuietSpec ==
  /\ Init
  /\ [][Next /\ ((\E w \in Workers : worker[w].pc # "idle")
                  => UNCHANGED <<request, edits>>)]_vars
  /\ Fairness
=============================================================================
