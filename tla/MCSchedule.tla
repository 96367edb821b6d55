----------------------------- MODULE MCSchedule -----------------------------
(***************************************************************************)
(* Schedule over sixteen Gregorian months, December 2023 to March 2025,    *)
(* with the leap day of 2024: date 1 is 2023-12-01.                        *)
(***************************************************************************)
EXTENDS Schedule

\* December 2023, the twelve months of 2024, January to March 2025.
GregorianMonths == <<31, 31, 29, 31, 30, 31, 30, 31, 31, 30, 31, 30, 31,
                     31, 28, 31>>

Every(intervals, unit) == [unit : {unit}, interval : intervals]

AllCadences ==
  Every({1, 2}, "month") \cup Every({1}, "quarter") \cup Every({1}, "year")
  \cup Every({3}, "week") \cup Every({45}, "day") \cup Every({1}, "once")

\* 31 December, 28, 29 and 31 January, 29 February 2024.
MonthEnds == {31, 59, 60, 62, 91}

\* 28 January, 29 February, 31 March and 31 December 2024, 1 March 2025.
DaysOfSaving == {59, 91, 122, 397, 457}
=============================================================================
