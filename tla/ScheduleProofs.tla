--------------------------- MODULE ScheduleProofs ---------------------------
(***************************************************************************)
(* The calendar arithmetic and one subscription's schedule, proved for     *)
(* every calendar, cadence, start date and day of saving.                  *)
(*                                                                         *)
(* FirstDay is a recursive function: what it computes is proved by         *)
(* induction, for which the numbers are taken as a set (Induction), since  *)
(* the library's induction theorems take an operator.                      *)
(***************************************************************************)
EXTENDS Schedule, WellFoundedInduction, TLAPS

-----------------------------------------------------------------------------
(* Induction over the natural numbers.                                     *)

\* The order of the numbers, as the relation the library's theorems take.
LEMMA LessIsWellFounded ==
  IsWellFoundedOn({ss \in Nat \X Nat : ss[1] < ss[2]}, Nat)
<1>1. OpToRel(<, Nat) = {ss \in Nat \X Nat : ss[1] < ss[2]}
  BY DEF OpToRel
<1> QED
  BY <1>1, NatLessThanWellFounded

\* A set of numbers has a least one.
LEMMA LeastNumber ==
  ASSUME NEW S \in SUBSET Nat, S # {}
  PROVE  \E m \in S : \A n \in S : m <= n
<1>1. PICK m \in S : \A n \in S : ~ (<<n, m>> \in {ss \in Nat \X Nat : ss[1] < ss[2]})
  BY LessIsWellFounded, WFMin, Zenon
<1>2. ASSUME NEW n \in S PROVE m <= n
  <2>1. ~ (n < m)
    BY <1>1
  <2> QED BY <2>1
<1> QED BY <1>2

\* A set with 0 and the successors of its members has every number.
LEMMA Induction ==
  ASSUME NEW S \in SUBSET Nat, 0 \in S, \A n \in S : n + 1 \in S
  PROVE  S = Nat
<1> SUFFICES ASSUME NEW k \in Nat \ S PROVE FALSE
  OBVIOUS
<1>1. PICK m \in Nat \ S : \A n \in Nat \ S : m <= n
  BY LeastNumber
<1>2. m # 0 /\ m - 1 \in Nat /\ m - 1 \in S
  BY <1>1
<1> QED BY <1>2

-----------------------------------------------------------------------------
(* The calendar.                                                           *)

\* f follows the recursion of FirstDay up to the month after n.
Unfolds(f, n) ==
  \A m \in 1 .. n + 1 :
    f[m] = IF m = 1 THEN 1 ELSE f[m - 1] + MonthLengths[m - 1]

\* Every month of the calendar has a day.
LEMMA MonthsAreLong ==
  /\ MonthCount \in Nat \ {0}
  /\ \A m \in 1 .. MonthCount : MonthLengths[m] \in Nat \ {0}
  BY MonthLengthsAssumption DEF MonthCount

\* Some function follows the recursion of FirstDay through every month.
LEMMA Unfolding ==
  \E f \in [1 .. MonthCount + 1 -> Nat] : Unfolds(f, MonthCount)
<1> DEFINE S == {n \in Nat : n <= MonthCount => \E f \in [1 .. n + 1 -> Nat] : Unfolds(f, n)}
<1>1. 0 \in S
  <2> DEFINE f == [m \in 1 .. 1 |-> 1]
  <2>1. f \in [1 .. 0 + 1 -> Nat] /\ Unfolds(f, 0)
    BY DEF Unfolds
  <2> QED BY <2>1
<1>2. ASSUME NEW n \in S PROVE n + 1 \in S
  <2> SUFFICES ASSUME n + 1 <= MonthCount
               PROVE  \E f \in [1 .. n + 1 + 1 -> Nat] : Unfolds(f, n + 1)
    OBVIOUS
  <2>1. PICK f \in [1 .. n + 1 -> Nat] : Unfolds(f, n)
    BY MonthsAreLong
  <2> DEFINE g == [m \in 1 .. n + 1 + 1 |->
                     IF m = n + 2 THEN f[n + 1] + MonthLengths[n + 1] ELSE f[m]]
  <2>2. MonthLengths[n + 1] \in Nat
    BY MonthsAreLong
  <2>3. g \in [1 .. n + 1 + 1 -> Nat]
    BY <2>1, <2>2
  <2>4. Unfolds(g, n + 1)
    BY <2>1, MonthsAreLong DEF Unfolds
  <2> QED BY <2>3, <2>4
<1> HIDE DEF S
<1>3. S = Nat
  BY <1>1, <1>2, Induction DEF S
<1>4. MonthCount \in S
  BY <1>3, MonthsAreLong
<1> QED BY <1>4, MonthsAreLong DEF S

\* FirstDay is such a function: a month begins when the one before it ends.
LEMMA FirstDayUnfolds ==
  /\ \A m \in 1 .. MonthCount + 1 : FirstDay[m] \in Nat \ {0}
  /\ FirstDay[1] = 1
  /\ \A m \in 1 .. MonthCount : FirstDay[m + 1] = FirstDay[m] + MonthLengths[m]
<1> DEFINE step(f) == [m \in 1 .. MonthCount + 1 |->
                         IF m = 1 THEN 1 ELSE f[m - 1] + MonthLengths[m - 1]]
<1>1. PICK f \in [1 .. MonthCount + 1 -> Nat] : Unfolds(f, MonthCount)
  BY Unfolding
<1>2. f = step(f)
  BY <1>1 DEF Unfolds
<1>3. FirstDay = CHOOSE g : g = step(g)
  BY DEF FirstDay
<1>4. FirstDay = step(FirstDay)
  BY <1>2, <1>3, Zenon
<1>5. FirstDay[1] = 1
  BY <1>4, MonthsAreLong
<1>6. ASSUME NEW m \in 1 .. MonthCount PROVE FirstDay[m + 1] = FirstDay[m] + MonthLengths[m]
  BY <1>4, MonthsAreLong
<1> DEFINE S == {n \in Nat : n <= MonthCount => FirstDay[n + 1] \in Nat \ {0}}
<1>7. 0 \in S
  BY <1>5
<1>8. ASSUME NEW n \in S PROVE n + 1 \in S
  <2> SUFFICES ASSUME n + 1 <= MonthCount PROVE FirstDay[n + 1 + 1] \in Nat \ {0}
    OBVIOUS
  <2>1. FirstDay[n + 1] \in Nat \ {0} /\ MonthLengths[n + 1] \in Nat \ {0}
    BY MonthsAreLong
  <2>2. FirstDay[n + 1 + 1] = FirstDay[n + 1] + MonthLengths[n + 1]
    BY <1>6, MonthsAreLong
  <2> QED BY <2>1, <2>2
<1> HIDE DEF S
<1>9. S = Nat
  BY <1>7, <1>8, Induction DEF S
<1>10. ASSUME NEW m \in 1 .. MonthCount + 1 PROVE FirstDay[m] \in Nat \ {0}
  <2>1. m - 1 \in S /\ m - 1 <= MonthCount /\ m - 1 + 1 = m
    BY <1>9, MonthsAreLong
  <2> QED BY <2>1 DEF S
<1> QED BY <1>5, <1>6, <1>10

\* A later month begins on a later day.
LEMMA FirstDaysIncrease ==
  \A m, n \in 1 .. MonthCount + 1 : m < n => FirstDay[m] < FirstDay[n]
<1> DEFINE S == {n \in Nat : n <= MonthCount =>
                               \A m \in 1 .. n : FirstDay[m] < FirstDay[n + 1]}
<1>1. 0 \in S
  OBVIOUS
<1>2. ASSUME NEW n \in S PROVE n + 1 \in S
  <2> SUFFICES ASSUME n + 1 <= MonthCount, NEW m \in 1 .. n + 1
               PROVE  FirstDay[m] < FirstDay[n + 1 + 1]
    OBVIOUS
  <2>1. /\ FirstDay[n + 1] \in Nat /\ MonthLengths[n + 1] \in Nat \ {0}
        /\ FirstDay[n + 1 + 1] = FirstDay[n + 1] + MonthLengths[n + 1]
    BY MonthsAreLong, FirstDayUnfolds
  <2>2. CASE m = n + 1
    BY <2>1, <2>2
  <2>3. CASE m # n + 1
    <3>1. FirstDay[m] < FirstDay[n + 1] /\ FirstDay[m] \in Nat
      BY <2>3, MonthsAreLong, FirstDayUnfolds
    <3> QED BY <2>1, <3>1
  <2> QED BY <2>2, <2>3
<1> HIDE DEF S
<1>3. S = Nat
  BY <1>1, <1>2, Induction DEF S
<1>4. ASSUME NEW m \in 1 .. MonthCount + 1, NEW n \in 1 .. MonthCount + 1, m < n
      PROVE  FirstDay[m] < FirstDay[n]
  <2>1. /\ n - 1 \in S /\ n - 1 <= MonthCount /\ n - 1 + 1 = n
        /\ m \in 1 .. n - 1
    BY <1>3, <1>4, MonthsAreLong
  <2> QED BY <2>1 DEF S
<1> QED BY <1>4

\* No month begins after the end of the calendar, which has a day at least.
LEMMA BeyondIsLast ==
  /\ Beyond \in Nat \ {0, 1}
  /\ \A m \in 1 .. MonthCount + 1 : FirstDay[m] <= Beyond
<1>1. Beyond \in Nat /\ FirstDay[1] < Beyond
  BY MonthsAreLong, FirstDayUnfolds, FirstDaysIncrease DEF Beyond
<1>2. ASSUME NEW m \in 1 .. MonthCount + 1 PROVE FirstDay[m] <= Beyond
  <2>1. CASE m = MonthCount + 1
    BY <2>1, <1>1 DEF Beyond
  <2>2. CASE m # MonthCount + 1
    <3>1. MonthCount + 1 \in 1 .. MonthCount + 1 /\ m < MonthCount + 1
      BY <2>2, MonthsAreLong
    <3>2. FirstDay[m] < Beyond /\ FirstDay[m] \in Nat
      BY <3>1, FirstDayUnfolds, FirstDaysIncrease DEF Beyond
    <3> QED BY <3>2, <1>1
  <2> QED BY <2>1, <2>2
<1> QED BY <1>1, <1>2, FirstDayUnfolds

\* Every date is in a month.
LEMMA MonthExists ==
  ASSUME NEW d \in Date
  PROVE  \E m \in 1 .. MonthCount : FirstDay[m] <= d /\ d < FirstDay[m + 1]
<1> DEFINE later == {m \in 1 .. MonthCount + 1 : d < FirstDay[m]}
<1>1. d \in Nat \ {0} /\ d < Beyond
  BY BeyondIsLast DEF Date
<1>2. MonthCount + 1 \in later /\ later \in SUBSET Nat
  BY <1>1, MonthsAreLong DEF Beyond
<1>3. PICK n \in later : \A m \in later : n <= m
  BY <1>2, LeastNumber
<1>4. n # 1 /\ n \in 1 .. MonthCount + 1
  BY <1>1, FirstDayUnfolds
<1>5. n - 1 \in 1 .. MonthCount /\ n - 1 \notin later /\ n - 1 + 1 = n
  BY <1>3, <1>4, MonthsAreLong
<1>6. FirstDay[n - 1] \in Nat /\ ~ (d < FirstDay[n - 1])
  BY <1>5, MonthsAreLong, FirstDayUnfolds
<1>7. FirstDay[n - 1] <= d /\ d < FirstDay[n - 1 + 1]
  BY <1>1, <1>5, <1>6
<1> QED BY <1>5, <1>7

\* A month that has begun by a date is not after one that has not ended.
LEMMA MonthIsUnique ==
  ASSUME NEW d \in Date, NEW m \in 1 .. MonthCount, NEW n \in 1 .. MonthCount,
         FirstDay[m] <= d, d < FirstDay[n + 1]
  PROVE  m <= n
<1> SUFFICES ASSUME n < m PROVE FALSE
  BY MonthsAreLong
<1>1. FirstDay[n + 1] <= FirstDay[m]
  <2>1. CASE m = n + 1
    BY <2>1, MonthsAreLong, FirstDayUnfolds
  <2>2. CASE m # n + 1
    <3>1. m \in 1 .. MonthCount + 1 /\ n + 1 \in 1 .. MonthCount + 1 /\ n + 1 < m
      BY <2>2, MonthsAreLong
    <3>2. FirstDay[n + 1] < FirstDay[m]
      BY <3>1, FirstDaysIncrease
    <3>3. FirstDay[n + 1] \in Nat /\ FirstDay[m] \in Nat
      BY <3>1, MonthsAreLong, FirstDayUnfolds
    <3> QED BY <3>2, <3>3
  <2> QED BY <2>1, <2>2, MonthsAreLong
<1>2. FirstDay[n + 1] \in Nat /\ FirstDay[m] \in Nat /\ d \in Nat
  BY MonthsAreLong, FirstDayUnfolds, BeyondIsLast DEF Date
<1> QED BY <1>1, <1>2

\* MonthOf(d) is the one month d is in.
LEMMA MonthOfIs ==
  ASSUME NEW d \in Date
  PROVE  /\ MonthOf(d) \in 1 .. MonthCount
         /\ FirstDay[MonthOf(d)] <= d /\ d < FirstDay[MonthOf(d) + 1]
         /\ \A m \in 1 .. MonthCount :
              FirstDay[m] <= d /\ d < FirstDay[m + 1] => MonthOf(d) = m
<1>1. /\ MonthOf(d) \in 1 .. MonthCount
      /\ FirstDay[MonthOf(d)] <= d /\ d < FirstDay[MonthOf(d) + 1]
  BY MonthExists DEF MonthOf
<1>2. ASSUME NEW m \in 1 .. MonthCount, FirstDay[m] <= d, d < FirstDay[m + 1]
      PROVE  MonthOf(d) = m
  <2>1. m <= MonthOf(d) /\ MonthOf(d) <= m
    BY <1>1, <1>2, MonthIsUnique
  <2> QED BY <2>1, <1>1, MonthsAreLong
<1> QED BY <1>1, <1>2

\* DayOf(d) is a day of d's month, and d that day of it.
LEMMA DayOfIs ==
  ASSUME NEW d \in Date
  PROVE  /\ DayOf(d) \in 1 .. MonthLengths[MonthOf(d)]
         /\ d = FirstDay[MonthOf(d)] + DayOf(d) - 1
<1> DEFINE m == MonthOf(d)
<1>1. m \in 1 .. MonthCount /\ FirstDay[m] <= d /\ d < FirstDay[m + 1]
  BY MonthOfIs
<1>2. /\ FirstDay[m] \in Nat /\ MonthLengths[m] \in Nat
      /\ FirstDay[m + 1] = FirstDay[m] + MonthLengths[m]
  BY <1>1, MonthsAreLong, FirstDayUnfolds
<1>3. d \in Nat /\ DayOf(d) = d - FirstDay[m] + 1
  BY BeyondIsLast DEF Date, DayOf
<1> HIDE DEF m
<1>4. DayOf(d) \in 1 .. MonthLengths[m] /\ d = FirstDay[m] + DayOf(d) - 1
  BY <1>1, <1>2, <1>3
<1> QED BY <1>4 DEF m

\* A later date is not in an earlier month.
LEMMA MonthsIncrease ==
  ASSUME NEW d \in Date, NEW e \in Date, d <= e
  PROVE  MonthOf(d) <= MonthOf(e)
<1>1. FirstDay[MonthOf(d)] <= e
  BY MonthOfIs, MonthsAreLong, FirstDayUnfolds, BeyondIsLast DEF Date
<1> QED BY <1>1, MonthOfIs, MonthIsUnique

\* An anchored date is in the month it was asked for, whatever the anchor.
LEMMA AnchoredInside ==
  ASSUME NEW m \in 1 .. MonthCount, NEW a \in Nat \ {0}
  PROVE  /\ FirstDay[m] <= Anchored(m, a) /\ Anchored(m, a) < FirstDay[m + 1]
         /\ Anchored(m, a) \in Date
         /\ MonthOf(Anchored(m, a)) = m
<1>1. /\ FirstDay[m] \in Nat \ {0} /\ MonthLengths[m] \in Nat \ {0}
      /\ FirstDay[m + 1] = FirstDay[m] + MonthLengths[m]
      /\ FirstDay[m + 1] <= Beyond /\ ~ (m > MonthCount)
  BY MonthsAreLong, FirstDayUnfolds, BeyondIsLast
<1>2. Anchored(m, a) = FirstDay[m] - 1 + (IF a <= MonthLengths[m] THEN a ELSE MonthLengths[m])
  BY <1>1 DEF Anchored
<1>3. /\ FirstDay[m] <= Anchored(m, a) /\ Anchored(m, a) < FirstDay[m + 1]
      /\ Anchored(m, a) \in Nat \ {0}
  BY <1>1, <1>2
<1>4. Anchored(m, a) \in Date
  BY <1>1, <1>3, BeyondIsLast DEF Date
<1> QED BY <1>3, <1>4, MonthOfIs

\* After the last month there is no date.
LEMMA AnchoredOutside ==
  ASSUME NEW m \in Nat, NEW a, m > MonthCount
  PROVE  Anchored(m, a) = Beyond
  BY DEF Anchored

\* A date is the day of its month that it is anchored at.
LEMMA AnchoredOfDate ==
  ASSUME NEW d \in Date
  PROVE  Anchored(MonthOf(d), DayOf(d)) = d
<1> DEFINE m == MonthOf(d)
<1>1. m \in 1 .. MonthCount
  BY MonthOfIs
<1>2. /\ DayOf(d) \in 1 .. MonthLengths[m] /\ d = FirstDay[m] + DayOf(d) - 1
      /\ FirstDay[m] \in Nat /\ MonthLengths[m] \in Nat /\ ~ (m > MonthCount)
  BY <1>1, DayOfIs, MonthsAreLong, FirstDayUnfolds
<1> HIDE DEF m
<1>3. Anchored(m, DayOf(d)) = FirstDay[m] - 1 + DayOf(d)
  BY <1>2 DEF Anchored
<1>4. Anchored(m, DayOf(d)) = d
  BY <1>2, <1>3
<1> QED BY <1>4 DEF m

\* A later month has a later date for the same anchor.
LEMMA AnchoredIncreases ==
  ASSUME NEW m \in Nat \ {0}, NEW n \in Nat \ {0}, m <= n, NEW a \in Nat \ {0}
  PROVE  Anchored(m, a) <= Anchored(n, a)
<1>1. CASE n <= MonthCount
  <2>1. m \in 1 .. MonthCount /\ n \in 1 .. MonthCount
    BY <1>1, MonthsAreLong
  <2>2. /\ MonthOf(Anchored(m, a)) = m /\ MonthOf(Anchored(n, a)) = n
        /\ Anchored(m, a) \in Date /\ Anchored(n, a) \in Date
    BY <2>1, AnchoredInside
  <2>3. Anchored(m, a) \in Nat /\ Anchored(n, a) \in Nat
    BY <2>2, BeyondIsLast DEF Date
  <2>4. CASE m = n
    BY <2>2, <2>3, <2>4
  <2>5. CASE m # n
    <3> SUFFICES ASSUME Anchored(n, a) <= Anchored(m, a) PROVE FALSE
      BY <2>2, <2>3
    <3>1. n <= m
      BY <2>2, MonthsIncrease
    <3> QED BY <3>1, <2>5
  <2> QED BY <2>4, <2>5
<1>2. CASE ~ (n <= MonthCount)
  <2>1. Anchored(n, a) = Beyond
    BY <1>2, MonthsAreLong, AnchoredOutside
  <2>2. CASE m \in 1 .. MonthCount
    <3>1. Anchored(m, a) \in 1 .. Beyond - 1 /\ Beyond \in Nat
      BY <2>2, AnchoredInside, BeyondIsLast DEF Date
    <3> QED BY <2>1, <3>1
  <2>3. CASE m \notin 1 .. MonthCount
    <3>1. m > MonthCount
      BY <2>3, MonthsAreLong
    <3>2. Anchored(m, a) = Beyond /\ Beyond \in Nat
      BY <3>1, AnchoredOutside, BeyondIsLast
    <3> QED BY <2>1, <3>2
  <2> QED BY <2>2, <2>3
<1> QED BY <1>1, <1>2

-----------------------------------------------------------------------------
(* The successor of a date.                                                *)

\* The products the schedule is computed with, where the provers need help.
LEMMA Products ==
  /\ \A m \in {1, 3, 12}, i \in Nat \ {0} : m * i \in Nat \ {0}
  /\ \A k \in Nat, m \in {1, 3, 7, 12}, i \in Nat : k * m * i \in Nat
  /\ \A k \in Nat, m \in {1, 3, 12}, i \in Nat : (k + 1) * m * i = k * m * i + m * i
  /\ \A k \in Nat, m \in {1, 7}, i \in Nat :
       k * i * m \in Nat /\ (k + 1) * i * m = k * i * m + m * i
  OBVIOUS

\* Counting days moves a date forward and keeps the order of dates.
LEMMA DaysAfterIncreases ==
  ASSUME NEW d \in Date, NEW n \in Nat \ {0}
  PROVE  /\ DaysAfter(d, n) \in Nat /\ DaysAfter(d, n) > d
         /\ DaysAfter(d, n) <= Beyond
         /\ \A e \in Date : d <= e => DaysAfter(d, n) <= DaysAfter(e, n)
  BY BeyondIsLast DEF Date, DaysAfter

\* The anchor taken from a date is a day of a month.
LEMMA AnchorIsADay == ASSUME NEW a \in Date PROVE DayOf(a) \in Nat \ {0}
  BY DayOfIs, MonthOfIs, MonthsAreLong

\* The cadences that have a next date.
Periodic == [unit : Units \ {"once"}, interval : Nat \ {0}]

\* billing_plan's next date is later than the date it is computed from, and a
\* later date never has an earlier successor, in every unit and from every
\* anchor: what Renewal assumes of its dates (DateAfterAssumption).
THEOREM DatesMoveForward ==
  \A c \in Periodic, a \in Date, d \in Date :
    /\ NextDate(c, DayOf(a), d) \in Int
    /\ NextDate(c, DayOf(a), d) > d
    /\ \A e \in Date :
         d <= e => NextDate(c, DayOf(a), d) <= NextDate(c, DayOf(a), e)
<1> SUFFICES ASSUME NEW c \in Periodic, NEW a \in Date, NEW d \in Date
             PROVE  /\ NextDate(c, DayOf(a), d) \in Int
                    /\ NextDate(c, DayOf(a), d) > d
                    /\ \A e \in Date :
                         d <= e => NextDate(c, DayOf(a), d) <= NextDate(c, DayOf(a), e)
  OBVIOUS
<1> DEFINE b == DayOf(a)
<1>1. b \in Nat \ {0} /\ c.interval \in Nat \ {0} /\ 7 * c.interval \in Nat \ {0}
  BY AnchorIsADay DEF Periodic
<1> HIDE DEF b
<1>2. CASE c.unit = "day"
  <2>1. \A e \in Date : NextDate(c, b, e) = DaysAfter(e, c.interval)
    BY <1>2 DEF NextDate
  <2> QED BY <1>1, <2>1, DaysAfterIncreases DEF b
<1>3. CASE c.unit = "week"
  <2>1. \A e \in Date : NextDate(c, b, e) = DaysAfter(e, 7 * c.interval)
    BY <1>3 DEF NextDate
  <2> QED BY <1>1, <2>1, DaysAfterIncreases DEF b
<1>4. CASE c.unit \in {"month", "quarter", "year"}
  <2> DEFINE n == MonthsIn(c.unit) * c.interval
  <2>1. n \in Nat \ {0}
    <3>1. MonthsIn(c.unit) \in {1, 3, 12}
      BY <1>4 DEF MonthsIn
    <3> QED BY <3>1, <1>1, Products
  <2>2. \A e \in Date : NextDate(c, b, e) = Anchored(MonthOf(e) + n, b)
    BY <1>4 DEF NextDate
  <2> HIDE DEF n
  <2>3. ASSUME NEW e \in Date
        PROVE  /\ MonthOf(e) + n \in Nat \ {0} /\ Anchored(MonthOf(e) + n, b) > e
               /\ Anchored(MonthOf(e) + n, b) \in Int
    <3>1. MonthOf(e) \in 1 .. MonthCount /\ MonthOf(e) + n \in Nat \ {0}
      BY <2>1, MonthOfIs, MonthsAreLong
    <3>2. e \in Nat /\ e < Beyond /\ Beyond \in Nat
      BY BeyondIsLast DEF Date
    <3>3. CASE MonthOf(e) + n <= MonthCount
      <4>1. /\ MonthOf(Anchored(MonthOf(e) + n, b)) = MonthOf(e) + n
            /\ Anchored(MonthOf(e) + n, b) \in Date
        BY <3>1, <3>3, <1>1, MonthsAreLong, AnchoredInside
      <4>2. Anchored(MonthOf(e) + n, b) \in Int
        BY <4>1, BeyondIsLast DEF Date
      <4>3. ~ (Anchored(MonthOf(e) + n, b) <= e)
        BY <4>1, <3>1, <2>1, MonthsIncrease, MonthsAreLong
      <4> QED BY <4>2, <4>3, <3>1, <3>2
    <3>4. CASE ~ (MonthOf(e) + n <= MonthCount)
      <4>1. Anchored(MonthOf(e) + n, b) = Beyond
        BY <3>1, <3>4, MonthsAreLong, AnchoredOutside
      <4> QED BY <4>1, <3>1, <3>2
    <3> QED BY <3>3, <3>4
  <2>4. ASSUME NEW e \in Date, d <= e
        PROVE  Anchored(MonthOf(d) + n, b) <= Anchored(MonthOf(e) + n, b)
    <3>1. MonthOf(d) <= MonthOf(e) /\ MonthOf(d) \in Nat /\ MonthOf(e) \in Nat
      BY <2>4, MonthsIncrease, MonthOfIs, MonthsAreLong
    <3>2. MonthOf(d) + n <= MonthOf(e) + n
      BY <3>1, <2>1
    <3> QED BY <1>1, <2>3, <3>2, AnchoredIncreases
  <2> QED BY <2>2, <2>3, <2>4 DEF b
<1> QED BY <1>2, <1>3, <1>4 DEF Periodic, Units

\* The worker's advance and billing_plan's next date, two functions of the
\* code with arithmetic of their own, agree for every unit users can choose.
THEOREM AdvanceIsNextDate ==
  \A c \in Periodic, a \in Nat, d \in Date : Advance(d, c, a) = NextDate(c, a, d)
  BY DEF Periodic, Units, Advance, NextDate

-----------------------------------------------------------------------------
(* The dates of the reference.                                             *)

\* The reference in months, the start included.
LEMMA KthMonth ==
  ASSUME start \in Date, cadence \in Periodic, NEW k \in Nat,
         cadence.unit \in {"month", "quarter", "year"}
  PROVE  /\ KthDate(k) = Anchored(MonthOf(start) + k * MonthsIn(cadence.unit) * cadence.interval,
                                  DayOf(start))
         /\ MonthOf(start) + k * MonthsIn(cadence.unit) * cadence.interval \in Nat \ {0}
<1>1. /\ MonthsIn(cadence.unit) \in {1, 3, 12} /\ cadence.interval \in Nat
      /\ MonthOf(start) \in Nat \ {0}
  BY MonthOfIs, MonthsAreLong DEF MonthsIn, Periodic
<1>2. k * MonthsIn(cadence.unit) * cadence.interval \in Nat
  BY <1>1, Products
<1>3. CASE k = 0
  <2>1. k * MonthsIn(cadence.unit) * cadence.interval = 0
    BY <1>1, <1>3
  <2> QED BY <2>1, <1>1, <1>3, AnchoredOfDate DEF KthDate
<1>4. CASE k > 0
  BY <1>1, <1>2, <1>4 DEF KthDate
<1> QED BY <1>3, <1>4

\* The reference in days, the start included.
LEMMA KthDay ==
  ASSUME start \in Date, cadence \in Periodic, NEW k \in Nat,
         NEW m, m = IF cadence.unit = "week" THEN 7 ELSE 1,
         cadence.unit \in {"day", "week"}
  PROVE  KthDate(k) = start + k * cadence.interval * m /\ k * cadence.interval * m \in Nat
<1>1. start \in Nat /\ cadence.interval \in Nat /\ m \in {1, 7}
  BY BeyondIsLast DEF Date, Periodic
<1>2. k * cadence.interval * m \in Nat
  BY <1>1, Products
<1>3. CASE k = 0
  <2>1. k * cadence.interval * m = 0
    BY <1>1, <1>3
  <2> QED BY <2>1, <1>1, <1>3 DEF KthDate
<1>4. CASE k > 0
  BY <1>1, <1>2, <1>4 DEF KthDate
<1> QED BY <1>3, <1>4

\* Every date of the reference is a number.
LEMMA KthIsANumber ==
  ASSUME start \in Date, cadence \in Periodic, NEW k \in Nat
  PROVE  KthDate(k) \in Nat
<1>1. CASE cadence.unit \in {"day", "week"}
  <2> DEFINE m == IF cadence.unit = "week" THEN 7 ELSE 1
  <2>1. KthDate(k) = start + k * cadence.interval * m /\ k * cadence.interval * m \in Nat
    BY <1>1, KthDay
  <2> QED BY <2>1, BeyondIsLast DEF Date
<1>2. CASE cadence.unit \in {"month", "quarter", "year"}
  <2> DEFINE n == MonthOf(start) + k * MonthsIn(cadence.unit) * cadence.interval
  <2>1. KthDate(k) = Anchored(n, DayOf(start)) /\ n \in Nat \ {0}
    BY <1>2, KthMonth
  <2> HIDE DEF n
  <2>2. CASE n <= MonthCount
    BY <2>1, <2>2, AnchorIsADay, AnchoredInside, MonthsAreLong, BeyondIsLast DEF Date
  <2>3. CASE ~ (n <= MonthCount)
    BY <2>1, <2>3, AnchoredOutside, MonthsAreLong, BeyondIsLast
  <2> QED BY <2>2, <2>3
<1> QED BY <1>1, <1>2 DEF Periodic, Units

\* The date after the k-th is the (k + 1)-th, or the end of the calendar when
\* the reference leaves it: stepping from date to date does not drift.
LEMMA NextOfKth ==
  ASSUME start \in Date, cadence \in Periodic, NEW k \in Nat, KthDate(k) \in Date
  PROVE  /\ NextDate(cadence, DayOf(start), KthDate(k))
              = (IF KthDate(k + 1) < Beyond THEN KthDate(k + 1) ELSE Beyond)
         /\ KthDate(k + 1) \in Nat
<1> DEFINE d == KthDate(k)
<1>1. cadence.interval \in Nat \ {0} /\ Beyond \in Nat /\ start \in Nat /\ k + 1 \in Nat
  BY BeyondIsLast DEF Date, Periodic
<1>2. CASE cadence.unit \in {"day", "week"}
  <2> DEFINE m == IF cadence.unit = "week" THEN 7 ELSE 1
  <2>1. /\ d = start + k * cadence.interval * m /\ k * cadence.interval * m \in Nat
        /\ KthDate(k + 1) = start + (k + 1) * cadence.interval * m
        /\ (k + 1) * cadence.interval * m \in Nat
    BY <1>1, <1>2, KthDay
  <2>2. m \in {1, 7}
    OBVIOUS
  <2>3. NextDate(cadence, DayOf(start), d) = DaysAfter(d, m * cadence.interval)
    BY <1>1, <1>2 DEF NextDate
  <2> HIDE DEF m, d
  <2>4. (k + 1) * cadence.interval * m = k * cadence.interval * m + m * cadence.interval
    BY <1>1, <2>2, Products, ZenonT(40)
  <2>5. m * cadence.interval \in Nat
    BY <1>1, <2>2
  <2>6. KthDate(k + 1) = d + m * cadence.interval /\ KthDate(k + 1) \in Nat
    BY <1>1, <2>1, <2>4, <2>5
  <2>7. NextDate(cadence, DayOf(start), d)
          = IF KthDate(k + 1) < Beyond THEN KthDate(k + 1) ELSE Beyond
    BY <2>3, <2>6 DEF DaysAfter
  <2> QED BY <2>6, <2>7 DEF d
<1>3. CASE cadence.unit \in {"month", "quarter", "year"}
  <2> DEFINE m == MonthsIn(cadence.unit)
             M(j) == MonthOf(start) + j * m * cadence.interval
             a == DayOf(start)
  <2>1. /\ d = Anchored(M(k), a) /\ M(k) \in Nat \ {0}
        /\ KthDate(k + 1) = Anchored(M(k + 1), a) /\ M(k + 1) \in Nat \ {0}
    BY <1>1, <1>3, KthMonth
  <2>2. m \in {1, 3, 12} /\ a \in Nat \ {0} /\ MonthOf(start) \in Nat
    BY <1>3, AnchorIsADay, MonthOfIs, MonthsAreLong DEF MonthsIn
  <2>3. NextDate(cadence, a, d) = Anchored(MonthOf(d) + m * cadence.interval, a)
    BY <1>3 DEF NextDate
  <2> HIDE DEF m, a
  <2>4. M(k + 1) = M(k) + m * cadence.interval
    <3>1. /\ (k + 1) * m * cadence.interval = k * m * cadence.interval + m * cadence.interval
          /\ k * m * cadence.interval \in Nat /\ m * cadence.interval \in Nat
      BY <1>1, <2>2, Products
    <3> QED BY <3>1, <2>2
  <2> HIDE DEF M, d
  <2>5. M(k) <= MonthCount
    <3> SUFFICES ASSUME ~ (M(k) <= MonthCount) PROVE FALSE
      OBVIOUS
    <3>1. d = Beyond
      BY <2>1, MonthsAreLong, AnchoredOutside
    <3> QED BY <3>1, <1>1 DEF d, Date
  <2>6. MonthOf(d) = M(k)
    BY <2>1, <2>2, <2>5, MonthsAreLong, AnchoredInside
  <2>7. NextDate(cadence, a, d) = KthDate(k + 1)
    BY <2>1, <2>3, <2>4, <2>6
  <2>8. KthDate(k + 1) \in 1 .. Beyond
    <3>1. CASE M(k + 1) <= MonthCount
      <4>1. KthDate(k + 1) \in Date
        BY <2>1, <2>2, <3>1, MonthsAreLong, AnchoredInside
      <4> QED BY <4>1, <1>1 DEF Date
    <3>2. CASE ~ (M(k + 1) <= MonthCount)
      <4>1. KthDate(k + 1) = Beyond
        BY <2>1, <3>2, MonthsAreLong, AnchoredOutside
      <4> QED BY <4>1, BeyondIsLast
    <3> QED BY <3>1, <3>2
  <2>9. NextDate(cadence, a, d)
          = IF KthDate(k + 1) < Beyond THEN KthDate(k + 1) ELSE Beyond
    BY <1>1, <2>7, <2>8
  <2> QED BY <2>8, <2>9, <1>1 DEF a, d
<1> QED BY <1>2, <1>3 DEF Periodic, Units

-----------------------------------------------------------------------------
(* The schedule.                                                           *)

\* `date` is the next date of the reference, or the end of the calendar when
\* the reference has left it.
DateIsNext ==
  phase \in {"loop", "saved"} =>
    \/ date = KthDate(Len(paid))
    \/ phase = "saved" /\ date = Beyond /\ KthDate(Len(paid)) >= Beyond
       /\ cadence.unit # "once"

\* The dates billed are the first of the reference.
PaidFollows == \A k \in DOMAIN paid : paid[k] = KthDate(k - 1)

\* None was billed before it came.
PaidHasCome == \A k \in DOMAIN paid : paid[k] <= today

\* A one-off is billed once, and never refused.
OnceIsOne ==
  cadence.unit = "once" =>
    /\ Len(paid) <= 1 /\ phase # "invalid"
    /\ phase \in {"loop", "saved"} => paid = <<>>

\* The loop has not left the calendar.
LoopIsInside == phase = "loop" => date \in Date

\* The inductive invariant.
IInv ==
  /\ TypeOK
  /\ DateIsNext /\ PaidFollows /\ PaidHasCome /\ OnceIsOne /\ LoopIsInside
  /\ RefusedOnlyAtTheEnd

\* A plan begins with nothing billed and its start next.
LEMMA InitHolds == Init => IInv
<1> SUFFICES ASSUME Init PROVE IInv
  OBVIOUS
<1>1. TypeOK
  BY ScheduleAssumption, BeyondIsLast DEF Init, TypeOK, Date
<1>2. DateIsNext
  BY DEF Init, DateIsNext, KthDate
<1> QED
  BY <1>1, <1>2 DEF IInv, Init, PaidFollows, PaidHasCome, OnceIsOne, LoopIsInside,
     RefusedOnlyAtTheEnd, TypeOK

\* Billing the date that is next keeps the dates billed those of the reference.
LEMMA Billed ==
  ASSUME IInv, date \in Date, date <= today, phase \in {"loop", "saved"},
         paid' = Append(paid, date), UNCHANGED <<start, cadence, today>>
  PROVE  /\ paid' \in Seq(Date) /\ Len(paid') = Len(paid) + 1
         /\ PaidFollows' /\ PaidHasCome'
         /\ KthDate(Len(paid)) = date
<1>1. date # Beyond /\ Beyond \in Nat
  BY BeyondIsLast DEF Date
<1>2. KthDate(Len(paid)) = date
  BY <1>1 DEF IInv, DateIsNext
<1>3. /\ paid' \in Seq(Date) /\ Len(paid') = Len(paid) + 1 /\ Len(paid) \in Nat
      /\ DOMAIN paid' = 1 .. Len(paid) + 1 /\ DOMAIN paid = 1 .. Len(paid)
      /\ \A k \in 1 .. Len(paid) + 1 :
           paid'[k] = IF k = Len(paid) + 1 THEN date ELSE paid[k]
  BY DEF IInv, TypeOK
<1>4. \A k : KthDate(k)' = KthDate(k)
  BY DEF KthDate
<1>5. PaidFollows'
  <2> SUFFICES ASSUME NEW k \in 1 .. Len(paid) + 1 PROVE paid'[k] = KthDate(k - 1)
    BY <1>3, <1>4 DEF PaidFollows
  <2>1. CASE k = Len(paid) + 1
    <3>1. k - 1 = Len(paid)
      BY <2>1, <1>3
    <3> QED BY <3>1, <2>1, <1>2, <1>3
  <2>2. CASE k # Len(paid) + 1
    BY <2>2, <1>3 DEF IInv, PaidFollows
  <2> QED BY <2>1, <2>2
<1>6. PaidHasCome'
  BY <1>3 DEF IInv, PaidHasCome
<1> QED BY <1>2, <1>3, <1>5, <1>6

\* A turn of the loop of billing_plan.
LEMMA PushPaidDateKeeps == IInv /\ PushPaidDate => IInv'
<1> SUFFICES ASSUME IInv, PushPaidDate PROVE IInv'
  OBVIOUS
<1>1. /\ phase = "loop" /\ date <= today /\ date \in Date
      /\ paid' = Append(paid, date) /\ UNCHANGED <<start, cadence, today>>
      /\ start \in Date /\ cadence \in Cadences /\ today \in Date
      /\ Len(paid) \in Nat
  BY DEF IInv, LoopIsInside, PushPaidDate, TypeOK
<1>2. /\ paid' \in Seq(Date) /\ Len(paid') = Len(paid) + 1
      /\ PaidFollows' /\ PaidHasCome' /\ KthDate(Len(paid)) = date
  BY <1>1, Billed
<1>3. \A k : KthDate(k)' = KthDate(k)
  BY <1>1 DEF KthDate
<1>4. CASE cadence.unit = "once"
  <2>1. phase' = "completed" /\ date' = date /\ paid = <<>>
    BY <1>1, <1>4 DEF PushPaidDate, IInv, OnceIsOne
  <2> QED
    BY <1>1, <1>2, <1>4, <2>1 DEF IInv, TypeOK, DateIsNext, OnceIsOne, LoopIsInside,
       RefusedOnlyAtTheEnd
<1>5. CASE cadence.unit # "once"
  <2>1. cadence \in Periodic
    BY <1>1, <1>5, ScheduleAssumption DEF Periodic
  <2> DEFINE next == NextDate(cadence, DayOf(start), date)
             kth == KthDate(Len(paid) + 1)
  <2>2. next = (IF kth < Beyond THEN kth ELSE Beyond) /\ kth \in Nat
    BY <1>1, <1>2, <2>1, NextOfKth
  <2>3. next > date
    BY <1>1, <2>1, DatesMoveForward
  <2>4. /\ next = Beyond => phase' = "invalid" /\ date' = date
        /\ next # Beyond => date' = next /\ phase' = phase
    BY <1>5 DEF PushPaidDate, anchor_day
  <2>5. KthDate(Len(paid))' = kth
    BY <1>2, <1>3
  <2> HIDE DEF next, kth
  <2>6. Beyond \in Nat /\ Date = 1 .. Beyond - 1 /\ date \in Nat \ {0}
    BY <1>1, BeyondIsLast DEF Date
  <2>7. CASE next = Beyond
    <3>1. kth >= Beyond
      BY <2>2, <2>6, <2>7
    <3>2. (KthDate(Len(paid)) >= Beyond)'
      BY <2>5, <3>1
    <3>3. phase' = "invalid" /\ date' = date
      BY <2>4, <2>7
    <3> QED
      BY <1>1, <1>2, <1>5, <3>2, <3>3 DEF IInv, TypeOK, DateIsNext, OnceIsOne,
         LoopIsInside, RefusedOnlyAtTheEnd
  <2>8. CASE next # Beyond
    <3>1. /\ phase' = "loop" /\ date' = kth /\ date' \in Date
          /\ date' \in 1 .. Beyond
      BY <1>1, <2>2, <2>3, <2>4, <2>6, <2>8
    <3> QED
      BY <1>1, <1>2, <1>5, <2>5, <3>1 DEF IInv, TypeOK, DateIsNext, OnceIsOne,
         LoopIsInside, RefusedOnlyAtTheEnd
  <2> QED BY <2>7, <2>8
<1> QED BY <1>4, <1>5

\* A cycle of the worker.
LEMMA WorkerRenewsKeeps == IInv /\ WorkerRenews => IInv'
<1> SUFFICES ASSUME IInv, WorkerRenews PROVE IInv'
  OBVIOUS
<1>1. /\ phase = "saved" /\ date <= today
      /\ paid' = Append(paid, date) /\ UNCHANGED <<start, cadence, today>>
      /\ start \in Date /\ cadence \in Cadences /\ today \in Date
      /\ date \in 1 .. Beyond /\ Len(paid) \in Nat
  BY DEF IInv, WorkerRenews, IsDue, TypeOK
<1>2. Beyond \in Nat /\ Date = 1 .. Beyond - 1 /\ date \in Date /\ date \in Nat \ {0}
  BY <1>1, BeyondIsLast DEF Date
<1>3. /\ paid' \in Seq(Date) /\ Len(paid') = Len(paid) + 1
      /\ PaidFollows' /\ PaidHasCome' /\ KthDate(Len(paid)) = date
  BY <1>1, <1>2, Billed
<1>4. \A k : KthDate(k)' = KthDate(k)
  BY <1>1 DEF KthDate
<1>5. CASE cadence.unit = "once"
  <2>1. phase' = "completed" /\ date' = date /\ paid = <<>>
    BY <1>1, <1>5 DEF WorkerRenews, IInv, OnceIsOne
  <2> QED
    BY <1>1, <1>3, <1>5, <2>1 DEF IInv, TypeOK, DateIsNext, OnceIsOne, LoopIsInside,
       RefusedOnlyAtTheEnd
<1>6. CASE cadence.unit # "once"
  <2>1. cadence \in Periodic
    BY <1>1, <1>6, ScheduleAssumption DEF Periodic
  <2> DEFINE next == NextDate(cadence, DayOf(start), date)
             kth == KthDate(Len(paid) + 1)
  <2>2. next = (IF kth < Beyond THEN kth ELSE Beyond) /\ kth \in Nat
    BY <1>1, <1>2, <1>3, <2>1, NextOfKth
  <2>3. next > date
    BY <1>1, <1>2, <2>1, DatesMoveForward
  <2>4. date' = next /\ phase' = "saved"
    <3>1. Advance(date, cadence, DayOf(start)) = next
      BY <1>1, <1>2, <2>1, AnchorIsADay, AdvanceIsNextDate
    <3> QED BY <1>1, <1>6, <3>1 DEF WorkerRenews, anchor_day
  <2>5. KthDate(Len(paid))' = kth
    BY <1>3, <1>4
  <2> HIDE DEF next, kth
  <2>6. date' \in 1 .. Beyond
    BY <1>2, <2>2, <2>3, <2>4
  <2>7. DateIsNext'
    <3>1. date' = kth \/ (date' = Beyond /\ kth >= Beyond)
      BY <1>2, <2>2, <2>4
    <3> QED BY <1>1, <1>6, <2>4, <2>5, <3>1 DEF DateIsNext
  <2> QED
    BY <1>1, <1>3, <1>6, <2>4, <2>6, <2>7 DEF IInv, TypeOK, OnceIsOne,
       LoopIsInside, RefusedOnlyAtTheEnd
<1> QED BY <1>5, <1>6

\* Every step.
LEMMA StepHolds == IInv /\ [Next]_vars => IInv'
<1> SUFFICES ASSUME IInv, [Next]_vars PROVE IInv'
  OBVIOUS
<1>1. CASE PushPaidDate
  BY <1>1, PushPaidDateKeeps
<1>2. CASE ReturnPlan \/ UNCHANGED vars
  <2>1. UNCHANGED <<start, cadence, today, date, paid>> /\ phase' \in {phase, "saved"}
        /\ (phase' = phase \/ phase = "loop")
    BY <1>2 DEF ReturnPlan, vars
  <2>2. \A k : KthDate(k)' = KthDate(k)
    BY <2>1 DEF KthDate
  <2> QED
    BY <2>1, <2>2 DEF IInv, TypeOK, DateIsNext, PaidFollows, PaidHasCome, OnceIsOne,
       LoopIsInside, RefusedOnlyAtTheEnd
<1>3. CASE DayPasses
  <2>1. /\ UNCHANGED <<start, cadence, date, paid, phase>> /\ phase = "saved"
        /\ today' = today + 1 /\ today' \in Date /\ today \in Nat
    BY <1>3, BeyondIsLast DEF DayPasses, IInv, TypeOK, Date
  <2>2. \A k : KthDate(k)' = KthDate(k)
    BY <2>1 DEF KthDate
  <2>3. PaidHasCome'
    <3>1. \A k \in DOMAIN paid : paid[k] \in Nat
      BY BeyondIsLast DEF IInv, TypeOK, Date
    <3> QED BY <2>1, <3>1 DEF IInv, PaidHasCome
  <2> QED
    BY <2>1, <2>2, <2>3 DEF IInv, TypeOK, DateIsNext, PaidFollows, OnceIsOne,
       LoopIsInside, RefusedOnlyAtTheEnd
<1>4. CASE WorkerRenews
  BY <1>4, WorkerRenewsKeeps
<1> QED BY <1>1, <1>2, <1>3, <1>4 DEF Next

\* It holds always.
LEMMA Invariance == Spec => []IInv
  BY InitHolds, StepHolds, PTL DEF Spec

\* The columns and the loop's variables hold values of their types: the date
\* stays in the calendar or at its end.
THEOREM TypeCorrect == Spec => []TypeOK
  BY Invariance, PTL DEF IInv

\* No drift: the dates the loop and then the worker bill are those the start
\* alone determines, in order and without a gap, whatever calendar is used.
THEOREM DatesFollow == Spec => []DatesFollowTheAnchor
<1>1. IInv => DatesFollowTheAnchor
  BY DEF IInv, DatesFollowTheAnchor, DateIsNext, PaidFollows, OnceIsOne
<1> QED BY <1>1, Invariance, PTL

\* A date is billed when it has come and not before, and a plan that has
\* caught up has missed none.
THEOREM Billing == Spec => []BilledWhenDue
<1>1. ASSUME IInv PROVE BilledWhenDue
  <2> SUFFICES ASSUME phase = "saved", date > today, cadence.unit # "once",
                      NEW k \in 0 .. Len(paid),
                      KthDate(k) <= today
               PROVE  \E i \in DOMAIN paid : paid[i] = KthDate(k)
    BY <1>1 DEF IInv, PaidHasCome, BilledWhenDue
  <2>1. /\ Len(paid) \in Nat /\ DOMAIN paid = 1 .. Len(paid)
        /\ today \in Nat /\ today < Beyond /\ Beyond \in Nat /\ date \in Nat
    BY <1>1, BeyondIsLast DEF IInv, TypeOK, Date
  <2>2. CASE k = Len(paid)
    <3>1. KthDate(k) = date \/ KthDate(k) >= Beyond
      BY <1>1, <2>2 DEF IInv, DateIsNext
    <3>2. KthDate(k) \in Nat
      BY <1>1, <2>1, <2>2, KthIsANumber, ScheduleAssumption DEF IInv, TypeOK, Periodic
    <3> QED BY <2>1, <3>1, <3>2
  <2>3. CASE k # Len(paid)
    <3>1. k + 1 \in 1 .. Len(paid) /\ k + 1 - 1 = k
      <4>1. \A n \in Nat : \A j \in 0 .. n :
              j # n => j + 1 \in 1 .. n /\ j + 1 - 1 = j
        OBVIOUS
      <4> QED BY <4>1, <2>1, <2>3
    <3>2. paid[k + 1] = KthDate(k + 1 - 1)
      BY <1>1, <2>1, <3>1 DEF IInv, PaidFollows
    <3> QED BY <2>1, <3>1, <3>2
  <2> QED BY <2>2, <2>3
<1> QED BY <1>1, Invariance, PTL

\* billing_plan refuses a request only when the plan leaves the calendar.
THEOREM Refusal == Spec => []RefusedOnlyAtTheEnd
  BY Invariance, PTL DEF IInv
=============================================================================
