--------------------------- MODULE RenewalProofs ---------------------------
(***************************************************************************)
(* Proofs about Renewal, for every set of subscriptions, workers, clients, *)
(* cadences and requests, every calendar that satisfies DateAfterAssumption *)
(* and every bound.                                                        *)
(*                                                                         *)
(* First what the plan of a schedule is: the least set of dates closed     *)
(* under the period.  An induction over its dates is done by giving the    *)
(* set of dates that have the property and showing that it is closed.      *)
(***************************************************************************)
EXTENDS Renewal, TLAPS

\* The dates of a plan are dates, they have the start among them, and the date
\* after one of them is one of them unless it is out of range.
LEMMA PlanClosed ==
  ASSUME NEW start \in Date, NEW c \in Cadences
  PROVE  /\ Plan[start][c] \in SUBSET Date
         /\ Closed(Plan[start][c], start, c)
<1>1. Plan[start][c] =
        {d \in Date : \A P \in SUBSET Date : Closed(P, start, c) => d \in P}
  BY DEF Plan
<1>2. start \in Plan[start][c]
  BY <1>1 DEF Closed
<1>3. ASSUME c # Once, NEW d \in Plan[start][c],
             DateAfter(c, AnchorOf(start), d) <= LastDay
      PROVE  DateAfter(c, AnchorOf(start), d) \in Plan[start][c]
  <2> DEFINE n == DateAfter(c, AnchorOf(start), d)
  <2>1. d \in Date
    BY <1>1
  <2>2. n \in Date
    BY <2>1, <1>3, DateAfterAssumption, RenewalAssumption DEF Date
  <2>3. ASSUME NEW P \in SUBSET Date, Closed(P, start, c)
        PROVE  n \in P
    <3>1. d \in P
      BY <1>1, <2>3
    <3>2. QED
      BY <3>1, <2>3, <1>3 DEF Closed
  <2>4. QED
    BY <1>1, <2>2, <2>3
<1>4. QED
  BY <1>1, <1>2, <1>3 DEF Closed

\* Induction over a plan.
LEMMA PlanLeast ==
  ASSUME NEW start \in Date, NEW c \in Cadences,
         NEW P \in SUBSET Date, Closed(P, start, c)
  PROVE  Plan[start][c] \subseteq P
BY DEF Plan

\* A plan begins at its start.
LEMMA PlanFromStart ==
  ASSUME NEW start \in Date, NEW c \in Cadences, NEW d \in Plan[start][c]
  PROVE  start <= d
<1> DEFINE Q == {x \in Date : start <= x}
<1>1. Closed(Q, start, c)
  <2>1. start \in Q
    BY DEF Date
  <2>2. ASSUME c # Once, NEW x \in Q, DateAfter(c, AnchorOf(start), x) <= LastDay
        PROVE  DateAfter(c, AnchorOf(start), x) \in Q
    BY <2>2, DateAfterAssumption, RenewalAssumption DEF Date
  <2>3. QED
    BY <2>1, <2>2 DEF Closed
<1>2. QED
  BY <1>1, PlanLeast

\* No date of a plan lies between a date and the one after it.
LEMMA PlanSuccessor ==
  ASSUME NEW start \in Date, NEW c \in Cadences \ {Once},
         NEW d \in Plan[start][c], NEW e \in Plan[start][c]
  PROVE  e <= d \/ DateAfter(c, AnchorOf(start), d) <= e
<1> DEFINE N(x) == DateAfter(c, AnchorOf(start), x)
           PL == Plan[start][c]
           Good == {x \in PL : \A y \in PL : y <= x \/ N(x) <= y}
<1>1. /\ PL \in SUBSET Date /\ start \in PL
      /\ \A x \in PL : start <= x /\ (N(x) <= LastDay => N(x) \in PL)
  BY PlanClosed, PlanFromStart DEF Closed
<1>2. \A x, y \in Date : N(x) \in Int /\ x < N(x) /\ (x <= y => N(x) <= N(y))
  BY DateAfterAssumption
<1>3. \A x \in Date : x \in Int
  BY DEF Date
<1>4. ASSUME NEW Q \in SUBSET PL, start \in Q,
             \A x \in Q : N(x) <= LastDay => N(x) \in Q
      PROVE  PL \subseteq Q
  <2>1. Closed(Q, start, c) /\ Q \in SUBSET Date
    BY <1>4, <1>1 DEF Closed
  <2>2. QED
    BY <2>1, PlanLeast
<1> HIDE DEF N, PL
<1>5. start \in Good
  <2> DEFINE Q == {y \in PL : y = start \/ N(start) <= y}
  <2>1. ASSUME NEW x \in Q, N(x) <= LastDay
        PROVE  N(x) \in Q
    BY <2>1, <1>1, <1>2, <1>3
  <2>2. PL \subseteq Q
    BY <2>1, <1>1, <1>4
  <2>3. QED
    BY <2>2, <1>1, <1>2, <1>3
<1>6. ASSUME NEW x \in Good, N(x) <= LastDay
      PROVE  N(x) \in Good
  <2> DEFINE z == N(x)
             Q == {y \in PL : y <= z \/ N(z) <= y}
  <2>1. x \in PL /\ z \in PL /\ x \in Date /\ z \in Date
    BY <1>6, <1>1
  <2>2. ASSUME NEW y \in Q, N(y) <= LastDay
        PROVE  N(y) \in Q
    <3>1. y \in Date /\ N(y) \in PL
      BY <2>2, <1>1
    <3>2. CASE y <= x
      BY <3>1, <3>2, <2>1, <1>2
    <3>3. CASE z <= y /\ y <= z
      <4>1. y = z
        BY <3>1, <3>3, <2>1, <1>3
      <4>2. QED
        BY <4>1, <3>1, <1>2
    <3>4. CASE N(z) <= y
      BY <3>1, <3>4, <2>1, <1>2, <1>3
    <3>5. y <= x \/ z <= y
      BY <1>6, <2>2
    <3>6. QED
      BY <3>2, <3>3, <3>4, <3>5, <2>2
  <2>3. start \in Q
    BY <2>1, <1>1, <1>2, <1>3
  <2>4. PL \subseteq Q
    BY <2>2, <2>3, <1>4
  <2>5. QED
    BY <2>1, <2>4
<1>7. PL \subseteq Good
  BY <1>5, <1>6, <1>4
<1>8. QED
  BY <1>7 DEF PL, N
\* The next date billing_plan returns is the first date of the plan after
\* today: the loop has a last date d it pays, and the date after d.
LEMMA PlannedNextIsFirst ==
  ASSUME NEW start \in Date, NEW c \in Cadences \ {Once}, NEW today \in Date,
         PlanExists(start, c, today)
  PROVE  /\ PlannedNext(start, c, today) \in Plan[start][c]
         /\ today < PlannedNext(start, c, today)
         /\ \A d \in Plan[start][c] :
              d < PlannedNext(start, c, today) => d <= today
<1> DEFINE PL == Plan[start][c]
           N(x) == DateAfter(c, AnchorOf(start), x)
           First(x) == x \in PL /\ today < x /\ \A e \in PL : today < e => x <= e
<1>1. PL \in SUBSET Date /\ Closed(PL, start, c)
  BY PlanClosed
<1>2. \A x \in Date : x \in Int
  BY DEF Date
<1>3. PICK last \in PL : today < last
  BY DEF PlanExists, Upcoming
<1>4. CASE today < start
  <2>1. First(start)
    BY <1>1, <1>4, PlanFromStart DEF Closed
  <2>2. QED
    BY <2>1, <1>1, <1>2 DEF PlannedNext, Upcoming
<1>5. CASE ~(today < start)
  <2> DEFINE Past == {x \in PL : x <= today}
  <2>1. PICK d \in Past : today < N(d)
    <3>1. SUFFICES ASSUME \A d \in Past : ~(today < N(d))
                   PROVE  FALSE
      OBVIOUS
    <3>2. start \in Past
      BY <1>1, <1>2, <1>5 DEF Closed
    <3>3. ASSUME NEW x \in Past, N(x) <= LastDay
          PROVE  N(x) \in Past
      <4>1. N(x) \in PL
        BY <3>3, <1>1 DEF Closed
      <4>2. QED
        BY <4>1, <3>1, <1>1, <1>2
    <3>4. Closed(Past, start, c) /\ Past \in SUBSET Date
      BY <3>2, <3>3, <1>1 DEF Closed
    <3>5. PL \subseteq Past
      BY <3>4, PlanLeast
    <3>6. QED
      BY <3>5, <1>1, <1>2, <1>3
  <2>2. \A e \in PL : e <= d \/ N(d) <= e
    BY PlanSuccessor
  <2>3. N(d) \in Int
    BY <1>1, DateAfterAssumption
  <2>4. N(d) <= last
    BY <2>2, <1>1, <1>2, <1>3
  <2>5. N(d) \in PL
    BY <2>3, <2>4, <1>1, <1>2, RenewalAssumption DEF Closed, Date
  <2>6. First(N(d))
    BY <2>1, <2>2, <2>5, <1>1, <1>2
  <2>7. QED
    BY <2>6, <1>1, <1>2 DEF PlannedNext, Upcoming
<1>6. QED
  BY <1>4, <1>5

\* A one-off is due on its start.
LEMMA PlannedOneOff ==
  ASSUME NEW start \in Date, NEW today
  PROVE  /\ PlannedNext(start, Once, today) = start
         /\ Plan[start][Once] = {start}
<1>1. PlannedNext(start, Once, today) = start
  <2>1. \A d \in Date : d <= d
    BY DEF Date
  <2>2. QED
    BY <2>1 DEF PlannedNext, Upcoming
<1>2. Closed({start}, start, Once) /\ {start} \in SUBSET Date
  BY DEF Closed
<1>3. Once \in Cadences
  BY RenewalAssumption
<1>4. Plan[start][Once] \subseteq {start}
  BY <1>2, <1>3, PlanLeast
<1>5. start \in Plan[start][Once]
  BY <1>3, PlanClosed DEF Closed
<1>6. QED
  BY <1>1, <1>4, <1>5
-----------------------------------------------------------------------------

Bills == [Subs \X Date -> Bill \cup {NoBill}]

LEMMA InsertedIs ==
  ASSUME NEW table \in Bills, NEW keys, NEW bill \in Bill
  PROVE  /\ Inserted(keys, bill, table) \in Bills
         /\ \A k \in Subs \X Date : Inserted(keys, bill, table)[k] =
              IF k \in keys /\ table[k] = NoBill THEN bill ELSE table[k]
<1>1. DOMAIN table = Subs \X Date
  BY DEF Bills
<1>2. QED
  BY <1>1 DEF Inserted, Bills

LEMMA ReconciledIs ==
  ASSUME NEW table \in Bills, NEW s, NEW history
  PROVE  /\ Reconciled(s, history, table) \in Bills
         /\ \A k \in Subs \X Date : Reconciled(s, history, table)[k] =
              IF /\ k[1] = s /\ k[2] \notin history
                 /\ table[k] # NoBill /\ table[k].source = "schedule"
                THEN NoBill ELSE table[k]
<1>1. DOMAIN table = Subs \X Date
  BY DEF Bills
<1>2. QED
  BY <1>1 DEF Reconciled, Bills

LEMMA AutomaticBills == PaidBySchedule \in Bill /\ ToBeConfirmed \in Bill
BY DEF PaidBySchedule, ToBeConfirmed, Bill

\* What a worker's transaction holds.
LEMMA CycleIs ==
  ASSUME TypeOK, NEW w \in Workers
  PROVE  /\ worker[w] \in Cycle
         /\ worker[w].at \in FirstTick .. LastTick
         /\ \A r \in worker[w].remind : /\ r \in Reminder /\ r.sub \in Subs
                                        /\ r.due \in Nat /\ r.days \in Nat
         /\ \A r \in worker[w].renew : /\ r \in Renewal /\ r.sub \in Subs
                                       /\ r.row \in Row /\ r.row.next \in Nat
<1>1. worker[w] \in Cycle
  BY DEF TypeOK
<1>2. \A r \in worker[w].remind : r \in Reminder
  BY <1>1 DEF Cycle
<1>3. \A r \in worker[w].renew : r \in Renewal
  BY <1>1 DEF Cycle
<1>4. \A r \in Renewal : r.sub \in Subs /\ r.row \in Row /\ r.row.next \in Nat
  BY DEF Renewal, Row
<1>5. \A r \in Reminder : r.sub \in Subs /\ r.due \in Nat /\ r.days \in Nat
  BY DEF Reminder
<1>6. QED
  BY <1>1, <1>2, <1>3, <1>4, <1>5 DEF Cycle

\* The user's date is a date the code supports.
LEMMA TodayIsDate ==
  ASSUME TypeOK, NEW s \in Subs, NEW t \in FirstTick .. LastTick
  PROVE  Today(s, t) \in Date
BY RenewalAssumption DEF Today, TypeOK

\* What a renewed row is.
LEMMA RenewedIsRow ==
  ASSUME NEW row \in Row, row.next \in Date
  PROVE  /\ Renewed(row, row) \in Row
         /\ Renewed(row, row).start = row.start
         /\ Renewed(row, row).cadence = row.cadence
         /\ Renewed(row, row).anchor = row.anchor
         /\ row.cadence = Once => Renewed(row, row).next = row.next
         /\ row.cadence # Once =>
              /\ Renewed(row, row).next = DateAfter(row.cadence, row.anchor, row.next)
              /\ row.next < Renewed(row, row).next
<1>1. CASE row.cadence = Once
  BY <1>1 DEF Renewed, Row, Statuses
<1>2. CASE row.cadence # Once
  <2>1. PICK a \in Date : row.anchor = AnchorOf(a)
    BY DEF Row
  <2>2. /\ DateAfter(row.cadence, row.anchor, row.next) \in Int
        /\ row.next < DateAfter(row.cadence, row.anchor, row.next)
    BY <1>2, <2>1, DateAfterAssumption DEF Row
  <2>3. DateAfter(row.cadence, row.anchor, row.next) \in Nat \ {0}
    BY <2>2 DEF Date
  <2>4. QED
    BY <1>2, <2>2, <2>3 DEF Renewed, Row
<1>3. QED
  BY <1>1, <1>2

\* What a worker's commit does to the tables, its reads being true.
LEMMA CommitCycleEffect ==
  ASSUME IInv, NEW w \in Workers, CommitCycle(w)
  PROVE  /\ \A s \in Subs :
              \/ /\ subs[s] \in Row /\ Active(s) /\ subs[s].next \in Date
                 /\ subs'[s] = Renewed(subs[s], subs[s])
                 /\ bills'[<<s, subs[s].next>>] # NoBill
              \/ subs'[s] = subs[s]
         /\ \A k \in Subs \X Date :
              \/ bills'[k] = bills[k]
              \/ /\ bills[k] = NoBill
                 /\ subs[k[1]] \in Row /\ Active(k[1]) /\ subs[k[1]].next = k[2]
                 /\ subs'[k[1]] = Renewed(subs[k[1]], subs[k[1]])
                 /\ bills'[k] = IF Scheduled(k[1]) THEN PaidBySchedule
                                                   ELSE ToBeConfirmed
         /\ bills' \in Bills
         /\ subs' \in [Subs -> Row \cup {NoSub}]
         /\ \A s \in Subs : subs'[s] # subs[s] => s \in Holds(w)
<1> DEFINE renew == worker[w].renew
           charged(scheduled) ==
             {<<r.sub, r.row.next>> : r \in {q \in renew :
                                (q.row.start # NoDate) = scheduled}}
<1>1. \A r \in renew : /\ r.sub \in Subs /\ r.row = subs[r.sub] /\ r.row \in Row
                       /\ r.row.status = "active" /\ r.row.next \in Date
  BY CycleIs DEF IInv, ReadsStayTrue, WorkerState
<1>2. subs \in [Subs -> Row \cup {NoSub}] /\ bills \in Bills
  BY DEF IInv, TypeOK, Bills
<1>3. \A r \in renew : RenewedRow(w, r.sub) = subs[r.sub]
  BY <1>1 DEF RenewedRow
<1>4. \A s \in Subs : subs'[s] = IF s \in RenewedSubs(w)
                                   THEN Renewed(subs[s], subs[s]) ELSE subs[s]
  BY <1>3 DEF CommitCycle, RenewedSubs
<1>5. \A s \in RenewedSubs(w) :
        /\ s \in Subs /\ subs[s] \in Row /\ Active(s) /\ subs[s].next \in Date
        /\ <<s, subs[s].next>> \in charged(subs[s].start # NoDate)
  BY <1>1, NullAssumption DEF RenewedSubs, Active, Exists
<1>6. /\ bills' \in Bills
      /\ \A k \in Subs \X Date : bills'[k] =
           IF bills[k] # NoBill THEN bills[k]
           ELSE IF k \in charged(FALSE) THEN ToBeConfirmed
           ELSE IF k \in charged(TRUE) THEN PaidBySchedule ELSE NoBill
  <2> DEFINE first == Inserted(charged(FALSE), ToBeConfirmed, bills)
  <2>1. bills' = Inserted(charged(TRUE), PaidBySchedule, first)
    BY DEF CommitCycle
  <2>2. first \in Bills
        /\ \A k \in Subs \X Date : first[k] =
             IF k \in charged(FALSE) /\ bills[k] = NoBill
               THEN ToBeConfirmed ELSE bills[k]
    BY <1>2, InsertedIs, AutomaticBills
  <2> DEFINE second == Inserted(charged(TRUE), PaidBySchedule, first)
  <2>3. bills' \in Bills
        /\ \A k \in Subs \X Date : bills'[k] =
             IF k \in charged(TRUE) /\ first[k] = NoBill
               THEN PaidBySchedule ELSE first[k]
    <3>1. second \in Bills
          /\ \A k \in Subs \X Date : second[k] =
               IF k \in charged(TRUE) /\ first[k] = NoBill
                 THEN PaidBySchedule ELSE first[k]
      <4> HIDE DEF first, charged
      <4>1. first \in Bills /\ PaidBySchedule \in Bill
        BY <2>2, AutomaticBills
      <4>2. QED
        BY <4>1, InsertedIs, ZenonT(40)
    <3>2. bills' = second
      BY <2>1
    <3> HIDE DEF first, second, charged
    <3>3. QED
      BY <3>1, <3>2
  <2>4. ToBeConfirmed # NoBill
    BY NullAssumption, AutomaticBills
  <2>5. ASSUME NEW k \in Subs \X Date
        PROVE  bills'[k] =
           IF bills[k] # NoBill THEN bills[k]
           ELSE IF k \in charged(FALSE) THEN ToBeConfirmed
           ELSE IF k \in charged(TRUE) THEN PaidBySchedule ELSE NoBill
    <3> HIDE DEF first, charged
    <3>1. first[k] = IF k \in charged(FALSE) /\ bills[k] = NoBill
                       THEN ToBeConfirmed ELSE bills[k]
      BY <2>2
    <3>2. bills'[k] = IF k \in charged(TRUE) /\ first[k] = NoBill
                        THEN PaidBySchedule ELSE first[k]
      BY <2>3
    <3>3. QED
      BY <3>1, <3>2, <2>4
  <2>6. QED
    BY <2>3, <2>5
<1>7. PaidBySchedule # NoBill /\ ToBeConfirmed # NoBill
  BY NullAssumption, AutomaticBills
<1>8. \A k \in charged(TRUE) : k[1] \in RenewedSubs(w) /\ k[2] = subs[k[1]].next
                               /\ subs[k[1]].start # NoDate
  BY <1>1 DEF RenewedSubs
<1>9. \A k \in charged(FALSE) : k[1] \in RenewedSubs(w) /\ k[2] = subs[k[1]].next
                                /\ subs[k[1]].start = NoDate
  BY <1>1 DEF RenewedSubs
<1> HIDE DEF charged
<1>10. ASSUME NEW s \in Subs
       PROVE  \/ /\ subs[s] \in Row /\ Active(s) /\ subs[s].next \in Date
                 /\ subs'[s] = Renewed(subs[s], subs[s])
                 /\ bills'[<<s, subs[s].next>>] # NoBill
              \/ subs'[s] = subs[s]
  <2>1. CASE s \in RenewedSubs(w)
    <3>1. <<s, subs[s].next>> \in Subs \X Date
      BY <2>1, <1>5
    <3>2. <<s, subs[s].next>> \in charged(TRUE) \cup charged(FALSE)
      <4>1. CASE subs[s].start # NoDate
        <5>1. (subs[s].start # NoDate) = TRUE
          BY <4>1
        <5>2. QED
          BY <5>1, <2>1, <1>5
      <4>2. CASE subs[s].start = NoDate
        <5>1. (subs[s].start # NoDate) = FALSE
          BY <4>2
        <5>2. QED
          BY <5>1, <2>1, <1>5
      <4>3. QED
        BY <4>1, <4>2
    <3>3. QED
      BY <2>1, <3>1, <3>2, <1>4, <1>5, <1>6, <1>7
  <2>2. QED
    BY <2>1, <1>4
<1>11. ASSUME NEW k \in Subs \X Date, bills'[k] # bills[k]
       PROVE  /\ bills[k] = NoBill
              /\ subs[k[1]] \in Row /\ Active(k[1]) /\ subs[k[1]].next = k[2]
              /\ subs'[k[1]] = Renewed(subs[k[1]], subs[k[1]])
              /\ bills'[k] = IF Scheduled(k[1]) THEN PaidBySchedule
                                                ELSE ToBeConfirmed
  <2>1. bills[k] = NoBill /\ k \in charged(TRUE) \cup charged(FALSE)
    BY <1>6, <1>11
  <2>2. k[1] \in RenewedSubs(w) /\ k[2] = subs[k[1]].next /\ k[1] \in Subs
    BY <2>1, <1>8, <1>9, <1>5
  <2>3. bills'[k] = IF subs[k[1]].start # NoDate THEN PaidBySchedule
                                                 ELSE ToBeConfirmed
    BY <2>1, <1>6, <1>8, <1>9
  <2>4. QED
    BY <2>1, <2>2, <2>3, <1>4, <1>5 DEF Scheduled, Active
<1>12. subs' \in [Subs -> Row \cup {NoSub}]
  <2>1. subs' = [s \in Subs |-> IF s \in RenewedSubs(w)
                   THEN Renewed(subs[s], RenewedRow(w, s)) ELSE subs[s]]
    BY DEF CommitCycle
  <2>2. \A s \in Subs : subs'[s] \in Row \cup {NoSub}
    BY <1>2, <1>4, <1>5, RenewedIsRow
  <2>3. QED
    BY <2>1, <2>2
<1>13. \A s \in Subs : subs'[s] # subs[s] => s \in Holds(w)
  BY <1>4 DEF RenewedSubs, Holds
<1>14. QED
  BY <1>6, <1>10, <1>11, <1>12, <1>13

-----------------------------------------------------------------------------
(***************************************************************************)
(* The plan and the bills of one subscription.                             *)
(***************************************************************************)

OnPlan(s) ==
  /\ Scheduled(s) =>
       /\ subs[s].anchor = AnchorOf(subs[s].start)
       /\ subs[s].cadence = Once => subs[s].next = subs[s].start
       /\ subs[s].cadence # Once =>
            /\ subs[s].next \in PlanOf(s) \/ subs[s].next > LastDay
            /\ \A d \in PlanOf(s) : d < subs[s].next => bills[<<s, d>>] # NoBill
  /\ \A d \in Date :
       bills[<<s, d>>] # NoBill /\ bills[<<s, d>>].source = "schedule" =>
         /\ Scheduled(s)
         /\ d \in PlanOf(s)
         /\ subs[s].cadence # Once => d < subs[s].next

\* The three parts of the invariant about plans, subscription by subscription.
LEMMA OnPlanParts ==
  /\ PlanState /\ NoMissedPeriod /\ AutomaticBillsOnPlan
       => \A s \in Subs : OnPlan(s)
  /\ (\A s \in Subs : OnPlan(s))'
       => PlanState' /\ NoMissedPeriod' /\ AutomaticBillsOnPlan'
<1>1. PlanState /\ NoMissedPeriod /\ AutomaticBillsOnPlan
        => \A s \in Subs : OnPlan(s)
  BY DEF PlanState, NoMissedPeriod, AutomaticBillsOnPlan, OnPlan
<1>2. ASSUME (\A s \in Subs : OnPlan(s))'
      PROVE  PlanState' /\ NoMissedPeriod' /\ AutomaticBillsOnPlan'
  <2>1. PlanState'
    BY <1>2 DEF PlanState, OnPlan
  <2>2. NoMissedPeriod'
    BY <1>2 DEF NoMissedPeriod, OnPlan
  <2>3. AutomaticBillsOnPlan'
    BY <1>2 DEF AutomaticBillsOnPlan, OnPlan
  <2>4. QED
    BY <2>1, <2>2, <2>3
<1>3. QED
  BY <1>1, <1>2

\* A subscription whose row and bills a step leaves alone stays on its plan.
LEMMA OnPlanKept ==
  ASSUME NEW s \in Subs, OnPlan(s),
         subs[s] \in Row \cup {NoSub}, subs'[s] = subs[s],
         \A d \in Date : bills'[<<s, d>>] = bills[<<s, d>>]
  PROVE  OnPlan(s)'
<1>1. Scheduled(s)' <=> Scheduled(s)
  BY DEF Scheduled, Exists
<1>2. Scheduled(s) => PlanOf(s) \in SUBSET Date /\ PlanOf(s)' = PlanOf(s)
  <2>1. PlanOf(s)' = PlanOf(s)
    BY DEF PlanOf
  <2>2. Scheduled(s) => subs[s].start \in Date /\ subs[s].cadence \in Cadences
    BY DEF Scheduled, Exists, Row
  <2>3. QED
    BY <2>1, <2>2, PlanClosed DEF PlanOf
<1>3. ASSUME Scheduled(s)'
      PROVE  OnPlan(s)'
  <2> DEFINE P == PlanOf(s)
  <2>1. P \in SUBSET Date /\ PlanOf(s)' = P /\ Scheduled(s)
    BY <1>1, <1>2, <1>3
  <2> HIDE DEF P
  <2>2. /\ subs[s].anchor = AnchorOf(subs[s].start)
        /\ subs[s].cadence = Once => subs[s].next = subs[s].start
        /\ subs[s].cadence # Once =>
             /\ subs[s].next \in P \/ subs[s].next > LastDay
             /\ \A d \in P : d < subs[s].next => bills[<<s, d>>] # NoBill
    BY <2>1 DEF OnPlan, P
  <2>3. \A d \in Date :
          bills[<<s, d>>] # NoBill /\ bills[<<s, d>>].source = "schedule" =>
            d \in P /\ (subs[s].cadence # Once => d < subs[s].next)
    BY DEF OnPlan, P
  <2>4. QED
    BY <1>3, <2>1, <2>2, <2>3 DEF OnPlan
<1>4. ASSUME ~Scheduled(s)'
      PROVE  OnPlan(s)'
  BY <1>1, <1>4 DEF OnPlan
<1>5. QED
  BY <1>3, <1>4

\* A subscription saved with a plan, its history billed and no other bill of
\* the schedule left, is on its plan.
LEMMA OnPlanSaved ==
  ASSUME NEW s \in Subs, NEW start \in Date, NEW c \in Cadences,
         NEW today \in Date, PlanExists(start, c, today),
         subs'[s] # NoSub,
         subs'[s].start = start, subs'[s].cadence = c,
         subs'[s].anchor = AnchorOf(start),
         subs'[s].next = PlannedNext(start, c, today),
         \A d \in Date : d \in PaidDates(start, c, today) => bills'[<<s, d>>] # NoBill,
         \A d \in Date : bills'[<<s, d>>] # NoBill /\ bills'[<<s, d>>].source = "schedule"
                        => d \in PaidDates(start, c, today)
  PROVE  OnPlan(s)'
<1>1. Scheduled(s)' /\ PlanOf(s)' = Plan[start][c]
  BY RenewalAssumption DEF Scheduled, Exists, PlanOf, Date
<1>2. Plan[start][c] \in SUBSET Date
  BY PlanClosed
<1>3. \A x \in Date : x \in Int
  BY DEF Date
<1>4. CASE c = Once
  BY <1>1, <1>2, <1>4, PlannedOneOff DEF OnPlan, PaidDates
<1>5. CASE c # Once
  <2> DEFINE next == PlannedNext(start, c, today)
  <2>1. /\ next \in Plan[start][c] /\ today < next
        /\ \A d \in Plan[start][c] : d < next => d <= today
    BY <1>5, PlannedNextIsFirst
  <2>2. next \in Date
    BY <2>1, <1>2
  <2> HIDE DEF next
  <2>3. subs'[s].next = next
    BY DEF next
  <2>4. \A d \in Plan[start][c] : d < next => bills'[<<s, d>>] # NoBill
    BY <2>1, <1>2 DEF PaidDates
  <2>5. \A d \in Date : bills'[<<s, d>>] # NoBill /\ bills'[<<s, d>>].source = "schedule"
          => d \in Plan[start][c] /\ d < next
    BY <2>1, <2>2, <1>2, <1>3 DEF PaidDates
  <2>6. QED
    BY <1>1, <1>5, <2>1, <2>3, <2>4, <2>5 DEF OnPlan
<1>6. QED
  BY <1>4, <1>5

-----------------------------------------------------------------------------
(***************************************************************************)
(* The invariant holds initially, and every step preserves it: one lemma   *)
(* for each action, or for the actions that do not touch the tables.       *)
(***************************************************************************)

LEMMA InitIInv == Init => IInv
<1> SUFFICES ASSUME Init PROVE IInv
  OBVIOUS
<1>1. TypeOK
  <2>1. FirstTick \in FirstTick .. LastTick /\ 0 \in 0 .. MaxEdits
    BY RenewalAssumption
  <2>2. QED
    BY <2>1 DEF Init, TypeOK, Idle, Cycle
<1>2. RowsHeldOnce /\ WorkerState /\ ReadsStayTrue
  BY DEF Init, Idle, RowsHeldOnce, WorkerState, ReadsStayTrue, Holds
<1>3. PlanState /\ NoMissedPeriod /\ AutomaticBillsOnPlan
  BY DEF Init, PlanState, NoMissedPeriod, AutomaticBillsOnPlan, Scheduled, Exists
<1>4. QED
  BY <1>1, <1>2, <1>3 DEF IInv

\* A step that leaves the subscriptions and the bills alone keeps the plans.
LEMMA PlansUnchanged ==
  ASSUME IInv, UNCHANGED <<subs, bills>>
  PROVE  PlanState' /\ NoMissedPeriod' /\ AutomaticBillsOnPlan'
<1>1. \A s \in Subs : OnPlan(s) /\ subs[s] \in Row \cup {NoSub}
  BY OnPlanParts DEF IInv, TypeOK
<1>2. \A s \in Subs : OnPlan(s)'
  BY <1>1, OnPlanKept
<1>3. QED
  BY <1>2, OnPlanParts

\* A step that leaves the workers alone, and the rows they hold.
LEMMA LocksUnchanged ==
  ASSUME IInv, UNCHANGED worker,
         \A s \in Subs : ~Unlocked(s) => subs'[s] = subs[s]
  PROVE  RowsHeldOnce' /\ WorkerState' /\ ReadsStayTrue'
<1>1. RowsHeldOnce' /\ WorkerState'
  BY DEF IInv, RowsHeldOnce, WorkerState, Holds
<1>2. ASSUME NEW w \in Workers
      PROVE  /\ \A r \in worker[w].renew : subs'[r.sub] = r.row
             /\ \A r \in worker[w].remind : /\ subs'[r.sub] = subs[r.sub]
                                            /\ Active(r.sub) /\ subs[r.sub].next = r.due
  <2>1. \A r \in worker[w].renew \cup worker[w].remind : r.sub \in Subs
    BY CycleIs DEF IInv
  <2>2. \A r \in worker[w].renew \cup worker[w].remind : ~Unlocked(r.sub)
    BY DEF Unlocked, Holds
  <2>3. QED
    BY <2>1, <2>2 DEF IInv, ReadsStayTrue
<1>3. ReadsStayTrue'
  BY <1>2 DEF ReadsStayTrue, Active, Exists
<1>4. QED
  BY <1>1, <1>3

LEMMA ScanRemindersStep ==
  ASSUME IInv, NEW w \in Workers, ScanReminders(w)
  PROVE  IInv'
<1>1. PICK R : /\ R \subseteq ToRemind(w, now)
               /\ worker' = [worker EXCEPT ![w] = [pc |-> "reminding", at |-> now,
                                                  remind |-> R, renew |-> {}]]
  BY DEF ScanReminders
<1>2. UNCHANGED <<now, timezone, tables, request, edits>>
  BY DEF ScanReminders
<1>3. \A r \in R : /\ r \in Reminder /\ Available(w, r.sub)
                   /\ Active(r.sub) /\ subs[r.sub].next = r.due
  <2>1. ReminderDays \subseteq Nat /\ Date \subseteq Nat
    BY RenewalAssumption DEF ReminderDays, Date
  <2>2. QED
    BY <1>1, <2>1 DEF ToRemind, Reminder
<1>4. /\ worker'[w] = [pc |-> "reminding", at |-> now, remind |-> R, renew |-> {}]
      /\ \A v \in Workers \ {w} : worker'[v] = worker[v]
  BY <1>1 DEF IInv, TypeOK
<1>5. TypeOK'
  BY <1>1, <1>2, <1>3 DEF IInv, TypeOK, tables, Cycle
<1>6. RowsHeldOnce'
  <2>1. Holds(w)' = {r.sub : r \in R}
    BY <1>4 DEF Holds
  <2>2. \A v \in Workers \ {w} : Holds(v)' = Holds(v)
    BY <1>4 DEF Holds
  <2>3. \A v \in Workers \ {w} : Holds(v) \cap Holds(w)' = {}
    BY <2>1, <1>3 DEF Available
  <2>4. QED
    BY <2>2, <2>3 DEF IInv, RowsHeldOnce
<1>7. WorkerState'
  BY <1>4 DEF IInv, WorkerState
<1>8. ReadsStayTrue'
  BY <1>2, <1>3, <1>4 DEF IInv, ReadsStayTrue, tables, Active, Exists
<1>9. QED
  BY <1>2, <1>5, <1>6, <1>7, <1>8, PlansUnchanged DEF IInv, tables

LEMMA ScanRenewalsStep ==
  ASSUME IInv, NEW w \in Workers, ScanRenewals(w)
  PROVE  IInv'
<1> DEFINE at == worker[w].at
<1>1. PICK R : /\ R \subseteq ToRenew(w, at)
               /\ worker' = [worker EXCEPT ![w].pc = "renewing", ![w].renew = R]
  BY DEF ScanRenewals
<1>2. UNCHANGED <<now, timezone, tables, request, edits>>
  BY DEF ScanRenewals
<1>3. \A r \in R : /\ r \in Renewal /\ Available(w, r.sub) /\ r.row = subs[r.sub]
                   /\ r.row.status = "active" /\ r.row.next <= Today(r.sub, at)
  BY <1>1 DEF ToRenew, Renewal, Active, Exists, IInv, TypeOK
<1>4. \A r \in R : r.row.next \in Date
  <2>1. \A s \in Subs : Today(s, at) \in Date
    BY TodayIsDate, CycleIs DEF IInv
  <2>2. QED
    BY <1>3, <2>1, RenewalAssumption DEF Renewal, Row, Date
<1>5. /\ worker'[w] = [pc |-> "renewing", at |-> at,
                       remind |-> worker[w].remind, renew |-> R]
      /\ \A v \in Workers \ {w} : worker'[v] = worker[v]
  BY <1>1, CycleIs DEF IInv, TypeOK, Cycle
<1>6. TypeOK'
  <2>1. worker[w] \in Cycle /\ R \in SUBSET Renewal
    BY <1>3 DEF IInv, TypeOK
  <2>2. worker'[w] \in Cycle
    BY <1>5, <2>1 DEF Cycle
  <2>3. worker' \in [Workers -> Cycle]
    BY <1>1, <1>5, <2>2 DEF IInv, TypeOK
  <2>4. QED
    BY <1>2, <2>3 DEF IInv, TypeOK, tables
<1>7. RowsHeldOnce'
  <2>1. Holds(w)' \subseteq Holds(w) \cup {r.sub : r \in R}
    BY <1>5 DEF Holds
  <2>2. \A v \in Workers \ {w} : Holds(v)' = Holds(v)
    BY <1>5 DEF Holds
  <2>3. \A v \in Workers \ {w} : Holds(v) \cap {r.sub : r \in R} = {}
    BY <1>3 DEF Available
  <2>4. \A v \in Workers \ {w} : Holds(v) \cap Holds(w)' = {}
    BY <2>1, <2>3 DEF IInv, RowsHeldOnce
  <2>5. QED
    BY <2>2, <2>4 DEF IInv, RowsHeldOnce
<1>8. WorkerState'
  BY <1>3, <1>4, <1>5 DEF IInv, WorkerState
<1>9. ReadsStayTrue'
  BY <1>2, <1>3, <1>5 DEF IInv, ReadsStayTrue, tables, Active, Exists
<1>10. QED
  BY <1>2, <1>6, <1>7, <1>8, <1>9, PlansUnchanged DEF IInv, tables

\* A worker whose transaction has ended holds nothing.
LEMMA RowsReleased ==
  ASSUME IInv, NEW w \in Workers, worker'[w] = Idle,
         \A v \in Workers \ {w} : worker'[v] = worker[v]
  PROVE  RowsHeldOnce' /\ WorkerState'
<1>1. Holds(w)' = {}
  BY DEF Holds, Idle
<1>2. \A v \in Workers \ {w} : Holds(v)' = Holds(v)
  BY DEF Holds
<1>3. RowsHeldOnce'
  BY <1>1, <1>2 DEF IInv, RowsHeldOnce
<1>4. WorkerState'
  BY DEF IInv, WorkerState, Idle
<1>5. QED
  BY <1>3, <1>4

LEMMA AbortCycleStep ==
  ASSUME IInv, NEW w \in Workers, AbortCycle(w)
  PROVE  IInv'
<1>1. UNCHANGED <<now, timezone, tables, request, edits>>
  BY DEF AbortCycle
<1>2. worker'[w] = Idle /\ \A v \in Workers \ {w} : worker'[v] = worker[v]
  BY DEF AbortCycle, IInv, TypeOK
<1>3. TypeOK'
  <2>1. FirstTick \in FirstTick .. LastTick
    BY RenewalAssumption
  <2>2. QED
    BY <1>1, <2>1 DEF AbortCycle, IInv, TypeOK, tables, Idle, Cycle
<1>4. RowsHeldOnce' /\ WorkerState'
  BY <1>2, RowsReleased
<1>5. ReadsStayTrue'
  BY <1>1, <1>2 DEF IInv, ReadsStayTrue, Idle, tables, Active, Exists
<1>6. QED
  BY <1>1, <1>3, <1>4, <1>5, PlansUnchanged DEF IInv, tables

\* A committed cycle: the other workers hold none of the rows it changed, and
\* a renewed subscription moves from one date of its plan to the next.
LEMMA CommitCycleStep ==
  ASSUME IInv, NEW w \in Workers, CommitCycle(w)
  PROVE  IInv'
<1>1. UNCHANGED <<now, timezone, request, edits>>
  BY DEF CommitCycle
<1>2. worker'[w] = Idle /\ \A v \in Workers \ {w} : worker'[v] = worker[v]
  BY DEF CommitCycle, IInv, TypeOK
<1>3. TypeOK'
  <2>1. subs' \in [Subs -> Row \cup {NoSub}] /\ bills' \in [Subs \X Date -> Bill \cup {NoBill}]
    BY CommitCycleEffect DEF Bills
  <2>2. reminded' \subseteq Subs \X Nat \X Nat /\ noticed' \subseteq Subs \X Nat
    <3>1. \A r \in worker[w].remind : <<r.sub, r.due, r.days>> \in Subs \X Nat \X Nat
      BY CycleIs DEF IInv
    <3>2. \A r \in worker[w].renew : <<r.sub, r.row.next>> \in Subs \X Nat
      BY CycleIs DEF IInv
    <3>3. reminded \subseteq Subs \X Nat \X Nat /\ noticed \subseteq Subs \X Nat
      BY DEF IInv, TypeOK
    <3>4. QED
      BY <3>1, <3>2, <3>3 DEF CommitCycle
  <2>3. worker' \in [Workers -> Cycle]
    BY RenewalAssumption DEF CommitCycle, IInv, TypeOK, Idle, Cycle
  <2>4. QED
    BY <1>1, <2>1, <2>2, <2>3 DEF IInv, TypeOK
<1>4. RowsHeldOnce' /\ WorkerState'
  BY <1>2, RowsReleased
<1>5. ReadsStayTrue'
  <2>1. ASSUME NEW v \in Workers \ {w}, NEW r \in worker[v].renew \cup worker[v].remind
        PROVE  subs'[r.sub] = subs[r.sub]
    <3>1. r.sub \in Subs
      BY CycleIs DEF IInv
    <3>2. r.sub \notin Holds(w)
      BY DEF IInv, RowsHeldOnce, Holds
    <3>3. QED
      BY <3>1, <3>2, CommitCycleEffect
  <2>2. QED
    BY <1>2, <2>1 DEF IInv, ReadsStayTrue, Idle, Active, Exists
<1>6. ASSUME NEW s \in Subs
      PROVE  OnPlan(s)'
  <2> DEFINE n == subs[s].next
  <2>1. OnPlan(s) /\ subs[s] \in Row \cup {NoSub}
    BY OnPlanParts DEF IInv, TypeOK
  <2>2. \A d \in Date : \/ bills'[<<s, d>>] = bills[<<s, d>>]
                       \/ /\ bills[<<s, d>>] = NoBill
                          /\ subs[s] \in Row /\ Active(s) /\ n = d
                          /\ subs'[s] = Renewed(subs[s], subs[s])
                          /\ bills'[<<s, d>>] = IF Scheduled(s) THEN PaidBySchedule
                                                             ELSE ToBeConfirmed
    BY CommitCycleEffect
  <2>3. CASE subs'[s] = subs[s] /\ \A d \in Date : bills'[<<s, d>>] = bills[<<s, d>>]
    BY <2>1, <2>3, OnPlanKept
  <2>4. CASE /\ subs[s] \in Row /\ Active(s) /\ n \in Date
             /\ subs'[s] = Renewed(subs[s], subs[s])
             /\ bills'[<<s, n>>] # NoBill
    <3> DEFINE c == subs[s].cadence
               m == subs'[s].next
    <3>1. /\ subs'[s] \in Row /\ subs'[s].start = subs[s].start
          /\ subs'[s].cadence = c /\ subs'[s].anchor = subs[s].anchor
          /\ c = Once => m = n
          /\ c # Once => m = DateAfter(c, subs[s].anchor, n) /\ n < m
      BY <2>4, RenewedIsRow
    <3>2. Scheduled(s)' <=> Scheduled(s)
      BY <3>1, <2>4, NullAssumption DEF Scheduled, Exists
    <3>3. PlanOf(s)' = PlanOf(s)
      BY <3>1 DEF PlanOf
    <3>4. CASE ~Scheduled(s)
      <4>1. \A d \in Date : ~(bills'[<<s, d>>] # NoBill
                              /\ bills'[<<s, d>>].source = "schedule")
        BY <2>1, <2>2, <3>4 DEF OnPlan, ToBeConfirmed
      <4>2. QED
        BY <4>1, <3>2, <3>4 DEF OnPlan
    <3>5. CASE Scheduled(s)
      <4> DEFINE P == PlanOf(s)
      <4>1. /\ subs[s].start \in Date /\ c \in Cadences /\ P = Plan[subs[s].start][c]
            /\ P \in SUBSET Date /\ subs[s].anchor = AnchorOf(subs[s].start)
        BY <2>1, <2>4, <3>5, PlanClosed DEF Scheduled, Row, PlanOf, OnPlan
      <4>2. n \in P
        BY <2>1, <2>4, <3>5, <4>1, PlanClosed, RenewalAssumption
           DEF OnPlan, Date, Closed
      <4>3. CASE c = Once
        BY <4>1, <4>2, <4>3, <3>1, <3>2, <3>3, <3>5, <2>1, <2>2, <2>4 DEF OnPlan
      <4>4. CASE c # Once
        <5>1. m = DateAfter(c, AnchorOf(subs[s].start), n) /\ n < m /\ m \in Int
          BY <4>1, <4>2, <4>4, <3>1, DateAfterAssumption
        <5>2. m \in P \/ m > LastDay
          BY <4>1, <4>2, <4>4, <5>1, PlanClosed, RenewalAssumption DEF Closed, Date
        <5>3. \A d \in P : d <= n \/ m <= d
          BY <4>1, <4>2, <4>4, <5>1, PlanSuccessor
        <5>4. \A d \in P : d \in Int /\ d \in Date
          BY <4>1 DEF Date
        <5>5. \A d \in P : d < m => d < n \/ d = n
          BY <5>1, <5>3, <5>4, <4>2
        <5>6. \A d \in P : d < n => bills[<<s, d>>] # NoBill
          BY <2>1, <3>5, <4>4 DEF OnPlan
        <5>7. \A d \in Date : bills[<<s, d>>] # NoBill => bills'[<<s, d>>] # NoBill
          BY <2>2
        <5>8. \A d \in P : d < m => bills'[<<s, d>>] # NoBill
          BY <5>4, <5>5, <5>6, <5>7, <2>4
        <5>9. \A d \in Date : bills'[<<s, d>>] # NoBill
                              /\ bills'[<<s, d>>].source = "schedule" => d \in P /\ d < m
          <6>1. ASSUME NEW d \in Date, bills'[<<s, d>>] # NoBill,
                       bills'[<<s, d>>].source = "schedule"
                PROVE  d \in P /\ d <= n
            <7>1. CASE bills'[<<s, d>>] = bills[<<s, d>>]
              BY <6>1, <7>1, <2>1, <4>2, <5>4, <4>4 DEF OnPlan
            <7>2. CASE d = n
              BY <7>2, <4>2, <5>4
            <7>3. QED
              BY <7>1, <7>2, <2>2
          <6>2. QED
            BY <6>1, <5>1, <5>4, <4>2
        <5>10. QED
          BY <3>1, <3>2, <3>3, <3>5, <4>1, <4>4, <5>2, <5>8, <5>9 DEF OnPlan
      <4>5. QED
        BY <4>3, <4>4
    <3>6. QED
      BY <3>4, <3>5
  <2>5. CASE \E d \in Date : bills'[<<s, d>>] # bills[<<s, d>>]
    <3>1. PICK d \in Date : /\ subs[s] \in Row /\ Active(s) /\ n = d
                            /\ subs'[s] = Renewed(subs[s], subs[s])
                            /\ bills'[<<s, d>>] \in {PaidBySchedule, ToBeConfirmed}
      BY <2>2, <2>5
    <3>2. bills'[<<s, d>>] # NoBill
      BY <3>1, AutomaticBills, NullAssumption
    <3>3. QED
      BY <3>1, <3>2, <2>4
  <2>6. QED
    BY <2>3, <2>4, <2>5, CommitCycleEffect
<1>7. QED
  BY <1>3, <1>4, <1>5, <1>6, OnPlanParts DEF IInv

\* The steps that touch neither the tables nor a worker.
LEMMA QuietStep ==
  ASSUME IInv, UNCHANGED <<tables, worker>>, TypeOK'
  PROVE  IInv'
<1>1. RowsHeldOnce' /\ WorkerState' /\ ReadsStayTrue'
  BY LocksUnchanged DEF tables
<1>2. QED
  BY <1>1, PlansUnchanged DEF IInv, tables

LEMMA BeginRequestStep ==
  ASSUME IInv, NEW c \in Clients, NEW s \in Subs, NEW i \in Inputs,
         NEW kind \in {"create", "update"}, BeginRequest(c, kind, s, i)
  PROVE  IInv'
<1>1. [kind |-> kind, sub |-> s, input |-> i, at |-> now] \in Request
  BY DEF IInv, TypeOK, Request
<1>2. TypeOK'
  BY <1>1, RenewalAssumption DEF IInv, TypeOK, BeginRequest, Edit, tables
<1>3. QED
  BY <1>2, QuietStep DEF BeginRequest

LEMMA DropRequestStep ==
  ASSUME IInv, NEW c \in Clients, DropRequest(c)
  PROVE  IInv'
<1>1. TypeOK'
  BY DEF IInv, TypeOK, DropRequest, tables
<1>2. QED
  BY <1>1, QuietStep DEF DropRequest

LEMMA SetTimezoneStep ==
  ASSUME IInv, NEW u \in Users, NEW tz \in TimeZones, SetTimezone(u, tz)
  PROVE  IInv'
<1>1. TypeOK'
  BY RenewalAssumption DEF IInv, TypeOK, SetTimezone, Edit, tables
<1>2. QED
  BY <1>1, QuietStep DEF SetTimezone

LEMMA TickStep ==
  ASSUME IInv, Tick
  PROVE  IInv'
<1>1. now' \in FirstTick .. LastTick
  BY RenewalAssumption DEF IInv, TypeOK, Tick
<1>2. TypeOK'
  BY <1>1 DEF IInv, TypeOK, Tick, tables
<1>3. QED
  BY <1>2, QuietStep DEF Tick

\* The status of a row that no worker holds changes, and nothing else does.
LEMMA StatusStep ==
  ASSUME IInv, NEW s \in Subs, NEW status \in Statuses,
         Unlocked(s), Exists(s), TypeOK', UNCHANGED <<bills, worker>>,
         subs' = [subs EXCEPT ![s].status = status]
  PROVE  IInv'
<1>1. \A x \in Subs \ {s} : subs'[x] = subs[x]
  BY DEF IInv, TypeOK
<1>2. RowsHeldOnce' /\ WorkerState' /\ ReadsStayTrue'
  BY <1>1, LocksUnchanged
<1>3. subs[s] \in Row /\ subs'[s] = [subs[s] EXCEPT !.status = status]
  BY DEF IInv, TypeOK, Exists
<1>4. /\ subs'[s] \in Row /\ subs'[s].start = subs[s].start
      /\ subs'[s].cadence = subs[s].cadence /\ subs'[s].anchor = subs[s].anchor
      /\ subs'[s].next = subs[s].next
  BY <1>3 DEF Row
<1>5. OnPlan(s)'
  <2>1. (Scheduled(s)' <=> Scheduled(s)) /\ PlanOf(s)' = PlanOf(s)
    BY <1>4, NullAssumption DEF Scheduled, Exists, PlanOf
  <2>2. OnPlan(s) /\ bills' = bills
    BY OnPlanParts DEF IInv
  <2>3. QED
    BY <2>1, <2>2, <1>4 DEF OnPlan
<1>6. \A x \in Subs \ {s} : OnPlan(x)'
  BY <1>1, OnPlanKept, OnPlanParts DEF IInv, TypeOK
<1>7. QED
  BY <1>2, <1>5, <1>6, OnPlanParts DEF IInv

LEMMA SetStatusStep ==
  ASSUME IInv, NEW s \in Subs, NEW status \in Statuses, SetStatus(s, status)
  PROVE  IInv'
<1>1. subs[s] \in Row
  BY DEF IInv, TypeOK, SetStatus, Exists
<1>2. subs' \in [Subs -> Row \cup {NoSub}]
  BY <1>1 DEF IInv, TypeOK, SetStatus, Row
<1>3. TypeOK'
  BY <1>2, RenewalAssumption DEF IInv, TypeOK, SetStatus, Edit
<1>4. QED
  BY <1>3, StatusStep DEF SetStatus

LEMMA ArchiveStep ==
  ASSUME IInv, NEW s \in Subs, Archive(s)
  PROVE  IInv'
<1>1. subs[s] \in Row /\ "archived" \in Statuses
  BY DEF IInv, TypeOK, Archive, Exists, Statuses
<1>2. subs' \in [Subs -> Row \cup {NoSub}]
  BY <1>1 DEF IInv, TypeOK, Archive, Row
<1>3. TypeOK'
  BY <1>2, RenewalAssumption DEF IInv, TypeOK, Archive, Edit
<1>4. QED
  BY <1>1, <1>3, StatusStep DEF Archive

\* A bill the user has edited is still a bill, and no longer an automatic one.
LEMMA UpdateBillStep ==
  ASSUME IInv, NEW k \in Subs \X Date, NEW status \in UserBillStatuses,
         UpdateBill(k, status)
  PROVE  IInv'
<1> DEFINE bill == [source |-> "manual", status |-> status]
<1>1. bill \in Bill /\ bill # NoBill
  BY NullAssumption DEF Bill
<1>2. TypeOK'
  BY <1>1, RenewalAssumption DEF IInv, TypeOK, UpdateBill, Edit
<1>3. RowsHeldOnce' /\ WorkerState' /\ ReadsStayTrue'
  BY LocksUnchanged DEF UpdateBill
<1>4. \A x \in Subs \X Date : bills'[x] = IF x = k THEN bill ELSE bills[x]
  BY DEF IInv, TypeOK, UpdateBill
<1>5. /\ bills[k] # NoBill /\ subs' = subs /\ bill.source # "schedule"
      /\ \A s \in Subs : OnPlan(s) /\ subs[s] \in Row \cup {NoSub}
  BY OnPlanParts DEF UpdateBill, IInv, TypeOK
<1> HIDE DEF bill
<1>6. ASSUME NEW s \in Subs
      PROVE  OnPlan(s)'
  <2>1. /\ Scheduled(s)' <=> Scheduled(s)
        /\ PlanOf(s)' = PlanOf(s)
        /\ Scheduled(s) => PlanOf(s) \in SUBSET Date
    <3>1. Scheduled(s) => subs[s].start \in Date /\ subs[s].cadence \in Cadences
      BY <1>5 DEF Scheduled, Exists, Row
    <3>2. QED
      BY <3>1, <1>5, PlanClosed DEF Scheduled, Exists, PlanOf
  <2>2. \A d \in Date : bills'[<<s, d>>] = bills[<<s, d>>]
                       \/ bills'[<<s, d>>].source # "schedule"
    BY <1>4, <1>5
  <2>kept. \A d \in Date : bills[<<s, d>>] # NoBill => bills'[<<s, d>>] # NoBill
    BY <1>1, <1>4
  <2>3. ASSUME Scheduled(s), subs[s].cadence # Once,
               NEW d \in PlanOf(s), d < subs[s].next
        PROVE  bills'[<<s, d>>] # NoBill
    <3>1. bills[<<s, d>>] # NoBill /\ d \in Date
      BY <2>1, <2>3, <1>5 DEF OnPlan
    <3>2. QED
      BY <3>1, <2>kept
  <2>4. ASSUME NEW d \in Date, bills'[<<s, d>>] # NoBill,
               bills'[<<s, d>>].source = "schedule"
        PROVE  /\ Scheduled(s) /\ d \in PlanOf(s)
               /\ subs[s].cadence # Once => d < subs[s].next
    BY <2>2, <2>4, <1>5 DEF OnPlan
  <2>5. Scheduled(s) =>
          /\ subs[s].anchor = AnchorOf(subs[s].start)
          /\ subs[s].cadence = Once => subs[s].next = subs[s].start
          /\ subs[s].cadence # Once =>
               subs[s].next \in PlanOf(s) \/ subs[s].next > LastDay
    BY <1>5 DEF OnPlan
  <2>6. subs' = subs
    BY <1>5
  <2>7. QED
    BY <2>1, <2>3, <2>4, <2>5, <2>6 DEF OnPlan
<1>7. QED
  BY <1>2, <1>3, <1>6, OnPlanParts DEF IInv

\* What a saved row is, and its next date.
LEMMA SavedRowIs ==
  ASSUME NEW status \in Statuses, NEW start \in Date \cup {NoDate}, NEW i \in Inputs,
         NEW next \in Nat \ {0}, start = NoDate => next \in Date
  PROVE  /\ SavedRow(status, start, i, next) \in Row
         /\ SavedRow(status, start, i, next).start = start
         /\ SavedRow(status, start, i, next).cadence = i.cadence
         /\ SavedRow(status, start, i, next).next = next
         /\ start # NoDate =>
              SavedRow(status, start, i, next).anchor = AnchorOf(start)
BY RenewalAssumption DEF SavedRow, Row

LEMMA PreparedNextIs ==
  ASSUME NEW start \in Date \cup {NoDate}, NEW i \in Inputs, NEW today \in Date,
         Prepared(start, i, today)
  PROVE  PreparedNext(start, i, today) \in Date
<1>1. CASE start = NoDate
  BY <1>1, RenewalAssumption DEF Prepared, PreparedNext
<1>2. CASE start \in Date /\ i.cadence = Once
  BY <1>2, PlannedOneOff, RenewalAssumption DEF PreparedNext, Date
<1>3. CASE start \in Date /\ i.cadence # Once
  <2>1. start # NoDate /\ i.cadence \in Cadences \ {Once}
    BY <1>3, RenewalAssumption DEF Date
  <2>2. PlanExists(start, i.cadence, today)
    BY <2>1 DEF Prepared
  <2>3. PlannedNext(start, i.cadence, today) \in Plan[start][i.cadence]
    BY <1>3, <2>1, <2>2, PlannedNextIsFirst
  <2>4. QED
    BY <1>3, <2>1, <2>3, PlanClosed DEF PreparedNext
<1>4. QED
  BY <1>1, <1>2, <1>3

LEMMA StatusAfterIs ==
  ASSUME NEW status \in Statuses, NEW c, NEW history
  PROVE  StatusAfter(status, c, history) \in Statuses
BY DEF StatusAfter, Statuses

LEMMA RequestIs ==
  ASSUME TypeOK, NEW c \in Clients, request[c] # NoRequest
  PROVE  /\ request[c].sub \in Subs /\ request[c].input \in Inputs
         /\ Today(request[c].sub, request[c].at) \in Date
<1>1. request[c] \in Request
  BY DEF TypeOK
<1>2. /\ request[c].sub \in Subs /\ request[c].input \in Inputs
      /\ request[c].at \in FirstTick .. LastTick
  BY <1>1 DEF Request
<1>3. QED
  BY <1>2, TodayIsDate

LEMMA CommitCreateStep ==
  ASSUME IInv, NEW c \in Clients, CommitCreate(c)
  PROVE  IInv'
<1>1. PICK s \in Subs, i \in Inputs, today \in Date :
        s = request[c].sub /\ i = request[c].input /\ today = Today(s, request[c].at)
  BY RequestIs DEF CommitCreate, IInv
<1> DEFINE history == History(i.start, i.cadence, today)
           next == PreparedNext(i.start, i, today)
           status == StatusAfter("active", i.cadence, history)
           row == SavedRow(status, i.start, i, next)
<1>input. i.start \in Date \cup {NoDate} /\ i.cadence \in Cadences
  BY RenewalAssumption
<1>2. /\ ~Exists(s) /\ Prepared(i.start, i, today)
      /\ subs' = [subs EXCEPT ![s] = row]
      /\ bills' = Inserted({s} \X history, PaidBySchedule, bills)
      /\ request' = [request EXCEPT ![c] = NoRequest]
      /\ UNCHANGED <<now, timezone, reminded, noticed, worker, edits>>
  BY <1>1 DEF CommitCreate
<1>3. /\ row \in Row /\ row.start = i.start /\ row.cadence = i.cadence
      /\ row.next = next
      /\ i.start # NoDate => row.anchor = AnchorOf(i.start)
  <2>1. next \in Date
    BY <1>input, <1>2, PreparedNextIs
  <2>2. status \in Statuses
    BY StatusAfterIs DEF Statuses
  <2> HIDE DEF next, status
  <2>3. next \in Nat \ {0}
    BY <2>1, RenewalAssumption DEF Date
  <2>4. i.start = NoDate => next \in Date
    BY <2>1
  <2>5. QED
    BY <1>input, <2>2, <2>3, <2>4, SavedRowIs
<1>4. /\ bills' \in Bills
      /\ \A k \in Subs \X Date : bills'[k] =
           IF k \in {s} \X history /\ bills[k] = NoBill
             THEN PaidBySchedule ELSE bills[k]
  <2>1. bills \in Bills
    BY DEF IInv, TypeOK, Bills
  <2> HIDE DEF history
  <2>2. QED
    BY <2>1, <1>2, InsertedIs, AutomaticBills
<1> HIDE DEF row, next, status, history
<1>5. /\ subs'[s] = row /\ subs' \in [Subs -> Row \cup {NoSub}]
      /\ \A x \in Subs \ {s} : subs'[x] = subs[x]
  BY <1>1, <1>2, <1>3 DEF IInv, TypeOK
<1>6. TypeOK'
  BY <1>2, <1>4, <1>5 DEF IInv, TypeOK, Bills
<1>7. RowsHeldOnce' /\ WorkerState' /\ ReadsStayTrue'
  <2>1. ASSUME NEW w \in Workers, NEW r \in worker[w].renew \cup worker[w].remind
        PROVE  r.sub # s
    BY <1>2, CycleIs, NullAssumption DEF IInv, ReadsStayTrue, Active, Exists
  <2>2. Unlocked(s)
    BY <2>1 DEF Unlocked, Holds
  <2>3. QED
    BY <2>2, <1>2, <1>5, LocksUnchanged
<1>8. \A x \in Subs : OnPlan(x) /\ subs[x] \in Row \cup {NoSub}
  BY OnPlanParts DEF IInv, TypeOK
<1>9. ASSUME NEW x \in Subs \ {s}
      PROVE  OnPlan(x)'
  BY <1>4, <1>5, <1>8, OnPlanKept
<1>10. \A d \in Date : ~(bills[<<s, d>>] # NoBill /\ bills[<<s, d>>].source = "schedule")
  BY <1>1, <1>2, <1>8 DEF OnPlan, Scheduled
<1>11. \A d \in Date : bills'[<<s, d>>] =
         IF d \in history /\ bills[<<s, d>>] = NoBill
           THEN PaidBySchedule ELSE bills[<<s, d>>]
  BY <1>4
<1>12. PaidBySchedule # NoBill
  BY AutomaticBills, NullAssumption
<1>13. OnPlan(s)'
  <2>1. CASE i.start = NoDate
    <3>1. history = {}
      BY <2>1 DEF history, History
    <3>2. ~Scheduled(s)'
      BY <2>1, <1>3, <1>5 DEF Scheduled
    <3>3. QED
      BY <3>1, <3>2, <1>10, <1>11 DEF OnPlan
  <2>2. CASE i.start # NoDate
    <3>1. /\ history = PaidDates(i.start, i.cadence, today) /\ i.start \in Date
          /\ next = PlannedNext(i.start, i.cadence, today)
          /\ PlanExists(i.start, i.cadence, today) /\ row # NoSub
      BY <2>2, <1>input, <1>2, <1>3, NullAssumption
         DEF history, History, next, PreparedNext, Prepared
    <3>2. \A d \in Date : d \in history => bills'[<<s, d>>] # NoBill
      BY <1>11, <1>12
    <3>3. \A d \in Date : bills'[<<s, d>>] # NoBill
                          /\ bills'[<<s, d>>].source = "schedule" => d \in history
      BY <1>10, <1>11
    <3>4. /\ subs'[s] # NoSub /\ subs'[s].start = i.start
          /\ subs'[s].cadence = i.cadence /\ subs'[s].anchor = AnchorOf(i.start)
          /\ subs'[s].next = PlannedNext(i.start, i.cadence, today)
      BY <3>1, <2>2, <1>3, <1>5
    <3>5. /\ \A d \in Date : d \in PaidDates(i.start, i.cadence, today)
                           => bills'[<<s, d>>] # NoBill
          /\ \A d \in Date : bills'[<<s, d>>] # NoBill
                           /\ bills'[<<s, d>>].source = "schedule"
                             => d \in PaidDates(i.start, i.cadence, today)
      BY <3>1, <3>2, <3>3
    <3>6. QED
      BY <3>1, <3>4, <3>5, <1>input, OnPlanSaved
  <2>3. QED
    BY <2>1, <2>2
<1>14. QED
  BY <1>6, <1>7, <1>9, <1>13, OnPlanParts DEF IInv

LEMMA CommitUpdateStep ==
  ASSUME IInv, NEW c \in Clients, CommitUpdate(c)
  PROVE  IInv'
<1>1. PICK s \in Subs, i \in Inputs, today \in Date :
        s = request[c].sub /\ i = request[c].input /\ today = Today(s, request[c].at)
  BY RequestIs DEF CommitUpdate, IInv
<1>2. PICK old \in Row : old = subs[s]
  BY <1>1 DEF CommitUpdate, Exists, IInv, TypeOK
<1> DEFINE start == IF i.start # NoDate THEN i.start ELSE old.start
           changed == start # old.start \/ i.cadence # old.cadence
           history == History(start, i.cadence, today)
           resync == changed /\ start # NoDate
           next == IF ReplansNext(old, start, i)
                     THEN PreparedNext(start, i, today) ELSE old.next
           status == IF resync THEN StatusAfter(old.status, i.cadence, history)
                               ELSE old.status
           row == SavedRow(status, start, i, next)
<1>3. /\ Unlocked(s) /\ Prepared(start, i, today)
      /\ subs' = [subs EXCEPT ![s] = row]
      /\ bills' = IF resync THEN Inserted({s} \X history, PaidBySchedule,
                                          Reconciled(s, history, bills))
                            ELSE bills
      /\ request' = [request EXCEPT ![c] = NoRequest]
      /\ UNCHANGED <<now, timezone, reminded, noticed, worker, edits>>
  BY <1>1, <1>2 DEF CommitUpdate
<1>4. /\ start \in Date \cup {NoDate} /\ i.cadence \in Cadences
      /\ old.start \in Date \cup {NoDate} /\ old.next \in Nat \ {0}
      /\ old.status \in Statuses /\ old # NoSub
  BY RenewalAssumption, NullAssumption DEF Row
<1>5. /\ row \in Row /\ row.start = start /\ row.cadence = i.cadence
      /\ row.next = next
      /\ start # NoDate => row.anchor = AnchorOf(start)
  <2>1. PreparedNext(start, i, today) \in Date
    BY <1>3, <1>4, PreparedNextIs
  <2>2. next \in Nat \ {0}
    BY <2>1, <1>4, RenewalAssumption DEF Date
  <2>3. start = NoDate => next \in Date
    BY <2>1, <1>4 DEF ReplansNext
  <2>4. status \in Statuses
    BY <1>4, StatusAfterIs
  <2> HIDE DEF start, next, status
  <2>5. QED
    BY <1>4, <2>2, <2>3, <2>4, SavedRowIs
<1>6. /\ bills' \in Bills
      /\ resync => \A d \in Date : bills'[<<s, d>>] =
           IF d \in history
             THEN IF bills[<<s, d>>] = NoBill THEN PaidBySchedule ELSE bills[<<s, d>>]
             ELSE IF bills[<<s, d>>] # NoBill /\ bills[<<s, d>>].source = "schedule"
                    THEN NoBill ELSE bills[<<s, d>>]
      /\ \A x \in Subs \ {s}, d \in Date : bills'[<<x, d>>] = bills[<<x, d>>]
  <2>1. bills \in Bills
    BY DEF IInv, TypeOK, Bills
  <2>2. CASE ~resync
    BY <2>1, <2>2, <1>3
  <2>3. CASE resync
    <3> DEFINE left == Reconciled(s, history, bills)
    <3>1. bills' = Inserted({s} \X history, PaidBySchedule, left)
      BY <2>3, <1>3
    <3> HIDE DEF history, resync
    <3>2. /\ left \in Bills
          /\ \A k \in Subs \X Date : left[k] =
               IF /\ k[1] = s /\ k[2] \notin history
                  /\ bills[k] # NoBill /\ bills[k].source = "schedule"
                 THEN NoBill ELSE bills[k]
      BY <2>1, ReconciledIs
    <3> HIDE DEF left
    <3>3. /\ bills' \in Bills
          /\ \A k \in Subs \X Date : bills'[k] =
               IF k \in {s} \X history /\ left[k] = NoBill
                 THEN PaidBySchedule ELSE left[k]
      BY <3>1, <3>2, InsertedIs, AutomaticBills
    <3>4. \A x \in Subs \ {s}, d \in Date : bills'[<<x, d>>] = bills[<<x, d>>]
      BY <3>2, <3>3
    <3>5. \A d \in Date : left[<<s, d>>] =
            IF d \notin history /\ bills[<<s, d>>] # NoBill
               /\ bills[<<s, d>>].source = "schedule"
              THEN NoBill ELSE bills[<<s, d>>]
      BY <3>2
    <3>6. \A d \in Date : bills'[<<s, d>>] =
            IF d \in history /\ left[<<s, d>>] = NoBill
              THEN PaidBySchedule ELSE left[<<s, d>>]
      BY <3>3
    <3>7. QED
      BY <3>3, <3>4, <3>5, <3>6
  <2>4. QED
    BY <2>2, <2>3
<1>7. /\ subs'[s] = row /\ subs' \in [Subs -> Row \cup {NoSub}]
      /\ \A x \in Subs \ {s} : subs'[x] = subs[x]
  <2> HIDE DEF row
  <2>1. QED
    BY <1>3, <1>5 DEF IInv, TypeOK
<1>8. TypeOK'
  BY <1>3, <1>6, <1>7 DEF IInv, TypeOK, Bills
<1>9. RowsHeldOnce' /\ WorkerState' /\ ReadsStayTrue'
  BY <1>3, <1>7, LocksUnchanged
<1>10. \A x \in Subs : OnPlan(x) /\ subs[x] \in Row \cup {NoSub}
  BY OnPlanParts DEF IInv, TypeOK
<1>11. ASSUME NEW x \in Subs \ {s}
       PROVE  OnPlan(x)'
  BY <1>6, <1>7, <1>10, OnPlanKept
<1>12. OnPlan(s)'
  <2>1. CASE resync
    <3>1. /\ start \in Date /\ start # NoDate /\ changed
          /\ history = PaidDates(start, i.cadence, today)
          /\ PlanExists(start, i.cadence, today)
          /\ next = PlannedNext(start, i.cadence, today)
      BY <2>1, <1>3, <1>4 DEF History, Prepared, PreparedNext, ReplansNext
    <3>2. /\ subs'[s] # NoSub /\ subs'[s].start = start
          /\ subs'[s].cadence = i.cadence /\ subs'[s].anchor = AnchorOf(start)
          /\ subs'[s].next = PlannedNext(start, i.cadence, today)
      <4> HIDE DEF row, start, next, history
      <4>1. QED
        BY <3>1, <1>5, <1>7, NullAssumption
    <3>3. \A d \in Date : d \in history => bills'[<<s, d>>] # NoBill
      <4>1. PaidBySchedule # NoBill
        BY AutomaticBills, NullAssumption
      <4> HIDE DEF history, resync
      <4>2. QED
        BY <4>1, <2>1, <1>6
    <3>4. \A d \in Date : bills'[<<s, d>>] # NoBill
                          /\ bills'[<<s, d>>].source = "schedule" => d \in history
      <4> HIDE DEF history, resync
      <4>1. QED
        BY <2>1, <1>6
    <3> HIDE DEF start, history
    <3>5. /\ \A d \in Date : d \in PaidDates(start, i.cadence, today)
                           => bills'[<<s, d>>] # NoBill
          /\ \A d \in Date : bills'[<<s, d>>] # NoBill
                           /\ bills'[<<s, d>>].source = "schedule"
                             => d \in PaidDates(start, i.cadence, today)
      BY <3>1, <3>3, <3>4
    <3>6. QED
      BY <3>1, <3>2, <3>5, <1>4, OnPlanSaved
  <2>2. CASE start = NoDate
    <3>1. bills' = bills /\ ~Scheduled(s)
      BY <2>2, <1>2, <1>3, <1>4 DEF Scheduled, Exists
    <3>2. ~Scheduled(s)'
      <4> HIDE DEF row, start
      <4>1. QED
        BY <2>2, <1>5, <1>7 DEF Scheduled
    <3>3. QED
      BY <3>1, <3>2, <1>10 DEF OnPlan
  <2>3. CASE ~changed /\ start # NoDate
    <3>1. /\ start = old.start /\ i.cadence = old.cadence /\ bills' = bills
          /\ next = old.next /\ old.start \in Date /\ old.start # NoDate
      BY <2>3, <1>3, <1>4 DEF ReplansNext
    <3> HIDE DEF row, start, next
    <3>2. /\ subs'[s].start = old.start /\ subs'[s].cadence = old.cadence
          /\ subs'[s].next = old.next /\ subs'[s].anchor = AnchorOf(old.start)
          /\ subs'[s] # NoSub
      BY <3>1, <1>5, <1>7, NullAssumption
    <3>3. /\ Scheduled(s)' /\ Scheduled(s) /\ PlanOf(s)' = PlanOf(s)
      BY <3>1, <3>2, <1>2, <1>4 DEF Scheduled, Exists, PlanOf
    <3>4. QED
      BY <3>1, <3>2, <3>3, <1>2, <1>10 DEF OnPlan
  <2>4. QED
    BY <2>1, <2>2, <2>3
<1>13. QED
  BY <1>8, <1>9, <1>11, <1>12, OnPlanParts DEF IInv
-----------------------------------------------------------------------------
(***************************************************************************)
(* The theorems.                                                           *)
(***************************************************************************)

LEMMA NextIInv == IInv /\ [Next]_vars => IInv'
<1> SUFFICES ASSUME IInv, [Next]_vars
             PROVE  IInv'
  OBVIOUS
<1>1. CASE Tick
  BY <1>1, TickStep
<1>2. CASE UserStep
  <2>1. ASSUME NEW c \in Clients, NEW s \in Subs, NEW i \in Inputs,
               NEW kind \in {"create", "update"}, BeginRequest(c, kind, s, i)
        PROVE  IInv'
    BY <2>1, BeginRequestStep
  <2>2. ASSUME NEW c \in Clients, CommitCreate(c) \/ CommitUpdate(c) \/ DropRequest(c)
        PROVE  IInv'
    BY <2>2, CommitCreateStep, CommitUpdateStep, DropRequestStep
  <2>3. ASSUME NEW s \in Subs, Archive(s)
        PROVE  IInv'
    BY <2>3, ArchiveStep
  <2>4. ASSUME NEW s \in Subs, NEW status \in Statuses, SetStatus(s, status)
        PROVE  IInv'
    BY <2>4, SetStatusStep
  <2>5. ASSUME NEW k \in Subs \X Date, NEW status \in UserBillStatuses,
               UpdateBill(k, status)
        PROVE  IInv'
    BY <2>5, UpdateBillStep
  <2>6. ASSUME NEW u \in Users, NEW tz \in TimeZones, SetTimezone(u, tz)
        PROVE  IInv'
    BY <2>6, SetTimezoneStep
  <2>7. QED
    BY <1>2, <2>1, <2>2, <2>3, <2>4, <2>5, <2>6 DEF UserStep
<1>3. ASSUME NEW w \in Workers, WorkerStep(w)
      PROVE  IInv'
  BY <1>3, ScanRemindersStep, ScanRenewalsStep, CommitCycleStep, AbortCycleStep
     DEF WorkerStep
<1>4. CASE UNCHANGED vars
  <2>1. UNCHANGED <<tables, worker>> /\ TypeOK'
    BY <1>4 DEF vars, tables, IInv, TypeOK
  <2>2. QED
    BY <2>1, QuietStep
<1>5. QED
  BY <1>1, <1>2, <1>3, <1>4 DEF Next

THEOREM Inductive == Spec => []IInv
BY InitIInv, NextIInv, PTL DEF Spec

\* Every state has the types the tables and the transactions declare.
THEOREM TypeCorrect == Spec => []TypeOK
<1>1. IInv => TypeOK
  BY DEF IInv
<1>2. QED
  BY <1>1, Inductive, PTL

\* However many workers run, no two of them hold one row, and what each has
\* read stays true until it commits.
THEOREM LocksHold == Spec => [](RowsHeldOnce /\ ReadsStayTrue)
<1>1. IInv => RowsHeldOnce /\ ReadsStayTrue
  BY DEF IInv
<1>2. QED
  BY <1>1, Inductive, PTL

\* No period of a plan is lost.
THEOREM NoPeriodIsMissed == Spec => []NoMissedPeriod
<1>1. IInv => NoMissedPeriod
  BY DEF IInv
<1>2. QED
  BY <1>1, Inductive, PTL

\* No bill is made off the plan or ahead of time.
THEOREM AutomaticBillsAreOnPlan == Spec => []AutomaticBillsOnPlan
<1>1. IInv => AutomaticBillsOnPlan
  BY DEF IInv
<1>2. QED
  BY <1>1, Inductive, PTL

-----------------------------------------------------------------------------
(***************************************************************************)
(* The action properties.                                                  *)
(***************************************************************************)

\* The steps that change the subscriptions or the bills.
TableStep ==
  \/ \E w \in Workers : CommitCycle(w)
  \/ \E c \in Clients : CommitCreate(c) \/ CommitUpdate(c)
  \/ \E s \in Subs : Archive(s) \/ \E status \in Statuses : SetStatus(s, status)
  \/ \E k \in Subs \X Date, status \in UserBillStatuses : UpdateBill(k, status)

LEMMA TableSteps ==
  ASSUME [Next]_vars
  PROVE  TableStep \/ UNCHANGED <<subs, bills>>
BY DEF Next, vars, tables, Tick, UserStep, WorkerStep, BeginRequest, DropRequest,
       SetTimezone, ScanReminders, ScanRenewals, AbortCycle, TableStep

\* An archived subscription stays as it is, whatever read it before.
THEOREM ArchivedStays == Spec => ArchivedIsFinal
<1> DEFINE A == \A s \in Subs :
                  Exists(s) /\ subs[s].status = "archived" => subs'[s] = subs[s]
<1>1. IInv /\ [Next]_vars => A
  <2> SUFFICES ASSUME IInv, [Next]_vars,
                      NEW s \in Subs, Exists(s), subs[s].status = "archived"
               PROVE  subs'[s] = subs[s]
    OBVIOUS
  <2>1. subs \in [Subs -> Row \cup {NoSub}] /\ subs[s] \in Row
    BY DEF IInv, TypeOK, Exists
  <2>2. ASSUME NEW w \in Workers, CommitCycle(w)
        PROVE  subs'[s] = subs[s]
    BY <2>2, CommitCycleEffect DEF Active
  <2>3. ASSUME NEW c \in Clients, CommitCreate(c) \/ CommitUpdate(c)
        PROVE  subs'[s] = subs[s]
    BY <2>1, <2>3 DEF CommitCreate, CommitUpdate
  <2>4. ASSUME NEW x \in Subs, NEW status \in Statuses, SetStatus(x, status)
        PROVE  subs'[s] = subs[s]
    BY <2>1, <2>4 DEF SetStatus
  <2>5. ASSUME NEW x \in Subs, Archive(x)
        PROVE  subs'[s] = subs[s]
    <3>1. [subs[s] EXCEPT !.status = "archived"] = subs[s]
      BY <2>1 DEF Row
    <3>2. QED
      BY <2>1, <2>5, <3>1 DEF Archive
  <2>6. QED
    BY <2>2, <2>3, <2>4, <2>5, TableSteps DEF TableStep, UpdateBill
<1>2. IInv /\ [Next]_vars => [A]_vars
  BY <1>1
<1>3. Spec => [][A]_vars
  BY <1>2, Inductive, PTL DEF Spec
<1>4. QED
  BY <1>3 DEF ArchivedIsFinal

\* A bill the user has decided on is left alone by cycles and saved plans.
THEOREM UserBillsAreKept == Spec => UserBillsKept
<1> DEFINE A == \A k \in Subs \X Date :
                  /\ bills[k] # NoBill /\ bills[k].source = "manual"
                  /\ worker' # worker \/ request' # request
                  => bills'[k] = bills[k]
<1>1. IInv /\ [Next]_vars => A
  <2> SUFFICES ASSUME IInv, [Next]_vars, NEW k \in Subs \X Date,
                      bills[k] # NoBill, bills[k].source = "manual",
                      worker' # worker \/ request' # request
               PROVE  bills'[k] = bills[k]
    OBVIOUS
  <2>1. bills \in Bills
    BY DEF IInv, TypeOK, Bills
  <2>2. ASSUME NEW w \in Workers, CommitCycle(w)
        PROVE  bills'[k] = bills[k]
    BY <2>2, CommitCycleEffect
  <2>3. ASSUME NEW c \in Clients, CommitCreate(c)
        PROVE  bills'[k] = bills[k]
    <3>1. PICK keys : bills' = Inserted(keys, PaidBySchedule, bills)
      BY <2>3 DEF CommitCreate
    <3>2. QED
      BY <3>1, <2>1, InsertedIs, AutomaticBills
  <2>4. ASSUME NEW c \in Clients, CommitUpdate(c)
        PROVE  bills'[k] = bills[k]
    <3>1. \/ bills' = bills
          \/ \E keys, s, history :
               bills' = Inserted(keys, PaidBySchedule, Reconciled(s, history, bills))
      BY <2>4 DEF CommitUpdate
    <3>2. ASSUME NEW keys, NEW s, NEW history,
                 bills' = Inserted(keys, PaidBySchedule, Reconciled(s, history, bills))
          PROVE  bills'[k] = bills[k]
      <4> DEFINE left == Reconciled(s, history, bills)
      <4>1. left \in Bills /\ left[k] = bills[k]
        BY <2>1, ReconciledIs
      <4> HIDE DEF left
      <4>2. bills' = Inserted(keys, PaidBySchedule, left)
        BY <3>2 DEF left
      <4>3. QED
        BY <4>1, <4>2, InsertedIs, AutomaticBills
    <3>3. QED
      BY <3>1, <3>2
  <2>5. QED
    BY <2>2, <2>3, <2>4, TableSteps DEF TableStep, Archive, SetStatus, UpdateBill
<1>2. IInv /\ [Next]_vars => [A]_vars
  BY <1>1
<1>3. Spec => [][A]_vars
  BY <1>2, Inductive, PTL DEF Spec
<1>4. QED
  BY <1>3 DEF UserBillsKept

\* A cycle bills and reminds of rows as they are when it commits.
THEOREM WorkersActOnCurrentRows == Spec => WorkerActsOnCurrentRow
<1> DEFINE Current(w) ==
             /\ \A k \in Subs \X Date :
                  bills[k] = NoBill /\ bills'[k] # NoBill =>
                    Active(k[1]) /\ subs[k[1]].next = k[2]
             /\ \A n \in reminded' \ reminded :
                  Active(n[1]) /\ subs[n[1]].next = n[2]
           A == \A w \in Workers :
                  worker[w].pc = "renewing" /\ worker'[w].pc = "idle" => Current(w)
<1>1. IInv /\ [Next]_vars => A
  <2> SUFFICES ASSUME IInv, [Next]_vars, NEW w \in Workers,
                      worker[w].pc = "renewing", worker'[w].pc = "idle"
               PROVE  Current(w)
    OBVIOUS
  <2>1. worker \in [Workers -> Cycle]
    BY DEF IInv, TypeOK
  <2>2. CASE CommitCycle(w)
    <3>1. \A k \in Subs \X Date : bills[k] = NoBill /\ bills'[k] # NoBill =>
            Active(k[1]) /\ subs[k[1]].next = k[2]
      BY <2>2, CommitCycleEffect
    <3>2. \A n \in reminded' \ reminded : Active(n[1]) /\ subs[n[1]].next = n[2]
      BY <2>2 DEF CommitCycle, IInv, ReadsStayTrue
    <3>3. QED
      BY <3>1, <3>2
  <2>3. CASE AbortCycle(w)
    BY <2>3 DEF AbortCycle, tables
  <2>4. ASSUME worker'[w] # worker[w]
        PROVE  CommitCycle(w) \/ AbortCycle(w)
    <3>1. PICK v \in Workers : WorkerStep(v)
      BY <2>4 DEF Next, vars, tables, Tick, UserStep, BeginRequest, DropRequest,
                  SetTimezone, CommitCreate, CommitUpdate, Archive, SetStatus, UpdateBill
    <3>2. v = w
      BY <3>1, <2>1, <2>4 DEF WorkerStep, ScanReminders, ScanRenewals,
                              CommitCycle, AbortCycle
    <3>3. ~ScanReminders(w) /\ ~ScanRenewals(w)
      BY DEF ScanReminders, ScanRenewals
    <3>4. QED
      BY <3>1, <3>2, <3>3 DEF WorkerStep
  <2>5. QED
    BY <2>2, <2>3, <2>4
<1>2. IInv /\ [Next]_vars => [A]_vars
  BY <1>1
<1>3. Spec => [][A]_vars
  BY <1>2, Inductive, PTL DEF Spec
<1>4. QED
  BY <1>3 DEF WorkerActsOnCurrentRow
=============================================================================
