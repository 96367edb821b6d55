-------------------------- MODULE CycleTailProofs --------------------------
(***************************************************************************)
(* What the deliveries and the conversions of CycleTail keep to with any   *)
(* number of workers, which share rows without a lock and stop anywhere.   *)
(***************************************************************************)
EXTENDS CycleTail, TLAPS

Step == [pc : {"cycle", "sending", "recording", "syncing", "listing", "fetching",
               "applying"},
         todo : SUBSET Int, date : Dates, sent : BOOLEAN, slow : BOOLEAN]

Shape ==
  /\ delivery \in [Deliveries -> {"none", "pending", "waiting", "sent"}]
  /\ bill \in [Bills -> {"none", "open", "converted", "deleted"}]
  /\ rate \in [Bills -> Dates]
  /\ worker \in [Workers -> Step]

\* What a worker is about to record as sent has arrived.
AboutToRecord ==
  \A w \in Workers :
    worker[w].pc = "recording" /\ worker[w].sent => Current(w) \in arrived

\* The rates a worker is about to apply are not later than their bills.
AboutToApply ==
  \A w \in Workers : worker[w].pc = "applying" => worker[w].date <= Current(w)

IInv == Shape /\ SentHasArrived /\ AboutToRecord /\ RateNotAfterBill /\ AboutToApply

LEMMA InitHolds == Init => IInv
  BY TailAssumption DEF Init, IInv, Shape, Step, SentHasArrived, AboutToRecord,
     RateNotAfterBill, AboutToApply, Start, Dates

\* The steps of the environment touch neither what has arrived nor the workers.
LEMMA EnvironmentKeeps == IInv /\ Environment => IInv'
<1> SUFFICES ASSUME IInv, Environment PROVE IInv'
  OBVIOUS
<1> USE DEF Current, NothingSent, NothingConverted, Outside
<1>1. ASSUME NEW d \in Deliveries, Remind(d) \/ RetryDue(d) PROVE IInv'
  BY <1>1 DEF IInv, Shape, Step, SentHasArrived, AboutToRecord, RateNotAfterBill,
     AboutToApply, Remind, RetryDue
<1>2. ASSUME NEW b \in Bills, AddBill(b) \/ DropBill(b) PROVE IInv'
  BY <1>2, TailAssumption DEF IInv, Shape, Step, SentHasArrived, AboutToRecord,
     RateNotAfterBill, AboutToApply, AddBill, DropBill, Dates
<1>3. CASE SwitchTelegram \/ NextDay \/ Publish
  BY <1>3 DEF IInv, Shape, Step, SentHasArrived, AboutToRecord, RateNotAfterBill,
     AboutToApply, SwitchTelegram, NextDay, Publish
<1>4. QED
  BY <1>1, <1>2, <1>3 DEF Environment

\* A worker that only moves on, to a place where it has nothing to write.
LEMMA MovesOn ==
  ASSUME IInv, NEW w \in Workers, NEW step,
         step \in Step,
         step.pc # "applying", step.pc # "recording",
         worker' = [worker EXCEPT ![w] = step],
         UNCHANGED <<delivery, arrived, bill, rate>>
  PROVE  IInv'
  BY DEF IInv, Shape, Step, SentHasArrived, AboutToRecord, RateNotAfterBill, AboutToApply,
     Current

LEMMA FirstIsSubset == \A S, n : First(S, n) \subseteq S
  BY DEF First

LEMMA DeliveriesKeep ==
  ASSUME IInv, NEW w \in Workers,
         \/ SelectDeliveries(w) \/ SendFails(w) \/ RecordDelivery(w)
         \/ DeliveriesDone(w) \/ \E d \in Deliveries : Send(w, d)
  PROVE  IInv'
<1> USE DEF NothingSent, NothingConverted, Outside
<1>1. CASE SelectDeliveries(w)
  <2> DEFINE ready == {d \in Deliveries : enabled /\ delivery[d] = "pending"}
             step == [worker[w] EXCEPT !.pc = "sending", !.todo = First(ready, SendLimit)]
  <2>1. First(ready, SendLimit) \in SUBSET Int
    <3>1. ready \subseteq Deliveries
      OBVIOUS
    <3>2. Deliveries \subseteq Int
      BY TailAssumption
    <3> HIDE DEF ready
    <3> QED
      BY <3>1, <3>2, FirstIsSubset
  <2>2. worker' = [worker EXCEPT ![w] = step]
    BY <1>1 DEF SelectDeliveries, IInv, Shape, Step
  <2>3. step \in Step /\ step.pc = "sending"
    BY <2>1 DEF IInv, Shape, Step
  <2>4. UNCHANGED <<delivery, arrived, bill, rate>>
    BY <1>1 DEF SelectDeliveries
  <2> QED
    BY <2>2, <2>3, <2>4, MovesOn
<1>2. CASE \E d \in Deliveries : Send(w, d)
  <2>1. PICK d \in Deliveries : Send(w, d)
    BY <1>2
  <2>2. /\ worker' = [worker EXCEPT ![w].pc = "recording", ![w].sent = TRUE]
        /\ arrived' = arrived \cup {Min(worker[w].todo)}
        /\ UNCHANGED <<delivery, bill, rate>>
    BY <2>1 DEF Send, Current
  <2>3. Shape' /\ SentHasArrived' /\ RateNotAfterBill'
    <3>1. worker[w] \in Step
      BY DEF IInv, Shape
    <3>2. [worker[w] EXCEPT !.pc = "recording", !.sent = TRUE] \in Step
      BY <3>1 DEF Step
    <3>3. worker' = [worker EXCEPT ![w] =
                       [worker[w] EXCEPT !.pc = "recording", !.sent = TRUE]]
      BY <2>2 DEF IInv, Shape
    <3>4. Shape'
      BY <2>2, <3>2, <3>3 DEF IInv, Shape
    <3>5. SentHasArrived'
      BY <2>2 DEF IInv, SentHasArrived
    <3>6. RateNotAfterBill'
      BY <2>2 DEF IInv, RateNotAfterBill
    <3> QED
      BY <3>4, <3>5, <3>6
  <2>4. worker'[w].todo = worker[w].todo
        /\ \A v \in Workers \ {w} : worker'[v] = worker[v]
    BY <2>2 DEF IInv, Shape, Step
  <2>5. AboutToRecord'
    <3>1. Min(worker'[w].todo) \in arrived'
      BY <2>2, <2>4
    <3>2. \A v \in Workers \ {w} :
            worker'[v].pc = "recording" /\ worker'[v].sent
              => Min(worker'[v].todo) \in arrived'
      <4> TAKE v \in Workers \ {w}
      <4>1. worker'[v] = worker[v] /\ arrived \subseteq arrived'
        BY <2>2, <2>4
      <4>2. worker[v].pc = "recording" /\ worker[v].sent
              => Min(worker[v].todo) \in arrived
        BY Zenon DEF Current, IInv, AboutToRecord
      <4> QED
        BY <4>1, <4>2, Zenon
    <3>3. \A v \in Workers :
            worker'[v].pc = "recording" /\ worker'[v].sent
              => Min(worker'[v].todo) \in arrived'
      <4> TAKE v \in Workers
      <4>1. CASE v = w
        BY <3>1, <4>1
      <4>2. CASE v # w
        BY <3>2, <4>2, Zenon
      <4> QED
        BY <4>1, <4>2, Zenon
    <3> QED
      BY <3>3 DEF Current, AboutToRecord
  <2>6. AboutToApply'
    BY <2>2 DEF Current, IInv, Shape, Step, AboutToApply
  <2> QED
    BY <2>3, <2>5, <2>6 DEF IInv
<1>3. CASE SendFails(w)
  BY <1>3, ZenonT(40) DEF SendFails, Current, IInv, Shape, Step, SentHasArrived, AboutToRecord,
     RateNotAfterBill, AboutToApply
<1>4. CASE RecordDelivery(w)
  <2>1. Shape'
    <3>1. /\ \/ delivery' = delivery
             \/ delivery' = [delivery EXCEPT ![Current(w)] = AfterAttempt(@, worker[w].sent)]
          /\ UNCHANGED <<bill, rate>>
          /\ worker' = [worker EXCEPT ![w].pc = "sending", ![w].todo = Rest(w),
                                      ![w].sent = FALSE]
      BY <1>4 DEF RecordDelivery
    <3>2. \A status \in {"none", "pending", "waiting", "sent"}, sent \in BOOLEAN :
            AfterAttempt(status, sent) \in {"none", "pending", "waiting", "sent"}
      BY DEF AfterAttempt
    <3>3. worker[w].sent \in BOOLEAN /\ Rest(w) \in SUBSET Int
      BY DEF Rest, IInv, Shape, Step
    <3>4. delivery' \in [Deliveries -> {"none", "pending", "waiting", "sent"}]
      BY <3>1, <3>2, <3>3 DEF IInv, Shape
    <3> DEFINE step == [worker[w] EXCEPT !.pc = "sending", !.todo = Rest(w),
                                         !.sent = FALSE]
    <3>5. worker[w] \in Step /\ worker \in [Workers -> Step]
      BY DEF IInv, Shape
    <3>6. step \in Step
      BY <3>3, <3>5 DEF Step
    <3>7. worker' = [worker EXCEPT ![w] = step]
      BY <3>1, <3>5
    <3>8. worker' \in [Workers -> Step]
      BY <3>5, <3>6, <3>7
    <3> QED
      BY <3>1, <3>4, <3>8 DEF IInv, Shape
  <2>2. SentHasArrived'
    BY <1>4 DEF RecordDelivery, AfterAttempt, IInv, Shape, Step, SentHasArrived,
       AboutToRecord
  <2>3. AboutToRecord' /\ AboutToApply' /\ RateNotAfterBill'
    BY <1>4 DEF RecordDelivery, Current, IInv, Shape, Step, AboutToRecord, AboutToApply,
       RateNotAfterBill
  <2> QED
    BY <2>1, <2>2, <2>3 DEF IInv
<1>5. CASE DeliveriesDone(w)
  BY <1>5 DEF DeliveriesDone, Goes, Current, IInv, Shape, Step, SentHasArrived,
     AboutToRecord, RateNotAfterBill, AboutToApply
<1> QED
  BY <1>1, <1>2, <1>3, <1>4, <1>5

LEMMA ConversionsKeep ==
  ASSUME IInv, NEW w \in Workers,
         \/ Sync(w) \/ SelectDates(w) \/ FetchFails(w) \/ FetchHangs(w)
         \/ BackfillDone(w) \/ Crash(w)
         \/ \E due \in Dates : Fetch(w, due) \/ Apply(w, due)
  PROVE  IInv'
<1> USE DEF NothingSent, NothingConverted, Outside
<1>a. Start \in Step /\ Start.pc = "cycle"
  BY TailAssumption DEF Start, Step, Dates
<1>1. CASE Sync(w)
  BY <1>1 DEF Sync, Goes, Current, IInv, Shape, Step, SentHasArrived, AboutToRecord,
     RateNotAfterBill, AboutToApply
<1>2. CASE SelectDates(w)
  <2> DEFINE due == First({DueDate(b) : b \in Unconverted}, DateLimit)
             step == [worker[w] EXCEPT !.pc = "fetching", !.todo = due]
  <2>1. due \in SUBSET Int
    BY TailAssumption DEF First, Unconverted
  <2>2. worker' = [worker EXCEPT ![w] = step]
    BY <1>2 DEF SelectDates, IInv, Shape, Step
  <2>3. step \in Step /\ step.pc = "fetching"
    BY <2>1 DEF IInv, Shape, Step
  <2>4. UNCHANGED <<delivery, arrived, bill, rate>>
    BY <1>2 DEF SelectDates
  <2> QED
    BY <2>2, <2>3, <2>4, MovesOn
<1>3. CASE FetchFails(w)
  BY <1>3 DEF FetchFails, Rest, Current, IInv, Shape, Step, SentHasArrived, AboutToRecord,
     RateNotAfterBill, AboutToApply
<1>4. CASE FetchHangs(w)
  <2> DEFINE step == IF worker[w].slow THEN Start
                       ELSE [worker[w] EXCEPT !.todo = Rest(w), !.slow = TRUE]
  <2>1. worker' = [worker EXCEPT ![w] = step]
    BY <1>4 DEF FetchHangs, IInv, Shape, Step
  <2>2. step \in Step /\ step.pc \in {"cycle", "fetching"}
    BY <1>4, <1>a DEF FetchHangs, Rest, IInv, Shape, Step
  <2>3. UNCHANGED <<delivery, arrived, bill, rate>>
    BY <1>4 DEF FetchHangs
  <2> QED
    BY <2>1, <2>2, <2>3, MovesOn
<1>5. CASE BackfillDone(w) \/ Crash(w)
  <2>1. worker' = [worker EXCEPT ![w] = Start] /\ UNCHANGED <<delivery, arrived, bill, rate>>
    BY <1>5 DEF BackfillDone, Crash
  <2> QED
    BY <2>1, <1>a, MovesOn
<1>6. ASSUME NEW due \in Dates, Fetch(w, due) PROVE IInv'
  <2>1. PICK date \in 1 .. LastDay :
          worker' = [worker EXCEPT ![w] = IF TooLate(due, date) THEN Start
                       ELSE [@ EXCEPT !.pc = "applying", !.date = date]]
    BY <1>6 DEF Fetch
  <2>2. date \in Dates
    BY TailAssumption DEF Dates
  <2>3. due = Current(w) /\ UNCHANGED <<delivery, arrived, bill, rate>>
    BY <1>6 DEF Fetch
  <2>4. CASE TooLate(due, date)
    <3>1. worker' = [worker EXCEPT ![w] = Start]
      BY <2>1, <2>4
    <3> QED
      BY <3>1, <2>3, <1>a, MovesOn
  <2>5. CASE ~TooLate(due, date)
    <3>1. date <= due
      BY <2>5, TailAssumption DEF TooLate, Dates
    <3>2. worker' = [worker EXCEPT ![w].pc = "applying", ![w].date = date]
      BY <2>1, <2>5 DEF IInv, Shape, Step
    <3>3. Shape' /\ SentHasArrived' /\ RateNotAfterBill'
      BY <3>2, <2>2, <2>3, ZenonT(40) DEF IInv, Shape, Step, SentHasArrived, RateNotAfterBill
    <3>4. AboutToRecord'
      BY <3>2, <2>3 DEF Current, IInv, Shape, Step, AboutToRecord
    <3>5. worker'[w].date = date /\ worker'[w].todo = worker[w].todo
          /\ \A v \in Workers \ {w} : worker'[v] = worker[v]
      BY <3>2 DEF IInv, Shape, Step
    <3>6. AboutToApply'
      BY <3>1, <3>2, <2>3, <3>5 DEF Current, IInv, AboutToApply
    <3> QED
      BY <3>3, <3>4, <3>6 DEF IInv
  <2> QED
    BY <2>4, <2>5
<1>7. ASSUME NEW due \in Dates, Apply(w, due) PROVE IInv'
  <2>1. Shape'
    <3>1. worker[w].date \in Dates /\ Rest(w) \in SUBSET Int /\ 0 \in Dates
      BY TailAssumption DEF IInv, Shape, Step, Rest, Dates
    <3>2. bill' \in [Bills -> {"none", "open", "converted", "deleted"}]
          /\ rate' \in [Bills -> Dates]
      BY <1>7, <3>1 DEF Apply, IInv, Shape
    <3>3. worker' \in [Workers -> Step]
      <4> DEFINE step == [worker[w] EXCEPT !.pc = "fetching", !.todo = Rest(w),
                                           !.date = 0]
      <4>1. worker[w] \in Step /\ worker \in [Workers -> Step]
        BY DEF IInv, Shape
      <4>2. step \in Step
        BY <3>1, <4>1 DEF Step
      <4>3. worker' = [worker EXCEPT ![w] = step]
        BY <1>7, <4>1 DEF Apply
      <4> QED
        BY <4>1, <4>2, <4>3
    <3>4. UNCHANGED delivery
      BY <1>7 DEF Apply
    <3> QED
      BY <3>2, <3>3, <3>4 DEF IInv, Shape
  <2>2. RateNotAfterBill'
    BY <1>7 DEF Apply, BillsOf, IInv, Shape, Step, RateNotAfterBill, AboutToApply
  <2>3. AboutToRecord' /\ AboutToApply' /\ SentHasArrived'
    BY <1>7 DEF Apply, Current, IInv, Shape, Step, AboutToRecord, AboutToApply, SentHasArrived
  <2> QED
    BY <2>1, <2>2, <2>3 DEF IInv
<1> QED
  BY <1>1, <1>2, <1>3, <1>4, <1>5, <1>6, <1>7

\* What is true of the rows and of what each worker is about to write, with any
\* number of workers that stop and start again.
THEOREM TailInductive == Spec => []IInv
<1>1. IInv /\ [Next]_vars => IInv'
  <2> SUFFICES ASSUME IInv, [Next]_vars PROVE IInv'
    OBVIOUS
  <2>1. CASE UNCHANGED vars
    BY <2>1 DEF vars, Current, IInv, Shape, Step, SentHasArrived, AboutToRecord,
       RateNotAfterBill, AboutToApply
  <2>2. CASE Environment
    BY <2>2, EnvironmentKeeps
  <2>3. ASSUME NEW w \in Workers, Runs(w) \/ Crash(w) PROVE IInv'
    BY <2>3, DeliveriesKeep, ConversionsKeep DEF Runs
  <2> QED
    BY <2>1, <2>2, <2>3 DEF Next
<1> QED
  BY <1>1, InitHolds, PTL DEF Spec

\* A delivery recorded as sent has arrived, however many workers send it
\* (worker.rs:104-133 holds no lock between selecting and recording).
THEOREM SentArrived == Spec => []SentHasArrived
<1>1. IInv => SentHasArrived
  BY DEF IInv
<1> QED
  BY <1>1, TailInductive, PTL

\* No bill is converted with a rate of a later day, whatever date the answer of
\* the provider has: the check (exchange_rates.rs:105-107) comes before the
\* wait for the transaction that uses it.
THEOREM NoLaterRate == Spec => []RateNotAfterBill
<1>1. IInv => RateNotAfterBill
  BY DEF IInv
<1> QED
  BY <1>1, TailInductive, PTL

\* A conversion is final although several workers may have fetched rates for
\* its day, before and after they were out (exchange_rates.rs:121).
THEOREM ConversionIsFinal == Spec => ConvertedOnce
<1> DEFINE Final == \A b \in Bills :
             bill[b] = "converted" /\ bill'[b] = "converted" => rate'[b] = rate[b]
<1>1. IInv /\ [Next]_vars => [Final]_vars
  <2> SUFFICES ASSUME IInv, Next PROVE Final
    OBVIOUS
  <2>1. ASSUME NEW w \in Workers, NEW due \in Dates, Apply(w, due) PROVE Final
    BY <2>1 DEF Apply, BillsOf
  <2>2. ASSUME NEW b \in Bills, DropBill(b) PROVE Final
    BY <2>2 DEF DropBill, IInv, Shape, Step
  <2>3. ASSUME UNCHANGED rate PROVE Final
    BY <2>3
  <2>4. UNCHANGED rate \/ (\E w \in Workers, due \in Dates : Apply(w, due))
        \/ \E b \in Bills : DropBill(b)
    BY DEF Next, Environment, Runs, Remind, RetryDue, AddBill, SwitchTelegram,
       NextDay, Publish, SelectDeliveries, SendFails, RecordDelivery,
       DeliveriesDone, Send, Sync, SelectDates, FetchFails, FetchHangs,
       BackfillDone, Fetch, Crash, NothingConverted
  <2> QED
    BY <2>1, <2>2, <2>3, <2>4
<1> QED
  BY <1>1, TailInductive, PTL DEF Spec, ConvertedOnce
=============================================================================
