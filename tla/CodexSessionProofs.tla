------------------------- MODULE CodexSessionProofs -------------------------
(***************************************************************************)
(* Theorems about CodexSession, for every number of sessions, messages,    *)
(* threads and requests.                                                   *)
(***************************************************************************)
EXTENDS CodexSession, TLAPS

\* What waits in a lane is queued, belongs there, and waits once.
LaneInv ==
  \A s \in Sessions, p \in Lanes :
    /\ \A i \in 1 .. Len(lane[s][p]) :
         /\ job[lane[s][p][i]].pc = "queued"
         /\ Who(lane[s][p][i]) = s /\ PriorityOf(Says(lane[s][p][i])) = p
    /\ \A i, j \in 1 .. Len(lane[s][p]) :
         lane[s][p][i] = lane[s][p][j] => i = j

\* A message that has been posted has its text.
MsgInv == \A m \in Msgs : job[m].pc # "unsent" => msg[m] # None

\* No turn was started for a message that has not come so far.
StartInv ==
  \A m \in Msgs :
    job[m].pc \in {"unsent", "posting", "queued", "begin", "resume", "create"}
      => starts[m] = 0

\* A request and a response keep who made them.
RequestInv ==
  /\ \A r \in Requests : request[r].by # None => job[request[r].by].pc # "unsent"
  /\ \A r \in Requests : reply[r] # None =>
       job[reply[r]].pc # "unsent" /\ request[r].by # None
  /\ \A r \in pending : request[r].by # None

\* What a response has taken is a request of its session.
TakenInv ==
  \A m \in Msgs : job[m].pc = "taken" =>
    /\ job[m].req \in Requests /\ request[job[m].req].by # None
    /\ Owner(job[m].req) = Who(m) /\ Says(m).arg \in {None, job[m].req}

\* The binding is what was told and what is on disk, mishaps apart.
BindingInv ==
  /\ \A m \in Msgs : job[m].left =>
       job[m].pc # "unsent" /\ <<"left", Who(m)>> \in troubles
  /\ \A s \in Sessions :
       file[s] = binding[s] \/ <<"unsaved", s>> \in troubles
  /\ \A s \in Sessions :
       \/ binding[s].thread = told[s]
       \/ \E k \in {"left", "unsaved"} : <<k, s>> \in troubles
       \/ <<"torn", None>> \in troubles

IInv ==
  /\ TypeOK /\ MsgInv /\ LaneInv
  /\ StartInv /\ RunsOnce
  /\ RequestInv /\ TakenInv /\ ResponseReachesOwnTurn /\ PendingIsAwaited
  /\ BindingInv

-----------------------------------------------------------------------------
(***************************************************************************)
(* Most steps handle one message and leave most of the state alone.  What  *)
(* they leave alone, and what follows for the invariant.                   *)
(***************************************************************************)

\* The step handles m, which has left its lane, and no other message.
Works(m) ==
  /\ UNCHANGED <<msg, lane>>
  /\ job' \in [Msgs -> Job]
  /\ busy' \in [Sessions -> [Lanes -> Msgs \cup {None}]]
  /\ \A n \in Msgs : n # m => job'[n] = job[n]
  /\ job[m].pc \notin {"unsent", "posting", "queued"}
  /\ job'[m].pc \notin {"unsent", "posting", "queued"}

\* It starts no turn, and takes m back to no place before one.
StartsNothing(m) ==
  /\ starts' = starts
  /\ job'[m].pc \in {"begin", "resume", "create"}
       => job[m].pc \in {"begin", "resume", "create"}

\* It makes and answers no request, and a request that m does not wait for any
\* more is not pending.
AsksNothing(m) ==
  /\ UNCHANGED <<request, reply>> /\ pending' \subseteq pending
  /\ troubles \subseteq troubles'
  /\ job[m].pc = "ask" =>
       \/ job[m].req \notin pending'
       \/ job'[m].pc = "ask" /\ job'[m].req = job[m].req

\* It binds and tells nothing.
BindsNothing(m) ==
  /\ UNCHANGED <<binding, file, told>> /\ troubles \subseteq troubles'
  /\ job'[m].left => job[m].left

LEMMA Posted ==
  ASSUME IInv, NEW m \in Msgs, job[m].pc # "unsent"
  PROVE  Who(m) \in Sessions /\ Says(m) \in Command
BY DEF IInv, TypeOK, MsgInv, Message, Who, Says

LEMMA DoneShape ==
  ASSUME IInv, NEW m \in Msgs, Done(m)
  PROVE  /\ job' \in [Msgs -> Job]
         /\ busy' \in [Sessions -> [Lanes -> Msgs \cup {None}]]
         /\ \A n \in Msgs : n # m => job'[n] = job[n]
         /\ job'[m].pc = "done" /\ job'[m].left = FALSE
<1>1. job \in [Msgs -> Job] /\ busy \in [Sessions -> [Lanes -> Msgs \cup {None}]]
  BY DEF IInv, TypeOK
<1>2. At("done") \in Job /\ At("done").pc = "done" /\ At("done").left = FALSE
  BY DEF At, Job
<1>3. job' = [job EXCEPT ![m] = At("done")] /\ busy' = Leaves(m)
  BY DEF Done
<1>4. Leaves(m) \in [Sessions -> [Lanes -> Msgs \cup {None}]]
  BY <1>1 DEF Leaves
<1> QED
  BY <1>1, <1>2, <1>3, <1>4

LEMMA WorkKeeps ==
  ASSUME IInv, NEW m \in Msgs, Works(m)
  PROVE  MsgInv' /\ LaneInv'
<1>1. MsgInv'
  BY DEF IInv, MsgInv, Works
<1>2. ASSUME NEW s \in Sessions, NEW p \in Lanes, NEW i \in 1 .. Len(lane[s][p])
      PROVE  /\ job'[lane[s][p][i]].pc = "queued"
             /\ Who(lane[s][p][i])' = s /\ PriorityOf(Says(lane[s][p][i]))' = p
  <2>1. lane[s][p][i] \in Msgs
    BY DEF IInv, TypeOK
  <2>2. job[lane[s][p][i]].pc = "queued"
    BY DEF IInv, LaneInv
  <2>3. job'[lane[s][p][i]] = job[lane[s][p][i]]
    BY <2>1, <2>2 DEF Works
  <2> QED
    BY <2>2, <2>3 DEF IInv, LaneInv, Works, Who, Says, PriorityOf
<1>3. lane' = lane
  BY DEF Works
<1>4. \A s \in Sessions, p \in Lanes : \A i, j \in 1 .. Len(lane[s][p]) :
        lane[s][p][i] = lane[s][p][j] => i = j
  BY DEF IInv, LaneInv
<1>5. LaneInv'
  BY <1>2, <1>3, <1>4 DEF LaneInv
<1> QED
  BY <1>1, <1>5

LEMMA StartKeeps ==
  ASSUME IInv, NEW m \in Msgs, Works(m), StartsNothing(m)
  PROVE  StartInv' /\ RunsOnce'
BY DEF IInv, StartInv, RunsOnce, Works, StartsNothing

\* What a request waits for, if m is not what it waits for.
LEMMA AwaitKept ==
  ASSUME IInv, NEW m \in Msgs, Works(m), AsksNothing(m),
         NEW r \in pending', Awaited(r)
  PROVE  Awaited(r)'
<1>1. r \in Requests /\ r \in pending /\ request[r].by # None
  BY DEF IInv, TypeOK, AsksNothing, Awaited
<1>2. request[r].by \in Msgs
  BY <1>1 DEF IInv, TypeOK, Request
<1>3. CASE request[r].by = m
  BY <1>1, <1>3 DEF Awaited, AsksNothing
<1>4. CASE request[r].by # m
  BY <1>1, <1>2, <1>4 DEF Awaited, AsksNothing, Works
<1> QED
  BY <1>3, <1>4

LEMMA AskKeeps ==
  ASSUME IInv, NEW m \in Msgs, Works(m), AsksNothing(m)
  PROVE  RequestInv' /\ ResponseReachesOwnTurn' /\ PendingIsAwaited'
<1>1. RequestInv'
  BY DEF IInv, TypeOK, Request, RequestInv, Works, AsksNothing
<1>2. ResponseReachesOwnTurn'
  BY DEF IInv, ResponseReachesOwnTurn, Works, AsksNothing, Owner, Who, Says
<1>3. PendingIsAwaited'
  BY AwaitKept DEF IInv, PendingIsAwaited, AsksNothing
<1> QED
  BY <1>1, <1>2, <1>3

\* A response that has been given stays so while the other messages do.
LEMMA TakenKeeps ==
  ASSUME IInv, NEW m \in Msgs, Works(m), request' = request,
         job'[m].pc = "taken" =>
           /\ job'[m].req \in Requests /\ request[job'[m].req].by # None
           /\ Owner(job'[m].req) = Who(m) /\ Says(m).arg \in {None, job'[m].req}
  PROVE  TakenInv'
BY DEF IInv, TakenInv, Works, Owner, Who, Says

LEMMA BindKeeps ==
  ASSUME IInv, NEW m \in Msgs, Works(m), BindsNothing(m)
  PROVE  BindingInv'
BY DEF IInv, BindingInv, Works, BindsNothing, Who

\* A step that does none of this keeps the invariant.
LEMMA QuietKeeps ==
  ASSUME IInv, NEW m \in Msgs, Works(m), StartsNothing(m), AsksNothing(m),
         BindsNothing(m), job'[m].pc # "taken",
         UNCHANGED <<cwd, live, used, ends>>,
         cache' \in [Sessions -> SUBSET Threads], troubles' \subseteq Troubles
  PROVE  IInv'
<1>1. TypeOK'
  <2>1. lane' = lane /\ msg' = msg /\ starts' = starts /\ request' = request
          /\ reply' = reply /\ binding' = binding /\ file' = file /\ told' = told
    BY DEF Works, StartsNothing, AsksNothing, BindsNothing
  <2>2. job' \in [Msgs -> Job] /\ pending' \subseteq Requests
          /\ busy' \in [Sessions -> [Lanes -> Msgs \cup {None}]]
    BY DEF Works, AsksNothing, IInv, TypeOK
  <2> QED
    BY <2>1, <2>2 DEF IInv, TypeOK
<1>2. MsgInv' /\ LaneInv'
  BY WorkKeeps
<1>3. StartInv' /\ RunsOnce'
  BY StartKeeps
<1>4. RequestInv' /\ ResponseReachesOwnTurn' /\ PendingIsAwaited'
  BY AskKeeps
<1>5. TakenInv'
  BY TakenKeeps DEF AsksNothing
<1>6. BindingInv'
  BY BindKeeps
<1> QED
  BY <1>1, <1>2, <1>3, <1>4, <1>5, <1>6 DEF IInv

-----------------------------------------------------------------------------
(***************************************************************************)
(* The quiet steps.                                                        *)
(***************************************************************************)

\* A message that is done with.
LEMMA DoneWorks ==
  ASSUME IInv, NEW m \in Msgs, Done(m), UNCHANGED <<msg, lane>>,
         job[m].pc \notin {"unsent", "posting", "queued"}
  PROVE  /\ Works(m) /\ job'[m].pc = "done" /\ job'[m].left = FALSE
BY DoneShape DEF Works

\* A message that goes on.
LEMMA GoesOnWorks ==
  ASSUME IInv, NEW m \in Msgs, UNCHANGED <<msg, lane, busy>>,
         NEW j \in Job, job' = [job EXCEPT ![m] = j],
         job[m].pc \notin {"unsent", "posting", "queued"},
         j.pc \notin {"unsent", "posting", "queued"}
  PROVE  Works(m) /\ job'[m] = j
BY DEF Works, IInv, TypeOK

LEMMA ListThreadsKeeps ==
  ASSUME IInv, NEW m \in Msgs, ListThreads(m)
  PROVE  IInv'
<1>1. Works(m) /\ job'[m].pc = "done" /\ job'[m].left = FALSE
  BY DoneWorks DEF ListThreads, Starting
<1>2. StartsNothing(m) /\ BindsNothing(m) /\ AsksNothing(m)
  BY <1>1 DEF ListThreads, Starting, Trouble, store, server, asking,
              StartsNothing, BindsNothing, AsksNothing
<1>3. cache' \in [Sessions -> SUBSET Threads]
  <2>1. \A T \in Listed : T \in SUBSET Threads
    BY DEF Listed, IInv, TypeOK
  <2>2. cache \in [Sessions -> SUBSET Threads]
    BY DEF IInv, TypeOK
  <2> QED
    BY <2>1, <2>2 DEF ListThreads
<1>4. troubles' \subseteq Troubles
  BY DEF ListThreads, Trouble, Troubles, IInv, TypeOK
<1> QED
  BY <1>1, <1>2, <1>3, <1>4, QuietKeeps DEF ListThreads, server

LEMMA ResumeToBindKeeps ==
  ASSUME IInv, NEW m \in Msgs, ResumeToBind(m)
  PROVE  IInv'
<1>1. job[m].pc = "begin" /\ UNCHANGED <<msg, lane>> /\ job[m] \in Job
        /\ job \in [Msgs -> Job]
  BY DEF ResumeToBind, Starting, IInv, TypeOK
<1>2. Works(m) /\ job'[m].pc \in {"save", "done"}
        /\ (job'[m].left => job[m].left)
  <2>1. CASE Done(m)
    BY <1>1, <2>1, DoneWorks
  <2>2. CASE ~Done(m)
    <3> DEFINE j == [job[m] EXCEPT !.pc = "save", !.thread = Says(m).arg,
                       !.cwd = (Says(m).cmd = "pick") \/ cwd]
    <3>1. Says(m).arg \in Threads /\ cwd \in BOOLEAN
      BY <2>2 DEF ResumeToBind, Resumable, IInv, TypeOK
    <3>2. j \in Job /\ j.pc = "save" /\ j.left = job[m].left
      BY <1>1, <3>1 DEF Job
    <3>3. job' = [job EXCEPT ![m] = j] /\ busy' = busy
      BY <1>1, <2>2 DEF ResumeToBind
    <3> HIDE DEF j
    <3> QED
      BY <1>1, <3>2, <3>3, GoesOnWorks
  <2> QED
    BY <2>1, <2>2
<1>3. StartsNothing(m) /\ BindsNothing(m) /\ AsksNothing(m)
  BY <1>1, <1>2 DEF ResumeToBind, Trouble, store, server, asking,
                    StartsNothing, BindsNothing, AsksNothing
<1>4. troubles' \subseteq Troubles /\ cache' \in [Sessions -> SUBSET Threads]
  BY DEF ResumeToBind, Trouble, Troubles, IInv, TypeOK
<1> QED
  BY <1>2, <1>3, <1>4, QuietKeeps DEF ResumeToBind, server

LEMMA BeginPromptKeeps ==
  ASSUME IInv, NEW m \in Msgs, BeginPrompt(m)
  PROVE  IInv'
<1>1. job[m].pc = "begin" /\ UNCHANGED <<msg, lane>> /\ job[m] \in Job
        /\ job \in [Msgs -> Job]
  BY DEF BeginPrompt, Starting, IInv, TypeOK
<1>2. Works(m) /\ job'[m].pc \in {"resume", "create", "done"}
        /\ (job'[m].left => job[m].left)
  <2>1. CASE Done(m)
    BY <1>1, <2>1, DoneWorks
  <2>2. CASE /\ job' = [job EXCEPT ![m].pc = "resume",
                          ![m].thread = binding[Who(m)].thread,
                          ![m].cwd = binding[Who(m)].cwd]
             /\ busy' = busy
    <3> DEFINE j == [job[m] EXCEPT !.pc = "resume",
                       !.thread = binding[Who(m)].thread,
                       !.cwd = binding[Who(m)].cwd]
    <3>1. binding[Who(m)] \in Binding
      BY <1>1, Posted DEF IInv, TypeOK
    <3>2. j \in Job /\ j.pc = "resume" /\ j.left = job[m].left
      BY <1>1, <3>1 DEF Job, Binding
    <3>3. job' = [job EXCEPT ![m] = j]
      BY <1>1, <2>2
    <3> HIDE DEF j
    <3> QED
      BY <1>1, <2>2, <3>2, <3>3, GoesOnWorks
  <2>3. CASE /\ job' = [job EXCEPT ![m].pc = "create", ![m].cwd = TRUE]
             /\ busy' = busy
    <3> DEFINE j == [job[m] EXCEPT !.pc = "create", !.cwd = TRUE]
    <3>1. j \in Job /\ j.pc = "create" /\ j.left = job[m].left
      BY <1>1 DEF Job
    <3>2. job' = [job EXCEPT ![m] = j]
      BY <1>1, <2>3
    <3> HIDE DEF j
    <3> QED
      BY <1>1, <2>3, <3>1, <3>2, GoesOnWorks
  <2> QED
    BY <2>1, <2>2, <2>3 DEF BeginPrompt
<1>3. StartsNothing(m) /\ BindsNothing(m) /\ AsksNothing(m)
  BY <1>1, <1>2 DEF BeginPrompt, store, server, asking,
                    StartsNothing, BindsNothing, AsksNothing
<1>4. troubles' \subseteq Troubles /\ cache' \in [Sessions -> SUBSET Threads]
  BY DEF BeginPrompt, IInv, TypeOK
<1> QED
  BY <1>2, <1>3, <1>4, QuietKeeps DEF BeginPrompt, server

LEMMA SucceedWorks ==
  ASSUME IInv, NEW m \in Msgs, Succeed(m) \/ Done(m), UNCHANGED <<msg, lane>>,
         job[m].pc \notin {"unsent", "posting", "queued"}
  PROVE  Works(m) /\ job'[m].pc \in {"save", "done"}
           /\ (job'[m].left => job[m].left)
<1>1. CASE Done(m)
  BY <1>1, DoneWorks
<1>2. CASE job[m].fresh /\ Succeed(m)
  <2> DEFINE j == [job[m] EXCEPT !.pc = "save", !.req = None]
  <2>1. job[m] \in Job /\ job \in [Msgs -> Job]
    BY DEF IInv, TypeOK
  <2>2. j \in Job /\ j.pc = "save" /\ j.left = job[m].left
    BY <2>1 DEF Job
  <2>3. job' = [job EXCEPT ![m] = j] /\ busy' = busy
    BY <1>2, <2>1 DEF Succeed
  <2> HIDE DEF j
  <2> QED
    BY <2>2, <2>3, GoesOnWorks
<1> QED
  BY <1>1, <1>2 DEF Succeed

LEMMA EndTurnKeeps ==
  ASSUME IInv, NEW m \in Msgs, EndTurn(m)
  PROVE  IInv'
<1>1. Works(m) /\ job'[m].pc \in {"save", "done"} /\ (job'[m].left => job[m].left)
  BY SucceedWorks DEF EndTurn
<1>2. StartsNothing(m) /\ BindsNothing(m) /\ AsksNothing(m)
  BY <1>1 DEF EndTurn, store, server, asking,
              StartsNothing, BindsNothing, AsksNothing
<1>3. troubles' \subseteq Troubles /\ cache' \in [Sessions -> SUBSET Threads]
  BY DEF EndTurn, IInv, TypeOK
<1> QED
  BY <1>1, <1>2, <1>3, QuietKeeps DEF EndTurn, server

LEMMA DeadlineKeeps ==
  ASSUME IInv, NEW m \in Msgs, Deadline(m)
  PROVE  IInv'
<1>1. Works(m) /\ job'[m].pc \in {"save", "done"} /\ (job'[m].left => job[m].left)
  BY SucceedWorks DEF Deadline, InTurn
<1>2. StartsNothing(m) /\ BindsNothing(m) /\ AsksNothing(m)
  BY <1>1 DEF Deadline, WithoutAsked, store, server,
              StartsNothing, BindsNothing, AsksNothing
<1>3. troubles' \subseteq Troubles /\ cache' \in [Sessions -> SUBSET Threads]
  BY DEF Deadline, IInv, TypeOK
<1> QED
  BY <1>1, <1>2, <1>3, QuietKeeps DEF Deadline, server

LEMMA FailCallKeeps ==
  ASSUME IInv, NEW m \in Msgs, FailCall(m)
  PROVE  IInv'
<1>1. Done(m) /\ UNCHANGED <<store, told>>
        /\ troubles' = troubles \cup {<<"call", m>>}
  BY DEF FailCall, Fail, IsMissingRollout
<1>2. Works(m) /\ job'[m].pc = "done" /\ job'[m].left = FALSE
  BY <1>1, DoneWorks DEF FailCall, InTurn
<1>3. StartsNothing(m) /\ BindsNothing(m) /\ AsksNothing(m)
  BY <1>1, <1>2 DEF FailCall, WithoutAsked, store, server,
                    StartsNothing, BindsNothing, AsksNothing
<1>4. troubles' \subseteq Troubles /\ cache' \in [Sessions -> SUBSET Threads]
  BY <1>1 DEF FailCall, Troubles, IInv, TypeOK
<1> QED
  BY <1>2, <1>3, <1>4, QuietKeeps DEF FailCall, server

LEMMA GoOnKeeps ==
  ASSUME IInv, NEW m \in Msgs, GoOn(m)
  PROVE  IInv'
<1>1. Works(m) /\ job'[m].pc = "turn" /\ job'[m].left = job[m].left
  <2> DEFINE j == [job[m] EXCEPT !.pc = "turn", !.req = None]
  <2>1. job[m] \in Job /\ job \in [Msgs -> Job]
    BY DEF IInv, TypeOK
  <2>2. j \in Job /\ j.pc = "turn" /\ j.left = job[m].left
    BY <2>1 DEF Job
  <2>3. job' = [job EXCEPT ![m] = j]
    BY <2>1 DEF GoOn
  <2> HIDE DEF j
  <2> QED
    BY <2>2, <2>3, GoesOnWorks DEF GoOn
<1>2. StartsNothing(m) /\ BindsNothing(m) /\ AsksNothing(m)
  BY <1>1 DEF GoOn, WithoutAsked, store, server,
              StartsNothing, BindsNothing, AsksNothing
<1>3. troubles' \subseteq Troubles /\ cache' \in [Sessions -> SUBSET Threads]
  BY DEF GoOn, IInv, TypeOK
<1> QED
  BY <1>1, <1>2, <1>3, QuietKeeps DEF GoOn, server

-----------------------------------------------------------------------------
(***************************************************************************)
(* Steps that start turns.                                                 *)
(***************************************************************************)

\* At the beginning of a turn, and while its thread is looked for, the message
\* has had none.
LEMMA FirstTurn ==
  ASSUME IInv, NEW m \in Msgs, Works(m), Starts(m),
         job[m].pc \in {"resume", "create"}, job'[m].pc = "turn"
  PROVE  StartInv' /\ RunsOnce' /\ starts' \in [Msgs -> 0 .. 2]
<1>1. starts[m] = 0 /\ starts \in [Msgs -> 0 .. 2]
  BY DEF IInv, StartInv, TypeOK
<1>2. starts' = [starts EXCEPT ![m] = 1]
  BY <1>1 DEF Starts
<1> QED
  BY <1>1, <1>2 DEF IInv, StartInv, RunsOnce, Works

LEMMA CreateThreadKeeps ==
  ASSUME IInv, NEW m \in Msgs, CreateThread(m)
  PROVE  IInv'
<1>1. job[m].pc = "create" /\ UNCHANGED <<msg, lane, asking, told, cwd, ends>>
        /\ UNCHANGED <<binding, file, cache, troubles>>
        /\ job[m] \in Job /\ job \in [Msgs -> Job]
  BY DEF CreateThread, store, IInv, TypeOK
<1>2. CASE Done(m) /\ UNCHANGED server
  <2>1. Works(m) /\ job'[m].pc = "done" /\ job'[m].left = FALSE
    BY <1>1, <1>2, DoneWorks
  <2>2. StartsNothing(m) /\ BindsNothing(m) /\ AsksNothing(m)
    BY <1>1, <1>2, <2>1 DEF server, asking,
       StartsNothing, BindsNothing, AsksNothing
  <2>3. troubles' \subseteq Troubles /\ cache' \in [Sessions -> SUBSET Threads]
    BY <1>1 DEF IInv, TypeOK
  <2> QED
    BY <1>1, <1>2, <2>1, <2>2, <2>3, QuietKeeps DEF server
<1>3. ASSUME NEW t \in Threads \ used,
             used' = used \cup {t}, live' = live \cup {t},
             job' = [job EXCEPT ![m].pc = "turn", ![m].thread = t,
                                ![m].fresh = TRUE],
             Starts(m), UNCHANGED busy
      PROVE  IInv'
  <2> DEFINE j == [job[m] EXCEPT !.pc = "turn", !.thread = t, !.fresh = TRUE]
  <2>1. j \in Job /\ j.pc = "turn" /\ j.left = job[m].left
    BY <1>1 DEF Job
  <2>2. job' = [job EXCEPT ![m] = j]
    BY <1>1, <1>3
  <2>3. Works(m) /\ job'[m] = j
    <3> HIDE DEF j
    <3> QED
      BY <1>1, <1>3, <2>1, <2>2, GoesOnWorks
  <2>4. StartInv' /\ RunsOnce' /\ starts' \in [Msgs -> 0 .. 2]
    BY <1>1, <1>3, <2>1, <2>3, FirstTurn
  <2>5. BindsNothing(m) /\ AsksNothing(m) /\ job'[m].pc = "turn"
    BY <1>1, <2>1, <2>3 DEF BindsNothing, AsksNothing, asking
  <2>6. live' \subseteq used' /\ used' \subseteq Threads
    BY <1>3 DEF IInv, TypeOK
  <2>7. TypeOK'
    BY <1>1, <2>3, <2>4, <2>6 DEF Works, asking, IInv, TypeOK
  <2> QED
    BY <1>1, <2>3, <2>4, <2>5, <2>7, WorkKeeps, AskKeeps, TakenKeeps, BindKeeps
       DEF IInv, asking
<1> QED
  BY <1>2, <1>3 DEF CreateThread

-----------------------------------------------------------------------------
(***************************************************************************)
(* Steps that bind.                                                        *)
(***************************************************************************)

\* A step that binds Who(m) to b, and either saves and tells it or is unsaved.
Rebinds(m, b) ==
  /\ Bind(Who(m), b)
  /\ \/ Saved /\ Tells(m, b.thread) /\ UNCHANGED troubles
     \/ Unsaved(Who(m), troubles) /\ UNCHANGED told

LEMMA RebindKeeps ==
  ASSUME IInv, NEW m \in Msgs, Works(m), NEW b \in Binding, Rebinds(m, b),
         job'[m].left => job[m].left
  PROVE  /\ BindingInv' /\ troubles \subseteq troubles'
         /\ troubles' \subseteq Troubles
         /\ binding' \in [Sessions -> Binding] /\ file' \in [Sessions -> Binding]
         /\ told' \in [Sessions -> Threads \cup {None}]
<1> DEFINE s == Who(m)
<1>1. s \in Sessions
  BY Posted DEF Works
<1>2. /\ binding \in [Sessions -> Binding] /\ file \in [Sessions -> Binding]
      /\ told \in [Sessions -> Threads \cup {None}] /\ troubles \subseteq Troubles
      /\ b.thread \in Threads \cup {None}
  BY DEF IInv, TypeOK, Binding
<1>3. binding' = [binding EXCEPT ![s] = b] /\ binding' \in [Sessions -> Binding]
  BY <1>2 DEF Rebinds, Bind
<1>4. \A n \in Msgs : Who(n)' = Who(n) /\ (job'[n].left => job[n].left)
  BY DEF Works, Who
<1>5. troubles \subseteq troubles' /\ troubles' \subseteq Troubles
  BY <1>1, <1>2 DEF Rebinds, Unsaved, Troubles
<1>6. file' \in [Sessions -> Binding] /\ told' \in [Sessions -> Threads \cup {None}]
  BY <1>1, <1>2, <1>3 DEF Rebinds, Saved, Unsaved, Tells
<1>7. \A n \in Msgs : job'[n].left =>
        job'[n].pc # "unsent" /\ <<"left", Who(n)>>' \in troubles'
  BY <1>4, <1>5 DEF IInv, BindingInv, Works
<1>8. \A x \in Sessions : file'[x] = binding'[x] \/ <<"unsaved", x>> \in troubles'
  <2>1. CASE Saved
    BY <2>1 DEF Saved
  <2>2. CASE Unsaved(Who(m), troubles)
    BY <1>2, <1>3, <1>5, <2>2 DEF Unsaved, IInv, BindingInv
  <2> QED
    BY <2>1, <2>2 DEF Rebinds
<1>9. ASSUME NEW x \in Sessions
      PROVE  \/ binding'[x].thread = told'[x]
             \/ \E k \in {"left", "unsaved"} : <<k, x>> \in troubles'
             \/ <<"torn", None>> \in troubles'
  <2>1. CASE x # s
    <3>1. binding'[x] = binding[x] /\ told'[x] = told[x]
      BY <1>2, <1>3, <2>1 DEF Rebinds, Tells
    <3> QED
      BY <1>5, <3>1 DEF IInv, BindingInv
  <2>2. CASE x = s /\ Unsaved(Who(m), troubles)
    BY <2>2 DEF Unsaved
  <2>3. CASE x = s /\ job[m].left
    BY <1>5, <2>3 DEF IInv, BindingInv
  <2>4. CASE x = s /\ ~job[m].left /\ Tells(m, b.thread)
    BY <1>1, <1>2, <1>3, <2>4 DEF Tells
  <2> QED
    BY <2>1, <2>2, <2>3, <2>4 DEF Rebinds
<1>10. BindingInv'
  BY <1>7, <1>8, <1>9 DEF BindingInv
<1> QED
  BY <1>3, <1>5, <1>6, <1>10

\* A step that binds, and apart from that does nothing.
LEMMA QuietRebindKeeps ==
  ASSUME IInv, NEW m \in Msgs, Works(m), StartsNothing(m),
         NEW b \in Binding, Rebinds(m, b), job'[m].left => job[m].left,
         job[m].pc # "ask", job'[m].pc # "taken",
         UNCHANGED <<cwd, cache, live, used, asking, ends>>
  PROVE  IInv'
<1>1. /\ BindingInv' /\ troubles \subseteq troubles'
      /\ troubles' \subseteq Troubles
      /\ binding' \in [Sessions -> Binding] /\ file' \in [Sessions -> Binding]
      /\ told' \in [Sessions -> Threads \cup {None}]
  BY RebindKeeps
<1>2. AsksNothing(m)
  BY <1>1 DEF AsksNothing, asking
<1>3. TypeOK'
  BY <1>1 DEF Works, StartsNothing, asking, IInv, TypeOK
<1> QED
  BY <1>1, <1>2, <1>3, WorkKeeps, StartKeeps, AskKeeps, TakenKeeps
     DEF IInv, asking

LEMMA NewKeeps ==
  ASSUME IInv, NEW m \in Msgs, New(m)
  PROVE  IInv'
<1>1. Works(m) /\ job'[m].pc = "done" /\ job'[m].left = FALSE
  BY DoneWorks DEF New, Starting
<1>2. Unbound \in Binding /\ Unbound.thread = None
  BY DEF Unbound, Binding
<1>3. Rebinds(m, Unbound) /\ StartsNothing(m) /\ job[m].pc = "begin"
  BY <1>1, <1>2 DEF New, Starting, Rebinds, StartsNothing, server
<1> QED
  BY <1>1, <1>2, <1>3, QuietRebindKeeps DEF New, server

LEMMA SaveBindingKeeps ==
  ASSUME IInv, NEW m \in Msgs, SaveBinding(m)
  PROVE  IInv'
<1> DEFINE b == [thread |-> job[m].thread, cwd |-> job[m].cwd]
<1>1. Works(m) /\ job'[m].pc = "done" /\ job'[m].left = FALSE
  BY DoneWorks DEF SaveBinding
<1>2. b \in Binding /\ b.thread = job[m].thread
  BY DEF IInv, TypeOK, Job, Binding
<1>3. Rebinds(m, b) /\ StartsNothing(m) /\ job[m].pc = "save"
  BY <1>1, <1>2 DEF SaveBinding, Rebinds, StartsNothing, server
<1> HIDE DEF b
<1> QED
  BY <1>1, <1>2, <1>3, QuietRebindKeeps DEF SaveBinding, server

LEMMA RecoverKeeps ==
  ASSUME IInv, NEW m \in Msgs, Recover(m, troubles), job[m].pc = "resume",
         UNCHANGED <<cwd, msg, lane, cache, server, asking, ends>>
  PROVE  IInv'
<1>1. Works(m) /\ job'[m].pc \in {"create", "done"}
        /\ (job'[m].left => job[m].left)
  <2>1. CASE Done(m)
    BY <2>1, DoneWorks
  <2>2. CASE ~Done(m)
    <3> DEFINE j == [At("create") EXCEPT !.cwd = TRUE, !.left = job[m].left]
    <3>1. j \in Job /\ j.pc = "create" /\ j.left = job[m].left
      BY DEF At, Job, IInv, TypeOK
    <3>2. job' = [job EXCEPT ![m] = j] /\ busy' = busy
      BY <2>2 DEF Recover
    <3> HIDE DEF j
    <3> QED
      BY <3>1, <3>2, GoesOnWorks
  <2> QED
    BY <2>1, <2>2
<1>2. Unbound \in Binding /\ Unbound.thread = None
  BY DEF Unbound, Binding
<1>3. Rebinds(m, Unbound) /\ StartsNothing(m)
  BY <1>1, <1>2 DEF Recover, Rebinds, StartsNothing, server
<1> QED
  BY <1>1, <1>2, <1>3, QuietRebindKeeps DEF server

LEMMA StartTurnKeeps ==
  ASSUME IInv, NEW m \in Msgs, StartTurn(m)
  PROVE  IInv'
<1>1. job[m].pc = "resume" /\ UNCHANGED <<msg, lane, asking, cwd, cache, live,
                                          used, ends>>
        /\ job[m] \in Job /\ job \in [Msgs -> Job]
  BY DEF StartTurn, IInv, TypeOK
<1>2. CASE /\ Starts(m) /\ job' = [job EXCEPT ![m].pc = "turn"]
           /\ UNCHANGED <<busy, store, told, troubles>>
  <2> DEFINE j == [job[m] EXCEPT !.pc = "turn"]
  <2>1. j \in Job /\ j.pc = "turn" /\ j.left = job[m].left
    BY <1>1 DEF Job
  <2>2. job' = [job EXCEPT ![m] = j]
    BY <1>1, <1>2
  <2>3. Works(m) /\ job'[m] = j
    <3> HIDE DEF j
    <3> QED
      BY <1>1, <1>2, <2>1, <2>2, GoesOnWorks
  <2>4. StartInv' /\ RunsOnce' /\ starts' \in [Msgs -> 0 .. 2]
    BY <1>1, <1>2, <2>1, <2>3, FirstTurn
  <2>5. BindsNothing(m) /\ AsksNothing(m) /\ job'[m].pc = "turn"
    BY <1>1, <1>2, <2>1, <2>3 DEF BindsNothing, AsksNothing, asking, store
  <2>6. TypeOK'
    BY <1>1, <1>2, <2>3, <2>4 DEF Works, asking, store, IInv, TypeOK
  <2> QED
    BY <1>1, <2>3, <2>4, <2>5, <2>6, WorkKeeps, AskKeeps, TakenKeeps, BindKeeps
       DEF IInv, asking
<1>3. CASE Fail(m, "missing", troubles) /\ UNCHANGED starts
  <2>1. CASE Recover(m, troubles)
    BY <1>1, <1>3, <2>1, RecoverKeeps DEF server
  <2>2. CASE Done(m) /\ UNCHANGED <<store, told>> /\ troubles' = troubles
    <3>1. Works(m) /\ job'[m].pc = "done" /\ job'[m].left = FALSE
      BY <1>1, <2>2, DoneWorks
    <3>2. StartsNothing(m) /\ BindsNothing(m) /\ AsksNothing(m)
      BY <1>1, <1>3, <2>2, <3>1 DEF store, asking,
         StartsNothing, BindsNothing, AsksNothing
    <3>3. troubles' \subseteq Troubles /\ cache' \in [Sessions -> SUBSET Threads]
      BY <1>1, <2>2 DEF IInv, TypeOK
    <3> QED
      BY <1>1, <3>1, <3>2, <3>3, QuietKeeps
  <2> QED
    BY <1>3, <2>1, <2>2 DEF Fail
<1> QED
  BY <1>2, <1>3 DEF StartTurn

\* The stream is dropped, and the trouble says so.
LEMMA DropStreamKeeps ==
  ASSUME IInv, NEW m \in Msgs, DropStream(m)
  PROVE  IInv'
<1> DEFINE j == [job[m] EXCEPT !.left = TRUE]
<1>1. job[m] \in Job /\ job \in [Msgs -> Job] /\ InTurn(m) /\ Who(m) \in Sessions
  BY Posted DEF DropStream, InTurn, IInv, TypeOK
<1>2. j \in Job /\ j.pc = job[m].pc /\ j.req = job[m].req
  BY <1>1 DEF Job
<1>3. job' = [job EXCEPT ![m] = j] /\ job'[m] = j
  BY <1>1 DEF DropStream
<1>4. busy' \in [Sessions -> [Lanes -> Msgs \cup {None}]]
  BY DEF DropStream, Leaves, IInv, TypeOK
<1>5. Works(m)
  <2> HIDE DEF j
  <2> QED
    BY <1>1, <1>2, <1>3, <1>4 DEF Works, DropStream, InTurn
<1>6. troubles' = troubles \cup {<<"left", Who(m)>>}
        /\ troubles' \subseteq Troubles
  BY <1>1 DEF DropStream, Trouble, Troubles, IInv, TypeOK
<1>7. StartsNothing(m) /\ AsksNothing(m) /\ job'[m].pc # "taken"
  BY <1>1, <1>2, <1>3, <1>6 DEF DropStream, StartsNothing, AsksNothing, InTurn,
                                server, asking
<1>8. BindingInv'
  <2>1. \A n \in Msgs : job'[n].left =>
          job'[n].pc # "unsent" /\ <<"left", Who(n)>>' \in troubles'
    BY <1>5, <1>6 DEF Works, Who, IInv, BindingInv
  <2>2. UNCHANGED <<binding, file, told>>
    BY DEF DropStream, store
  <2> QED
    BY <1>6, <2>1, <2>2 DEF IInv, BindingInv
<1>9. TypeOK'
  BY <1>5, <1>6 DEF DropStream, Works, store, server, asking, IInv, TypeOK
<1> QED
  BY <1>5, <1>7, <1>8, <1>9, WorkKeeps, StartKeeps, AskKeeps, TakenKeeps
     DEF IInv, AsksNothing

-----------------------------------------------------------------------------
(***************************************************************************)
(* Requests and responses.                                                 *)
(***************************************************************************)

LEMMA AskQuietly ==
  ASSUME IInv, NEW m \in Msgs, Ask(m), Done(m), UNCHANGED <<pending, request>>
  PROVE  IInv'
<1>1. job[m].pc = "turn"
  BY DEF Ask
<1>2. Works(m) /\ job'[m].pc = "done" /\ job'[m].left = FALSE
  BY <1>1, DoneWorks DEF Ask
<1>3. StartsNothing(m) /\ BindsNothing(m) /\ AsksNothing(m)
  BY <1>1, <1>2 DEF Ask, store, server, StartsNothing, BindsNothing, AsksNothing
<1>4. troubles' \subseteq Troubles /\ cache' \in [Sessions -> SUBSET Threads]
  BY DEF Ask, IInv, TypeOK
<1> QED
  BY <1>2, <1>3, <1>4, QuietKeeps DEF Ask, server

LEMMA AskKeepsIt ==
  ASSUME IInv, NEW m \in Msgs, Ask(m), NEW r \in Requests, NextRequest(r),
         NEW k \in Kinds, request' = [request EXCEPT ![r] = [by |-> m, kind |-> k]],
         pending' = pending \cup {r},
         job' = [job EXCEPT ![m].pc = "ask", ![m].req = r], UNCHANGED busy
  PROVE  IInv'
<1> DEFINE j == [job[m] EXCEPT !.pc = "ask", !.req = r]
<1>1. job[m] \in Job /\ job \in [Msgs -> Job] /\ job[m].pc = "turn"
        /\ request \in [Requests -> Request]
  BY DEF Ask, IInv, TypeOK
<1>2. j \in Job /\ j.pc = "ask" /\ j.req = r /\ j.left = job[m].left
  BY <1>1 DEF Job
<1>3. job' = [job EXCEPT ![m] = j]
  BY <1>1
<1>4. Works(m) /\ job'[m] = j
  <2> HIDE DEF j
  <2> QED
    BY <1>1, <1>2, <1>3, GoesOnWorks DEF Ask
<1>5. StartsNothing(m) /\ BindsNothing(m)
  BY <1>1, <1>2, <1>4 DEF Ask, store, server, StartsNothing, BindsNothing
<1>6. /\ request' \in [Requests -> Request] /\ request'[r].by = m
      /\ \A q \in Requests : q # r => request'[q] = request[q]
  BY <1>1 DEF Request
<1>7. request[r].by = None /\ r \notin pending /\ reply[r] = None
  BY DEF NextRequest, IInv, RequestInv
<1>8. UNCHANGED <<msg, reply, troubles, cwd, cache, live, used, ends>>
  BY DEF Ask, server
<1>9. TypeOK'
  BY <1>4, <1>5, <1>6, <1>8 DEF Works, StartsNothing, BindsNothing, IInv, TypeOK
<1>10. RequestInv'
  <2>1. \A n \in Msgs : job[n].pc # "unsent" => job'[n].pc # "unsent"
    BY <1>4 DEF Works
  <2>2. \A q \in Requests : request'[q].by # None => job'[request'[q].by].pc # "unsent"
    BY <1>2, <1>4, <1>6, <2>1 DEF IInv, TypeOK, Request, RequestInv
  <2>3. \A q \in Requests : reply[q] # None =>
          job'[reply[q]].pc # "unsent" /\ request'[q].by # None
    BY <1>6, <1>7, <2>1 DEF IInv, TypeOK, RequestInv
  <2>4. m # None => \A q \in pending' : request'[q].by # None
    BY <1>6 DEF IInv, TypeOK, RequestInv
  <2>5. m # None
    BY SessionAssumption
  <2> QED
    BY <1>8, <2>2, <2>3, <2>4, <2>5 DEF RequestInv
<1>11. TakenInv'
  <2> SUFFICES ASSUME NEW n \in Msgs, job'[n].pc = "taken"
               PROVE  /\ job'[n].req \in Requests
                      /\ request'[job'[n].req].by # None
                      /\ Owner(job[n].req)' = Who(n)'
                      /\ Says(n)'.arg \in {None, job'[n].req}
    BY DEF TakenInv
  <2>1. n # m /\ job'[n] = job[n]
    BY <1>2, <1>4 DEF Works
  <2>2. job[n].req # r /\ request'[job[n].req] = request[job[n].req]
    BY <1>6, <1>7, <2>1 DEF IInv, TakenInv
  <2> QED
    BY <1>8, <2>1, <2>2 DEF IInv, TakenInv, Owner, Who, Says
<1>12. ResponseReachesOwnTurn'
  <2>1. \A q \in Requests : reply[q] # None => request'[q] = request[q]
    BY <1>6, <1>7
  <2> QED
    BY <1>8, <2>1 DEF IInv, ResponseReachesOwnTurn, Owner, Who, Says
<1>13. PendingIsAwaited'
  <2> SUFFICES ASSUME NEW q \in pending'
               PROVE  Awaited(q)' \/ <<"stray", q>> \in troubles'
    BY DEF PendingIsAwaited
  <2>1. CASE q = r
    BY <1>2, <1>4, <1>6, <2>1, SessionAssumption DEF Awaited
  <2>2. CASE q # r
    <3>1. q \in pending /\ q \in Requests /\ request'[q] = request[q]
      BY <1>6, <2>2 DEF IInv, TypeOK
    <3>2. Awaited(q) => request[q].by \in Msgs /\ request[q].by # m
      BY <1>1, <3>1 DEF Awaited, IInv, TypeOK, Request
    <3>3. Awaited(q) => Awaited(q)'
      BY <1>4, <3>1, <3>2 DEF Awaited, Works
    <3> QED
      BY <1>8, <3>1, <3>3 DEF IInv, PendingIsAwaited
  <2> QED
    BY <2>1, <2>2
<1> QED
  BY <1>4, <1>5, <1>9, <1>10, <1>11, <1>12, <1>13, WorkKeeps, StartKeeps,
     BindKeeps DEF IInv

LEMMA AskKeepsInv ==
  ASSUME IInv, NEW m \in Msgs, Ask(m)
  PROVE  IInv'
BY AskQuietly, AskKeepsIt DEF Ask

LEMMA TakeRequestKeeps ==
  ASSUME IInv, NEW m \in Msgs, TakeRequest(m)
  PROVE  IInv'
<1>1. job[m].pc = "begin" /\ UNCHANGED <<msg, lane, request, reply, troubles>>
        /\ UNCHANGED <<binding, file, starts, told, cwd, cache, live, used, ends>>
        /\ job[m] \in Job /\ job \in [Msgs -> Job]
  BY DEF TakeRequest, Starting, store, server, IInv, TypeOK
<1>2. troubles' \subseteq Troubles /\ cache' \in [Sessions -> SUBSET Threads]
  BY <1>1 DEF IInv, TypeOK
<1>3. CASE Done(m) /\ UNCHANGED pending
  <2>1. Works(m) /\ job'[m].pc = "done" /\ job'[m].left = FALSE
    BY <1>1, <1>3, DoneWorks
  <2>2. StartsNothing(m) /\ BindsNothing(m) /\ AsksNothing(m)
    BY <1>1, <1>3, <2>1 DEF StartsNothing, BindsNothing, AsksNothing
  <2> QED
    BY <1>1, <1>2, <2>1, <2>2, QuietKeeps
<1>4. ASSUME NEW r \in Found(m), pending' = pending \ {r},
             job' = [job EXCEPT ![m].pc = "taken", ![m].req = r], UNCHANGED busy
      PROVE  IInv'
  <2> DEFINE j == [job[m] EXCEPT !.pc = "taken", !.req = r]
  <2>1. r \in pending /\ Owner(r) = Who(m) /\ Says(m).arg \in {None, r}
    BY DEF Found
  <2>2. r \in Requests /\ request[r].by # None
    BY <2>1 DEF IInv, TypeOK, RequestInv
  <2>3. j \in Job /\ j.pc = "taken" /\ j.req = r /\ j.left = job[m].left
    BY <1>1, <2>2 DEF Job
  <2>4. job' = [job EXCEPT ![m] = j]
    BY <1>1, <1>4
  <2>5. Works(m) /\ job'[m] = j
    <3> HIDE DEF j
    <3> QED
      BY <1>1, <1>4, <2>3, <2>4, GoesOnWorks
  <2>6. StartsNothing(m) /\ BindsNothing(m) /\ AsksNothing(m)
    BY <1>1, <1>4, <2>3, <2>5 DEF StartsNothing, BindsNothing, AsksNothing
  <2>7. TypeOK'
    BY <1>1, <1>2, <1>4, <2>5 DEF Works, IInv, TypeOK
  <2>8. TakenInv'
    BY <1>1, <2>1, <2>2, <2>3, <2>5, TakenKeeps
  <2> QED
    BY <2>5, <2>6, <2>7, <2>8, WorkKeeps, StartKeeps, AskKeeps, BindKeeps DEF IInv
<1> QED
  BY <1>3, <1>4 DEF TakeRequest

LEMMA RespondKeeps ==
  ASSUME IInv, NEW m \in Msgs, Respond(m)
  PROVE  IInv'
<1> DEFINE r == job[m].req
<1>1. /\ job[m].pc = "taken" /\ UNCHANGED <<msg, lane, request>>
      /\ UNCHANGED <<binding, file, starts, told, cwd, cache, live, used, ends>>
  BY DEF Respond, store, server
<1>2. Works(m) /\ job'[m].pc = "done" /\ job'[m].left = FALSE
  BY <1>1, DoneWorks DEF Respond
<1>3. /\ r \in Requests /\ request[r].by # None
      /\ Owner(r) = Who(m) /\ Says(m).arg \in {None, r}
  BY <1>1 DEF IInv, TakenInv
<1>4. /\ reply' = reply \/ (Fits(m) /\ reply' = [reply EXCEPT ![r] = m])
      /\ pending' = pending
           \/ /\ pending' = pending \cup {r}
              /\ Awaited(r) \/ <<"stray", r>> \in troubles'
      /\ troubles \subseteq troubles' /\ troubles' \subseteq troubles \cup {<<"stray", r>>}
  BY DEF Respond
<1>5. StartsNothing(m) /\ BindsNothing(m)
  BY <1>1, <1>2, <1>4 DEF StartsNothing, BindsNothing
<1>6. TypeOK'
  <2>1. pending' \subseteq Requests /\ reply' \in [Requests -> Msgs \cup {None}]
    BY <1>3, <1>4 DEF IInv, TypeOK
  <2>2. troubles \subseteq Troubles /\ <<"stray", r>> \in Troubles
    BY <1>3 DEF Troubles, IInv, TypeOK
  <2> QED
    BY <1>1, <1>2, <1>4, <2>1, <2>2 DEF Works, IInv, TypeOK
<1>7. TakenInv'
  BY <1>1, <1>2, TakenKeeps
<1>8. RequestInv'
  <2>1. \A n \in Msgs : job[n].pc # "unsent" => job'[n].pc # "unsent"
    BY <1>2 DEF Works
  <2>2. \A q \in Requests : request[q].by # None => job'[request[q].by].pc # "unsent"
    BY <2>1 DEF IInv, TypeOK, Request, RequestInv
  <2>3. \A q \in Requests : reply'[q] # None =>
          job'[reply'[q]].pc # "unsent" /\ request[q].by # None
    BY <1>2, <1>3, <1>4, <2>1, ZenonT(40) DEF IInv, TypeOK, RequestInv
  <2>4. \A q \in pending' : request[q].by # None
    BY <1>3, <1>4 DEF IInv, RequestInv
  <2> QED
    BY <1>1, <2>2, <2>3, <2>4 DEF RequestInv
<1>9. ResponseReachesOwnTurn'
  BY <1>1, <1>3, <1>4
     DEF IInv, TypeOK, ResponseReachesOwnTurn, Fits, Owner, Who, Says
<1>10. PendingIsAwaited'
  <2>1. ASSUME NEW q \in Requests, Awaited(q)
        PROVE  Awaited(q)'
    BY <1>1, <1>2, <2>1 DEF Awaited, Works, IInv, TypeOK, Request
  <2> QED
    BY <1>3, <1>4, <1>6, <2>1 DEF IInv, TypeOK, PendingIsAwaited
<1> QED
  BY <1>2, <1>5, <1>6, <1>7, <1>8, <1>9, <1>10, WorkKeeps, StartKeeps, BindKeeps
     DEF IInv

-----------------------------------------------------------------------------
(***************************************************************************)
(* The queue.                                                              *)
(***************************************************************************)

\* m comes nearer to its consumer, and nothing else happens but to the queue.
Arrives(m, pc) ==
  /\ job[m].pc \in {"unsent", "posting", "queued"}
  /\ pc \in {"posting", "queued", "begin"} /\ job' = [job EXCEPT ![m].pc = pc]
  /\ msg' \in [Msgs -> Message \cup {None}] /\ msg'[m] # None
  /\ \A n \in Msgs : job[n].pc # "unsent" => msg'[n] = msg[n]
  /\ UNCHANGED <<cwd, store, cache, server, asking, told, troubles, ends>>

LEMMA ArriveKeeps ==
  ASSUME IInv, NEW m \in Msgs, NEW pc, Arrives(m, pc)
  PROVE  /\ MsgInv' /\ StartInv' /\ RunsOnce' /\ RequestInv' /\ TakenInv'
         /\ ResponseReachesOwnTurn' /\ PendingIsAwaited' /\ BindingInv'
         /\ job' \in [Msgs -> Job] /\ job'[m].pc = pc
         /\ \A n \in Msgs : n # m => job'[n] = job[n]
<1> DEFINE j == [job[m] EXCEPT !.pc = pc]
<1>1. job \in [Msgs -> Job] /\ j \in Job /\ j.pc = pc /\ j.left = job[m].left
  BY DEF Arrives, Job, IInv, TypeOK
<1>2. job' = [job EXCEPT ![m] = j]
  BY <1>1 DEF Arrives
<1> HIDE DEF j
<1>3. /\ job' \in [Msgs -> Job] /\ job'[m] = j
      /\ \A n \in Msgs : n # m => job'[n] = job[n]
  BY <1>1, <1>2
<1>4. UNCHANGED <<binding, file, starts, request, reply, pending, told, troubles>>
  BY DEF Arrives, store, server, asking
<1>5. pc \in {"posting", "queued", "begin"}
        /\ job[m].pc \in {"unsent", "posting", "queued"}
  BY DEF Arrives
<1>6. \A n \in Msgs : job[n].pc # "unsent" =>
        job'[n].pc # "unsent" /\ Who(n)' = Who(n) /\ Says(n)' = Says(n)
  BY <1>1, <1>3, <1>5 DEF Arrives, Who, Says
<1>7. MsgInv' /\ StartInv' /\ RunsOnce'
  BY <1>1, <1>3, <1>4, <1>5 DEF Arrives, IInv, MsgInv, StartInv, RunsOnce
<1>8. \A r \in Requests : request[r].by # None =>
        request[r].by \in Msgs /\ Owner(r)' = Owner(r)
  BY <1>4, <1>6 DEF IInv, TypeOK, Request, RequestInv, Owner, Who
<1>9. RequestInv'
  BY <1>4, <1>6, <1>8 DEF IInv, TypeOK, RequestInv
<1>10. TakenInv'
  <2> SUFFICES ASSUME NEW n \in Msgs, job'[n].pc = "taken"
               PROVE  /\ job'[n].req \in Requests
                      /\ request'[job'[n].req].by # None
                      /\ Owner(job[n].req)' = Who(n)'
                      /\ Says(n)'.arg \in {None, job'[n].req}
                      /\ job'[n].req = job[n].req
    BY DEF TakenInv, Owner
  <2>1. job'[n] = job[n]
    BY <1>1, <1>3, <1>5
  <2> QED
    BY <1>4, <1>6, <1>8, <2>1 DEF IInv, TakenInv
<1>11. ResponseReachesOwnTurn'
  <2> SUFFICES ASSUME NEW r \in Requests, reply[r] # None
               PROVE  /\ Who(reply[r])' = Owner(r)'
                      /\ Says(reply[r])'.cmd = "answer" => request[r].kind = "input"
                      /\ Says(reply[r])'.arg \in {None, r}
    BY <1>4 DEF ResponseReachesOwnTurn, Who, Says
  <2>1. reply[r] \in Msgs /\ job[reply[r]].pc # "unsent" /\ request[r].by # None
    BY DEF IInv, TypeOK, RequestInv
  <2>2. /\ Who(reply[r]) = Owner(r)
        /\ Says(reply[r]).cmd = "answer" => request[r].kind = "input"
        /\ Says(reply[r]).arg \in {None, r}
    BY DEF IInv, ResponseReachesOwnTurn
  <2>3. Who(reply[r])' = Who(reply[r]) /\ Says(reply[r])' = Says(reply[r])
    BY <1>4, <2>1 DEF Arrives, Who, Says
  <2> QED
    BY <1>8, <2>1, <2>2, <2>3
<1>12. PendingIsAwaited'
  <2>1. ASSUME NEW r \in Requests, Awaited(r)
        PROVE  Awaited(r)'
    BY <1>3, <1>4, <1>5, <1>8, <2>1 DEF Awaited
  <2> QED
    BY <1>4, <2>1 DEF IInv, TypeOK, PendingIsAwaited
<1>13. BindingInv'
  <2>1. \A n \in Msgs : job'[n].left =>
          job'[n].pc # "unsent" /\ <<"left", Who(n)>>' \in troubles'
    BY <1>1, <1>3, <1>4, <1>6 DEF IInv, BindingInv
  <2> QED
    BY <1>4, <2>1 DEF IInv, BindingInv
<1> QED
  BY <1>1, <1>3, <1>7, <1>9, <1>10, <1>11, <1>12, <1>13

LEMMA PostKeeps ==
  ASSUME IInv, NEW m \in Msgs, Post(m)
  PROVE  IInv'
<1>1. PICK s \in Sessions :
        \E c \in Menu[s] : msg' = [msg EXCEPT ![m] = [s |-> s, c |-> c]]
  BY DEF Post
<1>2. PICK x \in Message : msg' = [msg EXCEPT ![m] = x]
  BY <1>1, SessionAssumption DEF Message
<1>3. /\ msg' \in [Msgs -> Message \cup {None}] /\ msg'[m] = x
      /\ \A n \in Msgs : n # m => msg'[n] = msg[n]
  BY <1>2 DEF IInv, TypeOK
<1>4. msg'[m] # None
  BY <1>3, SessionAssumption
<1>5. Arrives(m, "posting") /\ lane' = lane /\ busy' = busy
  BY <1>3, <1>4 DEF Post, Arrives
<1>6. /\ MsgInv' /\ StartInv' /\ RunsOnce' /\ RequestInv' /\ TakenInv'
      /\ ResponseReachesOwnTurn' /\ PendingIsAwaited' /\ BindingInv'
      /\ job' \in [Msgs -> Job]
      /\ \A n \in Msgs : n # m => job'[n] = job[n]
  BY <1>5, ArriveKeeps
<1>7. TypeOK'
  BY <1>5, <1>6 DEF Arrives, store, server, asking, IInv, TypeOK
<1>8. LaneInv'
  <2>1. ASSUME NEW s1 \in Sessions, NEW p \in Lanes, NEW i \in 1 .. Len(lane[s1][p])
        PROVE  /\ job'[lane[s1][p][i]].pc = "queued"
               /\ Who(lane[s1][p][i])' = s1 /\ PriorityOf(Says(lane[s1][p][i]))' = p
    <3>1. lane[s1][p][i] \in Msgs /\ job[lane[s1][p][i]].pc = "queued"
      BY DEF IInv, TypeOK, LaneInv
    <3>2. lane[s1][p][i] # m
      BY <3>1 DEF Post
    <3> QED
      BY <1>3, <1>5, <1>6, <3>1, <3>2 DEF IInv, LaneInv, Who, Says, PriorityOf
  <2>2. \A s1 \in Sessions, p \in Lanes : \A i, j \in 1 .. Len(lane[s1][p]) :
          lane[s1][p][i] = lane[s1][p][j] => i = j
    BY DEF IInv, LaneInv
  <2> QED
    BY <1>5, <2>1, <2>2 DEF LaneInv
<1> QED
  BY <1>6, <1>7, <1>8 DEF IInv

LEMMA EnqueueKeeps ==
  ASSUME IInv, NEW m \in Msgs, Enqueue(m)
  PROVE  IInv'
<1> DEFINE s == Who(m)
           p == PriorityOf(Says(m))
           q == lane[s][p]
<1>1. /\ job[m].pc = "posting" /\ s \in Sessions /\ p \in Lanes
      /\ msg' = msg /\ busy' = busy
      /\ lane \in [Sessions -> [Lanes -> Seq(Msgs)]]
  BY Posted DEF Enqueue, PriorityOf, Lanes, IInv, TypeOK
<1>2. Arrives(m, "queued")
  BY <1>1 DEF Enqueue, Arrives, IInv, TypeOK, MsgInv
<1>3. /\ MsgInv' /\ StartInv' /\ RunsOnce' /\ RequestInv' /\ TakenInv'
      /\ ResponseReachesOwnTurn' /\ PendingIsAwaited' /\ BindingInv'
      /\ job' \in [Msgs -> Job] /\ job'[m].pc = "queued"
      /\ \A n \in Msgs : n # m => job'[n] = job[n]
  BY <1>2, ArriveKeeps
<1>4. /\ Len(q) < Capacity /\ q \in Seq(Msgs)
      /\ lane' = [lane EXCEPT ![s][p] = Append(q, m)]
  BY <1>1 DEF Enqueue
<1>5. /\ lane' \in [Sessions -> [Lanes -> Seq(Msgs)]]
      /\ lane'[s][p] = Append(q, m)
      /\ \A s1 \in Sessions, p1 \in Lanes :
           s1 # s \/ p1 # p => lane'[s1][p1] = lane[s1][p1]
  BY <1>1, <1>4
<1>6. /\ Append(q, m) \in Seq(Msgs) /\ Len(Append(q, m)) = Len(q) + 1
      /\ \A i \in 1 .. Len(q) : Append(q, m)[i] = q[i]
      /\ Append(q, m)[Len(q) + 1] = m
      /\ Len(q) \in Nat
  BY <1>4
<1>7. TypeOK'
  <2>1. \A s1 \in Sessions, p1 \in Lanes : Len(lane'[s1][p1]) <= Capacity
    BY <1>4, <1>5, <1>6, SessionAssumption DEF IInv, TypeOK
  <2> QED
    BY <1>1, <1>3, <1>5, <2>1 DEF Enqueue, store, server, asking, IInv, TypeOK
<1>8. \A s1 \in Sessions, p1 \in Lanes : \A i \in 1 .. Len(lane[s1][p1]) :
        /\ lane[s1][p1][i] # m /\ job'[lane[s1][p1][i]].pc = "queued"
        /\ Who(lane[s1][p1][i]) = s1 /\ PriorityOf(Says(lane[s1][p1][i])) = p1
  BY <1>1, <1>3 DEF IInv, TypeOK, LaneInv
<1>9. LaneInv'
  <2> SUFFICES ASSUME NEW s1 \in Sessions, NEW p1 \in Lanes
               PROVE  /\ \A i \in 1 .. Len(lane'[s1][p1]) :
                           /\ job'[lane'[s1][p1][i]].pc = "queued"
                           /\ Who(lane'[s1][p1][i]) = s1
                           /\ PriorityOf(Says(lane'[s1][p1][i])) = p1
                      /\ \A i, j \in 1 .. Len(lane'[s1][p1]) :
                           lane'[s1][p1][i] = lane'[s1][p1][j] => i = j
    BY <1>1 DEF LaneInv, Who, Says
  <2>1. CASE s1 # s \/ p1 # p
    <3>1. lane'[s1][p1] = lane[s1][p1]
      BY <1>5, <2>1
    <3>2. \A i, j \in 1 .. Len(lane[s1][p1]) :
            lane[s1][p1][i] = lane[s1][p1][j] => i = j
      BY DEF IInv, LaneInv
    <3> QED
      BY <1>8, <3>1, <3>2
  <2>2. CASE s1 = s /\ p1 = p
    <3>1. \A i \in 1 .. Len(q) :
            /\ q[i] # m /\ job'[q[i]].pc = "queued"
            /\ Who(q[i]) = s /\ PriorityOf(Says(q[i])) = p
      BY <1>1, <1>8
    <3>2. \A i, j \in 1 .. Len(q) : q[i] = q[j] => i = j
      BY <1>1 DEF IInv, LaneInv
    <3>3. Who(m) = s /\ PriorityOf(Says(m)) = p
      OBVIOUS
    <3>4. lane'[s1][p1] = Append(q, m)
      BY <1>5, <2>2
    <3> HIDE DEF s, p, q
    <3> QED
      BY <1>3, <1>6, <2>2, <3>1, <3>2, <3>3, <3>4
  <2> QED
    BY <2>1, <2>2
<1> QED
  BY <1>3, <1>7, <1>9 DEF IInv

LEMMA DequeueKeeps ==
  ASSUME IInv, NEW s \in Sessions, NEW p \in Lanes, Dequeue(s, p)
  PROVE  IInv'
<1> DEFINE q == lane[s][p]
           m == Head(q)
<1>1. /\ q \in Seq(Msgs) /\ q # <<>> /\ m = q[1] /\ m \in Msgs
      /\ 1 \in 1 .. Len(q)
      /\ Tail(q) \in Seq(Msgs) /\ Len(Tail(q)) = Len(q) - 1
      /\ \A i \in 1 .. Len(Tail(q)) :
           Tail(q)[i] = q[i + 1] /\ i + 1 \in 1 .. Len(q)
  BY DEF Dequeue, IInv, TypeOK
<1>2. /\ job[m].pc = "queued" /\ Who(m) = s /\ PriorityOf(Says(m)) = p
      /\ msg' = msg /\ lane \in [Sessions -> [Lanes -> Seq(Msgs)]]
  <2>1. job[q[1]].pc = "queued" /\ Who(q[1]) = s /\ PriorityOf(Says(q[1])) = p
    BY <1>1 DEF IInv, LaneInv
  <2> QED
    BY <1>1, <2>1 DEF Dequeue, IInv, TypeOK
<1>3. Arrives(m, "begin")
  BY <1>1, <1>2 DEF Dequeue, Arrives, IInv, TypeOK, MsgInv
<1>4. /\ MsgInv' /\ StartInv' /\ RunsOnce' /\ RequestInv' /\ TakenInv'
      /\ ResponseReachesOwnTurn' /\ PendingIsAwaited' /\ BindingInv'
      /\ job' \in [Msgs -> Job] /\ job'[m].pc = "begin"
      /\ \A n \in Msgs : n # m => job'[n] = job[n]
  BY <1>1, <1>3, ArriveKeeps
<1>5. /\ lane' \in [Sessions -> [Lanes -> Seq(Msgs)]]
      /\ lane'[s][p] = Tail(q)
      /\ \A s1 \in Sessions, p1 \in Lanes :
           s1 # s \/ p1 # p => lane'[s1][p1] = lane[s1][p1]
  BY <1>1, <1>2 DEF Dequeue
<1>6. TypeOK'
  <2>1. \A s1 \in Sessions, p1 \in Lanes : Len(lane'[s1][p1]) <= Capacity
    <3>1. \A s1 \in Sessions, p1 \in Lanes : Len(lane[s1][p1]) <= Capacity
      BY DEF IInv, TypeOK
    <3>2. Len(q) \in Nat /\ Capacity \in Nat
      BY <1>1, SessionAssumption
    <3>3. Len(Tail(q)) <= Capacity
      BY <1>1, <3>1, <3>2
    <3> HIDE DEF q
    <3> QED
      BY <1>5, <3>1, <3>3
  <2>2. busy' \in [Sessions -> [Lanes -> Msgs \cup {None}]]
    BY <1>1 DEF Dequeue, IInv, TypeOK
  <2> QED
    BY <1>2, <1>4, <1>5, <2>1, <2>2
       DEF Dequeue, store, server, asking, IInv, TypeOK
<1>7. LaneInv'
  <2> SUFFICES ASSUME NEW s1 \in Sessions, NEW p1 \in Lanes
               PROVE  /\ \A i \in 1 .. Len(lane'[s1][p1]) :
                           /\ job'[lane'[s1][p1][i]].pc = "queued"
                           /\ Who(lane'[s1][p1][i]) = s1
                           /\ PriorityOf(Says(lane'[s1][p1][i])) = p1
                      /\ \A i, j \in 1 .. Len(lane'[s1][p1]) :
                           lane'[s1][p1][i] = lane'[s1][p1][j] => i = j
    BY <1>2 DEF LaneInv, Who, Says
  <2>1. CASE s1 # s \/ p1 # p
    <3>1. \A i \in 1 .. Len(lane[s1][p1]) :
            /\ lane[s1][p1][i] \in Msgs /\ job[lane[s1][p1][i]].pc = "queued"
            /\ Who(lane[s1][p1][i]) = s1 /\ PriorityOf(Says(lane[s1][p1][i])) = p1
      BY DEF IInv, TypeOK, LaneInv
    <3>2. \A i \in 1 .. Len(lane[s1][p1]) : lane[s1][p1][i] # m
      BY <1>2, <2>1, <3>1
    <3>3. lane'[s1][p1] = lane[s1][p1]
      BY <1>5, <2>1
    <3>4. \A i, j \in 1 .. Len(lane[s1][p1]) :
            lane[s1][p1][i] = lane[s1][p1][j] => i = j
      BY DEF IInv, LaneInv
    <3> HIDE DEF m
    <3> QED
      BY <1>4, <3>1, <3>2, <3>3, <3>4
  <2>2. CASE s1 = s /\ p1 = p
    <3>1. \A i \in 1 .. Len(q) :
            /\ q[i] \in Msgs /\ job[q[i]].pc = "queued"
            /\ Who(q[i]) = s /\ PriorityOf(Says(q[i])) = p
      BY <1>1 DEF IInv, LaneInv
    <3>2. \A i, j \in 1 .. Len(q) : q[i] = q[j] => i = j
      BY DEF IInv, LaneInv
    <3>3. lane'[s1][p1] = Tail(q) /\ Len(q) \in Nat
      BY <1>1, <1>5, <2>2
    <3>4. \A i \in 1 .. Len(Tail(q)) : Tail(q)[i] # m
      BY <1>1, <3>2, <3>3
    <3> HIDE DEF q, m
    <3> QED
      BY <1>1, <1>4, <2>2, <3>1, <3>2, <3>3, <3>4
  <2> QED
    BY <2>1, <2>2
<1> QED
  BY <1>4, <1>6, <1>7 DEF IInv

-----------------------------------------------------------------------------
(***************************************************************************)
(* The server and the process.                                             *)
(***************************************************************************)

LEMMA LoseThreadKeeps ==
  ASSUME IInv, NEW t \in Threads, LoseThread(t)
  PROVE  IInv'
<1>1. /\ UNCHANGED <<cwd, msg, job, lane, busy, binding, file, cache, used>>
      /\ UNCHANGED <<starts, pending, request, reply, told, troubles, ends>>
      /\ live' \subseteq live
  BY DEF LoseThread, store, asking
<1>2. TypeOK'
  BY <1>1 DEF IInv, TypeOK
<1>3. MsgInv' /\ StartInv' /\ RunsOnce' /\ RequestInv'
  BY <1>1 DEF IInv, MsgInv, StartInv, RunsOnce, RequestInv
<1>4. LaneInv'
  BY <1>1 DEF IInv, LaneInv, Who, Says
<1>5. TakenInv' /\ ResponseReachesOwnTurn'
  BY <1>1 DEF IInv, TakenInv, ResponseReachesOwnTurn, Owner, Who, Says
<1>6. PendingIsAwaited' /\ BindingInv'
  BY <1>1 DEF IInv, PendingIsAwaited, Awaited, BindingInv, Who
<1> QED
  BY <1>2, <1>3, <1>4, <1>5, <1>6 DEF IInv

LEMMA RestartKeeps ==
  ASSUME IInv, Restart
  PROVE  IInv'
<1>1. /\ UNCHANGED <<cwd, msg, live, used, starts, request, reply, told>>
      /\ pending' = {} /\ binding' = file' /\ troubles \subseteq troubles'
      /\ lane' = [s \in Sessions |-> [p \in Lanes |-> <<>>]]
  BY DEF Restart, server
<1>2. /\ job' \in [Msgs -> Job]
      /\ \A m \in Msgs : /\ job'[m] = job[m] \/ job'[m].pc = "lost"
                         /\ job'[m].pc \in {"unsent", "done", "lost"}
                         /\ job'[m].pc = "unsent" <=> job[m].pc = "unsent"
                         /\ job'[m].left => job'[m] = job[m]
  <2>1. At("lost") \in Job /\ At("lost").pc = "lost" /\ At("lost").left = FALSE
    BY DEF At, Job
  <2> QED
    BY <2>1 DEF Restart, IInv, TypeOK
<1>3. \/ file' = file /\ troubles' = troubles
      \/ /\ file' = [s \in Sessions |-> Unbound]
         /\ troubles' = troubles \cup {<<"torn", None>>}
  BY DEF Restart
<1>4. TypeOK'
  <2>1. /\ busy' \in [Sessions -> [Lanes -> Msgs \cup {None}]]
        /\ cache' \in [Sessions -> SUBSET Threads] /\ ends' \in 0 .. MaxEnds
        /\ lane' \in [Sessions -> [Lanes -> Seq(Msgs)]]
    BY <1>1, SessionAssumption DEF Restart, IInv, TypeOK
  <2>2. \A s \in Sessions, p \in Lanes : Len(lane'[s][p]) <= Capacity
    BY <1>1, SessionAssumption
  <2>3. file' \in [Sessions -> Binding]
    <3>1. Unbound \in Binding /\ file \in [Sessions -> Binding]
      BY DEF Unbound, Binding, IInv, TypeOK
    <3> QED
      BY <1>3, <3>1
  <2>4. troubles' \subseteq Troubles
    <3>1. troubles \subseteq Troubles /\ <<"torn", None>> \in Troubles
      BY DEF Troubles, IInv, TypeOK
    <3> QED
      BY <1>3, <3>1
  <2> QED
    BY <1>1, <1>2, <2>1, <2>2, <2>3, <2>4 DEF IInv, TypeOK
<1>5. MsgInv' /\ StartInv' /\ RunsOnce'
  <2>1. MsgInv'
    BY <1>1, <1>2 DEF IInv, MsgInv
  <2>2. \A m \in Msgs : job'[m].pc = "unsent" => starts[m] = 0
    BY <1>2 DEF IInv, StartInv
  <2>3. \A m \in Msgs :
          job'[m].pc \in {"unsent", "posting", "queued", "begin", "resume",
                          "create"} => job'[m].pc = "unsent"
    BY <1>2
  <2> QED
    BY <1>1, <2>1, <2>2, <2>3 DEF IInv, StartInv, RunsOnce
<1>6. LaneInv'
  BY <1>1 DEF LaneInv
<1>7. RequestInv' /\ TakenInv' /\ PendingIsAwaited'
  <2>1. \A m \in Msgs : job[m].pc # "unsent" => job'[m].pc # "unsent"
    BY <1>2
  <2> QED
    BY <1>1, <1>2, <2>1 DEF IInv, TypeOK, Request, RequestInv, TakenInv,
                            PendingIsAwaited
<1>8. ResponseReachesOwnTurn'
  BY <1>1 DEF IInv, ResponseReachesOwnTurn, Owner, Who, Says
<1>9. BindingInv'
  <2>1. \A m \in Msgs : job'[m].left =>
          job'[m].pc # "unsent" /\ <<"left", Who(m)>>' \in troubles'
    BY <1>1, <1>2 DEF IInv, BindingInv, Who
  <2>2. \A s \in Sessions :
          \/ binding'[s].thread = told'[s]
          \/ \E k \in {"left", "unsaved"} : <<k, s>> \in troubles'
          \/ <<"torn", None>> \in troubles'
    BY <1>1, <1>3 DEF IInv, BindingInv
  <2> QED
    BY <1>1, <2>1, <2>2 DEF BindingInv
<1> QED
  BY <1>4, <1>5, <1>6, <1>7, <1>8, <1>9 DEF IInv

-----------------------------------------------------------------------------
(***************************************************************************)
(* The invariant holds, and with it the properties of CodexSession.        *)
(***************************************************************************)

LEMMA StutterKeeps ==
  ASSUME IInv, UNCHANGED vars
  PROVE  IInv'
<1>1. /\ UNCHANGED <<cwd, msg, job, lane, busy, binding, file, cache, live, used>>
      /\ UNCHANGED <<starts, pending, request, reply, told, troubles, ends>>
  BY DEF vars, store, server, asking
<1>2. TypeOK' /\ MsgInv' /\ StartInv' /\ RunsOnce' /\ RequestInv'
  BY <1>1 DEF IInv, TypeOK, MsgInv, StartInv, RunsOnce, RequestInv
<1>3. LaneInv'
  BY <1>1 DEF IInv, LaneInv, Who, Says
<1>4. TakenInv' /\ ResponseReachesOwnTurn'
  BY <1>1 DEF IInv, TakenInv, ResponseReachesOwnTurn, Owner, Who, Says
<1>5. PendingIsAwaited' /\ BindingInv'
  BY <1>1 DEF IInv, PendingIsAwaited, Awaited, BindingInv, Who
<1> QED
  BY <1>2, <1>3, <1>4, <1>5 DEF IInv

LEMMA HandleKeeps ==
  ASSUME IInv, NEW m \in Msgs, Handle(m)
  PROVE  IInv'
BY EnqueueKeeps, NewKeeps, ListThreadsKeeps, ResumeToBindKeeps,
   BeginPromptKeeps, StartTurnKeeps, CreateThreadKeeps, SaveBindingKeeps,
   GoOnKeeps, TakeRequestKeeps, RespondKeeps DEF Handle

LEMMA NextKeeps == IInv /\ [Next]_vars => IInv'
BY PostKeeps, HandleKeeps, AskKeepsInv, EndTurnKeeps, DeadlineKeeps,
   FailCallKeeps, DropStreamKeeps, DequeueKeeps, RestartKeeps, LoseThreadKeeps,
   StutterKeeps DEF Next

LEMMA InitKeeps == Init => IInv
<1> SUFFICES ASSUME Init PROVE IInv
  OBVIOUS
<1>1. TypeOK
  <2>1. /\ job \in [Msgs -> Job] /\ binding \in [Sessions -> Binding]
        /\ file \in [Sessions -> Binding] /\ request \in [Requests -> Request]
    BY DEF Init, At, Job, Unbound, Binding, NoRequest, Request, Kinds
  <2>2. /\ lane \in [Sessions -> [Lanes -> Seq(Msgs)]]
        /\ \A s \in Sessions, p \in Lanes : Len(lane[s][p]) <= Capacity
    BY SessionAssumption DEF Init
  <2>3. live \subseteq used /\ used \subseteq Threads
    BY SessionAssumption DEF Init
  <2>4. troubles \subseteq Troubles /\ ends \in 0 .. MaxEnds
    BY SessionAssumption DEF Init
  <2> QED
    BY <2>1, <2>2, <2>3, <2>4 DEF Init, TypeOK
<1>2. LaneInv
  BY DEF Init, LaneInv
<1>3. MsgInv /\ StartInv /\ RunsOnce /\ RequestInv /\ TakenInv
  BY DEF Init, At, MsgInv, StartInv, RunsOnce, RequestInv, TakenInv, NoRequest
<1>4. ResponseReachesOwnTurn /\ PendingIsAwaited /\ BindingInv
  BY DEF Init, At, Unbound, ResponseReachesOwnTurn, PendingIsAwaited, BindingInv
<1> QED
  BY <1>1, <1>2, <1>3, <1>4 DEF IInv

LEMMA Inductive == Spec => []IInv
BY InitKeeps, NextKeeps, PTL DEF Spec

\* The state of the queue and of the Codex backend keeps its types: no lane
\* holds more than its channel, and no thread is used that was not given out.
THEOREM TypeCorrect == Spec => []TypeOK
<1>1. IInv => TypeOK
  BY DEF IInv
<1> QED
  BY <1>1, Inductive, PTL

\* take_for_session and cmd_pending_response: a response reaches only a turn of
\* its own session, and only a request it fits.
THEOREM ResponsesReachTheirTurn == Spec => []ResponseReachesOwnTurn
<1>1. IInv => ResponseReachesOwnTurn
  BY DEF IInv
<1> QED
  BY <1>1, Inductive, PTL

\* PendingRequestCleanup: whatever ends a turn, no request is pending that
\* nobody waits for, those apart that were put back too late.
THEOREM RequestsAreAwaited == Spec => []PendingIsAwaited
<1>1. IInv => PendingIsAwaited
  BY DEF IInv
<1> QED
  BY <1>1, Inductive, PTL

\* run_prompt_with_binding: a prompt starts one turn at most, on the thread of
\* the binding or on a new one.
THEOREM PromptsRunOnce == Spec => []RunsOnce
<1>1. IInv => RunsOnce
  BY DEF IInv
<1> QED
  BY <1>1, Inductive, PTL

\* BindingStore: between two messages a session is bound as it was last told,
\* whatever its other messages, its lost threads and the restarts do.
THEOREM BindingsAreAsTold == Spec => []BindingAsTold
<1>1. IInv => BindingAsTold
  BY DEF IInv, BindingInv, BindingAsTold
<1> QED
  BY <1>1, Inductive, PTL
=============================================================================
