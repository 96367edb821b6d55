---------------------------- MODULE CodexSession ----------------------------
(***************************************************************************)
(* Chats that drive Codex threads: the queue between a channel and the     *)
(* agent, and the Codex app-server backend behind it.                      *)
(*                                                                         *)
(* A chat session has two lanes with one consumer each.  In the ordinary   *)
(* lane a prompt runs as a turn of the Codex thread the session is bound   *)
(* to, for as long as max_run_secs; when the turn asks for an approval or  *)
(* an answer, its request is pending until a command in the other lane     *)
(* responds to it.  The commands that change the binding wait in the       *)
(* ordinary lane.  A step is what a task does between two locks, awaits or *)
(* files; the server is external and may do what a server may do.          *)
(*                                                                         *)
(* How a turn's events become messages is in ReplyStream.                  *)
(***************************************************************************)
EXTENDS Integers, Sequences, FiniteSets

CONSTANTS
  Sessions,     \* chat sessions
  Msgs,         \* messages, 1 .. n in the order they are posted
  Menu,         \* what a session may send
  Threads,      \* thread ids of the app-server
  Others,       \* the threads that it has for other clients
  Requests,     \* ids of its requests, 1 .. n in the order they are made
  Capacity,     \* of a lane
  MaxTroubles,  \* bound on the calls that fail, the writes that fail, the
                \* streams dropped and the files lost
  MaxEnds,      \* bound on the ends of the gateway
  None

Lanes == {"ordinary", "response"}

\* A prompt, a command that lists or (un)binds threads, or a response: "allow"
\* is /approve or /deny, which every request accepts, "answer" is /answer.
Command ==
  [cmd : {"prompt", "new", "threads"}, arg : {None}]
    \cup [cmd : {"bind", "pick"}, arg : Threads]
    \cup [cmd : {"allow", "answer"}, arg : Requests \cup {None}]
Message == [s : Sessions, c : Command]

ASSUME SessionAssumption ==
  /\ IsFiniteSet(Msgs) /\ Msgs = 1 .. Cardinality(Msgs)
  /\ IsFiniteSet(Requests) /\ Requests = 1 .. Cardinality(Requests)
  /\ Menu \in [Sessions -> SUBSET Command] /\ Others \subseteq Threads
  /\ None \notin Threads \cup Requests \cup Msgs \cup Sessions \cup Message
  /\ Capacity \in Nat \ {0} /\ MaxTroubles \in Nat /\ MaxEnds \in Nat

VARIABLES
  cwd,       \* is there a default_cwd: the configuration
  msg,       \* by message: whose it is and what it says
  job,       \* by message: how far its handling is
  lane,      \* the messages in the channel of each lane
  busy,      \* the message the consumer of each lane is handling
  binding,   \* BindingStore in memory
  file,      \* and its file
  cache,     \* thread_list_cache: what /threads showed last
  live,      \* the threads the server has
  used,      \* the thread ids it has given out
  pending,   \* PendingServerRequests
  request,   \* by request: the message whose turn asked, and what for
  reply,     \* by request: the response in the channel of its turn
  told,      \* the binding that each session was last told of
  starts,    \* the turns the server has started, by message
  troubles, ends

store == <<binding, file>>
server == <<live, used, starts>>
asking == <<pending, request, reply>>
vars == <<cwd, msg, job, lane, busy, store, cache, server, asking, told,
          troubles, ends>>

-----------------------------------------------------------------------------

Binding == [thread : Threads \cup {None}, cwd : BOOLEAN]
Unbound == [thread |-> None, cwd |-> FALSE]

\* "left": the stream of the prompt was dropped, its worker goes on.
Job == [pc : {"unsent", "posting", "queued", "begin", "resume", "create",
              "turn", "ask", "save", "taken", "done", "lost"},
        thread : Threads \cup {None}, cwd : BOOLEAN, fresh : BOOLEAN,
        left : BOOLEAN, req : Requests \cup {None}]
At(pc) == [pc |-> pc, thread |-> None, cwd |-> FALSE, fresh |-> FALSE,
           left |-> FALSE, req |-> None]

\* What a turn can ask for; a request the gateway does not know is skipped.
Kinds == {"approval", "input"}
NoRequest == [by |-> None, kind |-> "approval"]
Request == [by : Msgs \cup {None}, kind : Kinds]

\* "left", "unsaved", "torn" are of a session: a worker went on alone, a write
\* failed, the file was lost half written.  "stray": a request was put back
\* after its turn had gone.
Troubles == ({"left", "unsaved"} \X Sessions) \cup ({"stray"} \X Requests)
              \cup ({"call"} \X Msgs) \cup ({"torn"} \X {None})

TypeOK ==
  /\ cwd \in BOOLEAN
  /\ msg \in [Msgs -> Message \cup {None}]
  /\ job \in [Msgs -> Job]
  /\ lane \in [Sessions -> [Lanes -> Seq(Msgs)]]
  /\ \A s \in Sessions, p \in Lanes : Len(lane[s][p]) <= Capacity
  /\ busy \in [Sessions -> [Lanes -> Msgs \cup {None}]]
  /\ binding \in [Sessions -> Binding] /\ file \in [Sessions -> Binding]
  /\ cache \in [Sessions -> SUBSET Threads]
  /\ live \subseteq used /\ used \subseteq Threads
  /\ pending \subseteq Requests
  /\ request \in [Requests -> Request]
  /\ reply \in [Requests -> Msgs \cup {None}]
  /\ told \in [Sessions -> Threads \cup {None}]
  /\ starts \in [Msgs -> 0 .. 2]
  /\ troubles \subseteq Troubles /\ ends \in 0 .. MaxEnds

Init ==
  /\ cwd \in BOOLEAN
  /\ msg = [m \in Msgs |-> None]
  /\ job = [m \in Msgs |-> At("unsent")]
  /\ lane = [s \in Sessions |-> [p \in Lanes |-> <<>>]]
  /\ busy = [s \in Sessions |-> [p \in Lanes |-> None]]
  /\ binding = [s \in Sessions |-> Unbound] /\ file = binding
  /\ cache = [s \in Sessions |-> {}]
  /\ live = Others /\ used = live
  /\ pending = {} /\ request = [r \in Requests |-> NoRequest]
  /\ reply = [r \in Requests |-> None]
  /\ told = [s \in Sessions |-> None]
  /\ starts = [m \in Msgs |-> 0]
  /\ troubles = {} /\ ends = 0

Room == Cardinality({t \in troubles : t[1] # "stray"}) < MaxTroubles
Trouble(k, x) == Room /\ troubles' = troubles \cup {<<k, x>>}

-----------------------------------------------------------------------------
(***************************************************************************)
(* The queue.                                                              *)
(***************************************************************************)

Who(m) == msg[m].s
Says(m) == msg[m].c

\* priority_for_query: responses have a lane of their own.
PriorityOf(c) == IF c.cmd \in {"allow", "answer"} THEN "response"
                 ELSE "ordinary"

\* The channel's poller hands over one message at a time, and holds the lock of
\* all lanes until there is room in this one.
Post(m) ==
  /\ job[m].pc = "unsent" /\ \A n \in Msgs : n < m => job[n].pc # "unsent"
  /\ \A n \in Msgs : job[n].pc # "posting"
  /\ \E s \in Sessions : \E c \in Menu[s] :
       /\ c.arg \in Requests => request[c.arg].by # None
       /\ msg' = [msg EXCEPT ![m] = [s |-> s, c |-> c]]
  /\ job' = [job EXCEPT ![m].pc = "posting"]
  /\ UNCHANGED <<cwd, lane, busy, store, cache, server, asking, told, troubles,
                 ends>>

Enqueue(m) ==
  /\ job[m].pc = "posting"
  /\ LET p == PriorityOf(Says(m)) IN
     /\ Len(lane[Who(m)][p]) < Capacity
     /\ lane' = [lane EXCEPT ![Who(m)][p] = Append(@, m)]
  /\ job' = [job EXCEPT ![m].pc = "queued"]
  /\ UNCHANGED <<cwd, msg, busy, store, cache, server, asking, told, troubles,
                 ends>>

\* A consumer handles one message after the other.
Dequeue(s, p) ==
  /\ busy[s][p] = None /\ lane[s][p] # <<>>
  /\ busy' = [busy EXCEPT ![s][p] = Head(lane[s][p])]
  /\ lane' = [lane EXCEPT ![s][p] = Tail(@)]
  /\ job' = [job EXCEPT ![Head(lane[s][p])].pc = "begin"]
  /\ UNCHANGED <<cwd, msg, store, cache, server, asking, told, troubles, ends>>

\* The stream of m has ended; a worker that was left ends alone.
Leaves(m) == [busy EXCEPT ![Who(m)] =
                [p \in Lanes |-> IF @[p] = m THEN None ELSE @[p]]]
Done(m) == job' = [job EXCEPT ![m] = At("done")] /\ busy' = Leaves(m)

\* What the session knows of its binding once it has been answered.
Tells(m, t) ==
  told' = IF job[m].left THEN told ELSE [told EXCEPT ![Who(m)] = t]

-----------------------------------------------------------------------------
(***************************************************************************)
(* The binding store: memory first, then the file, under one lock.         *)
(***************************************************************************)

Bind(s, b) == binding' = [binding EXCEPT ![s] = b]

Saved == file' = binding'

\* A write that fails is an error, and memory has changed.  `past` are the
\* troubles of the step so far.
Unsaved(s, past) ==
  /\ Room /\ UNCHANGED file
  /\ troubles' = past \cup {<<"unsaved", s>>}

-----------------------------------------------------------------------------
(***************************************************************************)
(* Commands about the binding.                                             *)
(***************************************************************************)

Starting(m, cmd) == job[m].pc = "begin" /\ Says(m).cmd = cmd

\* Slip: the session is told, and the file keeps the binding.
NewUnsaved(m) ==
  /\ Starting(m, "new") /\ Bind(Who(m), Unbound)
  /\ Tells(m, None) /\ Done(m)
  /\ UNCHANGED <<cwd, msg, lane, file, cache, server, asking, troubles, ends>>

\* cmd_new
New(m) ==
  /\ Starting(m, "new") /\ Bind(Who(m), Unbound)
  /\ \/ Saved /\ Tells(m, None) /\ UNCHANGED troubles
     \/ Unsaved(Who(m), troubles) /\ UNCHANGED told
  /\ Done(m)
  /\ UNCHANGED <<cwd, msg, lane, cache, server, asking, ends>>

\* thread_list: what the server has, up to a limit and of some kinds only.
Listed == SUBSET live

\* cmd_threads
ListThreads(m) ==
  /\ Starting(m, "threads")
  /\ \/ /\ \E T \in Listed : cache' = [cache EXCEPT ![Who(m)] = T]
        /\ UNCHANGED troubles
     \/ Trouble("call", m) /\ UNCHANGED cache
  /\ Done(m)
  /\ UNCHANGED <<cwd, msg, lane, store, server, asking, told, ends>>

\* cmd_bind: by number in the list shown last, whose threads have a cwd, or by
\* id.  The thread has to be there when it is resumed.
Resumable(m) ==
  /\ Says(m).arg \in live
  /\ Says(m).cmd = "pick" => Says(m).arg \in cache[Who(m)]

ResumeToBind(m) ==
  /\ Starting(m, "bind") \/ Starting(m, "pick")
  /\ \/ /\ Resumable(m) /\ UNCHANGED <<busy, troubles>>
        /\ job' = [job EXCEPT ![m].pc = "save", ![m].thread = Says(m).arg,
                     ![m].cwd = (Says(m).cmd = "pick") \/ cwd]
     \/ ~Resumable(m) /\ Done(m) /\ UNCHANGED troubles
     \/ Trouble("call", m) /\ Done(m)
  /\ UNCHANGED <<cwd, msg, lane, store, cache, server, asking, told, ends>>

-----------------------------------------------------------------------------
(***************************************************************************)
(* Prompts.                                                                *)
(***************************************************************************)

\* run_prompt_stream
BeginPrompt(m) ==
  /\ Starting(m, "prompt")
  /\ LET b == binding[Who(m)] IN
     \/ /\ b.thread # None
        /\ job' = [job EXCEPT ![m].pc = "resume", ![m].thread = b.thread,
                              ![m].cwd = b.cwd]
        /\ UNCHANGED busy
     \/ /\ b.thread = None /\ cwd
        /\ job' = [job EXCEPT ![m].pc = "create", ![m].cwd = TRUE]
        /\ UNCHANGED busy
     \/ b.thread = None /\ ~cwd /\ Done(m)
  /\ UNCHANGED <<cwd, msg, lane, store, cache, server, asking, told, troubles,
                 ends>>

\* The server starts a turn, which goes on there even if nobody listens.
Starts(m) == starts' = [starts EXCEPT ![m] = @ + 1]

\* Slip: any error is taken for a lost thread.
AnyError(e) == TRUE

IsMissingRollout(e) == e = "missing"

\* run_prompt_with_binding, when its turn has failed with e: a binding whose
\* thread is lost is cleared, and the prompt starts again on a new thread if
\* there is a directory for it.
Recover(m, past) ==
  /\ Bind(Who(m), Unbound)
  /\ \/ /\ Saved /\ Tells(m, None) /\ troubles' = past
        /\ IF job[m].cwd \/ cwd
             THEN /\ UNCHANGED busy
                  /\ job' = [job EXCEPT ![m] =
                       [At("create") EXCEPT !.cwd = TRUE, !.left = job[m].left]]
             ELSE Done(m)
     \/ Unsaved(Who(m), past) /\ Done(m) /\ UNCHANGED told

Fail(m, e, past) ==
  IF IsMissingRollout(e) /\ ~job[m].fresh
    THEN Recover(m, past)
    ELSE Done(m) /\ UNCHANGED <<store, told>> /\ troubles' = past

\* thread/resume and turn/start, on one connection.
StartTurn(m) ==
  /\ job[m].pc = "resume"
  /\ \/ /\ job[m].thread \in live
        /\ Starts(m)
        /\ job' = [job EXCEPT ![m].pc = "turn"]
        /\ UNCHANGED <<busy, store, told, troubles>>
     \/ /\ job[m].thread \notin live /\ Fail(m, "missing", troubles)
        /\ UNCHANGED starts
  /\ UNCHANGED <<cwd, msg, lane, cache, live, used, asking, ends>>

\* run_prompt_on_new_thread: thread/start and turn/start.  A server that has no
\* thread to give refuses.
CreateThread(m) ==
  /\ job[m].pc = "create"
  /\ \/ \E t \in Threads \ used :
          /\ used' = used \cup {t} /\ live' = live \cup {t}
          /\ job' = [job EXCEPT ![m].pc = "turn", ![m].thread = t,
                                ![m].fresh = TRUE]
          /\ Starts(m) /\ UNCHANGED busy
     \/ Threads = used /\ Done(m) /\ UNCHANGED server
  /\ UNCHANGED <<cwd, msg, lane, store, cache, asking, told, troubles,
                 ends>>

InTurn(m) == job[m].pc \in {"turn", "ask"}

\* Slip: nobody cleans up after a turn.
NoCleanUp(m) == pending

\* PendingRequestCleanup: the request of a turn goes with the turn.
WithoutAsked(m) == pending \ {job[m].req}

\* A turn that has said something has succeeded; on a new thread the session
\* is bound to it now.
Succeed(m) ==
  IF job[m].fresh
    THEN /\ job' = [job EXCEPT ![m].pc = "save", ![m].req = None]
         /\ UNCHANGED busy
    ELSE Done(m)

\* turn/completed, with agent text or without.
EndTurn(m) ==
  /\ job[m].pc = "turn"
  /\ Succeed(m) \/ Done(m)
  /\ UNCHANGED <<cwd, msg, lane, store, cache, server, asking, told, troubles,
                 ends>>

\* Slip: the time limit does not cover the wait for a response.
DeadlineUnasked(m) ==
  /\ job[m].pc = "turn"
  /\ Succeed(m) \/ Done(m)
  /\ UNCHANGED <<cwd, msg, lane, store, cache, server, asking, told, troubles,
                 ends>>

\* max_run_secs are over: the connection is dropped, in the middle of a request
\* too, and the text so far is the answer, if there is any.
Deadline(m) ==
  /\ InTurn(m)
  /\ pending' = WithoutAsked(m)
  /\ Succeed(m) \/ Done(m)
  /\ UNCHANGED <<cwd, msg, lane, store, cache, server, request, reply, told,
                 troubles, ends>>

\* The connection fails, or the server refuses the thread or the turn.
FailCall(m) ==
  /\ job[m].pc \in {"resume", "create"} \/ InTurn(m)
  /\ Room /\ pending' = WithoutAsked(m)
  /\ Fail(m, "other", troubles \cup {<<"call", m>>})
  /\ UNCHANGED <<cwd, msg, lane, cache, server, request, reply, ends>>

\* What the session is bound to when its turn is over, or by cmd_bind.
SaveBinding(m) ==
  /\ job[m].pc = "save"
  /\ Bind(Who(m), [thread |-> job[m].thread, cwd |-> job[m].cwd])
  /\ \/ Saved /\ Tells(m, job[m].thread) /\ UNCHANGED troubles
     \/ Unsaved(Who(m), troubles) /\ UNCHANGED told
  /\ Done(m)
  /\ UNCHANGED <<cwd, msg, lane, cache, server, asking, ends>>

\* A sink that fails drops the stream; the worker does not notice.
DropStream(m) ==
  /\ InTurn(m) /\ ~job[m].left
  /\ Trouble("left", Who(m))
  /\ busy' = Leaves(m) /\ job' = [job EXCEPT ![m].left = TRUE]
  /\ UNCHANGED <<cwd, msg, lane, store, cache, server, asking, told, ends>>

-----------------------------------------------------------------------------
(***************************************************************************)
(* Requests of the server, and responses.                                  *)
(***************************************************************************)

\* r is the id that the server's next request has.
NextRequest(r) ==
  request[r].by = None /\ \A q \in Requests : q < r => request[q].by # None

\* server_request_handler: the request is pending and the user is asked, which
\* nobody can be once the stream is dropped.
Ask(m) ==
  /\ job[m].pc = "turn"
  /\ \E r \in Requests :
       /\ NextRequest(r)
       /\ \/ /\ ~job[m].left
             /\ \E k \in Kinds :
                  request' = [request EXCEPT ![r] = [by |-> m, kind |-> k]]
             /\ pending' = pending \cup {r}
             /\ job' = [job EXCEPT ![m].pc = "ask", ![m].req = r]
             /\ UNCHANGED busy
          \/ job[m].left /\ Done(m) /\ UNCHANGED <<pending, request>>
  /\ UNCHANGED <<cwd, msg, lane, store, cache, server, reply, told, troubles,
                 ends>>

GoOn(m) ==
  /\ job[m].pc = "ask" /\ reply[job[m].req] # None
  /\ pending' = WithoutAsked(m)
  /\ job' = [job EXCEPT ![m].pc = "turn", ![m].req = None]
  /\ UNCHANGED <<cwd, msg, lane, busy, store, cache, server, request, reply,
                 told, troubles, ends>>

Owner(r) == Who(request[r].by)

\* Slip: an id is enough.
FoundById(m) ==
  IF Says(m).arg # None THEN {Says(m).arg} \cap pending
  ELSE LET mine == {r \in pending : Owner(r) = Who(m)}
       IN  IF Cardinality(mine) = 1 THEN mine ELSE {}

\* take_for_session: the request that is named, if it is this session's, or the
\* only one there is of this session.
Found(m) ==
  LET mine == {r \in pending : Owner(r) = Who(m)}
  IN  IF Says(m).arg # None THEN {Says(m).arg} \cap mine
      ELSE IF Cardinality(mine) = 1 THEN mine ELSE {}

TakeRequest(m) ==
  /\ Starting(m, "allow") \/ Starting(m, "answer")
  /\ \/ \E r \in Found(m) :
          /\ pending' = pending \ {r}
          /\ job' = [job EXCEPT ![m].pc = "taken", ![m].req = r]
          /\ UNCHANGED busy
     \/ Found(m) = {} /\ Done(m) /\ UNCHANGED pending
  /\ UNCHANGED <<cwd, msg, lane, store, cache, server, request, reply, told,
                 troubles, ends>>

\* Its turn still waits for the request.
Awaited(r) ==
  request[r].by # None /\ job[request[r].by].pc = "ask"
    /\ job[request[r].by].req = r

Fits(m) == Says(m).cmd = "answer" => request[job[m].req].kind = "input"

\* cmd_pending_response: a response that does not fit puts the request back.
Respond(m) ==
  /\ job[m].pc = "taken"
  /\ LET r == job[m].req IN
     /\ \/ /\ Fits(m) /\ Awaited(r)
           /\ reply' = [reply EXCEPT ![r] = m] /\ UNCHANGED <<pending, troubles>>
        \/ Fits(m) /\ ~Awaited(r) /\ UNCHANGED <<reply, pending, troubles>>
        \/ /\ ~Fits(m) /\ pending' = pending \cup {r} /\ UNCHANGED reply
           /\ troubles' = IF Awaited(r) THEN troubles
                          ELSE troubles \cup {<<"stray", r>>}
  /\ Done(m)
  /\ UNCHANGED <<cwd, msg, lane, store, cache, server, request, told, ends>>

-----------------------------------------------------------------------------
(***************************************************************************)
(* The server and the process.                                             *)
(***************************************************************************)

\* The server forgets a thread.
LoseThread(t) ==
  /\ t \in live /\ live' = live \ {t}
  /\ UNCHANGED <<cwd, msg, job, lane, busy, store, cache, used, starts, asking,
                 told, troubles, ends>>

Writing(m) ==
  \/ job[m].pc = "save"
  \/ job[m].pc = "begin" /\ Says(m).cmd = "new"

\* The gateway ends and starts again.  Queue, cache and requests are gone; the
\* file was truncated if the end came while it was written, and a file that
\* cannot be read is an empty one.
Restart ==
  /\ ends < MaxEnds /\ ends' = ends + 1
  /\ job' = [m \in Msgs |-> IF job[m].pc \in {"unsent", "done"} THEN job[m]
                            ELSE At("lost")]
  /\ lane' = [s \in Sessions |-> [p \in Lanes |-> <<>>]]
  /\ busy' = [s \in Sessions |-> [p \in Lanes |-> None]]
  /\ cache' = [s \in Sessions |-> {}]
  /\ pending' = {}
  /\ \/ UNCHANGED <<file, troubles>>
     \/ /\ \E m \in Msgs : Writing(m)
        /\ file' = [s \in Sessions |-> Unbound]
        /\ troubles' = troubles \cup {<<"torn", None>>}
  /\ binding' = file'
  /\ UNCHANGED <<cwd, msg, server, request, reply, told>>

-----------------------------------------------------------------------------

\* What the gateway does about a message by itself.
Handle(m) ==
  \/ Enqueue(m) \/ New(m) \/ ListThreads(m) \/ ResumeToBind(m)
  \/ BeginPrompt(m) \/ StartTurn(m) \/ CreateThread(m) \/ SaveBinding(m)
  \/ GoOn(m) \/ TakeRequest(m) \/ Respond(m)

Next ==
  \/ \E m \in Msgs : \/ Post(m) \/ Handle(m) \/ Ask(m) \/ EndTurn(m)
                     \/ Deadline(m) \/ FailCall(m) \/ DropStream(m)
  \/ \E s \in Sessions, p \in Lanes : Dequeue(s, p)
  \/ Restart
  \/ \E t \in Threads : LoseThread(t)

\* The consumers and workers run, and time passes: a message that is handled
\* gets on, if only to its deadline.  Nothing is assumed of the server or of the
\* people who are asked.
Fairness ==
  /\ \A m \in Msgs : WF_vars(Handle(m) \/ Deadline(m))
  /\ \A s \in Sessions : WF_vars(\E p \in Lanes : Dequeue(s, p))

Spec == Init /\ [][Next]_vars /\ Fairness

-----------------------------------------------------------------------------
(***************************************************************************)
(* Properties.                                                             *)
(***************************************************************************)

\* A response reaches only a turn of the session that gave it, and only a
\* request it fits, whichever id it names and however late it comes.
ResponseReachesOwnTurn ==
  \A r \in Requests : reply[r] # None =>
    /\ Who(reply[r]) = Owner(r)
    /\ Says(reply[r]).cmd = "answer" => request[r].kind = "input"
    /\ Says(reply[r]).arg \in {None, r}

\* A pending request belongs to a turn that waits for it, so that a bare
\* /approve means what the user was asked last, unless a response that did not
\* fit was put back after the turn had gone.
PendingIsAwaited ==
  \A r \in pending : Awaited(r) \/ <<"stray", r>> \in troubles

\* The agent acts on a prompt once at most: a turn is started again only when
\* the server had no thread to start it on.
RunsOnce == \A m \in Msgs : starts[m] <= 1

\* Between two messages of a session it is bound as it was last told, after a
\* restart too, unless a worker was left alone or the file could not be written.
BindingAsTold ==
  \A s \in Sessions : busy[s]["ordinary"] = None =>
    \/ binding[s].thread = told[s]
    \/ \E k \in {"left", "unsaved"} : <<k, s>> \in troubles
    \/ <<"torn", None>> \in troubles

\* In the end every message that was posted is handled, or lost with the
\* process: a full lane, a turn that asks and a user who does not answer hold
\* the others up for max_run_secs at most.
EventuallyHandled ==
  <>[](\A m \in Msgs : job[m].pc \in {"unsent", "done", "lost"})

=============================================================================
