--------------------------- MODULE WechatAccounts ---------------------------
(***************************************************************************)
(* The WeChat accounts of the gateway: the registry in memory and on registry, *)
(* the token files, the runners and the map that holds them, and the QR    *)
(* logins of the admin API that create accounts.                           *)
(*                                                                         *)
(* Five kinds of task meet here on the threads of the gateway: the status  *)
(* requests of QR sessions, which register accounts one at a time under    *)
(* wechat_registration_lock; the start of the channel, the removal of an   *)
(* account and the pruning of runners, which do not take that lock; and    *)
(* the runners themselves, which learn from the messages which bot they    *)
(* serve and merge their account into one that serves it already.  A step  *)
(* is what a task does between two locks, awaits or files.                 *)
(*                                                                         *)
(* What the runners do with the messages is in WechatRunner.               *)
(***************************************************************************)
EXTENDS Integers, FiniteSets

CONSTANTS
  Sessions,     \* the QR sessions, and the tokens they yield
  Legacy,       \* the token file of an earlier version
  Bots,         \* the bots of iLink
  BotOf,        \* the bot that a token is for
  Ids,          \* the account ids
  LegacyId,     \* the id of the migrated account
  Orders,       \* the orders a table of accounts can be walked in, each the
                \* places of the ids
  Runners,      \* the runners that can be alive at once
  Pruners,      \* the tasks that prune runners: the one that does so every
                \* minute, and requests that list the accounts
  MaxAccounts,  \* max_accounts
  MaxEnds,      \* bound on the ends of the process
  MaxTroubles,  \* bound on these, the accounts removed, the requests cut off
                \* and the writes that fail
  None

Tokens == Sessions \cup {Legacy}

ASSUME AccountsAssumption ==
  /\ LegacyId \in Ids
  /\ BotOf \in [Tokens -> Bots]
  /\ Orders \subseteq [Ids -> Nat] /\ Orders # {}
  /\ \A o \in Orders : \A a, b \in Ids : o[a] = o[b] => a = b
  /\ Sessions \subseteq Nat
  /\ None \notin Tokens \cup Bots \cup Ids \cup Runners
  /\ "minute" \in Pruners
  /\ Legacy \notin Sessions
  /\ MaxAccounts \in Nat /\ MaxEnds \in Nat /\ MaxTroubles \in Nat

VARIABLES
  phase,     \* of the process: "down", "serving" the admin API, "started"
  mem,       \* `inner`, the registry in memory
  file,      \* wechat_accounts.json
  token,     \* bot_token of each account directory
  order,     \* the order of the hash table in memory
  slot,      \* `runners`, the map of the channel
  runner,    \* by runner
  session,   \* `qr`, the sessions of the admin API
  scan,      \* what iLink answers about the QR code of a session
  waiting,   \* status requests that saw "confirmed" and wait for the lock
  job,       \* the registration under the lock, and the start of the channel
  todo,      \* the accounts the start of the channel has still to start
  removal,   \* the removal under way
  pruning,   \* by pruner, the accounts it has found active
  born,      \* the token each account was created with
  promised,  \* the accounts a status request has named in its answer
  asked,     \* the accounts somebody has asked to remove
  gone,      \* those whose removal has been answered
  mishaps,   \* what has happened to an account that nothing makes up for
  ends

registry == <<file, token, order>>
requests == <<session, scan, waiting>>
history == <<born, promised, asked, gone>>
tasks == <<job, todo, removal, pruning>>
vars == <<phase, mem, registry, slot, runner, requests, tasks, history, mishaps,
          ends>>

Entry == [status : {"none", "active", "disabled"}, bot : Bots \cup {None}]
NoEntry == [status |-> "none", bot |-> None]
Active(reg) == {a \in Ids : reg[a].status = "active"}

\* `bot` is the bot whose token it has.
Runner == [pc : {"off", "poll", "name", "retire"}, stop : BOOLEAN,
           acct : Ids, bot : Bots \cup {None}]
Off == [pc |-> "off", stop |-> FALSE, acct |-> LegacyId, bot |-> None]

Job == [pc : {"off", "token", "insert", "stop", "spawn", "put",
              "note", "list", "next"},
        s : Sessions \cup {None}, id : Ids, run : Runners \cup {None}]
NoJob == [pc |-> "off", s |-> None, id |-> LegacyId, run |-> None]
Starters == {"login", "boot"}

Session == [state : {"none", "open", "dropped"}, account : Ids \cup {None}]

\* "torn": the process ended while the token was written; "unsaved": the
\* registry could not be written; "dropped": the client went away during its
\* request; "doubled": two tasks started a runner for the account at once;
\* "overlap": it got a runner while it had one, if only to finish its batch;
\* "pruned": a pruning took the runner of an active account; "reordered": the
\* table grew while the account was being merged away.
Mishaps == {"torn", "unsaved", "dropped", "doubled", "overlap", "pruned",
            "reordered"}

TypeOK ==
  /\ phase \in {"down", "serving", "started"}
  /\ mem \in [Ids -> Entry] /\ file \in [Ids -> Entry]
  /\ token \in [Ids -> Tokens \cup {None}] /\ order \in Orders
  /\ slot \in [Ids -> Runners \cup {None}]
  /\ runner \in [Runners -> Runner]
  /\ session \in [Sessions -> Session]
  /\ scan \in [Sessions -> {"no", "plain", "named"}]
  /\ waiting \in [Sessions -> 0 .. 2]
  /\ job \in [Starters -> Job] /\ todo \subseteq Ids
  /\ removal \in Ids \cup {None}
  /\ pruning \in [Pruners -> (SUBSET Ids) \cup {None}]
  /\ born \in [Ids -> Tokens \cup {None}]
  /\ promised \subseteq Ids /\ asked \subseteq Ids /\ gone \subseteq Ids
  /\ mishaps \subseteq Mishaps \X Ids
  /\ ends \in 0 .. MaxEnds

Room ==
  LET faults == {m \in mishaps : m[1] \in {"unsaved", "dropped"}}
  IN  ends + Cardinality(asked) + Cardinality(faults) < MaxTroubles

\* What is left of the process when it ends.
NoTasks ==
  /\ slot' = [a \in Ids |-> None]
  /\ runner' = [r \in Runners |-> Off]
  /\ session' = [s \in Sessions |-> [state |-> "none", account |-> None]]
  /\ waiting' = [s \in Sessions |-> 0]
  /\ job' = [x \in Starters |-> NoJob] /\ todo' = {}
  /\ removal' = None /\ pruning' = [p \in Pruners |-> None]

\* A directory that may hold the token file of an earlier version.
Init ==
  /\ phase = "down"
  /\ mem = [a \in Ids |-> NoEntry] /\ file = mem
  /\ token = [a \in Ids |-> None] /\ order \in Orders
  /\ slot = [a \in Ids |-> None]
  /\ runner = [r \in Runners |-> Off]
  /\ session = [s \in Sessions |-> [state |-> "none", account |-> None]]
  /\ scan = [s \in Sessions |-> "no"]
  /\ waiting = [s \in Sessions |-> 0]
  /\ job = [x \in Starters |-> NoJob] /\ todo = {}
  /\ removal = None /\ pruning = [p \in Pruners |-> None]
  /\ born = [a \in Ids |-> None]
  /\ promised = {} /\ asked = {} /\ gone = {}
  /\ mishaps = {} /\ ends = 0

-----------------------------------------------------------------------------
(***************************************************************************)
(* The process.                                                            *)
(***************************************************************************)

Up == phase # "down"

\* save: written beside its file and renamed.
Save == file' = mem'

\* An empty registry takes over the token of an earlier version, or of the
\* configuration: token file, entry, registry file.
Migrate ==
  /\ \A a \in Ids : file[a].status = "none"
  /\ token' = [token EXCEPT ![LegacyId] = Legacy]
  /\ mem' = [file EXCEPT ![LegacyId].status = "active"] /\ Save
  /\ born' = [born EXCEPT ![LegacyId] = Legacy]

\* WeChatAccountRegistry::load
Load ==
  /\ ~Up /\ phase' = "serving"
  /\ Migrate \/ (mem' = file /\ UNCHANGED <<file, token, born>>)
  /\ order' \in Orders
  /\ UNCHANGED <<slot, runner, requests, tasks, promised, asked, gone, mishaps,
                 ends>>

\* start_all, while the admin API is serving: `started` is set, then the active
\* accounts are listed.
StartChannel ==
  /\ phase = "serving" /\ phase' = "started"
  /\ job' = [job EXCEPT !["boot"].pc = "list"]
  /\ UNCHANGED <<mem, registry, slot, runner, requests, todo, removal, pruning,
                 history, mishaps, ends>>

ListAccounts ==
  /\ job["boot"].pc = "list"
  /\ todo' = Active(mem)
  /\ job' = [job EXCEPT !["boot"].pc = "next"]
  /\ UNCHANGED <<phase, mem, registry, slot, runner, requests, removal, pruning,
                 history, mishaps, ends>>

StartNext ==
  /\ job["boot"].pc = "next"
  /\ \/ \E a \in todo :
          /\ job' = [job EXCEPT !["boot"].pc = "spawn", !["boot"].id = a]
          /\ todo' = todo \ {a}
     \/ todo = {} /\ job' = [job EXCEPT !["boot"] = NoJob] /\ UNCHANGED todo
  /\ UNCHANGED <<phase, mem, registry, slot, runner, requests, removal, pruning,
                 history, mishaps, ends>>

\* find_by_bot_user_id: the first active account with that bot, in the order of
\* a hash table, which has nothing to do with age.
First(S) == CHOOSE a \in S : \A b \in S : order[a] <= order[b]

FindBot(b) ==
  LET found == {a \in Active(mem) : mem[a].bot = b}
  IN  IF b = None \/ found = {} THEN None ELSE First(found)

\* Slip: any other account of the bot will do.
MergesAnywhere(r) ==
  /\ runner[r].pc = "poll"
  /\ \E a \in Active(mem) \ {runner[r].acct} : mem[a].bot = runner[r].bot

\* The runner's account is not the one found for its bot.
Merges(r) ==
  /\ runner[r].pc = "poll"
  /\ FindBot(runner[r].bot) \notin {None, runner[r].acct}

\* A token file is truncated before it is written; the registry is written
\* beside its file and renamed.
WritingToken(a) ==
  \/ job["login"].pc = "token" /\ job["login"].id = a
  \/ \E r \in Runners : Merges(r) /\ FindBot(runner[r].bot) = a

\* The gateway is stopped or dies.
End ==
  /\ Up /\ ends < MaxEnds /\ Room
  /\ phase' = "down" /\ ends' = ends + 1
  /\ mem' = [a \in Ids |-> NoEntry]
  /\ NoTasks
  /\ \/ UNCHANGED <<token, mishaps>>
     \/ \E a \in Ids : /\ WritingToken(a)
                       /\ token' = [token EXCEPT ![a] = None]
                       /\ mishaps' = mishaps \cup {<<"torn", a>>}
  /\ UNCHANGED <<file, order, scan, history>>

-----------------------------------------------------------------------------
(***************************************************************************)
(* QR sessions.                                                            *)
(***************************************************************************)

\* wechat_qrcode.  Sessions of more than five minutes, which any other may be
\* by now, are dropped.  `scan` is what iLink is going to answer.
NewSession(s) ==
  /\ Up /\ scan[s] = "no"
  /\ \A t \in Sessions : t < s => scan[t] # "no"
  /\ \E old \in SUBSET {t \in Sessions : session[t].state = "open"} :
       session' = [t \in Sessions |->
         IF t = s THEN [session[t] EXCEPT !.state = "open"]
         ELSE IF t \in old THEN [session[t] EXCEPT !.state = "dropped"]
         ELSE session[t]]
  /\ \E k \in {"plain", "named"} : scan' = [scan EXCEPT ![s] = k]
  /\ UNCHANGED <<phase, mem, registry, slot, runner, waiting, tasks, history,
                 mishaps, ends>>

\* wechat_qrcode_status up to the lock: a session that has its account is
\* answered at once, and iLink is asked about any other.
AskStatus(s) ==
  /\ session[s].state = "open" /\ session[s].account = None
  /\ waiting[s] < 2 /\ \A t \in Sessions \ {s} : waiting[t] = 0
  /\ waiting' = [waiting EXCEPT ![s] = @ + 1]
  /\ UNCHANGED <<phase, mem, registry, slot, runner, session, scan, tasks, history,
                 mishaps, ends>>

Login == job["login"]
Goto(pc) == [job EXCEPT !["login"].pc = pc]
LoginEnds == [job EXCEPT !["login"] = NoJob]

\* Slip: no second look.
NeedsNoLook(s) == TRUE

\* The second look, under the lock: the session may be dropped by now, or have
\* the account another request has registered.
NeedsAccount(s) == session[s].state # "dropped" /\ session[s].account = None

-----------------------------------------------------------------------------
(***************************************************************************)
(* Registration: register_and_start, one at a time.                        *)
(***************************************************************************)

\* The bot that the answer names.
NamedBot(s) == IF scan[s] = "named" THEN BotOf[s] ELSE None

Unused == {a \in Ids \ {LegacyId} : born[a] = None}

\* An account of the bot keeps its id; any other login needs room for one more.
AccountFor(s) ==
  LET old == FindBot(NamedBot(s))
  IN  IF old # None THEN {old}
      ELSE IF Cardinality(Active(mem)) >= MaxAccounts THEN {}
      ELSE Unused

\* A request that finds nothing left to do, or no room, answers and is done.
TakeLock(s) ==
  /\ Login.pc = "off" /\ waiting[s] > 0
  /\ waiting' = [waiting EXCEPT ![s] = @ - 1]
  /\ \/ /\ NeedsAccount(s)
        /\ \E a \in AccountFor(s) :
             job' = [job EXCEPT !["login"] =
                       [NoJob EXCEPT !.pc = "token", !.s = s, !.id = a]]
     \/ /\ ~NeedsAccount(s) \/ AccountFor(s) = {}
        /\ UNCHANGED job
  /\ UNCHANGED <<phase, mem, registry, slot, runner, session, scan, todo, removal,
                 pruning, history, mishaps, ends>>

\* Slip: the entry is saved before its token.
SaveEntryFirst ==
  /\ Login.pc = "token"
  /\ IF mem[Login.id].status = "none"
       THEN /\ mem' = [mem EXCEPT ![Login.id] =
                         [status |-> "active", bot |-> NamedBot(Login.s)]]
            /\ Save
            /\ born' = [born EXCEPT ![Login.id] = Login.s]
            /\ UNCHANGED <<token, job>>
       ELSE /\ token' = [token EXCEPT ![Login.id] = Login.s]
            /\ job' = Goto("stop")
            /\ UNCHANGED <<mem, file, born>>
  /\ UNCHANGED <<phase, order, slot, runner, requests, todo, removal, pruning,
                 promised, asked, gone, mishaps, ends>>

\* An update saves the registry only when the API address has changed.
SaveToken ==
  /\ Login.pc = "token"
  /\ token' = [token EXCEPT ![Login.id] = Login.s]
  /\ IF mem[Login.id].status = "none"
       THEN job' = Goto("insert") /\ UNCHANGED file
       ELSE job' = Goto("stop") /\ file' \in {file, mem}
  /\ UNCHANGED <<phase, mem, order, slot, runner, requests, todo, removal,
                 pruning, history, mishaps, ends>>

\* The accounts being merged away when the table grows and is walked in another
\* order from then on.
Reordered ==
  {<<"reordered", runner[r].acct>> :
     r \in {q \in Runners : runner[q].pc = "retire" /\ order' # order}}

\* The table may grow for the new entry.  A registry that cannot be written is
\* an error: the account stays in memory.
Insert ==
  /\ Login.pc = "insert"
  /\ mem' = [mem EXCEPT ![Login.id] =
               [status |-> "active", bot |-> NamedBot(Login.s)]]
  /\ born' = [born EXCEPT ![Login.id] = Login.s]
  /\ order' \in Orders
  /\ \/ Save /\ job' = Goto("stop") /\ mishaps' = mishaps \cup Reordered
     \/ /\ Room
        /\ job' = LoginEnds
        /\ mishaps' = mishaps \cup {<<"unsaved", Login.id>>} \cup Reordered
        /\ UNCHANGED file
  /\ UNCHANGED <<phase, token, slot, runner, requests, todo, removal, pruning,
                 promised, asked, gone, ends>>

Told(r) == [runner EXCEPT ![r].stop = TRUE]

\* Slip: the old runner is stopped and left in the map.
StopInPlace ==
  /\ Login.pc = "stop"
  /\ runner' = IF slot[Login.id] # None THEN Told(slot[Login.id]) ELSE runner
  /\ job' = Goto(IF phase = "started" THEN "spawn" ELSE "note")
  /\ UNCHANGED <<phase, mem, registry, slot, requests, todo, removal, pruning,
                 history, mishaps, ends>>

\* The runner of the account there was has the old token.
StopOld ==
  /\ Login.pc = "stop"
  /\ IF slot[Login.id] # None
       THEN /\ runner' = Told(slot[Login.id])
            /\ slot' = [slot EXCEPT ![Login.id] = None]
       ELSE UNCHANGED <<runner, slot>>
  /\ job' = Goto(IF phase = "started" THEN "spawn" ELSE "note")
  /\ UNCHANGED <<phase, mem, registry, requests, todo, removal, pruning, history,
                 mishaps, ends>>

\* The session gets its account, unless it was dropped meanwhile.
NoteAccount ==
  /\ Login.pc = "note"
  /\ session' = [session EXCEPT ![Login.s].account =
                   IF session[Login.s].state = "dropped" THEN @ ELSE Login.id]
  /\ promised' = promised \cup {Login.id}
  /\ job' = LoginEnds
  /\ UNCHANGED <<phase, mem, registry, slot, runner, scan, waiting, todo, removal,
                 pruning, born, asked, gone, mishaps, ends>>

\* The client is gone and its request is dropped where it awaits a lock.
DropRequest ==
  /\ Login.pc \in {"stop", "spawn", "put", "note"}
  /\ Room
  /\ job' = LoginEnds
  /\ mishaps' = mishaps \cup {<<"dropped", Login.id>>}
  /\ UNCHANGED <<phase, mem, registry, slot, runner, requests, todo, removal,
                 pruning, history, ends>>

-----------------------------------------------------------------------------
(***************************************************************************)
(* start_runner, for a registration and for the start of the channel.      *)
(***************************************************************************)

StarterFails(x) ==
  [job EXCEPT ![x] =
     IF x = "login" THEN NoJob ELSE [NoJob EXCEPT !.pc = "next"]]
StarterGoesOn(x) == IF x = "login" THEN Goto("note") ELSE StarterFails(x)

Free == {r \in Runners : /\ runner[r].pc = "off"
                         /\ \A a \in Ids : slot[a] # r
                         /\ \A x \in Starters : job[x].run # r}

AnyOf(S) == CHOOSE r \in S : TRUE

Alive(a) == \E r \in Runners : runner[r].pc # "off" /\ runner[r].acct = a

\* Another task has started a runner that is not in the map yet.
OtherStarts(x) ==
  \E y \in Starters \ {x} : job[y].pc = "put" /\ job[y].id = job[x].id

\* No second runner for an account, none for one that is not active, and none
\* without a token (WeChatAccountRunner::start).
Spawn(x) ==
  /\ job[x].pc = "spawn"
  /\ LET a == job[x].id
         new == slot[a] = None /\ mem[a].status = "active" /\ token[a] # None
     IN  \/ /\ slot[a] # None /\ job' = StarterGoesOn(x)
            /\ UNCHANGED <<runner, mishaps>>
         \/ /\ slot[a] = None /\ ~new /\ job' = StarterFails(x)
            /\ UNCHANGED <<runner, mishaps>>
         \/ /\ new /\ Free # {}
            /\ LET r == AnyOf(Free) IN
               /\ runner' = [runner EXCEPT ![r] =
                    [Off EXCEPT !.pc = "poll", !.acct = a,
                                !.bot = BotOf[token[a]]]]
               /\ job' = [job EXCEPT ![x].pc = "put", ![x].run = r]
            /\ mishaps' = mishaps
                 \cup {<<"doubled", b>> : b \in {c \in {a} : OtherStarts(x)}}
                 \cup {<<"overlap", b>> : b \in {c \in {a} : Alive(c)}}
  /\ UNCHANGED <<phase, mem, registry, slot, requests, todo, removal, pruning,
                 history, ends>>

PutRunner(x) ==
  /\ job[x].pc = "put"
  /\ slot' = [slot EXCEPT ![job[x].id] = job[x].run]
  /\ job' = StarterGoesOn(x)
  /\ UNCHANGED <<phase, mem, registry, runner, requests, todo, removal, pruning,
                 history, mishaps, ends>>

-----------------------------------------------------------------------------
(***************************************************************************)
(* Removal and pruning.                                                    *)
(***************************************************************************)

\* Slip: the registry is not saved.
DisableUnsaved(a) ==
  /\ mem' = IF mem[a].status = "none" THEN mem
            ELSE [mem EXCEPT ![a].status = "disabled"]
  /\ UNCHANGED file

Disable(a) ==
  /\ mem' = IF mem[a].status = "none" THEN mem
            ELSE [mem EXCEPT ![a].status = "disabled"]
  /\ Save

\* remove_account takes the runner from the map, then disables the account.
RemoveSlot(a) ==
  /\ Up /\ removal = None /\ a \notin asked /\ Room
  /\ mem[a].status # "none"
  /\ IF slot[a] # None
       THEN runner' = Told(slot[a]) /\ slot' = [slot EXCEPT ![a] = None]
       ELSE UNCHANGED <<runner, slot>>
  /\ removal' = a /\ asked' = asked \cup {a}
  /\ UNCHANGED <<phase, mem, registry, requests, job, todo, pruning, born,
                 promised, gone, mishaps, ends>>

DisableRemoved ==
  /\ removal # None
  /\ Disable(removal)
  /\ gone' = gone \cup {removal} /\ removal' = None
  /\ UNCHANGED <<phase, token, order, slot, runner, requests, job, todo, pruning,
                 born, promised, asked, mishaps, ends>>

\* Every minute once the accounts are started, and whenever accounts are listed:
\* the active accounts are read before the lock of the map is taken.
PruneList(p) ==
  /\ phase = "started" /\ pruning[p] = None
  /\ p = "minute" => job["boot"].pc = "off"
  /\ pruning' = [pruning EXCEPT ![p] = Active(mem)]
  /\ UNCHANGED <<phase, mem, registry, slot, runner, requests, job, todo, removal,
                 history, mishaps, ends>>

\* Slip: the runners are taken from the map and not stopped.
PruneForgets(p) ==
  /\ pruning[p] # None /\ pruning' = [pruning EXCEPT ![p] = None]
  /\ slot' = [a \in Ids |-> IF a \in pruning[p] THEN slot[a] ELSE None]
  /\ mishaps' = mishaps \cup ({"pruned"} \X
       {a \in Active(mem) \ pruning[p] : slot[a] # None})
  /\ UNCHANGED <<phase, mem, registry, runner, requests, job, todo, removal,
                 history, ends>>

PruneApply(p) ==
  /\ pruning[p] # None /\ pruning' = [pruning EXCEPT ![p] = None]
  /\ LET stale == {a \in Ids : slot[a] # None /\ a \notin pruning[p]} IN
     /\ slot' = [a \in Ids |-> IF a \in stale THEN None ELSE slot[a]]
     /\ runner' = [r \in Runners |->
          IF \E a \in stale : slot[a] = r
            THEN [runner[r] EXCEPT !.stop = TRUE] ELSE runner[r]]
     /\ mishaps' = mishaps \cup ({"pruned"} \X (stale \cap Active(mem)))
  /\ UNCHANGED <<phase, mem, registry, requests, job, todo, removal, history,
                 ends>>

-----------------------------------------------------------------------------
(***************************************************************************)
(* Runners.                                                                *)
(***************************************************************************)

\* upsert_bot_user_id, for a message that names the bot.  An account whose bot
\* has another account is merged into it: that one gets its token, then this
\* one is disabled.  A stopped runner may still be in its batch.
MergeToken(r) ==
  /\ Merges(r)
  /\ token' = [token EXCEPT ![FindBot(runner[r].bot)] =
                 IF token[runner[r].acct] = None THEN @
                 ELSE token[runner[r].acct]]
  /\ runner' = [runner EXCEPT ![r].pc = "retire"]
  /\ UNCHANGED <<phase, mem, file, order, slot, requests, tasks, history, mishaps,
                 ends>>

Retire(r) ==
  /\ runner[r].pc = "retire"
  /\ Disable(runner[r].acct)
  /\ runner' = [runner EXCEPT ![r] = Off]
  /\ UNCHANGED <<phase, token, order, slot, requests, tasks, history, mishaps,
                 ends>>

\* An account whose bot has no other one takes its name, after the look.
LearnBot(r) ==
  /\ runner[r].pc = "poll"
  /\ FindBot(runner[r].bot) \in {None, runner[r].acct}
  /\ mem[runner[r].acct].bot # runner[r].bot
  /\ runner' = [runner EXCEPT ![r].pc = "name"]
  /\ UNCHANGED <<phase, mem, registry, slot, requests, tasks, history, mishaps,
                 ends>>

NameBot(r) ==
  /\ runner[r].pc = "name"
  /\ mem' = [mem EXCEPT ![runner[r].acct].bot = runner[r].bot] /\ Save
  /\ runner' = [runner EXCEPT ![r].pc = "poll"]
  /\ UNCHANGED <<phase, token, order, slot, requests, tasks, history, mishaps,
                 ends>>

Quit(r) ==
  /\ runner[r].pc = "poll" /\ runner[r].stop
  /\ runner' = [runner EXCEPT ![r] = Off]
  /\ UNCHANGED <<phase, mem, registry, slot, requests, tasks, history, mishaps,
                 ends>>

-----------------------------------------------------------------------------

Registration == \/ SaveToken \/ Insert \/ StopOld \/ NoteAccount

StartSteps(x) == Spawn(x) \/ PutRunner(x)

RunnerSteps(r) == \/ MergeToken(r) \/ Retire(r) \/ LearnBot(r) \/ NameBot(r)
                  \/ Quit(r)

Prune(p) == PruneList(p) \/ PruneApply(p)

\* What the other tasks do without being asked.
Tasks == \/ ListAccounts \/ StartNext \/ Registration \/ DisableRemoved
         \/ \E s \in Sessions : TakeLock(s)
         \/ \E x \in Starters : StartSteps(x)
         \/ \E r \in Runners : RunnerSteps(r)

Next ==
  \/ Load \/ StartChannel \/ End \/ DropRequest
  \/ \E s \in Sessions : NewSession(s) \/ AskStatus(s)
  \/ \E a \in Ids : RemoveSlot(a)
  \/ \E p \in Pruners : Prune(p)
  \/ Tasks

\* As long as some task can go on, one of them does, and the pruning comes round
\* every minute.  Nothing is assumed of people, of iLink and of what ends the
\* process.
Fairness == WF_vars(Tasks) /\ WF_vars(Prune("minute"))

Spec == Init /\ [][Next]_vars /\ Fairness

-----------------------------------------------------------------------------
(***************************************************************************)
(* Properties.                                                             *)
(***************************************************************************)

Mishap(k, a) == <<k, a>> \in mishaps

\* Whenever the process ends, an account that is active on disk has its token
\* there, so that the next start can serve it, unless the end came while that
\* very file was written.
ActiveHasToken ==
  \A a \in Active(file) : token[a] # None \/ Mishap("torn", a)

\* One scan never leaves two active accounts, however often its session is
\* polled at once; that takes a request that was cut off or could not save.
OneAccountPerScan ==
  \A a, b \in Active(mem) : born[a] = born[b] /\ a # b =>
    \E c \in {a, b} : Mishap("dropped", c) \/ Mishap("unsaved", c)

\* What the admin API has answered outlives the process: an account it has
\* named is in the registry file, and one it has removed is never active there
\* again.
AnswersSurvive ==
  /\ \A a \in promised : file[a].status # "none" \/ Mishap("unsaved", a)
  /\ \A a \in gone : file[a].status # "active"

\* The bot of an account that was merged away has an active account still,
\* unless somebody has asked to remove that one, an account had two runners, or
\* the look-ups were answered in two orders while accounts were merged.
Heir(b) == \E a \in Ids : mem[a].bot = b /\ (mem[a].status = "active" \/ a \in asked)
MergedIsServed ==
  Up => \A a \in Ids \ asked : mem[a].status = "disabled" =>
    \/ Heir(BotOf[born[a]])
    \/ \E c \in Ids : Mishap("overlap", c) \/ Mishap("reordered", c)

\* Once the channel has started and no task is about to start a runner for it,
\* an active account with a token has a runner that polls or is about to merge
\* the account away.
ActiveIsServed ==
  phase = "started" => \A a \in Active(mem) \ asked :
    \/ \E r \in Runners : runner[r].pc # "off" /\ runner[r].acct = a
                          /\ ~runner[r].stop
    \/ job["boot"].pc = "list" \/ a \in todo
    \/ \E x \in Starters : job[x].id = a /\ job[x].pc # "off"
    \/ \E k \in Mishaps \ {"overlap", "reordered"} : Mishap(k, a)

\* In the end every disabled account is silent: the pruning stops the runners
\* that a race has left to it, unless two tasks started one at once, or the map
\* lost one with its request.
Silent(a) == \A r \in Runners : runner[r].pc # "off" => runner[r].acct # a
DisabledFallSilent ==
  <>[](\A a \in Ids : mem[a].status = "disabled" =>
         Silent(a) \/ Mishap("doubled", a) \/ Mishap("dropped", a))

=============================================================================
