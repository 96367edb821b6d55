------------------------ MODULE WechatAccountsProofs ------------------------
(***************************************************************************)
(* Theorems about WechatAccounts, for every number of sessions, accounts   *)
(* and runners.                                                            *)
(*                                                                         *)
(* Most tasks only move a runner or themselves; what matters to tokens and *)
(* registry is the registration, what disables an account, and the ends of *)
(* the process.                                                            *)
(***************************************************************************)
EXTENDS WechatAccounts, WellFoundedInduction, TLAPS

Cut(a) == Mishap("dropped", a) \/ Mishap("unsaved", a)

Known(reg, a) == reg[a].status # "none"

Busy == Login.pc # "off"
HasToken == Login.pc \in {"insert", "stop", "spawn", "put", "note"}
Registered == Login.pc \in {"stop", "spawn", "put", "note"}

\* Without a process there is no registry in memory, and no task.
Idle ==
  ~Up => /\ \A a \in Ids : ~Known(mem, a)
         /\ \A x \in Starters : job[x].pc = "off"
         /\ \A r \in Runners : runner[r].pc = "off"
         /\ \A s \in Sessions : session[s].state = "none"
         /\ removal = None

\* An account gets its entry after its token.
TokenInv ==
  /\ \A a \in Ids : Known(file, a) \/ Known(mem, a) =>
       token[a] # None \/ Mishap("torn", a)
  /\ HasToken => token[Login.id] # None

\* Memory and file know the same accounts, but for those that were not saved.
FileInv ==
  \A a \in Ids : /\ Known(mem, a) => Known(file, a) \/ Mishap("unsaved", a)
                 /\ Up /\ Known(file, a) => Known(mem, a)

\* An id is given to one account, by one login.
BornInv ==
  /\ \A a \in Ids : Known(mem, a) \/ Known(file, a) => born[a] # None
  /\ \A a \in Ids : born[a] = Legacy => a = LegacyId
  /\ Login.pc \in {"token", "insert"} /\ ~Known(mem, Login.id) =>
       born[Login.id] = None /\ Login.id # LegacyId
  /\ Login.pc = "insert" => ~Known(mem, Login.id)
  /\ Registered => Known(mem, Login.id)

\* An account that was removed stays disabled.
GoneInv ==
  /\ removal # None => Known(mem, removal)
  /\ \A a \in gone : file[a].status = "disabled" /\ mem[a].status # "active"

\* A QR session is not used again after the process has ended.
SessionInv ==
  /\ \A s \in Sessions : scan[s] = "no" =>
       session[s].state = "none" /\ \A a \in Ids : born[a] # s
  /\ \A s \in Sessions : waiting[s] > 0 => session[s].state # "none"
  /\ Busy => Login.s \in Sessions /\ session[Login.s].state # "none"

\* No request of the session s registers another account than a.
Settled(s, a) ==
  \/ session[s].state \in {"none", "dropped"} \/ session[s].account # None
  \/ Registered /\ Login.s = s /\ Login.id = a
  \/ Cut(a)

ScanInv ==
  /\ \A s \in Sessions : \A a \in Active(mem) : born[a] = s => Settled(s, a)
  /\ Busy => \A a \in Active(mem) : born[a] = Login.s /\ a # Login.id => Cut(a)

OneOf(reg) ==
  \A a, b \in Active(reg) : born[a] = born[b] /\ a # b => Cut(a) \/ Cut(b)

IInv ==
  /\ TypeOK /\ Idle /\ TokenInv /\ FileInv /\ BornInv
  /\ GoneInv /\ AnswersSurvive
  /\ SessionInv /\ ScanInv /\ OneOf(mem) /\ OneOf(file)

-----------------------------------------------------------------------------
(***************************************************************************)
(* Steps that touch neither registry, tokens nor sessions.                 *)
(***************************************************************************)

\* The registration stays, goes on to its next step, or ends with an account
\* that no one else will register.
LoginMoves ==
  \/ Login' = Login
  \/ /\ Registered /\ Registered'
     /\ Login'.id = Login.id /\ Login'.s = Login.s
  \/ /\ Registered /\ Login'.pc = "off"
     /\ \/ \E k \in {"dropped", "unsaved"} : <<k, Login.id>> \in mishaps'
        \/ mem[Login.id].status # "active"

Calm ==
  /\ UNCHANGED <<phase, mem, file, born, session, scan, promised, gone>>
  /\ \A a \in Ids : token[a] # None => token'[a] # None
  /\ mishaps \subseteq mishaps'
  /\ \A s \in Sessions : waiting'[s] > 0 => session[s].state # "none"
  /\ LoginMoves
  /\ Up \/ UNCHANGED <<job, runner, removal>>
  /\ removal' # None => Known(mem, removal')

LEMMA CalmKeeps ==
  ASSUME IInv, Calm, TypeOK'
  PROVE  IInv'
<1>1. /\ UNCHANGED <<phase, mem, file, born, session, scan, promised, gone>>
      /\ \A a \in Ids : token[a] # None => token'[a] # None
      /\ \A k, a : Mishap(k, a) => Mishap(k, a)'
  BY DEF Calm, Mishap
<1>2. \A a \in Ids : Cut(a) => Cut(a)'
  BY <1>1 DEF Cut
<1>3. LoginMoves /\ Active(mem)' = Active(mem) /\ Active(file)' = Active(file)
  BY <1>1 DEF Calm, Active
<1>4. job["login"] \in Job /\ Login.id \in Ids
  BY DEF IInv, TypeOK, Job, Login, Starters
<1>5. Idle'
  BY <1>1 DEF Calm, IInv, Idle, Up, Known
<1>6. TokenInv'
  BY <1>1, <1>3, <1>4 DEF LoginMoves, HasToken, Registered, IInv, TokenInv, Known
<1>7. FileInv'
  BY <1>1 DEF IInv, FileInv, Known, Up
<1>8. BornInv'
  BY <1>1, <1>3 DEF LoginMoves, Registered, IInv, BornInv, Known
<1>9. GoneInv' /\ AnswersSurvive'
  BY <1>1 DEF Calm, IInv, GoneInv, AnswersSurvive, Known
<1>10. SessionInv'
  BY <1>1, <1>3 DEF Calm, LoginMoves, Registered, Busy, IInv, SessionInv
<1>11. ScanInv'
  <2>1. ASSUME NEW s \in Sessions, NEW a \in Active(mem), born[a] = s
        PROVE  Settled(s, a)'
    <3>1. a \in Ids /\ mem[a].status = "active"
      BY DEF Active
    <3>2. Settled(s, a)
      BY <2>1 DEF IInv, ScanInv
    <3>3. CASE Registered /\ Login.s = s /\ Login.id = a
      BY <1>3, <3>1, <3>3 DEF LoginMoves, Settled, Registered, Cut, Mishap
    <3>4. CASE ~(Registered /\ Login.s = s /\ Login.id = a)
      BY <1>1, <1>2, <3>1, <3>2, <3>4 DEF Settled
    <3> QED
      BY <3>3, <3>4
  <2>2. Busy' => \A a \in Active(mem) : born[a] = Login'.s /\ a # Login'.id => Cut(a)'
    <3>1. Busy' => Busy /\ Login'.id = Login.id /\ Login'.s = Login.s
      BY <1>3 DEF LoginMoves, Busy, Registered
    <3>2. Active(mem) \subseteq Ids
      BY DEF Active
    <3> QED
      BY <1>2, <3>1, <3>2 DEF IInv, ScanInv
  <2> QED
    BY <1>1, <1>3, <2>1, <2>2 DEF ScanInv
<1>12. OneOf(mem)' /\ OneOf(file)'
  BY <1>1, <1>2, <1>3 DEF IInv, OneOf, Active
<1> QED
  BY <1>5, <1>6, <1>7, <1>8, <1>9, <1>10, <1>11, <1>12 DEF IInv

-----------------------------------------------------------------------------
(***************************************************************************)
(* Steps that write the registry and activate nothing.                     *)
(***************************************************************************)

Rewrites ==
  /\ Up /\ file' = mem'
  /\ \A a \in Ids : \/ mem'[a].status = mem[a].status
                    \/ mem[a].status # "none" /\ mem'[a].status = "disabled"
  /\ UNCHANGED <<phase, token, born, session, scan, waiting, promised, mishaps>>
  /\ job' = job
  /\ \A a \in gone' : a \in gone \/ mem'[a].status = "disabled"
  /\ removal' \in {removal, None}

LEMMA RewriteKeeps ==
  ASSUME IInv, Rewrites, TypeOK'
  PROVE  IInv'
<1>1. /\ file' = mem' /\ Up
      /\ UNCHANGED <<phase, token, born, session, scan, waiting, promised>>
      /\ UNCHANGED <<mishaps, job>>
      /\ \A a \in Ids : Known(mem, a)' <=> Known(mem, a)
      /\ \A a \in Ids : Known(file, a) => Known(mem, a)
  BY DEF Rewrites, Known, IInv, FileInv
<1>2. \A a \in Ids : mem'[a].status = "active" => mem[a].status = "active"
  BY DEF Rewrites
<1>3. /\ Login.id \in Ids /\ Login' = Login /\ (Registered' <=> Registered)
      /\ \A a \in Ids : Cut(a)' <=> Cut(a)
  BY <1>1 DEF IInv, TypeOK, Job, Login, Starters, Registered, Cut, Mishap
<1>4. Idle'
  BY <1>1 DEF Idle, Up
<1>5. TokenInv'
  BY <1>1, <1>3 DEF IInv, TokenInv, HasToken, Known, Mishap
<1>6. FileInv'
  BY <1>1 DEF FileInv, Known
<1>7. BornInv'
  BY <1>1, <1>3 DEF IInv, BornInv, Known
<1>8. GoneInv'
  <2>1. gone' \subseteq Ids /\ gone \subseteq Ids /\ removal' \in Ids \cup {None}
    BY DEF IInv, TypeOK
  <2>2. removal' # None => Known(mem, removal)'
    BY <1>1, <2>1 DEF Rewrites, IInv, GoneInv, Known
  <2>3. \A a \in gone' : file'[a].status = "disabled" /\ mem'[a].status # "active"
    <3>1. \A a \in gone : mem[a].status = "disabled"
      BY <1>1, <2>1 DEF IInv, GoneInv, TypeOK, Entry, Known
    <3> QED
      BY <1>1, <2>1, <3>1 DEF Rewrites
  <2> QED
    BY <2>2, <2>3 DEF GoneInv
<1>9. AnswersSurvive'
  <2>1. \A a \in promised : file'[a].status # "none" \/ Mishap("unsaved", a)
    BY <1>1 DEF IInv, AnswersSurvive, TypeOK, Known
  <2> QED
    BY <1>1, <1>8, <2>1 DEF AnswersSurvive, GoneInv, Mishap
<1>10. SessionInv'
  BY <1>1, <1>3 DEF IInv, SessionInv, Busy
<1>11. Active(mem)' \subseteq Active(mem) /\ Active(file)' = Active(mem)'
  BY <1>1, <1>2 DEF Active
<1>12. ScanInv'
  <2>1. \A s \in Sessions, a \in Ids : Settled(s, a) => Settled(s, a)'
    BY <1>1, <1>3 DEF Settled
  <2>2. Active(mem) \subseteq Ids
    BY DEF Active
  <2> QED
    BY <1>1, <1>3, <1>11, <2>1, <2>2 DEF IInv, ScanInv, Busy
<1>13. OneOf(mem)' /\ OneOf(file)'
  BY <1>1, <1>3, <1>11 DEF IInv, OneOf, Active
<1> QED
  BY <1>4, <1>5, <1>6, <1>7, <1>8, <1>9, <1>10, <1>12, <1>13 DEF IInv

-----------------------------------------------------------------------------
(***************************************************************************)
(* The steps of the runners, the pruning, and the start of the channel.    *)
(***************************************************************************)

\* The order of the numbers, as the relation the library's theorems take.
LEMMA LessIsWellFounded ==
  IsWellFoundedOn({ss \in Nat \X Nat : ss[1] < ss[2]}, Nat)
<1>1. OpToRel(<, Nat) = {ss \in Nat \X Nat : ss[1] < ss[2]}
  BY DEF OpToRel
<1> QED
  BY <1>1, NatLessThanWellFounded

\* One of the accounts of a set is walked first.
LEMMA FirstOfSet ==
  ASSUME TypeOK, NEW S \in SUBSET Ids, S # {}
  PROVE  First(S) \in S /\ \A b \in S : order[First(S)] <= order[b]
<1> DEFINE places == {order[a] : a \in S}
<1>1. order \in [Ids -> Nat] /\ places \subseteq Nat /\ places # {}
  BY AccountsAssumption DEF TypeOK
<1>2. PICK m \in places : \A n \in places : ~ (<<n, m>> \in {ss \in Nat \X Nat : ss[1] < ss[2]})
  BY <1>1, LessIsWellFounded, WFMin, Zenon
<1>3. \A n \in places : m <= n
  <2>1. \A n \in places : ~ (n < m)
    BY <1>1, <1>2
  <2> QED BY <1>1, <2>1
<1>4. \E a \in S : \A b \in S : order[a] <= order[b]
  BY <1>3
<1> QED BY <1>4 DEF First

LEMMA AnyOfSet == ASSUME NEW S, S # {} PROVE AnyOf(S) \in S
BY DEF AnyOf

\* What a look-up finds: an active account of the bot, the first of them.
LEMMA FindBotFinds ==
  ASSUME TypeOK, NEW b
  PROVE  LET f == FindBot(b) IN
         /\ f # None => /\ b # None /\ f \in Ids
                        /\ mem[f].status = "active" /\ mem[f].bot = b
                        /\ \A a \in Ids : mem[a].status = "active" /\ mem[a].bot = b =>
                             order[f] <= order[a]
         /\ f = None /\ b # None =>
              \A a \in Ids : mem[a].status = "active" => mem[a].bot # b
<1> DEFINE found == {a \in Active(mem) : mem[a].bot = b}
<1>1. CASE b = None \/ found = {}
  BY <1>1 DEF FindBot, Active
<1>2. CASE b # None /\ found # {}
  <2>1. FindBot(b) = First(found) /\ found \in SUBSET Ids
    BY <1>2 DEF FindBot, Active
  <2>2. FindBot(b) \in found /\ \A a \in found : order[FindBot(b)] <= order[a]
    BY <1>2, <2>1, FirstOfSet
  <2>3. None \notin Ids
    BY AccountsAssumption
  <2> QED
    BY <1>2, <2>1, <2>2, <2>3 DEF Active
<1> QED
  BY <1>1, <1>2

LEMMA FindBotType ==
  ASSUME TypeOK, NEW b
  PROVE  FindBot(b) \in Ids \cup {None} /\ (FindBot(b) # None => Known(mem, FindBot(b)))
<1> DEFINE found == {a \in Active(mem) : mem[a].bot = b}
<1>1. CASE b = None \/ found = {}
  BY <1>1 DEF FindBot
<1>2. CASE b # None /\ found # {}
  <2>1. FindBot(b) \in found
    BY <1>2, FirstOfSet DEF FindBot, Active
  <2> QED
    BY <2>1 DEF Active, Known
<1> QED
  BY <1>1, <1>2

\* A task that leaves the registration alone.
LEMMA LoginStays == job'["login"] = job["login"] => LoginMoves
BY DEF LoginMoves, Login

LEMMA WaitersStay ==
  ASSUME IInv
  PROVE  \A s \in Sessions : waiting[s] > 0 => session[s].state # "none"
BY DEF IInv, SessionInv

LEMMA StartChannelKeeps ==
  ASSUME IInv, StartChannel
  PROVE  IInv'
<1>1. TypeOK'
  BY DEF StartChannel, IInv, TypeOK, Job, Starters, registry, requests, history
<1>2. Up /\ Up'
  BY DEF StartChannel, Up
<1>3. job'["login"] = job["login"]
  BY DEF StartChannel, IInv, TypeOK, Starters
<1> USE DEF StartChannel, registry, requests, history
<1>4. Login' = Login /\ (HasToken' <=> HasToken) /\ (Registered' <=> Registered)
        /\ (Busy' <=> Busy)
  BY <1>3 DEF Login, HasToken, Registered, Busy
<1>5. Idle' /\ TokenInv'
  BY <1>2, <1>4 DEF IInv, Idle, TokenInv, Known, Mishap
<1>6. FileInv' /\ BornInv' /\ GoneInv' /\ AnswersSurvive' /\ SessionInv'
  BY <1>2, <1>4 DEF IInv, FileInv, BornInv, GoneInv, AnswersSurvive, SessionInv,
                    Known, Mishap
<1>7. ScanInv' /\ OneOf(mem)' /\ OneOf(file)'
  BY <1>4 DEF IInv, ScanInv, Settled, OneOf, Active, Cut, Mishap
<1> QED
  BY <1>1, <1>5, <1>6, <1>7 DEF IInv

LEMMA ListAccountsKeeps ==
  ASSUME IInv, ListAccounts
  PROVE  IInv'
<1>1. TypeOK'
  BY DEF ListAccounts, Active, IInv, TypeOK, Job, Starters, registry, requests, history
<1>2. Up
  BY DEF ListAccounts, IInv, Idle, Starters
<1>3. job'["login"] = job["login"]
  BY DEF ListAccounts, IInv, TypeOK, Starters
<1>4. Calm
  BY <1>2, <1>3, LoginStays, WaitersStay
     DEF Calm, ListAccounts, registry, requests, history, IInv, GoneInv
<1> QED
  BY <1>1, <1>4, CalmKeeps

LEMMA StartNextKeeps ==
  ASSUME IInv, StartNext
  PROVE  IInv'
<1>1. TypeOK'
  <2>1. LegacyId \in Ids
    BY AccountsAssumption
  <2> QED
    BY <2>1 DEF StartNext, NoJob, IInv, TypeOK, Job, Starters, registry, requests,
                history
<1>2. Up
  BY DEF StartNext, IInv, Idle, Starters
<1>3. job'["login"] = job["login"]
  BY DEF StartNext, IInv, TypeOK, Starters
<1>4. Calm
  BY <1>2, <1>3, LoginStays, WaitersStay
     DEF Calm, StartNext, registry, requests, history, IInv, GoneInv
<1> QED
  BY <1>1, <1>4, CalmKeeps

LEMMA AskStatusKeeps ==
  ASSUME IInv, NEW s \in Sessions, AskStatus(s)
  PROVE  IInv'
<1>1. TypeOK'
  BY DEF AskStatus, IInv, TypeOK, registry, history, tasks
<1>2. job' = job /\ runner' = runner /\ removal' = removal
  BY DEF AskStatus, tasks
<1>3. \A t \in Sessions : waiting'[t] > 0 => session[t].state # "none"
  BY DEF AskStatus, IInv, SessionInv, TypeOK
<1>4. Calm
  BY <1>2, <1>3, LoginStays
     DEF Calm, AskStatus, registry, history, IInv, GoneInv
<1> QED
  BY <1>1, <1>4, CalmKeeps

LEMMA PruneListKeeps ==
  ASSUME IInv, NEW p \in Pruners, PruneList(p)
  PROVE  IInv'
<1>1. TypeOK'
  BY DEF PruneList, Active, IInv, TypeOK, registry, requests, history
<1>2. Calm
  BY LoginStays, WaitersStay
     DEF Calm, PruneList, registry, requests, history, IInv, GoneInv
<1> QED
  BY <1>1, <1>2, CalmKeeps

LEMMA LearnBotKeeps ==
  ASSUME IInv, NEW r \in Runners, LearnBot(r)
  PROVE  IInv'
<1>1. TypeOK'
  BY DEF LearnBot, IInv, TypeOK, Runner, registry, requests, history, tasks
<1>2. Up
  BY DEF LearnBot, IInv, Idle
<1>3. Calm
  BY <1>2, LoginStays, WaitersStay
     DEF Calm, LearnBot, registry, requests, history, tasks, IInv, GoneInv
<1> QED
  BY <1>1, <1>3, CalmKeeps

LEMMA QuitKeeps ==
  ASSUME IInv, NEW r \in Runners, Quit(r)
  PROVE  IInv'
<1>1. TypeOK'
  BY AccountsAssumption
     DEF Quit, Off, IInv, TypeOK, Runner, registry, requests, history, tasks
<1>2. Up
  BY DEF Quit, IInv, Idle
<1>3. Calm
  BY <1>2, LoginStays, WaitersStay
     DEF Calm, Quit, registry, requests, history, tasks, IInv, GoneInv
<1> QED
  BY <1>1, <1>3, CalmKeeps

LEMMA ToldType ==
  ASSUME IInv, NEW r \in Runners
  PROVE  Told(r) \in [Runners -> Runner]
<1>1. runner \in [Runners -> Runner]
  BY DEF IInv, TypeOK
<1>2. [runner[r] EXCEPT !.stop = TRUE] \in Runner
  BY <1>1 DEF Runner
<1> QED
  BY <1>1, <1>2 DEF Told

LEMMA GotoType ==
  ASSUME IInv, NEW pc \in {"token", "insert", "stop", "spawn", "put", "note"}
  PROVE  /\ Goto(pc) \in [Starters -> Job] /\ Goto(pc)["login"].pc = pc
         /\ Goto(pc)["login"].id = Login.id /\ Goto(pc)["login"].s = Login.s
<1>1. job \in [Starters -> Job] /\ "login" \in Starters
  BY DEF IInv, TypeOK, Starters
<1>2. [job["login"] EXCEPT !.pc = pc] \in Job
  BY <1>1 DEF Job
<1> QED
  BY <1>1, <1>2 DEF Goto, Login, Job

LEMMA PruneApplyKeeps ==
  ASSUME IInv, NEW p \in Pruners, PruneApply(p)
  PROVE  IInv'
<1> DEFINE stale == {a \in Ids : slot[a] # None /\ a \notin pruning[p]}
<1>1. /\ slot' \in [Ids -> Runners \cup {None}]
      /\ pruning' \in [Pruners -> (SUBSET Ids) \cup {None}]
      /\ mishaps' = mishaps \cup ({"pruned"} \X (stale \cap Active(mem)))
  BY DEF PruneApply, IInv, TypeOK
<1>2. runner' \in [Runners -> Runner]
        /\ \A r \in Runners : runner'[r].pc = runner[r].pc
  <2>1. \A r \in Runners :
          /\ runner[r] \in Runner /\ [runner[r] EXCEPT !.stop = TRUE] \in Runner
          /\ [runner[r] EXCEPT !.stop = TRUE].pc = runner[r].pc
    <3>1. runner \in [Runners -> Runner]
      BY DEF IInv, TypeOK
    <3> QED
      BY <3>1 DEF Runner
  <2>2. runner' = [r \in Runners |-> IF \E a \in stale : slot[a] = r
                     THEN [runner[r] EXCEPT !.stop = TRUE] ELSE runner[r]]
    BY DEF PruneApply
  <2> HIDE DEF stale
  <2> QED
    BY <2>1, <2>2
<1>3. mishaps \subseteq mishaps' /\ mishaps' \subseteq Mishaps \X Ids
  BY <1>1 DEF IInv, TypeOK, Mishaps
<1>4. UNCHANGED <<phase, mem, file, token, order, born, session, scan, waiting, promised,
                  gone, asked, job, todo, removal, ends>>
  BY DEF PruneApply, registry, requests, history
<1>5. TypeOK'
  <2>1. pruning' \in [Pruners -> (SUBSET Ids) \cup {None}]
    BY <1>1
  <2>2. /\ slot' \in [Ids -> Runners \cup {None}]
        /\ runner' \in [Runners -> Runner] /\ mishaps' \subseteq Mishaps \X Ids
    BY <1>1, <1>2, <1>3
  <2>3. TypeOK
    BY DEF IInv
  <2> QED
    BY <1>4, <2>1, <2>2, <2>3 DEF TypeOK
<1>6. CASE Up
  <2>1. Calm
    BY <1>3, <1>4, <1>6, LoginStays, WaitersStay DEF Calm, IInv, GoneInv
  <2> QED
    BY <1>5, <2>1, CalmKeeps
<1>7. CASE ~Up
  <2>1. Idle'
    BY <1>2, <1>4 DEF IInv, Idle, Up, Known
  <2>2. \A k, a : Mishap(k, a) => Mishap(k, a)'
    BY <1>3 DEF Mishap
  <2>3. Login' = Login /\ (HasToken' <=> HasToken) /\ (Registered' <=> Registered)
          /\ (Busy' <=> Busy) /\ (Up' <=> Up)
    BY <1>4 DEF Login, HasToken, Registered, Busy, Up
  <2>4. TokenInv' /\ FileInv' /\ BornInv' /\ GoneInv' /\ AnswersSurvive'
    BY <1>4, <2>2, <2>3 DEF IInv, TokenInv, FileInv, BornInv, GoneInv,
                            AnswersSurvive, Known
  <2>5. SessionInv' /\ ScanInv' /\ OneOf(mem)' /\ OneOf(file)'
    BY <1>4, <2>2, <2>3 DEF IInv, SessionInv, ScanInv, Settled, OneOf, Active, Cut
  <2> QED
    BY <1>5, <2>1, <2>4, <2>5 DEF IInv
<1> QED
  BY <1>6, <1>7

LEMMA RemoveSlotKeeps ==
  ASSUME IInv, NEW a \in Ids, RemoveSlot(a)
  PROVE  IInv'
<1>1. /\ slot' \in [Ids -> Runners \cup {None}] /\ runner' \in [Runners -> Runner]
  BY ToldType DEF RemoveSlot, IInv, TypeOK
<1>2. TypeOK'
  BY <1>1 DEF RemoveSlot, IInv, TypeOK, registry, requests
<1>3. Calm
  BY LoginStays, WaitersStay
     DEF Calm, RemoveSlot, registry, requests, Known
<1> QED
  BY <1>2, <1>3, CalmKeeps

LEMMA StopOldKeeps ==
  ASSUME IInv, StopOld
  PROVE  IInv'
<1>1. job \in [Starters -> Job] /\ Login \in Job /\ Login.pc = "stop" /\ Login.id \in Ids
        /\ "login" \in Starters
  BY DEF StopOld, IInv, TypeOK, Login, Starters, Job
<1>2. PICK pc \in {"spawn", "note"} : job' = Goto(pc)
  BY DEF StopOld
<1>3. /\ job' \in [Starters -> Job] /\ Login'.pc = pc
      /\ Login'.id = Login.id /\ Login'.s = Login.s
  BY <1>2, GotoType DEF Login
<1>4. /\ slot' \in [Ids -> Runners \cup {None}] /\ runner' \in [Runners -> Runner]
  BY <1>1, ToldType DEF StopOld, IInv, TypeOK
<1>5. TypeOK'
  BY <1>3, <1>4 DEF StopOld, IInv, TypeOK, registry, requests, history
<1>6. Up
  BY <1>1 DEF IInv, Idle, Login
<1>7. LoginMoves
  BY <1>1, <1>3 DEF LoginMoves, Registered
<1>8. Calm
  BY <1>6, <1>7, WaitersStay
     DEF Calm, StopOld, registry, requests, history, IInv, GoneInv
<1> QED
  BY <1>5, <1>8, CalmKeeps

LEMMA DropRequestKeeps ==
  ASSUME IInv, DropRequest
  PROVE  IInv'
<1>1. job \in [Starters -> Job] /\ Login.id \in Ids /\ "login" \in Starters
        /\ Registered
  BY DEF DropRequest, Registered, IInv, TypeOK, Login, Starters, Job
<1>2. job' \in [Starters -> Job] /\ Login'.pc = "off"
  BY <1>1, AccountsAssumption DEF DropRequest, LoginEnds, NoJob, Login, Job
<1>3. mishaps' = mishaps \cup {<<"dropped", Login.id>>}
        /\ mishaps' \subseteq Mishaps \X Ids
  BY <1>1 DEF DropRequest, IInv, TypeOK, Mishaps
<1>4. TypeOK'
  BY <1>2, <1>3 DEF DropRequest, IInv, TypeOK, registry, requests, history
<1>5. Up
  BY <1>1 DEF IInv, Idle, Login, Registered
<1>6. LoginMoves
  BY <1>1, <1>2, <1>3 DEF LoginMoves
<1>7. Calm
  BY <1>3, <1>5, <1>6, WaitersStay
     DEF Calm, DropRequest, registry, requests, history, IInv, GoneInv
<1> QED
  BY <1>4, <1>7, CalmKeeps

\* What becomes of the registration when start_runner has ended.
LEMMA StarterMoves ==
  ASSUME IInv, NEW x \in Starters, job[x].pc \in {"spawn", "put"},
         \/ job' = StarterGoesOn(x)
         \/ job' = StarterFails(x) /\ mem[job[x].id].status # "active"
         \/ \E r \in Runners : job' = [job EXCEPT ![x].pc = "put", ![x].run = r]
  PROVE  job' \in [Starters -> Job] /\ LoginMoves
<1>1. job \in [Starters -> Job] /\ "login" \in Starters /\ NoJob \in Job
        /\ NoJob.pc = "off" /\ [NoJob EXCEPT !.pc = "next"] \in Job
  BY AccountsAssumption DEF IInv, TypeOK, Starters, NoJob, Job
<1>2. CASE x # "login"
  <2>1. job' \in [Starters -> Job] /\ job'["login"] = job["login"]
    BY <1>1, <1>2 DEF StarterGoesOn, StarterFails, Job
  <2> QED
    BY <2>1, LoginStays
<1>3. CASE x = "login"
  <2>1. Registered /\ Login = job[x]
    BY <1>3 DEF Registered, Login
  <2>2. CASE job' = StarterGoesOn(x)
    <3>1. /\ job' \in [Starters -> Job] /\ Login'.pc = "note"
          /\ Login'.id = Login.id /\ Login'.s = Login.s
      BY <1>1, <1>3, <2>2 DEF StarterGoesOn, Goto, Login, Job
    <3> QED
      BY <2>1, <3>1 DEF LoginMoves, Registered
  <2>3. CASE job' = StarterFails(x) /\ mem[job[x].id].status # "active"
    BY <1>1, <1>3, <2>1, <2>3 DEF StarterFails, Login, LoginMoves
  <2>4. ASSUME NEW r \in Runners,
               job' = [job EXCEPT ![x].pc = "put", ![x].run = r]
        PROVE  job' \in [Starters -> Job] /\ LoginMoves
    <3>1. /\ job' \in [Starters -> Job] /\ Login'.pc = "put"
          /\ Login'.id = Login.id /\ Login'.s = Login.s
      <4>1. [job["login"] EXCEPT !.pc = "put", !.run = r] \in Job
        BY <1>1 DEF Job
      <4>2. job' = [job EXCEPT !["login"] =
                      [job["login"] EXCEPT !.pc = "put", !.run = r]]
        BY <1>1, <1>3, <2>4
      <4> QED
        BY <1>1, <4>1, <4>2 DEF Login, Job
    <3> QED
      BY <2>1, <3>1 DEF LoginMoves, Registered
  <2> QED
    BY <2>2, <2>3, <2>4
<1> QED
  BY <1>2, <1>3

LEMMA SpawnKeeps ==
  ASSUME IInv, NEW x \in Starters, Spawn(x)
  PROVE  IInv'
<1> DEFINE a == job[x].id
           new == slot[a] = None /\ mem[a].status = "active" /\ token[a] # None
           r == AnyOf(Free)
<1>1. /\ job[x].pc = "spawn" /\ a \in Ids
      /\ UNCHANGED <<phase, mem, file, token, slot, session, scan, waiting, todo>>
      /\ UNCHANGED <<order, removal, pruning, born, promised, asked, gone, ends>>
  BY DEF Spawn, registry, requests, history, IInv, TypeOK, Job
<1>2. Up
  BY <1>1 DEF IInv, Idle
<1>3. CASE ~new \/ slot[a] # None
  <2>1. /\ runner' = runner /\ mishaps' = mishaps
        /\ \/ job' = StarterGoesOn(x)
           \/ job' = StarterFails(x) /\ (mem[a].status # "active" \/ token[a] = None)
    BY <1>3 DEF Spawn
  <2>2. job' \in [Starters -> Job] /\ LoginMoves
    <3>1. CASE job' = StarterFails(x) /\ x # "login" /\ token[a] = None
      <4>1. /\ job \in [Starters -> Job] /\ "login" \in Starters
            /\ [NoJob EXCEPT !.pc = "next"] \in Job
        BY AccountsAssumption DEF IInv, TypeOK, Starters, NoJob, Job
      <4>2. job' \in [Starters -> Job] /\ job'["login"] = job["login"]
        BY <3>1, <4>1 DEF StarterFails
      <4> QED
        BY <4>2, LoginStays
    <3>2. CASE x = "login"
      BY <1>1, <2>1, <3>2, StarterMoves DEF HasToken, Login, IInv, TokenInv
    <3> QED
      BY <1>1, <2>1, <3>1, <3>2, StarterMoves
  <2>3. TypeOK'
    <3>1. TypeOK
      BY DEF IInv
    <3> QED
      BY <1>1, <2>1, <2>2, <3>1 DEF TypeOK
  <2>4. Calm
    BY <1>1, <1>2, <2>1, <2>2, WaitersStay DEF Calm, IInv, GoneInv
  <2> QED
    BY <2>3, <2>4, CalmKeeps
<1>4. CASE new /\ slot[a] = None
  <2>1. /\ Free # {}
        /\ runner' = [runner EXCEPT ![r] =
                        [Off EXCEPT !.pc = "poll", !.acct = a,
                                    !.bot = BotOf[token[a]]]]
        /\ job' = [job EXCEPT ![x].pc = "put", ![x].run = r]
    BY <1>4 DEF Spawn
  <2>2. r \in Runners
    BY <2>1, AnyOfSet DEF Free
  <2>3. job' \in [Starters -> Job] /\ LoginMoves
    <3> HIDE DEF r
    <3> QED
      BY <1>1, <2>1, <2>2, StarterMoves
  <2>4. runner' \in [Runners -> Runner]
    <3>1. token[a] \in Tokens /\ runner \in [Runners -> Runner]
      BY <1>1, <1>4 DEF IInv, TypeOK
    <3>2. BotOf[token[a]] \in Bots
      BY <3>1, AccountsAssumption
    <3>3. [Off EXCEPT !.pc = "poll", !.acct = a, !.bot = BotOf[token[a]]] \in Runner
      BY <1>1, <3>2 DEF Off, Runner
    <3> QED
      BY <2>1, <3>1, <3>3
  <2>5. mishaps \subseteq mishaps' /\ mishaps' \subseteq Mishaps \X Ids
    <3>1. /\ mishaps' = mishaps
                \cup {<<"doubled", b>> : b \in {c \in {a} : OtherStarts(x)}}
                \cup {<<"overlap", b>> : b \in {c \in {a} : Alive(c)}}
      BY <1>4 DEF Spawn
    <3>2. mishaps \subseteq Mishaps \X Ids
      BY DEF IInv, TypeOK
    <3> HIDE DEF a
    <3> QED
      BY <1>1, <3>1, <3>2 DEF Mishaps
  <2>6. TypeOK'
    <3>1. TypeOK
      BY DEF IInv
    <3> QED
      BY <1>1, <2>3, <2>4, <2>5, <3>1 DEF TypeOK
  <2>7. Calm
    BY <1>1, <1>2, <2>3, <2>5, WaitersStay DEF Calm, IInv, GoneInv
  <2> QED
    BY <2>6, <2>7, CalmKeeps
<1> QED
  BY <1>3, <1>4

LEMMA PutRunnerKeeps ==
  ASSUME IInv, NEW x \in Starters, PutRunner(x)
  PROVE  IInv'
<1>1. /\ job[x].pc = "put" /\ job[x].run \in Runners \cup {None}
      /\ job' = StarterGoesOn(x)
  BY DEF PutRunner, IInv, TypeOK, Job
<1>2. Up
  BY <1>1 DEF IInv, Idle
<1>3. job' \in [Starters -> Job] /\ LoginMoves
  BY <1>1, StarterMoves
<1>4. slot' \in [Ids -> Runners \cup {None}]
  BY <1>1 DEF PutRunner, IInv, TypeOK
<1>5. UNCHANGED <<phase, mem, file, token, order, runner, session, scan, waiting, todo,
                  removal, pruning, born, promised, asked, gone, mishaps, ends>>
  BY DEF PutRunner, registry, requests, history
<1>6. TypeOK'
  <2>1. TypeOK
    BY DEF IInv
  <2> QED
    BY <1>3, <1>4, <1>5, <2>1 DEF TypeOK
<1>7. Calm
  BY <1>2, <1>3, <1>5, WaitersStay DEF Calm, IInv, GoneInv
<1> QED
  BY <1>6, <1>7, CalmKeeps

-----------------------------------------------------------------------------
(***************************************************************************)
(* What disables, names and merges accounts.                               *)
(***************************************************************************)

LEMMA DisableShape ==
  ASSUME IInv, NEW a \in Ids, Disable(a)
  PROVE  /\ mem' \in [Ids -> Entry] /\ file' = mem'
         /\ mem'[a].status \in {"none", "disabled"}
         /\ Known(mem, a) => mem'[a].status = "disabled"
         /\ \A b \in Ids : \/ mem'[b].status = mem[b].status
                           \/ mem[b].status # "none" /\ mem'[b].status = "disabled"
<1>1. mem \in [Ids -> Entry]
  BY DEF IInv, TypeOK
<1>2. [mem[a] EXCEPT !.status = "disabled"] \in Entry
        /\ [mem[a] EXCEPT !.status = "disabled"].status = "disabled"
  BY <1>1 DEF Entry
<1> QED
  BY <1>1, <1>2 DEF Disable, Save, Known

LEMMA DisableRemovedKeeps ==
  ASSUME IInv, DisableRemoved
  PROVE  IInv'
<1>1. /\ removal \in Ids /\ Known(mem, removal) /\ Disable(removal)
      /\ gone' = gone \cup {removal} /\ removal' = None
      /\ UNCHANGED <<phase, token, slot, runner, session, scan, waiting, job, todo>>
      /\ UNCHANGED <<order, pruning, born, promised, asked, mishaps, ends>>
  BY DEF DisableRemoved, requests, IInv, TypeOK, GoneInv
<1>2. Up
  BY DEF DisableRemoved, IInv, Idle
<1>3. /\ mem' \in [Ids -> Entry] /\ file' = mem'
      /\ mem'[removal].status = "disabled"
      /\ \A b \in Ids : \/ mem'[b].status = mem[b].status
                        \/ mem[b].status # "none" /\ mem'[b].status = "disabled"
  BY <1>1, DisableShape
<1>4. TypeOK'
  <2>1. TypeOK
    BY DEF IInv
  <2> QED
    BY <1>1, <1>3, <2>1 DEF TypeOK
<1>5. Rewrites
  BY <1>1, <1>2, <1>3 DEF Rewrites
<1> QED
  BY <1>4, <1>5, RewriteKeeps

LEMMA RetireKeeps ==
  ASSUME IInv, NEW r \in Runners, Retire(r)
  PROVE  IInv'
<1>1. /\ runner[r].acct \in Ids /\ Disable(runner[r].acct) /\ runner[r].pc = "retire"
      /\ UNCHANGED <<phase, token, slot, session, scan, waiting, job, todo, removal>>
      /\ UNCHANGED <<order, pruning, born, promised, asked, gone, mishaps, ends>>
  BY DEF Retire, requests, tasks, history, IInv, TypeOK, Runner
<1>2. Up
  BY <1>1 DEF IInv, Idle
<1>3. /\ mem' \in [Ids -> Entry] /\ file' = mem'
      /\ \A b \in Ids : \/ mem'[b].status = mem[b].status
                        \/ mem[b].status # "none" /\ mem'[b].status = "disabled"
  BY <1>1, DisableShape
<1>4. runner' \in [Runners -> Runner]
  BY AccountsAssumption DEF Retire, Off, Runner, IInv, TypeOK
<1>5. TypeOK'
  <2>1. TypeOK
    BY DEF IInv
  <2> QED
    BY <1>1, <1>3, <1>4, <2>1 DEF TypeOK
<1>6. Rewrites
  BY <1>1, <1>2, <1>3 DEF Rewrites
<1> QED
  BY <1>5, <1>6, RewriteKeeps

LEMMA NameBotKeeps ==
  ASSUME IInv, NEW r \in Runners, NameBot(r)
  PROVE  IInv'
<1>1. /\ runner[r].pc = "name" /\ runner[r] \in Runner
      /\ runner[r].acct \in Ids /\ runner[r].bot \in Bots \cup {None}
      /\ UNCHANGED <<phase, token, slot, session, scan, waiting, job, todo, removal>>
      /\ UNCHANGED <<order, pruning, born, promised, asked, gone, mishaps, ends>>
      /\ mem \in [Ids -> Entry] /\ runner \in [Runners -> Runner]
  BY DEF NameBot, requests, tasks, history, IInv, TypeOK, Runner
<1>2. Up
  BY <1>1 DEF IInv, Idle
<1>3. /\ mem' \in [Ids -> Entry] /\ file' = mem'
      /\ \A b \in Ids : mem'[b].status = mem[b].status
  BY <1>1 DEF NameBot, Save, Entry
<1>4. runner' \in [Runners -> Runner]
  BY <1>1 DEF NameBot, Runner
<1>5. TypeOK'
  <2>1. TypeOK
    BY DEF IInv
  <2> QED
    BY <1>1, <1>3, <1>4, <2>1 DEF TypeOK
<1>6. Rewrites
  BY <1>1, <1>2, <1>3 DEF Rewrites
<1> QED
  BY <1>5, <1>6, RewriteKeeps

LEMMA MergeTokenKeeps ==
  ASSUME IInv, NEW r \in Runners, MergeToken(r)
  PROVE  IInv'
<1> DEFINE a == FindBot(runner[r].bot)
<1>1. /\ runner[r].pc = "poll" /\ runner[r] \in Runner /\ runner[r].acct \in Ids
      /\ UNCHANGED <<phase, mem, file, slot, session, scan, waiting, job, todo>>
      /\ UNCHANGED <<order, removal, pruning, born, promised, asked, gone, mishaps, ends>>
      /\ runner \in [Runners -> Runner] /\ token \in [Ids -> Tokens \cup {None}]
  BY DEF MergeToken, Merges, requests, tasks, history, IInv, TypeOK, Runner
<1>2. Up
  BY <1>1 DEF IInv, Idle
<1>3. runner' \in [Runners -> Runner]
  BY <1>1 DEF MergeToken, Runner
<1>4. /\ token' \in [Ids -> Tokens \cup {None}]
      /\ \A b \in Ids : token[b] # None => token'[b] # None
  <2>1. token' = [token EXCEPT ![a] = IF token[runner[r].acct] = None THEN @
                                      ELSE token[runner[r].acct]]
    BY DEF MergeToken
  <2> HIDE DEF a
  <2> QED
    BY <1>1, <2>1
<1>5. TypeOK'
  <2>1. TypeOK
    BY DEF IInv
  <2> QED
    BY <1>1, <1>3, <1>4, <2>1 DEF TypeOK
<1>6. Calm
  BY <1>1, <1>2, <1>4, LoginStays, WaitersStay DEF Calm, IInv, GoneInv
<1> QED
  BY <1>5, <1>6, CalmKeeps

-----------------------------------------------------------------------------
(***************************************************************************)
(* The registration.                                                       *)
(***************************************************************************)

LEMMA TakeLockKeeps ==
  ASSUME IInv, NEW s \in Sessions, TakeLock(s)
  PROVE  IInv'
<1>1. /\ Login.pc = "off" /\ waiting[s] > 0
      /\ UNCHANGED <<phase, mem, file, token, slot, runner, session, scan, todo>>
      /\ UNCHANGED <<order, removal, pruning, born, promised, asked, gone, mishaps, ends>>
      /\ waiting' = [waiting EXCEPT ![s] = @ - 1]
      /\ waiting \in [Sessions -> 0 .. 2] /\ job \in [Starters -> Job]
      /\ "login" \in Starters
  BY DEF TakeLock, registry, history, IInv, TypeOK, Starters
<1>2. /\ waiting' \in [Sessions -> 0 .. 2]
      /\ \A t \in Sessions : waiting'[t] > 0 => waiting[t] > 0
  BY <1>1
<1>3. session[s].state # "none" /\ Up
  BY <1>1 DEF IInv, SessionInv, Idle
<1>4. CASE job' = job
  <2>1. TypeOK'
    <3>1. TypeOK
      BY DEF IInv
    <3> QED
      BY <1>1, <1>2, <1>4, <3>1 DEF TypeOK
  <2>2. Calm
    BY <1>1, <1>2, <1>3, <1>4, LoginStays, WaitersStay DEF Calm, IInv, GoneInv
  <2> QED
    BY <2>1, <2>2, CalmKeeps
<1>5. ASSUME NEW a \in AccountFor(s), NeedsAccount(s),
             job' = [job EXCEPT !["login"] =
                       [NoJob EXCEPT !.pc = "token", !.s = s, !.id = a]]
      PROVE  IInv'
  <2>1. /\ a \in Ids
        /\ ~Known(mem, a) => born[a] = None /\ a # LegacyId
    <3>1. CASE FindBot(NamedBot(s)) # None
      BY <3>1, FindBotType DEF AccountFor, IInv
    <3>2. CASE FindBot(NamedBot(s)) = None
      BY <3>2 DEF AccountFor, Unused
    <3> QED
      BY <3>1, <3>2
  <2>2. [NoJob EXCEPT !.pc = "token", !.s = s, !.id = a] \in Job
    BY <2>1 DEF NoJob, Job
  <2>3. /\ job' \in [Starters -> Job] /\ Login'.pc = "token"
        /\ Login'.s = s /\ Login'.id = a
    BY <1>1, <1>5, <2>2 DEF NoJob, Login
  <2>4. TypeOK'
    <3>1. TypeOK
      BY DEF IInv
    <3> QED
      BY <1>1, <1>2, <2>3, <3>1 DEF TypeOK
  <2>5. Idle' /\ TokenInv' /\ FileInv'
    BY <1>1, <1>3, <2>3 DEF IInv, Idle, TokenInv, FileInv, HasToken, Known, Up,
                            Mishap
  <2>6. BornInv' /\ GoneInv' /\ AnswersSurvive'
    BY <1>1, <2>1, <2>3 DEF IInv, BornInv, GoneInv, AnswersSurvive, Registered,
                            Known, Mishap
  <2>7. SessionInv'
    BY <1>1, <1>2, <1>3, <2>3 DEF IInv, SessionInv, Busy
  <2>8. \A t \in Sessions, b \in Active(mem) : born[b] = t =>
          \/ session[t].state \in {"none", "dropped"}
          \/ session[t].account # None \/ Cut(b)
    BY <1>1 DEF IInv, ScanInv, Settled, Registered
  <2>9. \A b \in Active(mem) : born[b] = s => Cut(b)
    BY <1>3, <1>5, <2>8 DEF NeedsAccount
  <2>10. ScanInv'
    BY <1>1, <2>3, <2>8, <2>9 DEF ScanInv, Settled, Active, Cut, Mishap
  <2>11. OneOf(mem)' /\ OneOf(file)'
    BY <1>1 DEF IInv, OneOf, Active, Cut, Mishap
  <2> QED
    BY <2>4, <2>5, <2>6, <2>7, <2>10, <2>11 DEF IInv
<1> QED
  BY <1>4, <1>5 DEF TakeLock

LEMMA SaveTokenKeeps ==
  ASSUME IInv, SaveToken
  PROVE  IInv'
<1> DEFINE id == Login.id
<1>1. /\ Login.pc = "token" /\ id \in Ids /\ Login.s \in Sessions
      /\ token \in [Ids -> Tokens \cup {None}] /\ mem \in [Ids -> Entry]
      /\ UNCHANGED <<phase, mem, slot, runner, session, scan, waiting, todo>>
      /\ UNCHANGED <<order, removal, pruning, born, promised, asked, gone, mishaps, ends>>
      /\ token' = [token EXCEPT ![id] = Login.s]
  BY DEF SaveToken, requests, history, IInv, TypeOK, Job, Starters, Login,
         SessionInv, Busy
<1>2. /\ token' \in [Ids -> Tokens \cup {None}] /\ token'[id] # None
      /\ \A a \in Ids : token[a] # None => token'[a] # None
  BY <1>1, AccountsAssumption DEF Tokens
<1>3. PICK pc \in {"insert", "stop"} :
        /\ job' = Goto(pc) /\ (pc = "insert" <=> ~Known(mem, id))
        /\ file' = file \/ (file' = mem /\ pc = "stop")
  BY DEF SaveToken, Known
<1>4. /\ job' \in [Starters -> Job] /\ Login'.pc = pc
      /\ Login'.id = id /\ Login'.s = Login.s
  BY <1>3, GotoType DEF Login
<1>5. TypeOK'
  <2>1. TypeOK
    BY DEF IInv
  <2>2. file' \in [Ids -> Entry]
    BY <1>1, <1>3, <2>1 DEF TypeOK
  <2> QED
    BY <1>1, <1>2, <1>4, <2>1, <2>2 DEF TypeOK
<1>6. Up /\ Up'
  BY <1>1 DEF IInv, Idle, Login, Starters, Up
<1>7. \A a \in Ids : Known(file, a)' => Known(file, a) \/ Known(mem, a)
  BY <1>3 DEF Known
<1>8. Idle' /\ TokenInv'
  BY <1>1, <1>2, <1>4, <1>6, <1>7 DEF IInv, Idle, TokenInv, HasToken, Known, Mishap
<1>9. FileInv'
  BY <1>1, <1>3, <1>6 DEF IInv, FileInv, Known, Mishap
<1>10. BornInv'
  BY <1>1, <1>3, <1>4, <1>7 DEF IInv, BornInv, Registered, Known
<1>11. \A a \in gone : mem[a].status = "disabled"
  BY <1>1, <1>6 DEF IInv, GoneInv, FileInv, Known, TypeOK, Entry
<1>12. GoneInv'
  BY <1>1, <1>3, <1>11 DEF IInv, GoneInv, Known
<1>13. AnswersSurvive'
  BY <1>1, <1>3, <1>6, <1>11
     DEF IInv, AnswersSurvive, FileInv, TypeOK, Known, Mishap
<1>14. SessionInv'
  BY <1>1, <1>4 DEF IInv, SessionInv, Busy
<1>15. ScanInv'
  BY <1>1, <1>4
     DEF IInv, ScanInv, Settled, Registered, Busy, Active, Cut, Mishap
<1>16. OneOf(mem)' /\ OneOf(file)'
  BY <1>1, <1>3 DEF IInv, OneOf, Active, Cut, Mishap
<1> QED
  BY <1>5, <1>8, <1>9, <1>10, <1>12, <1>13, <1>14, <1>15, <1>16 DEF IInv

LEMMA InsertKeeps ==
  ASSUME IInv, Insert
  PROVE  IInv'
<1> DEFINE id == Login.id
           s == Login.s
<1>1. /\ Login.pc = "insert" /\ id \in Ids /\ s \in Sessions
      /\ born \in [Ids -> Tokens \cup {None}] /\ mem \in [Ids -> Entry]
      /\ UNCHANGED <<phase, token, slot, runner, session, scan, waiting, todo>>
      /\ order' \in Orders /\ UNCHANGED <<removal, pruning, promised, asked, gone, ends>>
      /\ born' = [born EXCEPT ![id] = s]
      /\ job \in [Starters -> Job] /\ "login" \in Starters
  BY DEF Insert, requests, IInv, TypeOK, Job, Starters, Login, SessionInv, Busy
<1>2. ~Known(mem, id) /\ ~Known(file, id) /\ born[id] = None /\ id # LegacyId
  BY <1>1 DEF IInv, BornInv
<1>3. /\ mem' \in [Ids -> Entry] /\ mem'[id].status = "active"
      /\ \A a \in Ids : a # id => mem'[a] = mem[a]
  <2>1. [status |-> "active", bot |-> NamedBot(s)] \in Entry
    BY <1>1, AccountsAssumption DEF NamedBot, Entry, Tokens
  <2> QED
    BY <1>1, <2>1 DEF Insert
<1>4. /\ born' \in [Ids -> Tokens \cup {None}] /\ born'[id] = s
      /\ \A a \in Ids : a # id => born'[a] = born[a]
      /\ s # None /\ s # Legacy
  BY <1>1, AccountsAssumption DEF Tokens
<1>5. /\ mishaps \subseteq mishaps' /\ mishaps' \subseteq Mishaps \X Ids
      /\ \/ /\ file' = mem' /\ job' = Goto("stop")
         \/ /\ file' = file /\ job' = LoginEnds
            /\ <<"unsaved", id>> \in mishaps'
  <2>1. Reordered \subseteq Mishaps \X Ids
    BY DEF Reordered, IInv, TypeOK, Runner, Mishaps
  <2> QED
    BY <1>1, <2>1 DEF Insert, Save, IInv, TypeOK, Mishaps
<1>6. /\ job' \in [Starters -> Job] /\ Login'.pc \in {"stop", "off"}
      /\ Login'.pc = "stop" => /\ Login'.id = id /\ Login'.s = s /\ file' = mem'
      /\ Login'.pc = "off" => file' = file /\ <<"unsaved", id>> \in mishaps'
  <2>1. CASE file' = mem' /\ job' = Goto("stop")
    BY <2>1, GotoType DEF Login
  <2>2. CASE file' = file /\ job' = LoginEnds /\ <<"unsaved", id>> \in mishaps'
    BY <1>1, <2>2, AccountsAssumption DEF LoginEnds, NoJob, Login, Job
  <2> QED
    BY <1>5, <2>1, <2>2
<1>7. Up /\ Up' /\ token[id] # None
  BY <1>1 DEF IInv, Idle, TokenInv, HasToken, Login, Up
<1>8. /\ \A a \in Ids : a # id /\ Known(file, a)' => Known(file, a) \/ Known(mem, a)
      /\ \A a \in Ids : a # id => (Known(mem, a)' <=> Known(mem, a))
      /\ Known(mem', id)
  <2>1. \A a \in Ids : a # id => (Known(mem, a)' <=> Known(mem, a))
    BY <1>3 DEF Known
  <2>2. Known(mem', id)
    BY <1>3 DEF Known
  <2>3. \A a \in Ids : a # id /\ Known(file, a)' => Known(file, a) \/ Known(mem, a)
    BY <1>3, <1>5 DEF Known
  <2> QED
    BY <2>1, <2>2, <2>3
<1>9. \A k, a : Mishap(k, a) => Mishap(k, a)'
  BY <1>5 DEF Mishap
<1>10. \A a \in Ids : Cut(a) => Cut(a)'
  BY <1>9 DEF Cut
<1> HIDE DEF id, s
<1>11. TypeOK'
  <2>1. TypeOK
    BY DEF IInv
  <2>2. file' \in [Ids -> Entry]
    BY <1>3, <1>5, <2>1 DEF TypeOK
  <2> QED
    BY <1>1, <1>3, <1>4, <1>5, <1>6, <2>1, <2>2 DEF TypeOK
<1>12. Idle' /\ TokenInv'
  <2>1. Idle'
    BY <1>7 DEF Idle
  <2>2. \A a \in Ids : Known(file, a)' \/ Known(mem, a)' =>
          token'[a] # None \/ Mishap("torn", a)'
    BY <1>1, <1>7, <1>8, <1>9 DEF IInv, TokenInv
  <2>3. HasToken' => token'[Login'.id] # None
    BY <1>1, <1>6, <1>7 DEF HasToken
  <2> QED
    BY <2>1, <2>2, <2>3 DEF TokenInv
<1>13. \A a \in Ids : Known(file, a) => a # id /\ Known(mem, a)
  BY <1>2, <1>7 DEF IInv, FileInv
<1>14. FileInv'
  <2> SUFFICES ASSUME NEW a \in Ids
               PROVE  /\ Known(mem, a)' => Known(file, a)' \/ Mishap("unsaved", a)'
                      /\ Known(file, a)' => Known(mem, a)'
    BY DEF FileInv
  <2>1. CASE file' = mem'
    BY <2>1 DEF Known
  <2>2. CASE file' = file /\ Login'.pc = "off"
    <3>1. Known(file, a)' <=> Known(file, a)
      BY <2>2 DEF Known
    <3>2. CASE a = id
      BY <1>6, <1>13, <2>2, <3>1, <3>2 DEF Mishap
    <3>3. CASE a # id
      BY <1>8, <1>9, <1>13, <3>1, <3>3 DEF IInv, FileInv
    <3> QED
      BY <3>2, <3>3
  <2> QED
    BY <1>6, <2>1, <2>2
<1>15. BornInv'
  <2>1. \A a \in Ids : Known(mem, a)' \/ Known(file, a)' => born'[a] # None
    BY <1>4, <1>8 DEF IInv, BornInv
  <2>2. \A a \in Ids : born'[a] = Legacy => a = LegacyId
    BY <1>4 DEF IInv, BornInv
  <2>3. Registered' => Known(mem, Login.id)'
    BY <1>6, <1>8 DEF Registered, Known
  <2> QED
    BY <1>6, <2>1, <2>2, <2>3 DEF BornInv
<1>16. GoneInv'
  <2>1. \A a \in gone : a \in Ids /\ a # id /\ mem[a].status = "disabled"
    BY <1>7, <1>13 DEF IInv, GoneInv, FileInv, Known, TypeOK, Entry
  <2>2. removal # None => Known(mem', removal)
    BY <1>8 DEF IInv, GoneInv, TypeOK, Known
  <2>3. \A a \in gone : file'[a].status = "disabled" /\ mem'[a].status # "active"
    BY <1>3, <1>5, <2>1 DEF IInv, GoneInv
  <2> QED
    BY <1>1, <2>2, <2>3 DEF GoneInv, Known
<1>17. AnswersSurvive'
  <2>1. \A a \in promised : Known(file, a)' \/ Mishap("unsaved", a)'
    <3>1. promised \subseteq Ids
      BY DEF IInv, TypeOK
    <3> QED
      BY <1>3, <1>5, <1>8, <1>9, <1>13, <3>1 DEF IInv, AnswersSurvive, Known
  <2> QED
    BY <1>1, <1>16, <2>1 DEF AnswersSurvive, GoneInv, Known
<1>18. SessionInv'
  <2>1. session[s].state # "none"
    BY <1>1 DEF IInv, SessionInv, Busy, s
  <2>2. scan[s] # "no"
    BY <1>1, <2>1 DEF IInv, SessionInv
  <2> QED
    BY <1>1, <1>4, <1>6, <2>1, <2>2 DEF IInv, SessionInv, Busy
<1>19. /\ \A a \in Active(mem)' : a \in Ids /\ (a # id => a \in Active(mem))
       /\ \A a \in Active(file)' : a \in Ids /\ (a # id => a \in Active(file) \cup Active(mem))
  BY <1>3, <1>5 DEF Active
<1>20. ScanInv'
  <2>1. ASSUME NEW t \in Sessions, NEW a \in Active(mem)', born'[a] = t
        PROVE  Settled(t, a)'
    <3>1. CASE a = id
      BY <1>1, <1>4, <1>6, <2>1, <3>1 DEF Settled, Registered, Cut, Mishap
    <3>2. CASE a # id
      <4>1. Settled(t, a) /\ ~Registered
        BY <1>1, <1>4, <1>19, <2>1, <3>2 DEF IInv, ScanInv, Registered
      <4> QED
        BY <1>1, <1>10, <1>19, <3>2, <4>1 DEF Settled
    <3> QED
      BY <3>1, <3>2
  <2>2. \A a \in Active(mem)' : born'[a] = s /\ a # id => Cut(a)'
    BY <1>1, <1>4, <1>10, <1>19 DEF IInv, ScanInv, Busy, s, id
  <2> QED
    BY <1>6, <2>1, <2>2 DEF ScanInv, Busy
<1>21. OneOf(mem)'
  <2> SUFFICES ASSUME NEW a \in Active(mem)', NEW b \in Active(mem)',
                      born'[a] = born'[b], a # b
               PROVE  Cut(a)' \/ Cut(b)'
    BY DEF OneOf
  <2>1. \A c \in Active(mem)' : born'[c] = s /\ c # id => Cut(c)'
    BY <1>1, <1>4, <1>10, <1>19 DEF IInv, ScanInv, Busy, s, id
  <2>2. CASE a = id \/ b = id
    BY <1>4, <2>1, <2>2
  <2>3. CASE a # id /\ b # id
    BY <1>4, <1>10, <1>19, <2>3 DEF IInv, OneOf
  <2> QED
    BY <2>2, <2>3
<1>22. OneOf(file)'
  <2>1. CASE file' = mem'
    BY <1>21, <2>1 DEF OneOf, Active
  <2>2. CASE file' = file
    <3>1. \A a \in Active(file) : a \in Ids /\ a # id
      BY <1>2 DEF Active, Known
    <3>2. Active(file)' = Active(file)
      BY <2>2 DEF Active
    <3> QED
      BY <1>4, <1>10, <3>1, <3>2 DEF IInv, OneOf
  <2> QED
    BY <1>5, <2>1, <2>2
<1> QED
  BY <1>11, <1>12, <1>14, <1>15, <1>16, <1>17, <1>18, <1>20, <1>21, <1>22 DEF IInv

LEMMA NoteAccountKeeps ==
  ASSUME IInv, NoteAccount
  PROVE  IInv'
<1> DEFINE id == Login.id
           s == Login.s
<1>1. /\ Login.pc = "note" /\ id \in Ids /\ s \in Sessions
      /\ UNCHANGED <<phase, mem, file, token, slot, runner, scan, waiting, todo>>
      /\ UNCHANGED <<order, removal, pruning, born, asked, gone, mishaps, ends>>
      /\ promised' = promised \cup {id} /\ job' = LoginEnds
      /\ job \in [Starters -> Job] /\ "login" \in Starters
      /\ session \in [Sessions -> Session]
  BY DEF NoteAccount, registry, IInv, TypeOK, Job, Starters, Login, SessionInv, Busy
<1>2. job' \in [Starters -> Job] /\ Login'.pc = "off"
  BY <1>1, AccountsAssumption DEF LoginEnds, NoJob, Login, Job
<1>3. /\ session' \in [Sessions -> Session]
      /\ \A t \in Sessions : /\ session'[t].state = session[t].state
                             /\ t # s => session'[t] = session[t]
      /\ session'[s].state = "dropped" \/ session'[s].account # None
  <2>1. session' = [session EXCEPT ![s].account =
                      IF session[s].state = "dropped" THEN @ ELSE id]
    BY DEF NoteAccount
  <2> HIDE DEF s, id
  <2> QED
    BY <1>1, <2>1, AccountsAssumption DEF Session
<1>4. Known(mem, id)
  BY <1>1 DEF IInv, BornInv, Registered
<1>5. Up /\ Up'
  BY <1>1 DEF IInv, Idle, Login, Up
<1>6. TypeOK'
  <2>1. TypeOK
    BY DEF IInv
  <2> QED
    BY <1>1, <1>2, <1>3, <2>1 DEF TypeOK
<1>7. Idle' /\ TokenInv' /\ FileInv'
  BY <1>1, <1>2, <1>5 DEF IInv, Idle, TokenInv, FileInv, HasToken, Known, Mishap
<1>8. BornInv' /\ GoneInv'
  BY <1>1, <1>2 DEF IInv, BornInv, GoneInv, Registered, Known
<1>9. AnswersSurvive'
  BY <1>1, <1>4 DEF IInv, AnswersSurvive, FileInv, Known, Mishap
<1>10. SessionInv'
  BY <1>1, <1>2, <1>3 DEF IInv, SessionInv, Busy
<1>11. ScanInv'
  <2>1. ASSUME NEW t \in Sessions, NEW a \in Active(mem), born[a] = t
        PROVE  Settled(t, a)'
    <3>1. Settled(t, a)
      BY <2>1 DEF IInv, ScanInv
    <3>2. CASE t = s
      BY <1>3, <3>2 DEF Settled
    <3>3. CASE t # s
      BY <1>1, <1>3, <3>1, <3>3 DEF Settled, Cut, Mishap
    <3> QED
      BY <3>2, <3>3
  <2> QED
    BY <1>1, <1>2, <2>1 DEF ScanInv, Busy, Active
<1>12. OneOf(mem)' /\ OneOf(file)'
  BY <1>1 DEF IInv, OneOf, Active, Cut, Mishap
<1> QED
  BY <1>6, <1>7, <1>8, <1>9, <1>10, <1>11, <1>12 DEF IInv

LEMMA NewSessionKeeps ==
  ASSUME IInv, NEW s \in Sessions, NewSession(s)
  PROVE  IInv'
<1>1. /\ Up /\ scan[s] = "no" /\ session \in [Sessions -> Session]
      /\ UNCHANGED <<phase, mem, file, token, slot, runner, waiting, job, todo>>
      /\ UNCHANGED <<order, removal, pruning, born, promised, asked, gone, mishaps, ends>>
      /\ \E k \in {"plain", "named"} : scan' = [scan EXCEPT ![s] = k]
      /\ scan \in [Sessions -> {"no", "plain", "named"}]
  BY DEF NewSession, registry, tasks, history, IInv, TypeOK
<1>2. PICK old \in SUBSET Sessions :
        session' = [t \in Sessions |->
          IF t = s THEN [session[t] EXCEPT !.state = "open"]
          ELSE IF t \in old THEN [session[t] EXCEPT !.state = "dropped"]
          ELSE session[t]]
  BY DEF NewSession
<1>3. \A t \in Sessions :
        /\ session[t] \in Session
        /\ [session[t] EXCEPT !.state = "open"] \in Session
        /\ [session[t] EXCEPT !.state = "dropped"] \in Session
        /\ [session[t] EXCEPT !.state = "open"].state = "open"
        /\ [session[t] EXCEPT !.state = "dropped"].state = "dropped"
  BY <1>1 DEF Session
<1>4. /\ session' \in [Sessions -> Session] /\ session'[s].state = "open"
      /\ \A t \in Sessions : t # s =>
           session'[t] = session[t] \/ session'[t].state = "dropped"
  BY <1>2, <1>3
<1>5. /\ scan' \in [Sessions -> {"no", "plain", "named"}] /\ scan'[s] # "no"
      /\ \A t \in Sessions : t # s => scan'[t] = scan[t]
  BY <1>1
<1>6. session[s].state = "none" /\ \A a \in Ids : born[a] # s
  BY <1>1 DEF IInv, SessionInv
<1>7. TypeOK'
  <2>1. TypeOK
    BY DEF IInv
  <2> QED
    BY <1>1, <1>4, <1>5, <2>1 DEF TypeOK
<1>8. Idle' /\ TokenInv' /\ FileInv' /\ BornInv' /\ GoneInv' /\ AnswersSurvive'
  <2>1. Login' = Login /\ (HasToken' <=> HasToken) /\ (Registered' <=> Registered)
          /\ Up'
    BY <1>1 DEF Login, HasToken, Registered, Up
  <2> QED
    BY <1>1, <2>1 DEF IInv, Idle, TokenInv, FileInv, BornInv, GoneInv,
                      AnswersSurvive, Known, Mishap
<1>9. SessionInv'
  <2>1. \A t \in Sessions : scan'[t] = "no" =>
          session'[t].state = "none" /\ \A a \in Ids : born[a] # t
    BY <1>1, <1>5, <1>2 DEF IInv, SessionInv, NewSession
  <2>2. \A t \in Sessions : session[t].state # "none" => session'[t].state # "none"
    BY <1>4
  <2> QED
    BY <1>1, <2>1, <2>2 DEF IInv, SessionInv, Busy, Login
<1>10. ScanInv'
  <2>1. ASSUME NEW t \in Sessions, NEW a \in Active(mem), born[a] = t
        PROVE  Settled(t, a)'
    <3>1. Settled(t, a) /\ t # s
      BY <1>6, <2>1 DEF IInv, ScanInv, Active
    <3> QED
      BY <1>1, <1>4, <3>1 DEF Settled, Registered, Login, Cut, Mishap
  <2> QED
    BY <1>1, <2>1 DEF IInv, ScanInv, Busy, Login, Active, Cut, Mishap
<1>11. OneOf(mem)' /\ OneOf(file)'
  BY <1>1 DEF IInv, OneOf, Active, Cut, Mishap
<1> QED
  BY <1>7, <1>8, <1>9, <1>10, <1>11 DEF IInv

-----------------------------------------------------------------------------
(***************************************************************************)
(* The process.                                                            *)
(***************************************************************************)

LEMMA LoadKeeps ==
  ASSUME IInv, Load
  PROVE  IInv'
<1>1. /\ ~Up /\ phase' = "serving"
      /\ UNCHANGED <<slot, runner, session, scan, waiting, job, todo, removal>>
      /\ order' \in Orders /\ UNCHANGED <<pruning, promised, asked, gone, mishaps, ends>>
      /\ file \in [Ids -> Entry] /\ token \in [Ids -> Tokens \cup {None}]
      /\ born \in [Ids -> Tokens \cup {None}]
  BY DEF Load, requests, tasks, IInv, TypeOK
<1>2. /\ \A x \in Starters : job[x].pc = "off"
      /\ \A t \in Sessions : session[t].state = "none"
      /\ removal = None /\ "login" \in Starters
  BY <1>1 DEF IInv, Idle, Starters
<1>3. Login.pc = "off" /\ Login' = Login /\ Up'
  BY <1>1, <1>2 DEF Login, Up
<1>4. file' = mem'
  BY DEF Load, Migrate, Save, registry
<1>5. /\ token' \in [Ids -> Tokens \cup {None}]
      /\ born' \in [Ids -> Tokens \cup {None}] /\ mem' \in [Ids -> Entry]
      /\ \A a \in Ids :
           \/ mem'[a] = file[a] /\ token'[a] = token[a] /\ born'[a] = born[a]
           \/ /\ a = LegacyId /\ ~Known(file, a) /\ mem'[a].status = "active"
              /\ token'[a] = Legacy /\ born'[a] = Legacy
              /\ \A b \in Ids : ~Known(file, b)
  <2>1. CASE mem' = file /\ UNCHANGED <<file, token, born>>
    BY <1>1, <2>1 DEF registry
  <2>2. CASE Migrate
    <3>1. [file[LegacyId] EXCEPT !.status = "active"] \in Entry
            /\ [file[LegacyId] EXCEPT !.status = "active"].status = "active"
      BY <1>1, AccountsAssumption DEF Entry
    <3>2. Legacy \in Tokens
      BY DEF Tokens
    <3> QED
      BY <1>1, <2>2, <3>1, <3>2, AccountsAssumption DEF Migrate, Known
  <2> QED
    BY <2>1, <2>2 DEF Load
<1>6. Legacy # None /\ Legacy \notin Sessions
  BY AccountsAssumption DEF Tokens
<1>7. TypeOK'
  <2>1. TypeOK
    BY DEF IInv
  <2> QED
    BY <1>1, <1>4, <1>5, <2>1 DEF TypeOK
<1>8. \A a \in Ids : (Known(file, a) => Known(mem', a))
                       /\ (Known(mem', a) /\ ~Known(file, a) => a = LegacyId)
  BY <1>5 DEF Known
<1>9. Idle' /\ FileInv'
  BY <1>3, <1>4 DEF Idle, FileInv, Known
<1>10. TokenInv'
  BY <1>1, <1>3, <1>4, <1>5, <1>6 DEF IInv, TokenInv, HasToken, Known, Mishap
<1>11. BornInv'
  BY <1>3, <1>4, <1>5, <1>6 DEF IInv, BornInv, Registered, Known
<1>12. GoneInv'
  BY <1>1, <1>2, <1>4, <1>5 DEF IInv, GoneInv, TypeOK, Known
<1>13. AnswersSurvive'
  <2>1. promised \subseteq Ids /\ gone \subseteq Ids
    BY DEF IInv, TypeOK
  <2>2. \A a \in promised : file'[a].status # "none" \/ Mishap("unsaved", a)'
    BY <1>1, <1>4, <1>8, <2>1 DEF IInv, AnswersSurvive, Known, Mishap
  <2> QED
    BY <1>1, <1>12, <2>2 DEF AnswersSurvive, GoneInv
<1>14. SessionInv'
  BY <1>1, <1>3, <1>5, <1>6 DEF IInv, SessionInv, Busy
<1>15. ScanInv'
  BY <1>1, <1>2, <1>3 DEF ScanInv, Settled, Busy
<1>16. ASSUME NEW a \in Ids, NEW b \in Ids, mem'[a].status = "active",
              mem'[b].status = "active", born'[a] = born'[b], a # b
       PROVE  Cut(a) \/ Cut(b)
  <2>1. file[a].status = "active" /\ file[b].status = "active"
          /\ born[a] = born[b]
    BY <1>5, <1>16 DEF Known
  <2> QED
    BY <1>16, <2>1 DEF IInv, OneOf, Active
<1>17. OneOf(mem)' /\ OneOf(file)'
  BY <1>1, <1>4, <1>16 DEF OneOf, Active, Cut, Mishap
<1> QED
  BY <1>7, <1>9, <1>10, <1>11, <1>12, <1>13, <1>14, <1>15, <1>17 DEF IInv

LEMMA EndKeeps ==
  ASSUME IInv, End
  PROVE  IInv'
<1>1. /\ phase' = "down" /\ ends' \in 0 .. MaxEnds
      /\ UNCHANGED <<file, order, scan, born, promised, asked, gone>>
      /\ mem' = [a \in Ids |-> NoEntry] /\ NoTasks
  BY AccountsAssumption DEF End, history, IInv, TypeOK
<1>2. /\ NoEntry \in Entry /\ NoEntry.status = "none" /\ Off \in Runner
      /\ Off.pc = "off" /\ NoJob \in Job /\ NoJob.pc = "off"
  BY AccountsAssumption DEF NoEntry, Entry, Off, Runner, NoJob, Job
<1>3. /\ token' \in [Ids -> Tokens \cup {None}]
      /\ mishaps \subseteq mishaps' /\ mishaps' \subseteq Mishaps \X Ids
      /\ \A a \in Ids : token'[a] = token[a] \/ <<"torn", a>> \in mishaps'
  <2>1. token \in [Ids -> Tokens \cup {None}] /\ mishaps \subseteq Mishaps \X Ids
    BY DEF IInv, TypeOK
  <2> QED
    BY <2>1 DEF End, Mishaps
<1>4. /\ \A a \in Ids : ~Known(mem', a) /\ mem'[a].status = "none"
      /\ Login'.pc = "off" /\ removal' = None /\ ~Up'
      /\ \A x \in Starters : job'[x].pc = "off"
      /\ \A r \in Runners : runner'[r].pc = "off"
      /\ \A s \in Sessions : session'[s].state = "none" /\ waiting'[s] = 0
  BY <1>1, <1>2 DEF NoTasks, Known, Login, Starters, Up
<1>5. TypeOK'
  <2>1. TypeOK
    BY DEF IInv
  <2>2. mem' \in [Ids -> Entry]
    BY <1>1, <1>2
  <2>3. /\ slot' \in [Ids -> Runners \cup {None}] /\ runner' \in [Runners -> Runner]
        /\ waiting' \in [Sessions -> 0 .. 2]
        /\ job' \in [Starters -> Job] /\ todo' \subseteq Ids
        /\ removal' \in Ids \cup {None}
        /\ pruning' \in [Pruners -> (SUBSET Ids) \cup {None}]
    BY <1>1, <1>2 DEF NoTasks
  <2>4. session' \in [Sessions -> Session]
    BY <1>1 DEF NoTasks, Session
  <2> QED
    BY <1>1, <1>3, <2>1, <2>2, <2>3, <2>4 DEF TypeOK
<1>6. \A k, a : Mishap(k, a) => Mishap(k, a)'
  BY <1>3 DEF Mishap
<1>7. Idle'
  BY <1>4 DEF Idle, Known
<1>8. TokenInv'
  BY <1>1, <1>3, <1>4, <1>6 DEF IInv, TokenInv, HasToken, Known, Mishap
<1>9. FileInv'
  BY <1>4 DEF FileInv, Known
<1>10. BornInv'
  BY <1>1, <1>4 DEF IInv, BornInv, Registered, Known
<1>11. GoneInv' /\ AnswersSurvive'
  BY <1>1, <1>4, <1>6 DEF IInv, TypeOK, GoneInv, AnswersSurvive
<1>12. SessionInv'
  BY <1>1, <1>4 DEF IInv, SessionInv, Busy
<1>13. ScanInv'
  BY <1>4 DEF ScanInv, Active, Busy
<1>14. OneOf(mem)' /\ OneOf(file)'
  <2>1. \A a : Cut(a) => Cut(a)'
    BY <1>6 DEF Cut
  <2> QED
    BY <1>1, <1>4, <2>1 DEF IInv, OneOf, Active
<1> QED
  BY <1>5, <1>7, <1>8, <1>9, <1>10, <1>11, <1>12, <1>13, <1>14 DEF IInv

-----------------------------------------------------------------------------
(***************************************************************************)
(* The invariant holds, and with it what the admin API promises.           *)
(***************************************************************************)

LEMMA InitKeeps == Init => IInv
<1> SUFFICES ASSUME Init PROVE IInv
  OBVIOUS
<1>1. /\ NoEntry \in Entry /\ NoEntry.status = "none" /\ Off \in Runner
      /\ Off.pc = "off" /\ NoJob \in Job /\ NoJob.pc = "off"
  BY AccountsAssumption DEF NoEntry, Entry, Off, Runner, NoJob, Job
<1>2. /\ mem = [a \in Ids |-> NoEntry] /\ file = mem
      /\ job = [x \in Starters |-> NoJob] /\ runner = [r \in Runners |-> Off]
  BY DEF Init
<1>3. TypeOK
  <2>1. /\ mem \in [Ids -> Entry] /\ file \in [Ids -> Entry]
        /\ job \in [Starters -> Job] /\ runner \in [Runners -> Runner]
    BY <1>1, <1>2
  <2>2. session \in [Sessions -> Session] /\ ends \in 0 .. MaxEnds
    BY AccountsAssumption DEF Init, Session
  <2> QED
    BY <2>1, <2>2 DEF Init, TypeOK
<1>4. /\ Login.pc = "off" /\ \A x \in Starters : job[x].pc = "off"
      /\ \A a \in Ids : ~Known(mem, a) /\ ~Known(file, a)
      /\ Active(mem) = {} /\ Active(file) = {}
      /\ \A r \in Runners : runner[r].pc = "off"
  BY <1>1, <1>2 DEF Login, Starters, Known, Active
<1>5. Idle /\ TokenInv /\ FileInv
  BY <1>4 DEF Init, Idle, TokenInv, FileInv, HasToken
<1>6. Legacy # None /\ None \notin Sessions
  BY AccountsAssumption DEF Tokens
<1>7. BornInv /\ GoneInv /\ AnswersSurvive
  BY <1>4, <1>6 DEF Init, BornInv, GoneInv, AnswersSurvive, Registered
<1>8. SessionInv /\ ScanInv
  BY <1>4, <1>6 DEF Init, SessionInv, ScanInv, Busy
<1>9. OneOf(mem) /\ OneOf(file)
  BY <1>4 DEF OneOf
<1> QED
  BY <1>3, <1>5, <1>7, <1>8, <1>9 DEF IInv

LEMMA StutterKeeps ==
  ASSUME IInv, UNCHANGED vars
  PROVE  IInv'
<1>1. /\ UNCHANGED <<phase, mem, file, token, slot, runner, session, scan, waiting>>
      /\ UNCHANGED <<order, job, todo, removal, pruning, born, promised, asked, gone>>
      /\ UNCHANGED <<mishaps, ends>>
  BY DEF vars, registry, requests, tasks, history
<1>2. TypeOK'
  <2>1. TypeOK
    BY DEF IInv
  <2> QED
    BY <1>1, <2>1 DEF TypeOK
<1>3. Calm
  BY <1>1, LoginStays, WaitersStay DEF Calm, IInv, GoneInv
<1> QED
  BY <1>2, <1>3, CalmKeeps

LEMMA TasksKeep ==
  ASSUME IInv, Tasks
  PROVE  IInv'
BY ListAccountsKeeps, StartNextKeeps, SaveTokenKeeps, InsertKeeps, StopOldKeeps,
   NoteAccountKeeps, DisableRemovedKeeps, TakeLockKeeps, SpawnKeeps, PutRunnerKeeps,
   MergeTokenKeeps, RetireKeeps, LearnBotKeeps, NameBotKeeps, QuitKeeps
   DEF Tasks, Registration, StartSteps, RunnerSteps

LEMMA NextKeeps == IInv /\ [Next]_vars => IInv'
BY LoadKeeps, StartChannelKeeps, EndKeeps, DropRequestKeeps, NewSessionKeeps,
   AskStatusKeeps, RemoveSlotKeeps, PruneListKeeps, PruneApplyKeeps, TasksKeep,
   StutterKeeps
   DEF Next, Prune

LEMMA Inductive == Spec => []IInv
BY InitKeeps, NextKeeps, PTL DEF Spec

\* The state of accounts, sessions and tasks keeps its types.
THEOREM TypeCorrect == Spec => []TypeOK
<1>1. IInv => TypeOK
  BY DEF IInv
<1> QED
  BY <1>1, Inductive, PTL

\* WeChatAccountRegistry: wherever the process ends, an account that is active
\* on disk has a token there, but for the one that was just being written.
THEOREM ActiveAccountsHaveTokens == Spec => []ActiveHasToken
<1>1. IInv => ActiveHasToken
  BY DEF IInv, TokenInv, ActiveHasToken, Active, Known
<1> QED
  BY <1>1, Inductive, PTL

\* wechat_qrcode_status under its lock: however many polls see the same scan
\* confirmed, it makes one account.
THEOREM ScansMakeOneAccount == Spec => []OneAccountPerScan
<1>1. IInv => OneAccountPerScan
  BY DEF IInv, OneOf, OneAccountPerScan, Cut
<1> QED
  BY <1>1, Inductive, PTL

\* The admin API's answers hold beyond the process that gave them: accounts that
\* were named are on disk, and those that were removed are never active again.
THEOREM AnswersOutliveTheProcess == Spec => []AnswersSurvive
<1>1. IInv => AnswersSurvive
  BY DEF IInv
<1> QED
  BY <1>1, Inductive, PTL

-----------------------------------------------------------------------------
(***************************************************************************)
(* Tokens, names and runners are of the bot an account was created for.    *)
(***************************************************************************)

OfBot(a) == BotOf[born[a]]

RightNames(reg) ==
  \A a \in Ids : reg[a].bot # None => Known(reg, a) /\ reg[a].bot = OfBot(a)

RightTokens ==
  \A a \in Ids : (Known(mem, a) \/ Known(file, a)) /\ token[a] # None =>
    BotOf[token[a]] = OfBot(a)

RightLogin ==
  /\ Login.pc = "insert" => token[Login.id] = Login.s
  /\ Login.pc = "token" /\ Known(mem, Login.id) => BotOf[Login.s] = OfBot(Login.id)

RightRunners ==
  \A r \in Runners : runner[r].pc # "off" =>
    Known(mem, runner[r].acct) /\ runner[r].bot = OfBot(runner[r].acct)

BotInv ==
  RightNames(mem) /\ RightNames(file) /\ RightTokens /\ RightLogin /\ RightRunners

\* The steps that create no account.
LEMMA BotsStay ==
  ASSUME IInv, BotInv, TypeOK', born' = born, file' \in {file, mem, mem'},
         \A a \in Ids : Known(mem, a)' <=> Known(mem, a),
         RightNames(mem)', RightLogin',
         \A a \in Ids : Known(mem, a) \/ Known(file, a) =>
           token'[a] \in {None, token[a]} \/ BotOf[token'[a]] = OfBot(a),
         \A r \in Runners : runner'[r].pc # "off" =>
           \/ /\ runner[r].pc # "off" /\ runner'[r].acct = runner[r].acct
              /\ runner'[r].bot = runner[r].bot
           \/ Known(mem, runner'[r].acct) /\ runner'[r].bot = OfBot(runner'[r].acct)
  PROVE  BotInv'
<1>1. \A a \in Ids : OfBot(a)' = OfBot(a)
  BY DEF OfBot
<1>2. RightNames(file)'
  BY <1>1 DEF BotInv, RightNames, Known
<1>3. \A a \in Ids : Known(file, a)' => Known(file, a) \/ Known(mem, a)
  BY DEF Known
<1>4. RightTokens'
  BY <1>1, <1>3 DEF BotInv, RightTokens, IInv, TypeOK
<1>5. \A r \in Runners : runner'[r].acct \in Ids
  BY DEF TypeOK, Runner
<1>6. RightRunners'
  <2>1. \A r \in Runners : runner'[r].pc # "off" =>
          Known(mem, runner'[r].acct) /\ runner'[r].bot = OfBot(runner'[r].acct)
    BY DEF BotInv, RightRunners
  <2>2. \A r \in Runners : runner'[r].pc # "off" =>
          mem'[runner'[r].acct].status # "none"
    BY <1>5, <2>1 DEF Known
  <2>3. \A r \in Runners : runner'[r].pc # "off" =>
          runner'[r].bot = BotOf[born'[runner'[r].acct]]
    BY <2>1 DEF OfBot
  <2> QED
    BY <2>2, <2>3 DEF RightRunners, Known, OfBot
<1> QED
  BY <1>2, <1>4, <1>6 DEF BotInv

\* Those that leave accounts and tokens alone and start no runner.
LEMMA BotsUntouched ==
  ASSUME IInv, BotInv, IInv', UNCHANGED <<mem, file, token, born>>,
         job'["login"] = job["login"] \/ job'["login"].pc \notin {"token", "insert"},
         \A r \in Runners : runner'[r].pc # "off" =>
           /\ runner[r].pc # "off" /\ runner'[r].acct = runner[r].acct
           /\ runner'[r].bot = runner[r].bot
  PROVE  BotInv'
<1>1. RightNames(mem)' /\ RightLogin'
  BY DEF BotInv, RightNames, RightLogin, Known, OfBot, Login
<1> QED
  BY <1>1, BotsStay DEF Known, IInv

LEMMA QuietBots ==
  ASSUME IInv, BotInv, IInv',
         \/ StartChannel \/ ListAccounts \/ StartNext \/ NoteAccount \/ DropRequest
         \/ StopOld \/ \E p \in Pruners : Prune(p)
         \/ \E s \in Sessions : NewSession(s) \/ AskStatus(s)
         \/ \E a \in Ids : RemoveSlot(a)
         \/ \E r \in Runners : LearnBot(r) \/ Quit(r)
         \/ \E x \in Starters : PutRunner(x)
  PROVE  BotInv'
<1>1. UNCHANGED <<mem, file, token, born>>
  BY DEF StartChannel, ListAccounts, StartNext, NoteAccount, DropRequest, StopOld,
         Prune, PruneList, PruneApply, NewSession, AskStatus, RemoveSlot, LearnBot, Quit,
         PutRunner, registry, history
<1>2. /\ job \in [Starters -> Job] /\ runner \in [Runners -> Runner]
      /\ Starters = {"login", "boot"} /\ slot \in [Ids -> Runners \cup {None}]
  BY DEF IInv, TypeOK, Starters
<1>3. job'["login"] = job["login"] \/ job'["login"].pc \notin {"token", "insert"}
  <2>1. CASE StartChannel \/ ListAccounts \/ StartNext
    BY <1>2, <2>1 DEF StartChannel, ListAccounts, StartNext
  <2>2. CASE NoteAccount \/ DropRequest
    BY <1>2, <2>2 DEF NoteAccount, DropRequest, LoginEnds, NoJob
  <2>3. CASE StopOld
    BY <1>2, <2>3 DEF StopOld, Goto, Job
  <2>4. CASE \E x \in Starters : PutRunner(x)
    BY <1>2, <2>4 DEF PutRunner, StarterGoesOn, StarterFails, Goto, NoJob, Job
  <2>5. CASE job' = job
    BY <2>5
  <2> QED
    BY <2>1, <2>2, <2>3, <2>4, <2>5
       DEF Prune, PruneList, PruneApply, NewSession, AskStatus, RemoveSlot, LearnBot, Quit,
           tasks
<1>4. \A r \in Runners : runner'[r].pc # "off" =>
        /\ runner[r].pc # "off" /\ runner'[r].acct = runner[r].acct
        /\ runner'[r].bot = runner[r].bot
  <2>1. CASE StopOld \/ \E a \in Ids : RemoveSlot(a)
    <3>1. runner' = runner \/ \E q \in Runners : runner' = Told(q)
      BY <1>2, <2>1 DEF StopOld, RemoveSlot, IInv, TypeOK, Job, Login
    <3> QED
      BY <1>2, <3>1 DEF Told, Runner
  <2>2. CASE \E p \in Pruners : PruneApply(p)
    BY <1>2, <2>2 DEF PruneApply, Runner
  <2>3. CASE \E r \in Runners : LearnBot(r) \/ Quit(r)
    BY <1>2, <2>3, SMTT(30) DEF LearnBot, Quit, Off, Runner
  <2>4. CASE runner' = runner
    BY <2>4
  <2> QED
    BY <2>1, <2>2, <2>3, <2>4
       DEF StartChannel, ListAccounts, StartNext, NoteAccount, DropRequest, Prune,
           PruneList, NewSession, AskStatus, PutRunner
<1> QED
  BY <1>1, <1>3, <1>4, BotsUntouched

LEMMA SpawnBots ==
  ASSUME IInv, BotInv, IInv', NEW x \in Starters, Spawn(x)
  PROVE  BotInv'
<1>0. PICK a \in Ids, r \in {AnyOf(Free)} : a = job[x].id
  BY DEF IInv, TypeOK, Job
<1>1. /\ UNCHANGED <<mem, file, token, born>> /\ job \in [Starters -> Job]
      /\ runner \in [Runners -> Runner] /\ Starters = {"login", "boot"}
  BY DEF Spawn, registry, history, IInv, TypeOK, Starters
<1>2. job'["login"] = job["login"] \/ job'["login"].pc \notin {"token", "insert"}
  BY <1>1 DEF Spawn, StarterGoesOn, StarterFails, Goto, NoJob, Job
<1>3. RightNames(mem)' /\ RightLogin'
  BY <1>1, <1>2 DEF BotInv, RightNames, RightLogin, Known, OfBot, Login
<1>4. CASE runner' = runner
  BY <1>1, <1>2, <1>4, BotsUntouched
<1>5. CASE /\ mem[a].status = "active" /\ token[a] # None /\ Free # {}
           /\ runner' = [runner EXCEPT ![r] =
                [Off EXCEPT !.pc = "poll", !.acct = a, !.bot = BotOf[token[a]]]]
  <2>1. Known(mem, a) /\ BotOf[token[a]] = OfBot(a)
    BY <1>5 DEF BotInv, RightTokens, Known
  <2>2. r \in Runners
    BY <1>0, <1>5, AnyOfSet DEF Free
  <2>3. /\ runner'[r].acct = a /\ runner'[r].bot = OfBot(a)
        /\ \A q \in Runners \ {r} : runner'[q] = runner[q]
    BY <1>1, <1>5, <2>1, <2>2 DEF Off
  <2> QED
    BY <1>1, <1>3, <2>1, <2>3, BotsStay DEF Known, IInv
<1> QED
  BY <1>0, <1>4, <1>5 DEF Spawn

\* A login that updates an account found it by its bot.
LEMMA TakeLockBots ==
  ASSUME IInv, BotInv, IInv', NEW s \in Sessions, TakeLock(s)
  PROVE  BotInv'
<1>1. /\ UNCHANGED <<mem, file, token, born, runner>> /\ job \in [Starters -> Job]
      /\ Login.pc = "off" /\ mem \in [Ids -> Entry]
      /\ NoJob.pc = "off"
  BY DEF TakeLock, registry, history, IInv, TypeOK, NoJob
<1>2. RightNames(mem)'
  BY <1>1 DEF BotInv, RightNames, Known, OfBot
<1>3. RightLogin'
  <2>1. CASE job' = job
    BY <1>1, <2>1 DEF RightLogin, Login
  <2>2. CASE \E a \in AccountFor(s) :
               job' = [job EXCEPT !["login"] =
                         [NoJob EXCEPT !.pc = "token", !.s = s, !.id = a]]
    <3>1. PICK a \in AccountFor(s) :
            job' = [job EXCEPT !["login"] =
                      [NoJob EXCEPT !.pc = "token", !.s = s, !.id = a]]
      BY <2>2
    <3>2. job'["login"].pc = "token" /\ job'["login"].s = s /\ job'["login"].id = a
      BY <1>1, <3>1 DEF Starters, NoJob
    <3>3. Known(mem, a) => BotOf[s] = OfBot(a)
      <4>1. CASE FindBot(NamedBot(s)) # None
        <5>1. NamedBot(s) # None
          BY <4>1 DEF FindBot
        <5>2. a \in Ids /\ mem[a].bot = NamedBot(s)
          BY <4>1, FindBotFinds DEF AccountFor, IInv
        <5> QED
          BY <5>1, <5>2 DEF BotInv, RightNames, NamedBot
      <4>2. CASE FindBot(NamedBot(s)) = None
        <5>1. a \in Ids /\ born[a] = None
          BY <4>2 DEF AccountFor, Unused
        <5> QED
          BY <5>1 DEF IInv, BornInv
      <4> QED
        BY <4>1, <4>2
    <3> QED
      BY <1>1, <3>2, <3>3 DEF RightLogin, Login, Known, OfBot
  <2> QED
    BY <2>1, <2>2 DEF TakeLock
<1> QED
  BY <1>1, <1>2, <1>3, BotsStay DEF IInv, Known

LEMMA SaveTokenBots ==
  ASSUME IInv, BotInv, IInv', SaveToken
  PROVE  BotInv'
<1>0. PICK a \in Ids, s \in Sessions : a = Login.id /\ s = Login.s
  BY DEF IInv, TypeOK, Job, Login, Starters, SaveToken, SessionInv, Busy
<1>1. /\ UNCHANGED <<mem, born, runner>> /\ job \in [Starters -> Job]
      /\ Login.pc = "token" /\ mem \in [Ids -> Entry]
      /\ token \in [Ids -> Tokens \cup {None}] /\ token' = [token EXCEPT ![a] = s]
      /\ file' \in {file, mem} /\ Up
  BY <1>0 DEF SaveToken, history, IInv, TypeOK, Idle, Login, Starters
<1>2. RightNames(mem)'
  BY <1>1 DEF BotInv, RightNames, Known, OfBot
<1>3. RightLogin'
  <2>1. /\ job'["login"].pc \in {"insert", "stop"}
        /\ job'["login"].id = a /\ job'["login"].s = s
    BY <1>0, <1>1 DEF SaveToken, Goto, Starters, Job, Login
  <2> QED
    BY <1>1, <2>1 DEF RightLogin, Login
<1>4. ASSUME NEW b \in Ids, Known(mem, b) \/ Known(file, b)
      PROVE  token'[b] \in {None, token[b]} \/ BotOf[token'[b]] = OfBot(b)
  <2>1. Known(mem, b)
    BY <1>1, <1>4 DEF IInv, FileInv
  <2> QED
    BY <1>0, <1>1, <2>1 DEF BotInv, RightLogin
<1> QED
  BY <1>1, <1>2, <1>3, <1>4, BotsStay DEF IInv, Known

\* A new account gets the name of the bot that its token is for.
LEMMA InsertBots ==
  ASSUME IInv, BotInv, IInv', Insert
  PROVE  BotInv'
<1>0. PICK a \in Ids, s \in Sessions : a = Login.id /\ s = Login.s
  BY DEF IInv, TypeOK, Job, Login, Starters, Insert, SessionInv, Busy
<1>1. /\ token' = token /\ runner' = runner /\ file' \in {file, mem'}
      /\ job \in [Starters -> Job] /\ Login.pc = "insert" /\ mem \in [Ids -> Entry]
      /\ mem' = [mem EXCEPT ![a] = [status |-> "active", bot |-> NamedBot(s)]]
      /\ born' = [born EXCEPT ![a] = s] /\ born \in [Ids -> Tokens \cup {None}]
  BY <1>0 DEF Insert, Save, IInv, TypeOK
<1>2. Up /\ ~Known(mem, a) /\ ~Known(file, a) /\ token[a] = s
  BY <1>0, <1>1 DEF IInv, Idle, Login, Starters, BornInv, FileInv, BotInv, RightLogin
<1>3. /\ OfBot(a)' = BotOf[s] /\ \A b \in Ids \ {a} : OfBot(b)' = OfBot(b)
      /\ mem'[a].status = "active" /\ mem'[a].bot = NamedBot(s)
      /\ \A b \in Ids \ {a} : mem'[b] = mem[b]
  BY <1>1 DEF OfBot
<1>4. RightNames(mem)'
  BY <1>3 DEF BotInv, RightNames, Known, NamedBot
<1>5. RightNames(file)'
  <2>1. CASE file' = mem'
    BY <1>4, <2>1 DEF RightNames, Known
  <2>2. CASE file' = file
    BY <1>2, <1>3, <2>2 DEF BotInv, RightNames, Known
  <2> QED
    BY <1>1, <2>1, <2>2
<1>6. RightTokens'
  <2>1. \A b \in Ids \ {a} : Known(mem, b)' \/ Known(file, b)' => Known(mem, b) \/ Known(file, b)
    BY <1>1, <1>3 DEF Known
  <2> QED
    BY <1>1, <1>2, <1>3, <2>1 DEF BotInv, RightTokens
<1>7. RightLogin'
  <2>1. job'["login"].pc \in {"off", "stop"}
    BY <1>1 DEF Insert, Goto, LoginEnds, NoJob, Starters, Job
  <2> QED
    BY <2>1 DEF RightLogin, Login
<1>8. RightRunners'
  <2>1. \A r \in Runners : runner[r].pc # "off" =>
          /\ runner[r].acct \in Ids \ {a} /\ Known(mem, runner[r].acct)
          /\ runner[r].bot = OfBot(runner[r].acct)
    BY <1>2 DEF BotInv, RightRunners, IInv, TypeOK, Runner
  <2>2. \A r \in Runners : runner[r].pc # "off" =>
          mem'[runner[r].acct].status # "none" /\ runner[r].bot = BotOf[born'[runner[r].acct]]
    BY <1>1, <1>3, <2>1 DEF Known, OfBot
  <2> QED
    BY <1>1, <2>2 DEF RightRunners, Known, OfBot
<1> QED
  BY <1>4, <1>5, <1>6, <1>7, <1>8 DEF BotInv

LEMMA RunnersBots ==
  ASSUME IInv, BotInv, IInv', NEW r \in Runners,
         MergeToken(r) \/ Retire(r) \/ NameBot(r)
  PROVE  BotInv'
<1>1. /\ job' = job /\ born' = born /\ file' \in {file, mem'}
      /\ runner \in [Runners -> Runner] /\ mem \in [Ids -> Entry]
      /\ token \in [Ids -> Tokens \cup {None}]
  BY DEF MergeToken, Retire, NameBot, Disable, Save, tasks, history, IInv, TypeOK
<1>2. PICK a \in Ids, b \in {runner[r].bot} : a = runner[r].acct
  BY <1>1 DEF Runner
<1>3. runner[r].pc # "off" /\ Known(mem, a) /\ b = OfBot(a)
  BY <1>2 DEF MergeToken, Retire, NameBot, Merges, BotInv, RightRunners
<1>4. /\ \A c \in Ids : Known(mem, c)' <=> Known(mem, c)
      /\ \A c \in Ids : mem'[c].bot = mem[c].bot \/ (c = a /\ mem'[c].bot = b)
  <2>1. CASE MergeToken(r)
    BY <2>1 DEF MergeToken, Known
  <2>2. CASE Retire(r)
    BY <1>1, <1>2, <1>3, <2>2 DEF Retire, Disable, Known, Entry
  <2>3. CASE NameBot(r)
    BY <1>1, <1>2, <1>3, <2>3 DEF NameBot, Known, Entry
  <2> QED
    BY <2>1, <2>2, <2>3
<1>5. RightNames(mem)'
  BY <1>1, <1>3, <1>4 DEF BotInv, RightNames, Known, OfBot
<1>6. ASSUME NEW c \in Ids, Known(mem, c) \/ Known(file, c)
      PROVE  token'[c] \in {None, token[c]} \/ BotOf[token'[c]] = OfBot(c)
  <2>1. CASE MergeToken(r) /\ FindBot(b) = c
    <3>1. FindBot(b) # None
      BY <1>2, <2>1, AccountsAssumption
    <3>2. b = OfBot(c)
      BY <2>1, <3>1, FindBotFinds DEF BotInv, RightNames, IInv
    <3>3. token'[c] = IF token[a] = None THEN token[c] ELSE token[a]
      BY <1>1, <1>2, <2>1 DEF MergeToken
    <3> QED
      BY <1>3, <3>2, <3>3 DEF BotInv, RightTokens
  <2>2. CASE ~(MergeToken(r) /\ FindBot(b) = c)
    BY <1>1, <1>2, <2>2 DEF MergeToken, Retire, NameBot
  <2> QED
    BY <2>1, <2>2
<1>7. RightLogin'
  <2>1. CASE Login.pc = "insert"
    <3>1. Login.id \in Ids /\ ~Known(mem, Login.id)
      BY <2>1 DEF IInv, TypeOK, BornInv, Job, Login, Starters
    <3>2. token'[Login.id] = token[Login.id]
      <4>1. CASE MergeToken(r)
        <5>1. FindBot(runner[r].bot) # Login.id
          BY <3>1, <4>1, FindBotType DEF IInv, MergeToken, Merges
        <5> QED
          BY <1>1, <3>1, <4>1, <5>1 DEF MergeToken
      <4>2. CASE Retire(r) \/ NameBot(r)
        BY <4>2 DEF Retire, NameBot
      <4> QED
        BY <4>1, <4>2
    <3> QED
      BY <1>1, <2>1, <3>2 DEF BotInv, RightLogin, Login
  <2>2. CASE Login.pc # "insert"
    <3>1. Login.id \in Ids
      BY DEF IInv, TypeOK, Job, Login, Starters
    <3> QED
      BY <1>1, <1>4, <2>2, <3>1 DEF BotInv, RightLogin, Login, Known, OfBot
  <2> QED
    BY <2>1, <2>2
<1>8. \A q \in Runners : runner'[q].pc # "off" =>
        /\ runner[q].pc # "off" /\ runner'[q].acct = runner[q].acct
        /\ runner'[q].bot = runner[q].bot
  BY <1>1 DEF MergeToken, Retire, NameBot, Merges, Off, Runner
<1> QED
  BY <1>1, <1>4, <1>5, <1>6, <1>7, <1>8, BotsStay DEF IInv

LEMMA DisableRemovedBots ==
  ASSUME IInv, BotInv, IInv', DisableRemoved
  PROVE  BotInv'
<1>1. /\ UNCHANGED <<job, born, token, runner>> /\ file' = mem' /\ mem \in [Ids -> Entry]
      /\ removal \in Ids
  BY DEF DisableRemoved, Disable, Save, IInv, TypeOK
<1>2. \A c \in Ids : (Known(mem, c)' <=> Known(mem, c)) /\ mem'[c].bot = mem[c].bot
  BY <1>1 DEF DisableRemoved, Disable, Known, Entry
<1>3. Login.id \in Ids
  BY DEF IInv, TypeOK, Job, Login, Starters
<1>4. RightNames(mem)' /\ RightLogin'
  BY <1>1, <1>2, <1>3 DEF BotInv, RightNames, RightLogin, Login, Known, OfBot
<1> QED
  BY <1>1, <1>2, <1>4, BotsStay DEF IInv

LEMMA LoadBots ==
  ASSUME IInv, BotInv, IInv', Load
  PROVE  BotInv'
<1>1. /\ job' = job /\ runner' = runner
      /\ Login.pc = "off" /\ \A r \in Runners : runner[r].pc = "off"
      /\ file \in [Ids -> Entry] /\ token \in [Ids -> Tokens \cup {None}]
      /\ born \in [Ids -> Tokens \cup {None}]
  BY DEF Load, tasks, IInv, TypeOK, Idle, Login, Starters
<1>2. RightLogin' /\ RightRunners'
  BY <1>1 DEF RightLogin, RightRunners, Login
<1>3. CASE mem' = file /\ UNCHANGED <<file, token, born>>
  BY <1>2, <1>3 DEF BotInv, RightNames, RightTokens, Known, OfBot
<1>4. CASE Migrate
  <2>1. /\ \A a \in Ids : ~Known(file, a) /\ file[a].bot = None
        /\ file' = mem' /\ \A a \in Ids : mem'[a].bot = None
        /\ \A a \in Ids \ {LegacyId} : mem'[a].status = "none"
        /\ token'[LegacyId] = Legacy /\ born'[LegacyId] = Legacy
    BY <1>1, <1>4, AccountsAssumption DEF Migrate, Save, Known, BotInv, RightNames, Entry
  <2> QED
    BY <1>2, <2>1 DEF BotInv, RightNames, RightTokens, Known, OfBot
<1> QED
  BY <1>3, <1>4 DEF Load

LEMMA EndBots ==
  ASSUME IInv, BotInv, IInv', End
  PROVE  BotInv'
<1>1. /\ UNCHANGED <<file, born>> /\ mem' = [a \in Ids |-> NoEntry]
      /\ \A a \in Ids : token'[a] \in {None, token[a]}
      /\ job'["login"].pc = "off" /\ \A r \in Runners : runner'[r].pc = "off"
  BY DEF End, NoTasks, history, IInv, TypeOK, NoJob, Off, Starters
<1> QED
  BY <1>1 DEF BotInv, RightNames, RightTokens, RightLogin, RightRunners, Known, OfBot,
              Login, NoEntry

LEMMA InitBots == Init => BotInv
BY DEF Init, BotInv, RightNames, RightTokens, RightLogin, RightRunners, Known, NoEntry,
       Login, NoJob, Off, Starters

LEMMA NextBots == IInv /\ BotInv /\ [Next]_vars => BotInv'
<1> SUFFICES ASSUME IInv, BotInv, [Next]_vars PROVE BotInv'
  OBVIOUS
<1>1. IInv'
  BY NextKeeps
<1>2. CASE vars' = vars
  BY <1>2, <1>1, BotsUntouched DEF vars, registry, tasks, history
<1>3. CASE Next
  BY <1>1, <1>3, QuietBots, SpawnBots, TakeLockBots, SaveTokenBots, InsertBots,
     RunnersBots, DisableRemovedBots, LoadBots, EndBots
     DEF Next, Prune, Tasks, Registration, StartSteps, RunnerSteps
<1> QED
  BY <1>2, <1>3

-----------------------------------------------------------------------------
(***************************************************************************)
(* Every active account is served.                                         *)
(***************************************************************************)

\* A runner in the map, or on its way there, is the account's and polls, unless
\* the account has been disabled.
Holds(r, a) ==
  /\ runner[r].pc # "off" => runner[r].acct = a
  /\ mem[a].status = "disabled" \/ (runner[r].pc # "off" /\ ~runner[r].stop)

HeldInv ==
  /\ ~Up => \A a \in Ids : slot[a] = None
  /\ \A a \in Ids : slot[a] # None => Holds(slot[a], a)
  /\ \A a, b \in Ids : slot[a] = slot[b] /\ slot[a] # None => a = b
  /\ \A x \in Starters : job[x].pc = "put" =>
       /\ job[x].run \in Runners /\ Holds(job[x].run, job[x].id)
       /\ \A a \in Ids : slot[a] # job[x].run
  /\ \A x, y \in Starters :
       job[x].pc = "put" /\ job[y].pc = "put" /\ job[x].run = job[y].run => x = y

\* A runner of the account polls, or is about to merge it away.
Serving(a) ==
  \E r \in Runners : runner[r].pc # "off" /\ runner[r].acct = a /\ ~runner[r].stop

\* A task is going to look whether the account needs a runner, or never will.
Due(a) ==
  \/ job["boot"].pc = "list" \/ a \in todo
  \/ job["boot"].pc = "spawn" /\ job["boot"].id = a
  \/ job["login"].pc \in {"stop", "spawn"} /\ job["login"].id = a
  \/ \E k \in Mishaps \ {"overlap", "reordered"} : Mishap(k, a)

ServedInv ==
  phase = "started" => \A a \in Active(mem) \ asked : Serving(a) \/ Due(a)

\* The runners stay, quit when they were told to, or retire with their account.
RunnersStay ==
  \A r \in Runners :
    /\ runner[r].pc = "off" => runner'[r].pc = "off"
    /\ runner[r].pc # "off" =>
         \/ /\ runner'[r].pc # "off" /\ runner'[r].acct = runner[r].acct
            /\ runner'[r].stop = runner[r].stop
         \/ /\ runner'[r].pc = "off"
            /\ runner[r].stop \/ mem'[runner[r].acct].status = "disabled"

StillDisabled ==
  \A a \in Ids : mem[a].status = "disabled" => mem'[a].status = "disabled"

PutsStay == \A x \in Starters : job'[x].pc = "put" => job'[x] = job[x]

\* An account that needs service has it, or had it without being due.
DuesMet ==
  phase' = "started" => \A a \in Ids :
    mem'[a].status = "active" /\ a \notin asked' =>
      \/ Due(a)' \/ Serving(a)'
      \/ phase = "started" /\ mem[a].status = "active" /\ a \notin asked /\ ~Due(a)

\* Steps that leave the map alone and start no runner.
LEMMA MapStays ==
  ASSUME IInv, HeldInv, ServedInv, slot' = slot, RunnersStay, StillDisabled,
         PutsStay, DuesMet, Up, Up'
  PROVE  HeldInv' /\ ServedInv'
<1>1. /\ slot \in [Ids -> Runners \cup {None}]
      /\ \A x \in Starters : job[x].id \in Ids
      /\ \A r \in Runners : runner[r].acct \in Ids
  BY DEF IInv, TypeOK, Job, Runner
<1>2. ASSUME NEW r \in Runners, NEW a \in Ids, Holds(r, a)
      PROVE  Holds(r, a)'
  BY <1>2 DEF RunnersStay, StillDisabled, Holds
<1>3. HeldInv'
  <2>1. \A a \in Ids : slot'[a] # None => Holds(slot[a], a)'
    BY <1>1, <1>2 DEF HeldInv
  <2>2. ASSUME NEW x \in Starters, job'[x].pc = "put"
        PROVE  /\ job'[x].run \in Runners /\ Holds(job[x].run, job[x].id)'
               /\ \A a \in Ids : slot'[a] # job'[x].run
    <3>1. job'[x] = job[x]
      BY <2>2 DEF PutsStay
    <3> QED
      BY <1>1, <1>2, <2>2, <3>1 DEF HeldInv
  <2>3. \A x, y \in Starters :
          job'[x].pc = "put" /\ job'[y].pc = "put" /\ job'[x].run = job'[y].run => x = y
    BY DEF PutsStay, HeldInv
  <2> QED
    BY <2>1, <2>2, <2>3 DEF HeldInv
<1>4. ASSUME NEW a \in Ids, Serving(a), mem'[a].status = "active" PROVE Serving(a)'
  BY <1>1, <1>4 DEF Serving, RunnersStay
<1>5. ServedInv'
  BY <1>4 DEF DuesMet, ServedInv, Active
<1> QED
  BY <1>3, <1>5

\* The runners of some accounts are taken from the map and told to stop.
Clears(D) ==
  /\ slot' = [a \in Ids |-> IF a \in D THEN None ELSE slot[a]]
  /\ runner' = [r \in Runners |->
       IF \E a \in D : slot[a] = r THEN [runner[r] EXCEPT !.stop = TRUE] ELSE runner[r]]

LEMMA MapIsCleared ==
  ASSUME IInv, HeldInv, ServedInv, NEW D \in SUBSET Ids, Clears(D), PutsStay,
         UNCHANGED <<phase, mem>>, Up, asked \subseteq asked',
         phase = "started" => \A a \in Ids : Due(a) => Due(a)',
         phase = "started" =>
           \A a \in D : slot[a] # None /\ mem[a].status = "active" =>
             Due(a)' \/ a \in asked'
  PROVE  HeldInv' /\ ServedInv'
<1>1. /\ slot \in [Ids -> Runners \cup {None}] /\ runner \in [Runners -> Runner]
      /\ \A x \in Starters : job[x].id \in Ids
      /\ \A r \in Runners : runner[r].acct \in Ids
      /\ None \notin Runners
  BY AccountsAssumption DEF IInv, TypeOK, Job, Runner
<1>2. \A a \in Ids : slot'[a] = IF a \in D THEN None ELSE slot[a]
  BY DEF Clears
<1>3. \A r \in Runners :
        /\ runner'[r].pc = runner[r].pc /\ runner'[r].acct = runner[r].acct
        /\ ~(\E a \in D : slot[a] = r) => runner'[r].stop = runner[r].stop
  BY <1>1 DEF Clears, Runner
<1>4. \A r \in Runners, a \in Ids :
        Holds(r, a) /\ (\A d \in D : slot[d] # r) =>
          /\ runner'[r].pc # "off" => runner'[r].acct = a
          /\ mem'[a].status = "disabled" \/ (runner'[r].pc # "off" /\ ~runner'[r].stop)
  BY <1>3 DEF Holds
<1>5. HeldInv'
  <2>1. \A a \in Ids : slot'[a] # None =>
          /\ slot'[a] = slot[a] /\ slot[a] \in Runners /\ Holds(slot[a], a)
          /\ \A d \in D : slot[d] # slot[a]
    BY <1>1, <1>2 DEF HeldInv
  <2>2. \A a, b \in Ids : slot'[a] = slot'[b] /\ slot'[a] # None => a = b
    BY <1>2 DEF HeldInv
  <2>3. \A x \in Starters : job'[x].pc = "put" =>
          /\ job'[x] = job[x] /\ job[x].run \in Runners /\ Holds(job[x].run, job[x].id)
          /\ \A a \in Ids : slot[a] # job[x].run /\ slot'[a] # job[x].run
    BY <1>1, <1>2 DEF PutsStay, HeldInv
  <2>4. \A x, y \in Starters :
          job'[x].pc = "put" /\ job'[y].pc = "put" /\ job'[x].run = job'[y].run => x = y
    BY DEF PutsStay, HeldInv
  <2>5. \A a \in Ids : slot'[a] # None => Holds(slot[a], a)'
    BY <1>4, <2>1 DEF Holds
  <2>6. \A x \in Starters : job'[x].pc = "put" => Holds(job[x].run, job[x].id)'
    BY <1>1, <1>4, <2>3 DEF Holds
  <2> QED
    BY <2>1, <2>2, <2>3, <2>4, <2>5, <2>6 DEF HeldInv, Up
<1>6. ServedInv'
  <2> SUFFICES ASSUME phase = "started", NEW a \in Active(mem) \ asked',
                      ~(Due(a)')
               PROVE  Serving(a)'
    BY DEF ServedInv, Active
  <2>1. a \in Ids /\ mem[a].status = "active" /\ a \notin asked /\ ~Due(a)
    BY DEF Active
  <2>2. PICK r \in Runners : runner[r].pc # "off" /\ runner[r].acct = a /\ ~runner[r].stop
    BY <2>1 DEF ServedInv, Serving
  <2>3. \A d \in D : slot[d] # r
    <3> SUFFICES ASSUME NEW d \in D, slot[d] = r PROVE FALSE
      OBVIOUS
    <3>1. d = a
      BY <1>1, <2>2 DEF HeldInv, Holds
    <3> QED
      BY <1>1, <2>1, <3>1
  <2> QED
    BY <1>3, <2>2, <2>3 DEF Serving
<1> QED
  BY <1>5, <1>6

SInv == HeldInv /\ ServedInv

LEMMA SpawnServes ==
  ASSUME IInv, SInv, NEW x \in Starters, Spawn(x)
  PROVE  SInv'
<1>0. PICK a \in Ids, r \in {AnyOf(Free)} : a = job[x].id
  BY DEF IInv, TypeOK, Job
<1> DEFINE new == slot[a] = None /\ mem[a].status = "active" /\ token[a] # None
<1>1. /\ job[x].pc = "spawn" /\ job[x].id = a /\ job \in [Starters -> Job]
      /\ slot \in [Ids -> Runners \cup {None}] /\ runner \in [Runners -> Runner]
      /\ UNCHANGED <<phase, mem, token, slot, todo, asked>>
      /\ mishaps \subseteq mishaps'
  BY <1>0 DEF Spawn, registry, requests, history, IInv, TypeOK, Job
<1>2. Up /\ Up'
  BY <1>1 DEF IInv, Idle, Up
<1>3. /\ job' = StarterGoesOn(x) \/ job' = StarterFails(x)
         \/ (job' = [job EXCEPT ![x].pc = "put", ![x].run = r])
      /\ \A y \in Starters \ {x} : job'[y] = job[y]
  BY <1>0, <1>1 DEF Spawn, StarterGoesOn, StarterFails, Goto, NoJob, Starters
<1>4. \A b \in Ids \ {a} : Due(b) => Due(b)'
  BY <1>1, <1>3 DEF Due, Mishap, Starters
<1>5. CASE job' = StarterGoesOn(x) /\ slot[a] # None /\ runner' = runner
  <2>1. job'[x].pc \in {"note", "next"}
    BY <1>1, <1>5 DEF StarterGoesOn, StarterFails, Goto, NoJob, Starters, Job
  <2>2. Holds(slot[a], a) /\ slot[a] \in Runners
    BY <1>1, <1>5 DEF SInv, HeldInv
  <2>3. mem'[a].status = "active" => Serving(a)'
    BY <1>1, <1>5, <2>2 DEF Holds, Serving
  <2>4. RunnersStay /\ StillDisabled /\ PutsStay
    BY <1>1, <1>3, <1>5, <2>1 DEF RunnersStay, StillDisabled, PutsStay
  <2>5. DuesMet
    BY <1>1, <1>4, <2>3 DEF DuesMet
  <2> QED
    BY <1>1, <1>2, <2>4, <2>5, MapStays DEF SInv
<1>6. CASE job' = StarterFails(x) /\ slot[a] = None /\ ~new /\ runner' = runner
  <2>1. job'[x].pc \in {"off", "next"}
    BY <1>1, <1>6 DEF StarterFails, NoJob, Starters, Job
  <2>2. mem[a].status = "active" => Due(a)'
    <3> SUFFICES ASSUME mem[a].status = "active" PROVE Due(a)'
      OBVIOUS
    <3>1. Mishap("torn", a)
      BY <1>1, <1>6 DEF IInv, TokenInv, Known
    <3> QED
      BY <1>1, <3>1 DEF Due, Mishap, Mishaps
  <2>3. RunnersStay /\ StillDisabled /\ PutsStay
    BY <1>1, <1>3, <1>6, <2>1 DEF RunnersStay, StillDisabled, PutsStay
  <2>4. DuesMet
    BY <1>1, <1>4, <2>2 DEF DuesMet
  <2> QED
    BY <1>1, <1>2, <2>3, <2>4, MapStays DEF SInv
<1>7. CASE /\ new /\ Free # {}
           /\ runner' = [runner EXCEPT ![r] =
                [Off EXCEPT !.pc = "poll", !.acct = a, !.bot = BotOf[token[a]]]]
           /\ job' = [job EXCEPT ![x].pc = "put", ![x].run = r]
  <2>1. /\ r \in Runners /\ runner[r].pc = "off" /\ \A b \in Ids : slot[b] # r
        /\ \A y \in Starters : job[y].run # r
    BY <1>0, <1>7, AnyOfSet DEF Free
  <2>2. /\ runner'[r].pc = "poll" /\ runner'[r].acct = a /\ ~runner'[r].stop
        /\ \A q \in Runners \ {r} : runner'[q] = runner[q]
        /\ job'[x].pc = "put" /\ job'[x].run = r /\ job'[x].id = a
    BY <1>1, <1>7, <2>1 DEF Off, Job
  <2>3. \A q \in Runners \ {r}, b \in Ids : Holds(q, b) => Holds(q, b)'
    BY <1>1, <2>2 DEF Holds
  <2>4. HeldInv'
    <3>1. \A b \in Ids : slot[b] # None =>
            slot[b] \in Runners \ {r} /\ Holds(slot[b], b)
      BY <1>1, <2>1 DEF SInv, HeldInv
    <3>2. \A b \in Ids : slot'[b] # None => Holds(slot[b], b)'
      BY <1>1, <2>3, <3>1
    <3>3. \A y \in Starters \ {x} : job'[y].pc = "put" =>
            /\ job'[y].run \in Runners \ {r} /\ Holds(job[y].run, job[y].id)'
            /\ job'[y] = job[y]
            /\ \A b \in Ids : slot'[b] # job'[y].run
      <4>1. \A y \in Starters \ {x} : job'[y].pc = "put" =>
              /\ job[y].run \in Runners \ {r} /\ Holds(job[y].run, job[y].id)
              /\ job'[y] = job[y] /\ job[y].id \in Ids
              /\ \A b \in Ids : slot[b] # job[y].run
        BY <1>1, <1>3, <2>1 DEF SInv, HeldInv, Job
      <4> QED
        BY <1>1, <2>2, <4>1 DEF Holds
    <3>4. Holds(r, a)'
      BY <2>2 DEF Holds
    <3>5. \A y \in Starters : job'[y].pc = "put" =>
            /\ job'[y].run \in Runners /\ Holds(job[y].run, job[y].id)'
            /\ \A b \in Ids : slot'[b] # job'[y].run
      <4>1. (job'[x].pc = "put" =>
              /\ job'[x].run \in Runners /\ Holds(job[x].run, job[x].id)'
              /\ \A b \in Ids : slot'[b] # job'[x].run)
        BY <1>1, <2>1, <2>2 DEF Holds
      <4> QED
        BY <3>3, <4>1
    <3>6. \A y, z \in Starters :
            job'[y].pc = "put" /\ job'[z].pc = "put" /\ job'[y].run = job'[z].run => y = z
      BY <2>2, <3>3 DEF SInv, HeldInv
    <3> QED
      BY <1>1, <1>2, <3>2, <3>5, <3>6 DEF SInv, HeldInv
  <2>5. ServedInv'
    <3> SUFFICES ASSUME phase' = "started", NEW b \in Active(mem) \ asked,
                        ~(Due(b)')
                 PROVE  Serving(b)'
      BY <1>1 DEF ServedInv, Active
    <3>1. CASE b = a
      BY <2>1, <2>2, <3>1 DEF Serving
    <3>2. CASE b # a
      <4>1. Serving(b)
        BY <1>1, <1>4, <3>2 DEF SInv, ServedInv, Active
      <4> QED
        BY <2>1, <2>2, <4>1 DEF Serving
    <3> QED
      BY <3>1, <3>2
  <2> QED
    BY <2>4, <2>5 DEF SInv
<1> QED
  BY <1>0, <1>5, <1>6, <1>7 DEF Spawn

LEMMA PutRunnerServes ==
  ASSUME IInv, SInv, NEW x \in Starters, PutRunner(x)
  PROVE  SInv'
<1>0. PICK a \in Ids, r \in {job[x].run} : a = job[x].id
  BY DEF IInv, TypeOK, Job
<1>1. /\ job[x].pc = "put" /\ job[x].id = a /\ job[x].run = r /\ job \in [Starters -> Job]
      /\ slot \in [Ids -> Runners \cup {None}]
      /\ UNCHANGED <<phase, mem, runner, todo, asked, mishaps>>
      /\ slot' = [slot EXCEPT ![a] = r] /\ job' = StarterGoesOn(x)
  BY <1>0 DEF PutRunner, registry, requests, history, IInv, TypeOK
<1>2. Up /\ Up'
  BY <1>1 DEF IInv, Idle, Up
<1>3. /\ job'[x].pc \in {"note", "next"}
      /\ \A y \in Starters \ {x} : job'[y] = job[y]
  BY <1>1 DEF StarterGoesOn, StarterFails, Goto, NoJob, Starters, Job
<1>4. /\ r \in Runners /\ Holds(r, a) /\ \A b \in Ids : slot[b] # r
  BY <1>0, <1>1 DEF SInv, HeldInv
<1>5. /\ \A b \in Ids : slot'[b] = IF b = a THEN r ELSE slot[b]
      /\ \A q \in Runners, b \in Ids : Holds(q, b) => Holds(q, b)'
  BY <1>1 DEF Holds
<1>6. HeldInv'
  <2>1. \A b \in Ids : slot'[b] # None =>
          /\ runner'[slot'[b]].pc # "off" => runner'[slot'[b]].acct = b
          /\ \/ mem'[b].status = "disabled"
             \/ runner'[slot'[b]].pc # "off" /\ ~runner'[slot'[b]].stop
    BY <1>1, <1>4, <1>5 DEF SInv, HeldInv, Holds
  <2>2. \A b, c \in Ids : slot'[b] = slot'[c] /\ slot'[b] # None => b = c
    BY <1>4, <1>5 DEF SInv, HeldInv
  <2>3. \A y \in Starters : job'[y].pc = "put" =>
          /\ y # x /\ job'[y] = job[y] /\ job[y].run \in Runners /\ job[y].run # r
          /\ Holds(job[y].run, job[y].id) /\ job[y].id \in Ids
          /\ \A b \in Ids : slot[b] # job[y].run
    BY <1>1, <1>3 DEF SInv, HeldInv, Job
  <2>4. \A y \in Starters : job'[y].pc = "put" =>
          /\ job'[y].run \in Runners
          /\ runner'[job'[y].run].pc # "off" => runner'[job'[y].run].acct = job'[y].id
          /\ \/ mem'[job'[y].id].status = "disabled"
             \/ runner'[job'[y].run].pc # "off" /\ ~runner'[job'[y].run].stop
          /\ \A b \in Ids : slot'[b] # job'[y].run
    BY <1>1, <1>5, <2>3 DEF Holds
  <2>5. \A y, z \in Starters :
          job'[y].pc = "put" /\ job'[z].pc = "put" /\ job'[y].run = job'[z].run => y = z
    BY <2>3 DEF SInv, HeldInv
  <2> QED
    BY <1>2, <2>1, <2>2, <2>4, <2>5 DEF HeldInv, Holds
<1>7. ServedInv'
  <2>1. \A b \in Ids : Due(b) => Due(b)'
    BY <1>1, <1>3 DEF Due, Mishap, Starters
  <2>2. \A b \in Ids : Serving(b) => Serving(b)'
    BY <1>1 DEF Serving
  <2> QED
    BY <1>1, <2>1, <2>2 DEF SInv, ServedInv, Active
<1> QED
  BY <1>6, <1>7 DEF SInv

\* The steps that clear places of the map.
LEMMA StopOldServes ==
  ASSUME IInv, SInv, StopOld
  PROVE  SInv'
<1>0. PICK a \in Ids : a = Login.id
  BY DEF IInv, TypeOK, Job, Login, Starters
<1>1. /\ job["login"].pc = "stop" /\ job["login"].id = a /\ job \in [Starters -> Job]
      /\ slot \in [Ids -> Runners \cup {None}] /\ runner \in [Runners -> Runner]
      /\ UNCHANGED <<phase, mem, todo, asked, mishaps>>
      /\ None \notin Runners
  BY <1>0, AccountsAssumption
     DEF StopOld, Login, registry, requests, history, IInv, TypeOK
<1>2. Up
  BY <1>1 DEF IInv, Idle, Starters
<1>3. /\ job' = Goto(IF phase = "started" THEN "spawn" ELSE "note")
      /\ job'["login"].pc = IF phase = "started" THEN "spawn" ELSE "note"
      /\ job'["login"].id = a /\ job'["boot"] = job["boot"]
  BY <1>1 DEF StopOld, Goto, Starters, Job
<1>4. Clears({a})
  <2>1. CASE slot[a] # None
    BY <1>0, <1>1, <2>1 DEF StopOld, Clears, Told
  <2>2. CASE slot[a] = None
    <3>1. slot' = slot /\ runner' = runner
      BY <1>0, <2>2 DEF StopOld
    <3> QED
      BY <1>1, <2>2, <3>1 DEF Clears
  <2> QED
    BY <2>1, <2>2
<1>5. PutsStay
  BY <1>3 DEF PutsStay, Starters
<1>6. phase = "started" => (\A b \in Ids : Due(b) => Due(b)') /\ Due(a)'
  BY <1>1, <1>3 DEF Due, Mishap
<1> QED
  BY <1>1, <1>2, <1>4, <1>5, <1>6, MapIsCleared DEF SInv

LEMMA RemoveSlotServes ==
  ASSUME IInv, SInv, NEW a \in Ids, RemoveSlot(a)
  PROVE  SInv'
<1>1. /\ slot \in [Ids -> Runners \cup {None}] /\ runner \in [Runners -> Runner]
      /\ UNCHANGED <<phase, mem, todo, job, mishaps>>
      /\ asked' = asked \cup {a} /\ Up /\ None \notin Runners
  BY AccountsAssumption
     DEF RemoveSlot, registry, requests, IInv, TypeOK
<1>2. Clears({a})
  <2>1. CASE slot[a] # None
    BY <1>1, <2>1 DEF RemoveSlot, Clears, Told
  <2>2. CASE slot[a] = None
    <3>1. slot' = slot /\ runner' = runner
      BY <2>2 DEF RemoveSlot
    <3> QED
      BY <1>1, <2>2, <3>1 DEF Clears
  <2> QED
    BY <2>1, <2>2
<1>3. PutsStay /\ \A b \in Ids : Due(b) => Due(b)'
  BY <1>1 DEF PutsStay, Due, Mishap
<1> QED
  BY <1>1, <1>2, <1>3, MapIsCleared DEF SInv

LEMMA PruneApplyServes ==
  ASSUME IInv, SInv, NEW p \in Pruners, PruneApply(p)
  PROVE  SInv'
<1> DEFINE stale == {a \in Ids : slot[a] # None /\ a \notin pruning[p]}
<1>0. PICK D \in SUBSET Ids : D = stale
  OBVIOUS
<1>1. /\ UNCHANGED <<phase, mem, todo, job, asked>>
      /\ mishaps' = mishaps \cup ({"pruned"} \X (D \cap Active(mem)))
      /\ Clears(D)
  BY <1>0 DEF PruneApply, Clears, registry, requests, history
<1>2. /\ PutsStay /\ \A b \in Ids : Due(b) => Due(b)'
      /\ \A b \in D : mem[b].status = "active" => Due(b)'
  BY <1>1 DEF PutsStay, Due, Mishap, Mishaps, Active
<1>3. CASE Up
  BY <1>1, <1>2, <1>3, MapIsCleared DEF SInv
<1>4. CASE ~Up
  <2>1. /\ \A a \in Ids : slot'[a] = None
        /\ \A x \in Starters : job'[x].pc = "off"
        /\ ~Up'
    BY <1>1, <1>4 DEF SInv, HeldInv, IInv, Idle, Clears, Up
  <2> QED
    BY <2>1 DEF SInv, HeldInv, ServedInv, Up
<1> QED
  BY <1>3, <1>4

\* The steps of the tasks that only move the task, and those of the sessions.
LEMMA TaskMoves ==
  ASSUME IInv, SInv, Up, Up', UNCHANGED <<mem, slot, runner, asked>>, PutsStay,
         phase' = "started" =>
           \A a \in Active(mem) : Due(a)' \/ (phase = "started" /\ ~Due(a))
  PROVE  SInv'
<1>1. RunnersStay /\ StillDisabled
  BY DEF RunnersStay, StillDisabled
<1>2. DuesMet
  BY DEF DuesMet, Active
<1> QED
  BY <1>1, <1>2, MapStays DEF SInv

LEMMA StartersServe ==
  ASSUME IInv, SInv, StartChannel \/ ListAccounts \/ StartNext
  PROVE  SInv'
<1>1. /\ UNCHANGED <<mem, slot, runner, asked, mishaps>>
      /\ job \in [Starters -> Job] /\ job'["login"] = job["login"]
      /\ {"boot", "login"} = Starters
  BY DEF StartChannel, ListAccounts, StartNext, registry, requests, history, IInv,
         TypeOK, Starters
<1>2. Up /\ Up'
  BY DEF StartChannel, ListAccounts, StartNext, Up, IInv, Idle, Starters
<1>3. job'["boot"].pc # "put"
  BY <1>1 DEF StartChannel, ListAccounts, StartNext, NoJob, Starters, Job
<1>4. PutsStay
  BY <1>1, <1>3 DEF PutsStay
<1>5. CASE StartChannel
  <2>1. job'["boot"].pc = "list"
    BY <1>1, <1>5 DEF StartChannel, Job
  <2> QED
    BY <1>1, <1>2, <1>4, <2>1, TaskMoves DEF Due
<1>6. CASE ListAccounts
  <2>1. todo' = Active(mem) /\ phase' = phase
    BY <1>6 DEF ListAccounts
  <2> QED
    BY <1>1, <1>2, <1>4, <2>1, TaskMoves DEF Due
<1>7. CASE StartNext
  <2>1. /\ job["boot"].pc = "next" /\ phase' = phase
        /\ \/ /\ job'["boot"].pc = "spawn" /\ job'["boot"].id \in todo
              /\ todo' = todo \ {job'["boot"].id}
           \/ todo = {} /\ todo' = {}
    BY <1>1, <1>7 DEF StartNext, Job
  <2>2. \A a \in Ids : Due(a) => Due(a)'
    BY <1>1, <2>1 DEF Due, Mishap
  <2> QED
    BY <1>1, <1>2, <1>4, <2>1, <2>2, TaskMoves DEF Active
<1> QED
  BY <1>5, <1>6, <1>7

LEMMA SessionsServe ==
  ASSUME IInv, SInv,
         \/ \E s \in Sessions : NewSession(s) \/ AskStatus(s) \/ TakeLock(s)
         \/ NoteAccount \/ SaveToken \/ DropRequest
         \/ \E p \in Pruners : PruneList(p)
  PROVE  SInv'
<1>1. /\ UNCHANGED <<phase, mem, slot, runner, asked, todo>>
      /\ mishaps \subseteq mishaps' /\ job \in [Starters -> Job]
      /\ {"boot", "login"} = Starters
  BY DEF NewSession, AskStatus, TakeLock, NoteAccount, SaveToken, DropRequest,
         PruneList, registry, requests, tasks, history, IInv, TypeOK, Starters
<1>2. Up /\ Up'
  <2>1. \A s \in Sessions : NewSession(s) \/ AskStatus(s) \/ TakeLock(s) => Up
    BY DEF NewSession, AskStatus, TakeLock, IInv, Idle, SessionInv
  <2>2. \/ NoteAccount \/ SaveToken \/ DropRequest
        \/ \E p \in Pruners : PruneList(p)
        => Up
    BY DEF NoteAccount, SaveToken, DropRequest, PruneList, Up, IInv, Idle, Login,
           Starters
  <2> QED
    BY <1>1, <2>1, <2>2 DEF Up
<1>3. \/ job' = job
      \/ job'["boot"] = job["boot"] /\ job'["login"].pc # "put"
  <2>1. CASE \E s \in Sessions : NewSession(s) \/ AskStatus(s)
    BY <2>1 DEF NewSession, AskStatus, tasks
  <2>2. CASE \E s \in Sessions : TakeLock(s)
    BY <1>1, <2>2, ZenonT(40) DEF TakeLock, NoJob
  <2>3. CASE NoteAccount \/ DropRequest
    BY <1>1, <2>3 DEF NoteAccount, DropRequest, LoginEnds, NoJob
  <2>4. CASE SaveToken
    BY <1>1, <2>4 DEF SaveToken, Goto, Job
  <2>5. CASE \E p \in Pruners : PruneList(p)
    BY <2>5 DEF PruneList
  <2> QED
    BY <2>1, <2>2, <2>3, <2>4, <2>5
<1>4. PutsStay
  BY <1>1, <1>3 DEF PutsStay
<1>5. \A a \in Ids : Due(a) => Due(a)'
  <2>1. CASE job' = job
    BY <1>1, <2>1 DEF Due, Mishap
  <2>2. CASE job' # job /\ job["login"].pc \in {"off", "note", "token"}
    BY <1>1, <1>3, <2>2 DEF Due, Mishap
  <2>3. CASE DropRequest
    BY <1>1, <1>3, <2>3 DEF DropRequest, Due, Mishap, Mishaps, Login
  <2> QED
    BY <2>1, <2>2, <2>3
       DEF NewSession, AskStatus, TakeLock, NoteAccount, SaveToken, PruneList, tasks,
           Login
<1> QED
  BY <1>1, <1>2, <1>4, <1>5, TaskMoves DEF Active

LEMMA InsertServes ==
  ASSUME IInv, SInv, Insert
  PROVE  SInv'
<1>0. PICK a \in Ids : a = Login.id
  BY DEF IInv, TypeOK, Job, Login, Starters
<1>1. /\ UNCHANGED <<phase, slot, runner, asked, todo>>
      /\ mishaps \subseteq mishaps' /\ job \in [Starters -> Job]
      /\ job["login"].pc = "insert" /\ job["login"].id = a /\ {"boot", "login"} = Starters
      /\ \/ job' = Goto("stop")
         \/ job' = LoginEnds /\ <<"unsaved", a>> \in mishaps'
      /\ mem' = [mem EXCEPT ![a] = [status |-> "active", bot |-> NamedBot(Login.s)]]
  BY <1>0 DEF Insert, Login, requests, IInv, TypeOK, Starters
<1>2. Up /\ Up'
  BY <1>1 DEF IInv, Idle, Up
<1>3. mem[a].status = "none" /\ mem \in [Ids -> Entry]
  BY <1>1 DEF IInv, BornInv, TypeOK, Known, Login
<1>4. /\ job'["boot"] = job["boot"]
      /\ \/ job'["login"].pc = "stop" /\ job'["login"].id = a
         \/ job'["login"].pc = "off" /\ <<"unsaved", a>> \in mishaps'
  BY <1>1 DEF Goto, LoginEnds, NoJob, Job
<1>5. RunnersStay /\ StillDisabled /\ PutsStay
  BY <1>1, <1>3, <1>4 DEF RunnersStay, StillDisabled, PutsStay
<1>6. DuesMet
  <2>1. Due(a)'
    BY <1>4 DEF Due, Mishap, Mishaps
  <2>2. \A b \in Ids \ {a} : mem'[b] = mem[b] /\ (Due(b) => Due(b)')
    BY <1>1, <1>3, <1>4 DEF Due, Mishap
  <2> QED
    BY <1>1, <2>1, <2>2 DEF DuesMet
<1> QED
  BY <1>1, <1>2, <1>5, <1>6, MapStays DEF SInv

LEMMA RunnersServe ==
  ASSUME IInv, SInv, BotInv, NEW r \in Runners,
         \/ MergeToken(r) \/ Retire(r) \/ LearnBot(r) \/ NameBot(r) \/ Quit(r)
  PROVE  SInv'
<1>1. /\ UNCHANGED <<phase, slot, asked, todo, mishaps, job>>
      /\ runner \in [Runners -> Runner] /\ mem \in [Ids -> Entry]
      /\ runner[r].pc # "off" /\ runner[r].acct \in Ids
  BY DEF MergeToken, Retire, LearnBot, NameBot, Quit, registry, requests, tasks,
         history, IInv, TypeOK, Runner, Merges
<1>2. Up /\ Up'
  BY <1>1 DEF IInv, Idle, Up
<1>3. /\ \A q \in Runners \ {r} : runner'[q] = runner[q]
      /\ \/ /\ runner'[r].pc # "off" /\ runner'[r].acct = runner[r].acct
            /\ runner'[r].stop = runner[r].stop
         \/ runner'[r].pc = "off" /\ (Retire(r) \/ runner[r].stop)
  BY <1>1 DEF MergeToken, Retire, LearnBot, NameBot, Quit, Off, Runner
<1>4. /\ \A a \in Ids : mem'[a].status \in {mem[a].status, "disabled"}
      /\ Retire(r) /\ Known(mem, runner[r].acct) =>
           mem'[runner[r].acct].status = "disabled"
  BY <1>1 DEF MergeToken, Retire, LearnBot, NameBot, Quit, registry, Disable, Entry,
              Known
<1>5. PICK b \in Ids : b = runner[r].acct
  BY <1>1
<1>6. Known(mem, runner[r].acct)
  BY <1>1 DEF BotInv, RightRunners
<1>7. RunnersStay /\ StillDisabled /\ PutsStay
  BY <1>1, <1>3, <1>4, <1>6 DEF RunnersStay, StillDisabled, PutsStay
<1>8. DuesMet
  BY <1>1, <1>4 DEF DuesMet, Due, Mishap, Entry
<1> QED
  BY <1>1, <1>2, <1>7, <1>8, MapStays DEF SInv

LEMMA DisableRemovedServes ==
  ASSUME IInv, SInv, DisableRemoved
  PROVE  SInv'
<1>1. /\ UNCHANGED <<phase, slot, runner, asked, todo, mishaps, job>>
      /\ mem \in [Ids -> Entry] /\ removal # None
  BY DEF DisableRemoved, requests, IInv, TypeOK
<1>2. Up /\ Up'
  BY <1>1 DEF IInv, Idle, Up
<1>3. \A a \in Ids : mem'[a].status \in {mem[a].status, "disabled"}
  BY <1>1 DEF DisableRemoved, Disable, Entry
<1>4. RunnersStay /\ StillDisabled /\ PutsStay
  BY <1>1, <1>3 DEF RunnersStay, StillDisabled, PutsStay
<1>5. DuesMet
  BY <1>1, <1>3 DEF DuesMet, Due, Mishap
<1> QED
  BY <1>1, <1>2, <1>4, <1>5, MapStays DEF SInv

\* The start and the end of the process.
LEMMA LoadServes ==
  ASSUME IInv, SInv, Load
  PROVE  SInv'
<1>1. /\ UNCHANGED <<slot, runner, job>> /\ phase' = "serving"
      /\ \A a \in Ids : slot[a] = None
      /\ \A x \in Starters : job[x].pc = "off"
  BY DEF Load, tasks, SInv, HeldInv, IInv, Idle
<1> QED
  BY <1>1 DEF SInv, HeldInv, ServedInv

LEMMA EndServes ==
  ASSUME End
  PROVE  SInv'
<1>1. /\ phase' = "down" /\ \A a \in Ids : slot'[a] = None
      /\ \A x \in Starters : job'[x].pc = "off"
  BY DEF End, NoTasks, NoJob
<1> QED
  BY <1>1 DEF SInv, HeldInv, ServedInv

LEMMA InitServes == Init => SInv
BY DEF Init, SInv, HeldInv, ServedInv, NoJob, Off

LEMMA NextServes == IInv /\ BotInv /\ SInv /\ [Next]_vars => SInv'
<1> SUFFICES ASSUME IInv, BotInv, SInv, [Next]_vars PROVE SInv'
  OBVIOUS
<1>1. CASE vars' = vars
  BY <1>1 DEF vars, tasks, history, SInv, HeldInv, Holds, ServedInv, Serving, Due,
              Mishap, Active, Up
<1>2. CASE Next
  BY <1>2, SpawnServes, PutRunnerServes, StopOldServes, RemoveSlotServes,
     PruneApplyServes, StartersServe, SessionsServe, InsertServes, RunnersServe,
     DisableRemovedServes, LoadServes, EndServes
     DEF Next, Prune, Tasks, Registration, StartSteps, RunnerSteps
<1> QED
  BY <1>1, <1>2

\* Once the channel has started and no task is about to start a runner for it,
\* an active account has a runner that polls or is about to merge it away,
\* unless a write was torn or failed, a request was cut off, two tasks started
\* the account at once or a pruning took its runner: no stop, start or look of
\* one task leaves the account of another without service.
THEOREM ActiveAccountsAreServed == Spec => []ActiveIsServed
<1>1. Init => IInv /\ BotInv /\ SInv
  BY InitKeeps, InitBots, InitServes
<1>2. IInv /\ BotInv /\ SInv /\ [Next]_vars => (IInv /\ BotInv /\ SInv)'
  BY NextKeeps, NextBots, NextServes
<1>3. SInv => ActiveIsServed
  BY DEF SInv, ServedInv, ActiveIsServed, Serving, Due, Starters
<1> QED
  BY <1>1, <1>2, <1>3, PTL DEF Spec

-----------------------------------------------------------------------------
(***************************************************************************)
(* A bot whose account is merged away keeps one.                           *)
(***************************************************************************)

\* No account had two runners, and no table grew while accounts were merged.
Orderly == \A c \in Ids : ~Mishap("overlap", c) /\ ~Mishap("reordered", c)

OneRunner ==
  Orderly => \A q, r \in Runners :
    runner[q].pc # "off" /\ runner[r].pc # "off" /\ runner[q].acct = runner[r].acct =>
      q = r

AskedInv == removal # None => removal \in asked

\* A runner has given the token of its account away and will disable it.
Retiring(r) == runner[r].pc = "retire"

\* An account of the bot has been merged away, or is going to be.
Merged(b) ==
  \/ \E a \in Ids \ asked : mem[a].status = "disabled" /\ OfBot(a) = b
  \/ \E r \in Runners : Retiring(r) /\ runner[r].bot = b

Serves(a, b) == mem[a].status = "active" /\ mem[a].bot = b

\* The account that every look-up for the bot finds, which nobody merges away.
Keeper(f, b) ==
  /\ Serves(f, b) /\ \A a \in Ids : Serves(a, b) => order[f] <= order[a]
  /\ \A r \in Runners : ~(Retiring(r) /\ runner[r].acct = f)

Kept(b) == (\E h \in asked : mem[h].bot = b) \/ \E f \in Ids : Keeper(f, b)

KeptInv == Orderly => \A b \in Bots : Merged(b) => Kept(b)

\* The same of the file, for the process that will load it.
FileKept ==
  Orderly => \A a \in Ids \ asked : file[a].status = "disabled" =>
    \E h \in Ids : file[h].bot = OfBot(a) /\ (file[h].status = "active" \/ h \in asked)

MInv == OneRunner /\ AskedInv /\ KeptInv /\ FileKept

LEMMA PlaceOf ==
  ASSUME NEW o \in Orders
  PROVE  o \in [Ids -> Nat] /\ \A a, b \in Ids : o[a] = o[b] => a = b
BY AccountsAssumption

\* Accounts that serve the bot after a step have a first one.
LEMMA SomeIsFirst ==
  ASSUME TypeOK', NEW b, NEW g \in Ids, Serves(g, b)'
  PROVE  \E f \in Ids : /\ Serves(f, b)'
                        /\ \A a \in Ids : Serves(a, b)' => order'[f] <= order'[a]
<1> DEFINE places == {order'[a] : a \in {c \in Ids : mem'[c].status = "active" /\ mem'[c].bot = b}}
<1>1. order' \in [Ids -> Nat] /\ places \subseteq Nat /\ places # {}
  BY PlaceOf DEF TypeOK, Serves
<1>2. PICK m \in places : \A n \in places : ~ (<<n, m>> \in {ss \in Nat \X Nat : ss[1] < ss[2]})
  BY <1>1, LessIsWellFounded, WFMin, Zenon
<1>3. \A n \in places : m <= n
  <2>1. \A n \in places : ~ (n < m)
    BY <1>1, <1>2
  <2> QED BY <1>1, <2>1
<1> QED
  BY <1>3 DEF Serves

\* A keeper stays one, or leaves its place to an account that comes before it
\* and has no runner that merges it away.
LEMMA KeeperStays ==
  ASSUME TypeOK, TypeOK', NEW b, NEW g \in Ids, Keeper(g, b), Serves(g, b)',
         \A a \in Ids : Serves(a, b)' =>
           Serves(a, b) \/ \A r \in Runners : ~(Retiring(r)' /\ runner'[r].acct = a),
         order' = order \/ \A r \in Runners : ~Retiring(r)',
         \A r \in Runners : Retiring(r)' /\ runner'[r].acct = g =>
           Retiring(r) /\ runner[r].acct = g
  PROVE  \E f \in Ids : Keeper(f, b)'
<1>1. PICK f \in Ids : /\ Serves(f, b)'
                       /\ \A a \in Ids : Serves(a, b)' => order'[f] <= order'[a]
  BY SomeIsFirst
<1>2. \A r \in Runners : ~(Retiring(r)' /\ runner'[r].acct = f)
  <2>1. CASE \A r \in Runners : ~Retiring(r)'
    BY <2>1
  <2>2. CASE ~Serves(f, b)
    BY <1>1, <2>2
  <2>3. CASE order' = order /\ Serves(f, b)
    <3>1. order[f] <= order[g] /\ order[g] <= order[f]
      BY <1>1, <2>3 DEF Keeper
    <3>2. order \in [Ids -> Nat] /\ \A a, c \in Ids : order[a] = order[c] => a = c
      BY PlaceOf DEF TypeOK
    <3>3. order[f] = order[g]
      <4>1. order[f] \in Nat /\ order[g] \in Nat
        BY <3>2
      <4> QED
        BY <3>1, <4>1
    <3>4. f = g
      BY <3>2, <3>3
    <3> QED
      BY <2>3, <3>4 DEF Keeper
  <2> QED
    BY <2>1, <2>2, <2>3
<1> QED
  BY <1>1, <1>2 DEF Keeper

\* What is orderly after a step was so before it: a mishap is never forgotten.
LEMMA OrderlyBefore == mishaps \subseteq mishaps' /\ Orderly' => Orderly
BY DEF Orderly, Mishap

\* Steps that start no runner.
LEMMA OneRunnerStays ==
  ASSUME OneRunner, mishaps \subseteq mishaps',
         \A r \in Runners : runner'[r].pc # "off" =>
           runner[r].pc # "off" /\ runner'[r].acct = runner[r].acct
  PROVE  OneRunner'
BY OrderlyBefore DEF OneRunner

LEMMA BotsOfTheKnown ==
  ASSUME IInv
  PROVE  \A a \in Ids : Known(mem, a) => OfBot(a) \in Bots
BY AccountsAssumption DEF IInv, BornInv, TypeOK, OfBot

\* The file is as good as the memory that was written to it.
LEMMA SavedIsKept == IInv /\ KeptInv /\ file = mem => FileKept
<1> SUFFICES ASSUME IInv, KeptInv, file = mem,
                    Orderly, NEW a \in Ids \ asked, mem[a].status = "disabled"
             PROVE  \E h \in Ids : /\ mem[h].bot = OfBot(a)
                                   /\ mem[h].status = "active" \/ h \in asked
  BY DEF FileKept
<1>1. OfBot(a) \in Bots /\ Merged(OfBot(a))
  BY BotsOfTheKnown DEF Known, Merged
<1>2. Kept(OfBot(a)) /\ asked \subseteq Ids
  BY <1>1 DEF KeptInv, IInv, TypeOK
<1> QED
  BY <1>2 DEF Kept, Keeper, Serves

LEMMA SavedIsKeptAfter == (IInv /\ KeptInv /\ file = mem)' => FileKept'
BY SavedIsKept, PTL

\* A file that is not written.
LEMMA FileStays ==
  ASSUME IInv, FileKept, file' = file, asked \subseteq asked', mishaps \subseteq mishaps',
         \A a \in Ids : Known(file, a) => OfBot(a)' = OfBot(a)
  PROVE  FileKept'
BY OrderlyBefore DEF FileKept, Known

\* Steps that leave accounts and their order alone and begin to merge nothing.
LEMMA KeptStays ==
  ASSUME IInv, KeptInv, UNCHANGED <<mem, born, order>>, asked \subseteq asked',
         mishaps \subseteq mishaps',
         \A r \in Runners : Retiring(r)' => /\ Retiring(r)
                                            /\ runner'[r].acct = runner[r].acct
                                            /\ runner'[r].bot = runner[r].bot
  PROVE  KeptInv'
<1>1. \A a, b : Serves(a, b)' = Serves(a, b) /\ OfBot(a)' = OfBot(a)
  BY DEF Serves, OfBot
<1>2. \A b : Merged(b)' => Merged(b)
  BY <1>1 DEF Merged
<1>3. \A f \in Ids, b \in Bots : Keeper(f, b) => Keeper(f, b)'
  BY <1>1 DEF Keeper
<1>4. \A b \in Bots : Kept(b) => Kept(b)'
  BY <1>3 DEF Kept
<1> QED
  BY <1>2, <1>4, OrderlyBefore DEF KeptInv

\* Steps that write no entry.
LEMMA QuietMerges ==
  ASSUME IInv, BotInv, MInv, IInv',
         \/ StartChannel \/ ListAccounts \/ StartNext \/ NoteAccount \/ DropRequest
         \/ StopOld \/ SaveToken \/ \E p \in Pruners : Prune(p)
         \/ \E s \in Sessions : NewSession(s) \/ AskStatus(s) \/ TakeLock(s)
         \/ \E a \in Ids : RemoveSlot(a)
         \/ \E r \in Runners : LearnBot(r) \/ Quit(r)
         \/ \E x \in Starters : PutRunner(x)
  PROVE  MInv'
<1>1. /\ UNCHANGED <<mem, order, born>> /\ file' \in {file, mem}
      /\ mishaps \subseteq mishaps' /\ asked \subseteq asked'
  BY DEF StartChannel, ListAccounts, StartNext, NoteAccount, DropRequest, StopOld,
         Prune, PruneList, PruneApply, NewSession, AskStatus, TakeLock, SaveToken, RemoveSlot,
         LearnBot, Quit, PutRunner, registry, history
<1>2. /\ runner \in [Runners -> Runner] /\ slot \in [Ids -> Runners \cup {None}]
      /\ Login.id \in Ids
  BY DEF IInv, TypeOK, Starters, Login, Job
<1>3. \A r \in Runners : runner'[r].pc # "off" =>
        /\ runner[r].pc # "off" /\ runner'[r].acct = runner[r].acct
        /\ runner'[r].bot = runner[r].bot
        /\ runner'[r].pc = "retire" => runner[r].pc = "retire"
  <2>1. CASE StopOld \/ \E a \in Ids : RemoveSlot(a)
    <3>1. runner' = runner \/ \E q \in Runners : runner' = Told(q)
      BY <1>2, <2>1 DEF StopOld, RemoveSlot
    <3> QED
      BY <1>2, <3>1 DEF Told, Runner
  <2>2. CASE \E p \in Pruners : PruneApply(p)
    BY <1>2, <2>2 DEF PruneApply, Runner
  <2>3. CASE \E r \in Runners : LearnBot(r) \/ Quit(r)
    BY <1>2, <2>3 DEF LearnBot, Quit, Off, Runner
  <2>4. CASE runner' = runner
    BY <2>4
  <2> QED
    BY <2>1, <2>2, <2>3, <2>4
       DEF StartChannel, ListAccounts, StartNext, NoteAccount, DropRequest, Prune,
           PruneList, NewSession, AskStatus, TakeLock, SaveToken, PutRunner
<1>4. OneRunner'
  BY <1>1, <1>3, OneRunnerStays DEF MInv
<1>5. AskedInv'
  <2>1. removal' = removal \/ removal' \in asked'
    BY DEF StartChannel, ListAccounts, StartNext, NoteAccount, DropRequest, StopOld,
           Prune, PruneList, PruneApply, NewSession, AskStatus, TakeLock, SaveToken, RemoveSlot,
           LearnBot, Quit, PutRunner, tasks
  <2> QED
    BY <1>1, <2>1 DEF MInv, AskedInv
<1>6. KeptInv'
  BY <1>1, <1>3, KeptStays DEF MInv, Retiring
<1>7. FileKept'
  <2>1. CASE file' = file
    BY <1>1, <2>1, FileStays DEF MInv, OfBot
  <2>2. CASE file' = mem
    BY <1>1, <1>6, <2>2, SavedIsKeptAfter
  <2> QED
    BY <1>1, <2>1, <2>2
<1> QED
  BY <1>4, <1>5, <1>6, <1>7 DEF MInv

\* A second runner for an account is a mishap.
LEMMA SpawnMerges ==
  ASSUME IInv, BotInv, MInv, IInv', NEW x \in Starters, Spawn(x)
  PROVE  MInv'
<1>0. PICK a \in Ids, r \in {AnyOf(Free)} : a = job[x].id
  BY DEF IInv, TypeOK, Job
<1>1. /\ UNCHANGED <<mem, file, order, born, asked, removal>>
      /\ runner \in [Runners -> Runner] /\ mishaps \subseteq mishaps'
  BY DEF Spawn, registry, history, IInv, TypeOK
<1>2. \/ runner' = runner
      \/ /\ r \in Runners /\ runner[r].pc = "off"
         /\ runner'[r].pc = "poll" /\ runner'[r].acct = a
         /\ \A q \in Runners \ {r} : runner'[q] = runner[q]
         /\ Alive(a) => <<"overlap", a>> \in mishaps'
  <2>1. ASSUME Free # {} PROVE r \in Free
    BY <1>0, <2>1, AnyOfSet
  <2> QED
    BY <1>0, <1>1, <2>1, ZenonT(40) DEF Spawn, Free, Off
<1>3. OneRunner'
  <2>1. CASE runner' = runner
    BY <1>1, <2>1, OneRunnerStays DEF MInv
  <2>2. CASE runner' # runner
    <3> SUFFICES ASSUME Orderly', NEW p \in Runners, NEW q \in Runners,
                        runner'[p].pc # "off", runner'[q].pc # "off",
                        runner'[p].acct = runner'[q].acct
                 PROVE  p = q
      BY DEF OneRunner
    <3>1. ~Alive(a)
      BY <1>2, <2>2 DEF Orderly, Mishap
    <3>2. OneRunner /\ Orderly
      BY <1>1, OrderlyBefore DEF MInv
    <3> QED
      BY <1>2, <2>2, <3>1, <3>2 DEF Alive, OneRunner
  <2> QED
    BY <2>1, <2>2
<1>4. KeptInv'
  BY <1>1, <1>2, KeptStays DEF MInv, Retiring
<1>5. AskedInv' /\ FileKept'
  BY <1>1, FileStays DEF MInv, AskedInv, OfBot
<1> QED
  BY <1>3, <1>4, <1>5 DEF MInv

\* The account that gets the token is the keeper, or is found because the bot
\* has lost none.
LEMMA MergeTokenMerges ==
  ASSUME IInv, BotInv, MInv, IInv', NEW r \in Runners, MergeToken(r)
  PROVE  MInv'
<1>0. PICK a \in Ids, b \in {runner[r].bot}, h \in {FindBot(runner[r].bot)} :
        a = runner[r].acct
  BY DEF IInv, TypeOK, Runner
<1>1. /\ UNCHANGED <<mem, file, order, born, asked, removal, mishaps>>
      /\ runner \in [Runners -> Runner] /\ order \in Orders
      /\ runner[r].pc = "poll" /\ h # None /\ h # a
  BY <1>0 DEF MergeToken, Merges, tasks, history, IInv, TypeOK
<1>2. /\ runner'[r].pc = "retire" /\ runner'[r].acct = a /\ runner'[r].bot = b
      /\ \A q \in Runners \ {r} : runner'[q] = runner[q]
  BY <1>0, <1>1 DEF MergeToken, Runner
<1>3. /\ h \in Ids /\ b # None /\ Serves(h, b)
      /\ \A c \in Ids : Serves(c, b) => order[h] <= order[c]
  BY <1>0, <1>1, FindBotFinds DEF Serves, IInv
<1>4. b = OfBot(a) /\ b = OfBot(h)
  BY <1>0, <1>1, <1>3 DEF BotInv, RightRunners, RightNames, Serves
<1>5. OneRunner'
  <2>1. \A q \in Runners : runner'[q].pc # "off" =>
          runner[q].pc # "off" /\ runner'[q].acct = runner[q].acct
    BY <1>0, <1>1, <1>2
  <2> QED
    BY <1>1, <2>1, OneRunnerStays DEF MInv
<1>6. AskedInv' /\ FileKept'
  BY <1>1, FileStays DEF MInv, AskedInv, OfBot
<1>7. ASSUME Orderly, NEW c \in Bots, Merged(c)' PROVE Kept(c)'
  <2>1. KeptInv
    BY DEF MInv
  <2>2. \A d \in Ids : \A e : Serves(d, e)' = Serves(d, e)
    BY <1>1 DEF Serves
  <2>3. CASE Merged(c) /\ \E k \in asked : mem[k].bot = c
    BY <1>1, <2>3 DEF Kept
  <2>4. CASE \E f \in Ids : Keeper(f, c)
    <3>1. PICK f \in Ids : Keeper(f, c)
      BY <2>4
    <3>2. f # a
      <4>1. CASE c = b
        <5>1. order[f] <= order[h] /\ order[h] <= order[f]
          BY <1>3, <3>1, <4>1 DEF Keeper
        <5>2. order[f] = order[h]
          <6>1. order[f] \in Nat /\ order[h] \in Nat
            BY <1>1, <1>3, PlaceOf
          <6> QED
            BY <5>1, <6>1
        <5> QED
          BY <1>1, <1>3, <5>2, PlaceOf
      <4>2. CASE c # b
        <5>1. OfBot(f) = c
          BY <3>1, AccountsAssumption DEF Keeper, Serves, BotInv, RightNames
        <5> QED
          BY <1>4, <4>2, <5>1
      <4> QED
        BY <4>1, <4>2
    <3>3. Keeper(f, c)'
      BY <1>1, <1>2, <2>2, <3>1, <3>2 DEF Keeper, Retiring
    <3> QED
      BY <3>3 DEF Kept
  <2>5. CASE ~Merged(c)
    <3>1. c = b
      <4>1. \A d \in Ids : OfBot(d)' = OfBot(d)
        BY <1>1 DEF OfBot
      <4> QED
        BY <1>1, <1>2, <1>7, <2>5, <4>1 DEF Merged, Retiring
    <3>2. \A q \in Runners : ~(Retiring(q) /\ runner[q].acct = h)
      BY <1>4, <2>5, <3>1 DEF Merged, Retiring, BotInv, RightRunners
    <3>3. Keeper(h, b)'
      BY <1>1, <1>2, <1>3, <2>2, <3>2 DEF Keeper, Retiring
    <3> QED
      BY <1>3, <3>1, <3>3 DEF Kept
  <2> QED
    BY <1>7, <2>1, <2>3, <2>4, <2>5 DEF KeptInv, Kept
<1>8. KeptInv'
  BY <1>1, <1>7, OrderlyBefore DEF KeptInv
<1> QED
  BY <1>5, <1>6, <1>8 DEF MInv

\* The account that has given its token away is disabled: it is not the keeper.
LEMMA RetireMerges ==
  ASSUME IInv, BotInv, MInv, IInv', NEW r \in Runners, Retire(r)
  PROVE  MInv'
<1>0. PICK a \in Ids, b \in {runner[r].bot} : a = runner[r].acct
  BY DEF IInv, TypeOK, Runner
<1>1. /\ UNCHANGED <<order, born, asked, removal, mishaps>> /\ file' = mem'
      /\ runner \in [Runners -> Runner] /\ mem \in [Ids -> Entry]
      /\ Retiring(r)
  BY DEF Retire, Disable, Save, tasks, history, IInv, TypeOK, Retiring
<1>2. b = OfBot(a) /\ Known(mem, a)
  BY <1>0, <1>1 DEF Retiring, BotInv, RightRunners
<1>3. /\ runner'[r].pc = "off" /\ \A q \in Runners \ {r} : runner'[q] = runner[q]
      /\ mem'[a].status = "disabled" /\ mem'[a].bot = mem[a].bot
      /\ \A c \in Ids \ {a} : mem'[c] = mem[c]
  BY <1>0, <1>1, <1>2 DEF Retire, Disable, Off, Known, Entry
<1>4. OneRunner'
  <2>1. \A q \in Runners : runner'[q].pc # "off" =>
          runner[q].pc # "off" /\ runner'[q].acct = runner[q].acct
    BY <1>3
  <2> QED
    BY <1>1, <2>1, OneRunnerStays DEF MInv
<1>5. ASSUME Orderly, NEW c \in Bots, Merged(c)' PROVE Kept(c)'
  <2>1. Merged(c)
    <3>1. \A d \in Ids : OfBot(d)' = OfBot(d)
      BY <1>1 DEF OfBot
    <3> QED
      BY <1>0, <1>1, <1>2, <1>3, <1>5, <3>1 DEF Merged, Retiring
  <2>2. CASE \E k \in asked : mem[k].bot = c
    <3>1. asked \subseteq Ids
      BY DEF IInv, TypeOK
    <3> QED
      BY <1>1, <1>3, <2>2, <3>1 DEF Kept
  <2>3. CASE \E f \in Ids : Keeper(f, c)
    <3>1. PICK f \in Ids : Keeper(f, c)
      BY <2>3
    <3>2. f # a
      BY <1>0, <1>1, <3>1 DEF Keeper
    <3>3. Keeper(f, c)'
      BY <1>1, <1>3, <3>1, <3>2 DEF Keeper, Serves, Retiring
    <3> QED
      BY <3>3 DEF Kept
  <2> QED
    BY <1>5, <2>1, <2>2, <2>3 DEF MInv, KeptInv, Kept
<1>6. KeptInv'
  BY <1>1, <1>5, OrderlyBefore DEF KeptInv
<1>7. AskedInv' /\ FileKept'
  BY <1>1, <1>6, SavedIsKeptAfter DEF MInv, AskedInv
<1> QED
  BY <1>4, <1>6, <1>7 DEF MInv

\* An account that takes its name may come before the keeper; nobody is merging
\* it away, for the runner that names it is the only one it has.
LEMMA NameBotMerges ==
  ASSUME IInv, BotInv, MInv, IInv', NEW r \in Runners, NameBot(r)
  PROVE  MInv'
<1>0. PICK a \in Ids, b \in {runner[r].bot} : a = runner[r].acct
  BY DEF IInv, TypeOK, Runner
<1>1. /\ UNCHANGED <<order, born, asked, removal, mishaps>> /\ file' = mem'
      /\ runner \in [Runners -> Runner] /\ mem \in [Ids -> Entry]
      /\ runner[r].pc = "name"
  BY DEF NameBot, Save, tasks, history, IInv, TypeOK
<1>2. b = OfBot(a) /\ Known(mem, a)
  BY <1>0, <1>1 DEF BotInv, RightRunners
<1>3. /\ runner'[r].pc = "poll" /\ runner'[r].acct = a
      /\ \A q \in Runners \ {r} : runner'[q] = runner[q]
      /\ mem'[a].status = mem[a].status /\ mem'[a].bot = b
      /\ \A c \in Ids \ {a} : mem'[c] = mem[c]
  BY <1>0, <1>1, <1>2 DEF NameBot, Known, Entry, Runner
<1>4. OneRunner'
  <2>1. \A q \in Runners : runner'[q].pc # "off" =>
          runner[q].pc # "off" /\ runner'[q].acct = runner[q].acct
    BY <1>0, <1>1, <1>3
  <2> QED
    BY <1>1, <2>1, OneRunnerStays DEF MInv
<1>5. ASSUME Orderly, NEW c \in Bots, Merged(c)' PROVE Kept(c)'
  <2>0. mem[a].bot = None \/ mem[a].bot = b
    BY <1>2 DEF BotInv, RightNames
  <2>1. Merged(c)
    <3>1. \A d \in Ids : OfBot(d)' = OfBot(d)
      BY <1>1 DEF OfBot
    <3> QED
      BY <1>1, <1>3, <1>5, <3>1 DEF Merged, Retiring
  <2>2. CASE \E k \in asked : mem[k].bot = c
    <3>1. asked \subseteq Ids /\ None \notin Bots
      BY AccountsAssumption DEF IInv, TypeOK
    <3> QED
      BY <1>1, <1>3, <2>0, <2>2, <3>1 DEF Kept
  <2>3. CASE \E f \in Ids : Keeper(f, c)
    <3>1. PICK f \in Ids : Keeper(f, c)
      BY <2>3
    <3>2. Serves(f, c)'
      BY <1>3, <2>0, <3>1, AccountsAssumption DEF Keeper, Serves
    <3>3. \A q \in Runners : Retiring(q)' =>
            Retiring(q) /\ runner'[q].acct = runner[q].acct
      BY <1>1, <1>3 DEF Retiring
    <3>4. \A q \in Runners : ~(Retiring(q)' /\ runner'[q].acct = a)
      BY <1>0, <1>1, <1>3, <1>5, <3>3 DEF Retiring, MInv, OneRunner
    <3>5. \A d \in Ids : Serves(d, c)' => Serves(d, c) \/ d = a
      BY <1>3 DEF Serves
    <3>6. \E g \in Ids : Keeper(g, c)'
      BY <1>1, <3>1, <3>2, <3>3, <3>4, <3>5, KeeperStays DEF IInv
    <3> QED
      BY <3>6 DEF Kept
  <2> QED
    BY <1>5, <2>1, <2>2, <2>3 DEF MInv, KeptInv, Kept
<1>6. KeptInv'
  BY <1>1, <1>5, OrderlyBefore DEF KeptInv
<1>7. AskedInv' /\ FileKept'
  BY <1>1, <1>6, SavedIsKeptAfter DEF MInv, AskedInv
<1> QED
  BY <1>4, <1>6, <1>7 DEF MInv

\* A keeper that somebody has asked to remove is still the account it was.
LEMMA DisableRemovedMerges ==
  ASSUME IInv, BotInv, MInv, IInv', DisableRemoved
  PROVE  MInv'
<1>1. /\ UNCHANGED <<order, born, asked, runner, mishaps>> /\ file' = mem'
      /\ mem \in [Ids -> Entry] /\ removal \in asked /\ removal' = None
      /\ asked \subseteq Ids
  BY DEF DisableRemoved, Disable, Save, IInv, TypeOK, MInv, AskedInv
<1>2. /\ \A c \in Ids \ {removal} : mem'[c] = mem[c]
      /\ \A c \in Ids : mem'[c].bot = mem[c].bot
  BY <1>1 DEF DisableRemoved, Disable, Entry
<1>3. OneRunner'
  BY <1>1, OneRunnerStays DEF MInv
<1>4. ASSUME Orderly, NEW c \in Bots, Merged(c)' PROVE Kept(c)'
  <2>1. Merged(c)
    <3>1. \A d \in Ids : OfBot(d)' = OfBot(d)
      BY <1>1 DEF OfBot
    <3> QED
      BY <1>1, <1>2, <1>4, <3>1 DEF Merged, Retiring
  <2>2. CASE \E k \in asked : mem[k].bot = c
    BY <1>1, <1>2, <2>2 DEF Kept
  <2>3. CASE \E f \in Ids : Keeper(f, c)
    <3>1. PICK f \in Ids : Keeper(f, c)
      BY <2>3
    <3>2. CASE f = removal
      BY <1>1, <1>2, <3>1, <3>2 DEF Kept, Keeper, Serves
    <3>3. CASE f # removal
      <4>1. \A d \in Ids : Serves(d, c)' => Serves(d, c) \/ d = removal
        BY <1>2 DEF Serves
      <4>2. mem'[removal].status = "active" => mem[removal].status = "active"
        BY <1>1 DEF DisableRemoved, Disable, Entry
      <4>3. \A d \in Ids : Serves(d, c)' => Serves(d, c)
        BY <1>2, <4>1, <4>2 DEF Serves
      <4>4. Serves(f, c)'
        BY <1>2, <3>1, <3>3 DEF Keeper, Serves
      <4>5. Keeper(f, c)'
        BY <1>1, <3>1, <4>3, <4>4 DEF Keeper, Retiring
      <4> QED
        BY <4>5 DEF Kept
    <3> QED
      BY <3>2, <3>3
  <2> QED
    BY <1>4, <2>1, <2>2, <2>3 DEF MInv, KeptInv, Kept
<1>5. KeptInv'
  BY <1>1, <1>4, OrderlyBefore DEF KeptInv
<1>6. AskedInv' /\ FileKept'
  BY <1>1, <1>5, SavedIsKeptAfter DEF AskedInv
<1> QED
  BY <1>3, <1>5, <1>6 DEF MInv

\* A new account has no runner.  Either the table keeps its order, or nobody is
\* merging an account away.
LEMMA InsertMerges ==
  ASSUME IInv, BotInv, MInv, IInv', Insert
  PROVE  MInv'
<1>0. PICK a \in Ids : a = Login.id
  BY DEF IInv, TypeOK, Job, Login, Starters
<1>1. /\ UNCHANGED <<asked, runner, removal>> /\ file' \in {file, mem'}
      /\ mem \in [Ids -> Entry] /\ mishaps \subseteq mishaps' /\ asked \subseteq Ids
      /\ \E e \in [status : {"active"}, bot : Bots \cup {None}] :
           mem' = [mem EXCEPT ![a] = e]
      /\ born' = [born EXCEPT ![a] = Login.s] /\ born \in [Ids -> Tokens \cup {None}]
  <2>1. NamedBot(Login.s) \in Bots \cup {None}
    BY AccountsAssumption DEF NamedBot, Insert, IInv, SessionInv, Busy, Tokens
  <2> QED
    BY <1>0, <2>1 DEF Insert, Save, IInv, TypeOK
<1>2. /\ mem'[a].status = "active"
      /\ \A c \in Ids \ {a} : mem'[c] = mem[c] /\ OfBot(c)' = OfBot(c)
  BY <1>1 DEF OfBot
<1>3. ~Known(mem, a) /\ ~Known(file, a)
  BY <1>0 DEF Insert, IInv, BornInv, FileInv, Idle, Login, Starters
<1>4. \A r \in Runners : runner[r].pc # "off" => runner[r].acct # a
  BY <1>3 DEF BotInv, RightRunners
<1>5. OneRunner'
  BY <1>1, OneRunnerStays DEF MInv
<1>6. ASSUME Orderly', NEW c \in Bots, Merged(c)' PROVE Kept(c)'
  <2>1. Orderly
    BY <1>1, <1>6, OrderlyBefore
  <2>2. order' = order \/ \A r \in Runners : ~Retiring(r)
    <3> SUFFICES ASSUME NEW r \in Runners, Retiring(r), order' # order PROVE FALSE
      OBVIOUS
    <3>1. <<"reordered", runner[r].acct>> \in mishaps'
      BY DEF Insert, Reordered, Retiring
    <3>2. runner[r].acct \in Ids
      BY DEF IInv, TypeOK, Runner
    <3> QED
      BY <1>6, <3>1, <3>2 DEF Orderly, Mishap
  <2>3. Merged(c)
    BY <1>1, <1>2, <1>6 DEF Merged, Retiring
  <2>4. \A d \in Ids, e \in Bots : mem[d].bot = e => mem'[d].bot = e
    BY <1>2, <1>3, AccountsAssumption DEF BotInv, RightNames
  <2>5. CASE \E k \in asked : mem[k].bot = c
    BY <1>1, <2>4, <2>5 DEF Kept
  <2>6. CASE \E f \in Ids : Keeper(f, c)
    <3>1. PICK f \in Ids : Keeper(f, c)
      BY <2>6
    <3>2. f # a
      BY <1>3, <3>1 DEF Keeper, Serves, Known
    <3>3. Serves(f, c)'
      BY <1>2, <3>1, <3>2 DEF Keeper, Serves
    <3>4. \A d \in Ids : Serves(d, c)' => Serves(d, c) \/ d = a
      BY <1>2 DEF Serves
    <3>5. \A r \in Runners : ~(Retiring(r)' /\ runner'[r].acct = a)
      BY <1>1, <1>4 DEF Retiring
    <3>6. \A r \in Runners : Retiring(r)' => Retiring(r) /\ runner'[r].acct = runner[r].acct
      BY <1>1 DEF Retiring
    <3>7. \E g \in Ids : Keeper(g, c)'
      BY <2>2, <3>1, <3>3, <3>4, <3>5, <3>6, KeeperStays DEF IInv
    <3> QED
      BY <3>7 DEF Kept
  <2> QED
    BY <2>1, <2>3, <2>5, <2>6 DEF MInv, KeptInv, Kept
<1>7. KeptInv'
  BY <1>6 DEF KeptInv
<1>8. FileKept'
  <2>1. CASE file' = file
    <3>1. \A d \in Ids : Known(file, d) => OfBot(d)' = OfBot(d)
      BY <1>2, <1>3
    <3> QED
      BY <1>1, <2>1, <3>1, FileStays DEF MInv
  <2>2. CASE file' = mem'
    BY <1>7, <2>2, SavedIsKeptAfter
  <2> QED
    BY <1>1, <2>1, <2>2
<1>9. AskedInv'
  BY <1>1 DEF MInv, AskedInv
<1> QED
  BY <1>5, <1>7, <1>8, <1>9 DEF MInv

\* A process that starts finds in the file what the last one kept.
LEMMA LoadMerges ==
  ASSUME IInv, BotInv, MInv, IInv', Load
  PROVE  MInv'
<1>1. /\ UNCHANGED <<asked, runner, removal, mishaps>>
      /\ \A r \in Runners : runner[r].pc = "off"
      /\ file \in [Ids -> Entry]
  BY DEF Load, tasks, IInv, TypeOK, Idle
<1>2. OneRunner' /\ AskedInv'
  BY <1>1, OneRunnerStays DEF MInv, AskedInv
<1>3. CASE mem' = file /\ UNCHANGED <<file, token, born>>
  <2>1. FileKept'
    BY <1>1, <1>3, FileStays DEF MInv, OfBot
  <2>2. ASSUME Orderly', NEW c \in Bots, Merged(c)' PROVE Kept(c)'
    <3>1. \A d \in Ids : OfBot(d)' = OfBot(d)
      BY <1>3 DEF OfBot
    <3>2. PICK a \in Ids \ asked : file[a].status = "disabled" /\ OfBot(a) = c
      BY <1>1, <1>3, <2>2, <3>1 DEF Merged, Retiring
    <3>3. Orderly
      BY <1>1, <2>2 DEF Orderly, Mishap
    <3>4. PICK h \in Ids : file[h].bot = c /\ (file[h].status = "active" \/ h \in asked)
      BY <3>2, <3>3 DEF MInv, FileKept
    <3>5. CASE h \in asked
      BY <1>1, <1>3, <3>4, <3>5 DEF Kept
    <3>6. CASE file[h].status = "active"
      <4>1. Serves(h, c)'
        BY <1>3, <3>4, <3>6 DEF Serves
      <4>2. PICK f \in Ids : /\ Serves(f, c)'
                             /\ \A d \in Ids : Serves(d, c)' => order'[f] <= order'[d]
        BY <4>1, SomeIsFirst DEF IInv
      <4>3. Keeper(f, c)'
        BY <1>1, <4>2 DEF Keeper, Retiring
      <4> QED
        BY <4>3 DEF Kept
    <3> QED
      BY <3>4, <3>5, <3>6
  <2> QED
    BY <1>2, <2>1, <2>2 DEF MInv, KeptInv
<1>4. CASE Migrate
  <2>1. /\ file' = mem' /\ \A a \in Ids : mem'[a].status # "disabled"
    BY <1>1, <1>4, AccountsAssumption DEF Migrate, Save, Entry
  <2>2. KeptInv'
    BY <1>1, <2>1 DEF KeptInv, Merged, Retiring
  <2> QED
    BY <1>2, <2>1, <2>2, SavedIsKeptAfter DEF MInv
<1> QED
  BY <1>3, <1>4 DEF Load

LEMMA EndMerges ==
  ASSUME IInv, BotInv, MInv, End
  PROVE  MInv'
<1>1. /\ UNCHANGED <<file, born, asked>> /\ mishaps \subseteq mishaps'
      /\ \A a \in Ids : mem'[a].status = "none"
      /\ \A r \in Runners : runner'[r].pc = "off"
      /\ removal' = None
  BY DEF End, NoTasks, NoEntry, Off, history
<1>2. OneRunner' /\ AskedInv'
  BY <1>1 DEF OneRunner, AskedInv
<1>3. KeptInv'
  BY <1>1 DEF KeptInv, Merged, Retiring
<1>4. FileKept'
  BY <1>1, FileStays DEF MInv, OfBot
<1> QED
  BY <1>2, <1>3, <1>4 DEF MInv

LEMMA InitMerges == Init => MInv
BY DEF Init, MInv, OneRunner, AskedInv, KeptInv, FileKept, Merged, Retiring, NoEntry, Off

LEMMA NextMerges == IInv /\ BotInv /\ MInv /\ [Next]_vars => MInv'
<1> SUFFICES ASSUME IInv, BotInv, MInv, [Next]_vars PROVE MInv'
  OBVIOUS
<1>1. IInv'
  BY NextKeeps
<1>2. CASE vars' = vars
  <2>1. UNCHANGED <<mem, file, order, born, runner, asked, removal, mishaps>>
    BY <1>2 DEF vars, registry, tasks, history
  <2>2. OneRunner' /\ AskedInv' /\ FileKept'
    BY <2>1, OneRunnerStays, FileStays DEF MInv, AskedInv, OfBot
  <2>3. KeptInv'
    BY <2>1, KeptStays DEF MInv, Retiring
  <2> QED
    BY <2>2, <2>3 DEF MInv
<1>3. CASE Next
  BY <1>1, <1>3, QuietMerges, SpawnMerges, MergeTokenMerges, RetireMerges, NameBotMerges,
     DisableRemovedMerges, InsertMerges, LoadMerges, EndMerges
     DEF Next, Prune, Tasks, Registration, StartSteps, RunnerSteps
<1> QED
  BY <1>2, <1>3

\* A bot whose account was merged away has an active account still, or had one
\* that somebody asked to remove: every account that gives its token to the one
\* it found for its bot and is disabled leaves behind one that no runner merges
\* away.  It takes one runner for each account, and a table that is not walked
\* in another order while accounts are merged.
THEOREM MergedAccountsAreServed == Spec => []MergedIsServed
<1>1. Init => IInv /\ BotInv /\ MInv
  BY InitKeeps, InitBots, InitMerges
<1>2. IInv /\ BotInv /\ MInv /\ [Next]_vars => (IInv /\ BotInv /\ MInv)'
  BY NextKeeps, NextBots, NextMerges
<1>3. IInv /\ BotInv /\ MInv => MergedIsServed
  <2> SUFFICES ASSUME IInv, BotInv, MInv, Orderly,
                      NEW a \in Ids \ asked, mem[a].status = "disabled"
               PROVE  Heir(OfBot(a))
    BY DEF MergedIsServed, Orderly, OfBot
  <2>1. OfBot(a) \in Bots /\ Merged(OfBot(a))
    BY BotsOfTheKnown DEF Known, Merged
  <2>2. Kept(OfBot(a)) /\ asked \subseteq Ids
    BY <2>1 DEF MInv, KeptInv, IInv, TypeOK
  <2> QED
    BY <2>2 DEF Kept, Keeper, Serves, Heir
<1> QED
  BY <1>1, <1>2, <1>3, PTL DEF Spec
=============================================================================
