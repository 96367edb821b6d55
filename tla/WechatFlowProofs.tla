-------------------------- MODULE WechatFlowProofs --------------------------
(***************************************************************************)
(* Theorems about WechatFlow, for every number of users, senders, messages *)
(* and calls of process, and any number of drafts and bindings.            *)
(*                                                                         *)
(* What a draft carries from one message to the next is its stamp: a draft *)
(* that may be added has a stamp nothing was added with, and the record of *)
(* a reply that showed it.  What a call carries over its waits is the id   *)
(* of the binding it has read, and the place in the log it alone can fill. *)
(***************************************************************************)
EXTENDS WechatFlow, TLAPS

USE FlowAssumption

\* A call that is open has a message of its sender, whose lock it holds.
CallInv ==
  /\ \A r \in Runs : run[r].pc # "idle" =>
       /\ run[r].sender \in Senders /\ run[r].message \in MessageIds
       /\ run[r].user \in Users /\ Content(r) # Nothing
       /\ run[r].id <= issued
  /\ \A q, r \in Runs :
       run[q].pc # "idle" /\ run[r].pc # "idle" /\ run[q].sender = run[r].sender
         => q = r

\* The id of a binding says whose it is, and while the model reads, the
\* binding stays and the message has no reply.
IdInv ==
  /\ \A u \in Users : Bound(u) => binding[u].id <= issued
  /\ \A r \in Runs :
       run[r].pc # "idle" /\ Content(r).kind # "code" /\ StillBound(r)
         => binding[run[r].user].sender = run[r].sender
  /\ \A r \in Runs : run[r].pc = "reading" =>
       /\ Content(r).kind = "text" /\ StillBound(r)
       /\ log[run[r].sender][run[r].message] = Nothing

\* Whatever can bind a user was asked for since the user last unbound.
AskedInv ==
  /\ BoundByOwnRequest
  /\ \A u \in Users : /\ code[u] # Nothing => code[u].asked = unbinds[u]
                      /\ qr[u] # Nothing => qr[u].asked = unbinds[u]

\* A draft that can be added is the only one with its stamp, and nothing was
\* added with it.
StampInv ==
  /\ \A u \in Users : HasDraft(u) => binding[u].draft.stamp <= drafts
  /\ \A u, v \in Users :
       HasDraft(u) /\ HasDraft(v)
         /\ binding[u].draft.stamp = binding[v].draft.stamp => u = v
  /\ \A x \in ByMessage : x.stamp <= drafts
  /\ \A x \in ByMessage, u \in Users :
       HasDraft(u) /\ binding[u].draft.stamp = x.stamp => binding[u].draft.added

\* A draft that is ready was shown to the sender, one that has been warned of
\* has its warning.
ShownTo(s, d) ==
  /\ d.ready => d.fields # Partial /\ Answered(s, "preview", d.stamp)
  /\ d.warned => Answered(s, "duplicate", d.stamp)

ShownInv ==
  \A u \in Users : HasDraft(u) => ShownTo(binding[u].sender, binding[u].draft)

\* The message that added a subscription has its reply.
LogInv ==
  \A x \in ByMessage : /\ x.message \in MessageIds
                       /\ log[x.sender][x.message] # Nothing

IInv == /\ TypeOK /\ CallInv /\ IdInv /\ AskedInv
        /\ StampInv /\ ShownInv /\ LogInv
        /\ AddedOnce /\ PreviewedFirst /\ WarnedFirst

-----------------------------------------------------------------------------
(***************************************************************************)
(* What a step leaves alone, and what follows for the invariant.           *)
(***************************************************************************)

\* The log only grows.
LogGrows ==
  \A s \in Senders, m \in MessageIds :
    log[s][m] # Nothing => log'[s][m] = log[s][m]

\* A binding that a call holds stays, and any other stays or gets a new id.
BindingsStay ==
  \A u \in Users :
    /\ Bound(u) /\ ~UserFree(u) => Bound(u)' /\ binding'[u].id = binding[u].id
    /\ Bound(u)' =>
         /\ binding'[u].id <= issued'
         /\ \/ binding'[u].id > issued
            \/ /\ Bound(u) /\ binding'[u].id = binding[u].id
               /\ binding'[u].sender = binding[u].sender

\* There is no new draft, and a draft changes in nothing but its expiry.
DraftsStay ==
  \A u \in Users : HasDraft(u)' =>
    /\ HasDraft(u) /\ binding'[u].sender = binding[u].sender
    /\ binding'[u].draft.stamp = binding[u].draft.stamp
    /\ binding'[u].draft.fields = binding[u].draft.fields
    /\ binding'[u].draft.ready = binding[u].draft.ready
    /\ binding'[u].draft.warned = binding[u].draft.warned
    /\ binding'[u].draft.added = binding[u].draft.added

LEMMA SubsOfType ==
  ASSUME TypeOK
  PROVE  \A x \in ByMessage : x \in Subscription /\ x.sender \in Senders
                              /\ x.stamp \in Nat
  BY DEF TypeOK, ByMessage, Subscription

LEMMA AnsweredStays ==
  ASSUME TypeOK, LogGrows, NEW s \in Senders, NEW reply, NEW stamp,
         Answered(s, reply, stamp)
  PROVE  Answered(s, reply, stamp)'
  BY DEF Answered, LogGrows

\* The draft of a binding that stays is shown as it was.
LEMMA ShownStays ==
  ASSUME IInv, LogGrows, NEW u \in Users, HasDraft(u), binding'[u] = binding[u]
  PROVE  HasDraft(u)' /\ ShownTo(binding[u].sender, binding[u].draft)'
<1>1. PICK s, d : s = binding[u].sender /\ d = binding[u].draft
  OBVIOUS
<1>2. s \in Senders
  BY <1>1 DEF IInv, TypeOK, HasDraft, Bound, Binding
<1>3. ShownTo(s, d)
  BY <1>1 DEF IInv, ShownInv
<1>4. ShownTo(s, d)'
  BY <1>2, <1>3, AnsweredStays DEF IInv, ShownTo
<1>5. HasDraft(u)'
  BY DEF HasDraft, Bound
<1> QED
  BY <1>1, <1>4, <1>5 DEF ShownTo, Answered

\* What was added and what is drafted still belong together.
LEMMA DraftsKeep ==
  ASSUME IInv, LogGrows, DraftsStay, subs' = subs, drafts' = drafts
  PROVE  /\ StampInv' /\ ShownInv' /\ LogInv'
         /\ AddedOnce' /\ PreviewedFirst' /\ WarnedFirst'
<1>1. ByMessage' = ByMessage
  BY DEF ByMessage
<1>2. \A x \in ByMessage : x.sender \in Senders
  BY SubsOfType DEF IInv
<1>3. StampInv'
  BY <1>1 DEF IInv, StampInv, DraftsStay
<1>4. ShownInv'
  <2>1. \A u \in Users : HasDraft(u) => binding[u].sender \in Senders
    BY DEF IInv, TypeOK, HasDraft, Bound, Binding
  <2> QED
    BY <2>1, AnsweredStays DEF IInv, ShownInv, ShownTo, DraftsStay
<1>5. LogInv'
  BY <1>1, <1>2 DEF IInv, LogInv, LogGrows
<1>6. AddedOnce'
  BY <1>1 DEF IInv, AddedOnce
<1>7. PreviewedFirst'
  BY <1>1, <1>2, AnsweredStays DEF IInv, PreviewedFirst
<1>8. WarnedFirst'
  BY <1>1, <1>2, AnsweredStays DEF IInv, WarnedFirst
<1> QED
  BY <1>3, <1>4, <1>5, <1>6, <1>7, <1>8

\* A step that is no step of a call.
LEMMA OutsideKeeps ==
  ASSUME IInv, TypeOK', AskedInv', BindingsStay, DraftsStay,
         issued' \in Nat, issued' >= issued,
         UNCHANGED <<log, subs, sent, run, drafts>>
  PROVE  IInv'
<1>1. LogGrows
  BY DEF LogGrows
<1>2. issued \in Nat /\ \A r \in Runs : run[r].id \in Nat
  BY DEF IInv, TypeOK
<1>3. CallInv'
  BY <1>2 DEF IInv, CallInv, Content
<1>4. IdInv'
  <2>1. \A u \in Users : Bound(u)' => binding'[u].id <= issued'
    BY DEF BindingsStay
  <2>2. ASSUME NEW r \in Runs, run[r].pc # "idle", Content(r).kind # "code",
               StillBound(r)'
        PROVE  binding'[run[r].user].sender = run[r].sender
    <3>1. run[r].user \in Users /\ run[r].id <= issued
      BY <2>2 DEF IInv, CallInv
    <3>2. Bound(run[r].user)' /\ binding'[run[r].user].id = run[r].id
      BY <2>2 DEF StillBound, Bound
    <3>3. ~(binding'[run[r].user].id > issued)
      BY <3>1, <3>2, <1>2
    <3>4. /\ Bound(run[r].user) /\ binding[run[r].user].id = run[r].id
          /\ binding'[run[r].user].sender = binding[run[r].user].sender
      BY <3>1, <3>2, <3>3 DEF BindingsStay
    <3> QED
      BY <2>2, <3>4 DEF IInv, IdInv, StillBound
  <2>3. ASSUME NEW r \in Runs, run[r].pc = "reading"
        PROVE  StillBound(r)'
    <3>1. run[r].user \in Users /\ ~UserFree(run[r].user) /\ StillBound(r)
      BY <2>3 DEF IInv, CallInv, IdInv, UserFree
    <3> QED
      BY <3>1 DEF BindingsStay, StillBound, Bound
  <2> QED
    BY <2>1, <2>2, <2>3 DEF IInv, IdInv, Content
<1> QED
  BY <1>1, <1>3, <1>4, DraftsKeep DEF IInv

-----------------------------------------------------------------------------
(***************************************************************************)
(* The web, WeChat, time and the worker.                                   *)
(***************************************************************************)

\* A step that leaves the bindings alone.
LEMMA BindingsSame ==
  ASSUME IInv, binding' = binding, issued' \in Nat, issued' >= issued
  PROVE  BindingsStay /\ DraftsStay
<1>1. \A u \in Users : Bound(u) => binding[u].id \in Nat /\ binding[u].id <= issued
  BY DEF IInv, TypeOK, IdInv, Bound, Binding, Code
<1>2. issued \in Nat
  BY DEF IInv, TypeOK
<1> QED
  BY <1>1, <1>2 DEF BindingsStay, DraftsStay, Bound, HasDraft

LEMMA IssueType ==
  ASSUME IInv, Issue
  PROVE  /\ issued' \in Code /\ issued' \in 0 .. MaxIssued
         /\ issued' \in Nat /\ issued' > issued /\ issued' >= issued
  BY DEF IInv, TypeOK, Issue, Code

LEMMA BindingCodeKeeps == ASSUME IInv, NEW u \in Users, BindingCode(u) PROVE IInv'
<1>1. issued' \in Code /\ issued' \in 0 .. MaxIssued /\ issued' \in Nat
        /\ issued' >= issued
  BY IssueType DEF BindingCode
<1>2. [id |-> issued', expired |-> FALSE, asked |-> unbinds[u]] \in CodeRow
  BY <1>1 DEF IInv, TypeOK, CodeRow
<1>3. TypeOK'
  BY <1>1, <1>2 DEF IInv, TypeOK, BindingCode
<1>4. AskedInv'
  BY DEF IInv, TypeOK, AskedInv, BoundByOwnRequest, Bound, BindingCode
<1>5. BindingsStay /\ DraftsStay
  BY <1>1, BindingsSame DEF BindingCode
<1> QED
  BY <1>1, <1>3, <1>4, <1>5, OutsideKeeps DEF BindingCode

\* A step that changes codes and sessions only.
LEMMA RequestsKeep ==
  ASSUME IInv, UNCHANGED <<binding, log, subs, sent, run, issued, drafts, unbinds>>,
         code' \in [Users -> CodeRow \cup {Nothing}],
         qr' \in [Users -> QrRow \cup {Nothing}],
         \A u \in Users : /\ code'[u] # Nothing => code'[u].asked = unbinds[u]
                          /\ qr'[u] # Nothing => qr'[u].asked = unbinds[u]
  PROVE  IInv'
<1>1. TypeOK'
  BY DEF IInv, TypeOK
<1>2. AskedInv'
  BY DEF IInv, AskedInv, BoundByOwnRequest, Bound
<1>3. issued' \in Nat /\ issued' >= issued
  BY DEF IInv, TypeOK
<1> QED
  BY <1>1, <1>2, <1>3, BindingsSame, OutsideKeeps

LEMMA QrcodeKeeps == ASSUME IInv, NEW u \in Users, Qrcode(u) PROVE IInv'
<1>1. [scanned |-> Nothing, asked |-> unbinds[u]] \in QrRow
  BY DEF IInv, TypeOK, QrRow
<1>2. qr' \in [Users -> QrRow \cup {Nothing}]
  BY <1>1 DEF IInv, TypeOK, Qrcode
<1>3. \A v \in Users : qr'[v] # Nothing => qr'[v].asked = unbinds[v]
  BY DEF IInv, TypeOK, AskedInv, Qrcode
<1> QED
  BY <1>2, <1>3, RequestsKeep DEF Qrcode, IInv, TypeOK, AskedInv

LEMMA ScanKeeps ==
  ASSUME IInv, NEW s \in Senders, NEW u \in Users, Scan(s, u) PROVE IInv'
<1>1. qr[u] \in QrRow
  BY DEF IInv, TypeOK, Scan
<1>2. [qr[u] EXCEPT !.scanned = s] \in QrRow
        /\ [qr[u] EXCEPT !.scanned = s].asked = qr[u].asked
  BY <1>1 DEF QrRow
<1>3. qr' = [qr EXCEPT ![u] = [qr[u] EXCEPT !.scanned = s]]
  BY DEF IInv, TypeOK, Scan
<1>4. qr' \in [Users -> QrRow \cup {Nothing}]
  BY <1>2, <1>3 DEF IInv, TypeOK
<1>5. \A v \in Users : qr'[v] # Nothing => qr'[v].asked = unbinds[v]
  BY <1>2, <1>3 DEF IInv, TypeOK, AskedInv, Scan
<1> QED
  BY <1>4, <1>5, RequestsKeep DEF Scan, IInv, TypeOK, AskedInv

LEMMA CodeExpiresKeeps == ASSUME IInv, NEW u \in Users, CodeExpires(u) PROVE IInv'
<1>1. code[u] \in CodeRow
  BY DEF IInv, TypeOK, CodeExpires
<1>2. [code[u] EXCEPT !.expired = TRUE] \in CodeRow
        /\ [code[u] EXCEPT !.expired = TRUE].asked = code[u].asked
  BY <1>1 DEF CodeRow
<1>3. code' = [code EXCEPT ![u] = [code[u] EXCEPT !.expired = TRUE]]
  BY DEF IInv, TypeOK, CodeExpires
<1>4. code' \in [Users -> CodeRow \cup {Nothing}]
  BY <1>2, <1>3 DEF IInv, TypeOK
<1>5. \A v \in Users : code'[v] # Nothing => code'[v].asked = unbinds[v]
  BY <1>2, <1>3 DEF IInv, TypeOK, AskedInv, CodeExpires
<1> QED
  BY <1>4, <1>5, RequestsKeep DEF CodeExpires, IInv, TypeOK, AskedInv

LEMMA QrExpiresKeeps == ASSUME IInv, NEW u \in Users, QrExpires(u) PROVE IInv'
<1>1. qr' \in [Users -> QrRow \cup {Nothing}]
        /\ \A v \in Users : qr'[v] # Nothing => qr'[v] = qr[v]
  BY DEF IInv, TypeOK, QrExpires
<1> QED
  BY <1>1, RequestsKeep DEF QrExpires, IInv, TypeOK, AskedInv

LEMMA CleanUpCodesKeeps == ASSUME IInv, CleanUpCodes PROVE IInv'
<1>1. code' \in [Users -> CodeRow \cup {Nothing}]
        /\ \A v \in Users : code'[v] # Nothing => code'[v] = code[v]
  BY DEF IInv, TypeOK, CleanUpCodes
<1> QED
  BY <1>1, RequestsKeep DEF CleanUpCodes, IInv, TypeOK, AskedInv

\* A new binding of u, with the next id and no draft.
Binds(u, s, asked) ==
  /\ binding' = [binding EXCEPT ![u] =
       [id |-> issued', sender |-> s, draft |-> Nothing, asked |-> asked]]
  /\ code' = [code EXCEPT ![u] = Nothing]

LEMMA BindsKeeps ==
  ASSUME IInv, NEW u \in Users, NEW s \in Senders, NEW asked \in 0 .. MaxUnbinds,
         Issue, ~Bound(u), Binds(u, s, asked), asked = unbinds[u],
         UNCHANGED unbinds, qr' \in [Users -> QrRow \cup {Nothing}],
         \A v \in Users : qr'[v] # Nothing => qr'[v] = qr[v]
  PROVE  /\ binding' \in [Users -> Binding \cup {Nothing}]
         /\ code' \in [Users -> CodeRow \cup {Nothing}]
         /\ AskedInv' /\ BindingsStay /\ DraftsStay
<1> DEFINE new == [id |-> issued', sender |-> s, draft |-> Nothing, asked |-> asked]
<1>1. issued' \in Code /\ issued' \in Nat /\ issued' > issued /\ issued' >= issued
  BY IssueType
<1>2. new \in Binding
  BY <1>1 DEF Binding
<1>3. binding' = [binding EXCEPT ![u] = new]
  BY DEF Binds
<1>4. binding' \in [Users -> Binding \cup {Nothing}]
  BY <1>2, <1>3 DEF IInv, TypeOK
<1>5. binding'[u] = new /\ \A v \in Users : v # u => binding'[v] = binding[v]
  BY <1>3 DEF IInv, TypeOK
<1>6. code' \in [Users -> CodeRow \cup {Nothing}]
        /\ \A v \in Users : code'[v] # Nothing => code'[v] = code[v]
  BY DEF Binds, IInv, TypeOK
<1>7. AskedInv'
  BY <1>5, <1>6 DEF IInv, AskedInv, BoundByOwnRequest, Bound
<1>8. \A v \in Users : Bound(v) => binding[v].id \in Nat /\ binding[v].id <= issued
  BY DEF IInv, TypeOK, IdInv, Bound, Binding, Code
<1>9. issued \in Nat
  BY DEF IInv, TypeOK
<1>10. BindingsStay
  BY <1>1, <1>5, <1>8, <1>9 DEF BindingsStay, Bound
<1>11. DraftsStay
  BY <1>5 DEF DraftsStay, HasDraft, Bound
<1> QED
  BY <1>4, <1>6, <1>7, <1>10, <1>11

LEMMA QrcodeStatusKeeps == ASSUME IInv, NEW u \in Users, QrcodeStatus(u) PROVE IInv'
<1>1. qr[u] \in QrRow /\ qr[u].asked = unbinds[u]
  BY DEF IInv, TypeOK, AskedInv, QrcodeStatus
<1>2. qr[u].scanned \in Senders /\ qr[u].asked \in 0 .. MaxUnbinds
  BY <1>1 DEF QrRow, QrcodeStatus
<1>3. Binds(u, qr[u].scanned, qr[u].asked) /\ Issue /\ ~Bound(u)
  BY DEF QrcodeStatus, Binds
<1>4. qr' \in [Users -> QrRow \cup {Nothing}]
        /\ \A v \in Users : qr'[v] # Nothing => qr'[v] = qr[v]
  BY DEF IInv, TypeOK, QrcodeStatus
<1>5. UNCHANGED <<log, subs, sent, run, drafts, unbinds>>
  BY DEF QrcodeStatus
<1>6. /\ binding' \in [Users -> Binding \cup {Nothing}]
      /\ code' \in [Users -> CodeRow \cup {Nothing}]
      /\ AskedInv' /\ BindingsStay /\ DraftsStay
  BY <1>1, <1>2, <1>3, <1>4, <1>5, BindsKeeps
<1>7. issued' \in 0 .. MaxIssued /\ issued' \in Nat /\ issued' >= issued
  BY <1>3, IssueType
<1>8. TypeOK'
  BY <1>4, <1>5, <1>6, <1>7 DEF IInv, TypeOK
<1> QED
  BY <1>5, <1>6, <1>7, <1>8, OutsideKeeps

LEMMA UnbindKeeps == ASSUME IInv, NEW u \in Users, Unbind(u) PROVE IInv'
<1>1. /\ binding' \in [Users -> Binding \cup {Nothing}] /\ binding'[u] = Nothing
      /\ \A v \in Users : v # u => binding'[v] = binding[v]
  BY DEF IInv, TypeOK, Unbind
<1>2. /\ code' \in [Users -> CodeRow \cup {Nothing}] /\ code'[u] = Nothing
      /\ \A v \in Users : v # u => code'[v] = code[v]
  BY DEF IInv, TypeOK, Unbind, CodesAfterUnbind
<1>3. /\ qr' \in [Users -> QrRow \cup {Nothing}] /\ qr'[u] = Nothing
      /\ \A v \in Users : v # u => qr'[v] = qr[v]
  BY DEF IInv, TypeOK, Unbind
<1>4. /\ unbinds' \in [Users -> 0 .. MaxUnbinds]
      /\ \A v \in Users : v # u => unbinds'[v] = unbinds[v]
  BY DEF IInv, TypeOK, Unbind
<1>5. TypeOK'
  BY <1>1, <1>2, <1>3, <1>4 DEF IInv, TypeOK, Unbind
<1>6. AskedInv'
  BY <1>1, <1>2, <1>3, <1>4 DEF IInv, AskedInv, BoundByOwnRequest, Bound
<1>7. \A v \in Users : Bound(v) => binding[v].id \in Nat /\ binding[v].id <= issued
  BY DEF IInv, TypeOK, IdInv, Bound, Binding, Code
<1>8. BindingsStay
  BY <1>1, <1>7 DEF BindingsStay, Bound, Unbind
<1>9. DraftsStay
  BY <1>1 DEF DraftsStay, HasDraft, Bound
<1>10. issued' \in Nat /\ issued' >= issued
  BY DEF IInv, TypeOK, Unbind
<1> QED
  BY <1>5, <1>6, <1>8, <1>9, <1>10, OutsideKeeps DEF Unbind

\* A step that changes drafts only, by their expiry.
LEMMA ExpiryKeeps ==
  ASSUME IInv, UNCHANGED <<code, qr, log, subs, sent, run, issued, drafts, unbinds>>,
         binding' \in [Users -> Binding \cup {Nothing}], DraftsStay,
         \A u \in Users :
           /\ Bound(u)' <=> Bound(u)
           /\ Bound(u) => /\ binding'[u].id = binding[u].id
                          /\ binding'[u].sender = binding[u].sender
                          /\ binding'[u].asked = binding[u].asked
  PROVE  IInv'
<1>1. TypeOK'
  BY DEF IInv, TypeOK
<1>2. AskedInv'
  BY DEF IInv, AskedInv, BoundByOwnRequest
<1>3. BindingsStay
  BY DEF IInv, IdInv, BindingsStay
<1>4. issued' \in Nat /\ issued' >= issued
  BY DEF IInv, TypeOK
<1> QED
  BY <1>1, <1>2, <1>3, <1>4, OutsideKeeps

LEMMA DraftExpiresKeeps == ASSUME IInv, NEW u \in Users, DraftExpires(u) PROVE IInv'
<1> DEFINE d == [binding[u].draft EXCEPT !.expired = TRUE]
           b == [binding[u] EXCEPT !.draft = d]
<1>1. binding[u] \in Binding /\ binding[u].draft \in Draft /\ binding[u].draft # Nothing
  BY DEF IInv, TypeOK, DraftExpires, HasDraft, Bound, Binding
<1>2. /\ d \in Draft /\ d.stamp = binding[u].draft.stamp
      /\ d.fields = binding[u].draft.fields /\ d.ready = binding[u].draft.ready
      /\ d.warned = binding[u].draft.warned /\ d.added = binding[u].draft.added
  BY <1>1 DEF Draft
<1>3. /\ b \in Binding /\ b.draft = d /\ b.id = binding[u].id
      /\ b.sender = binding[u].sender /\ b.asked = binding[u].asked
  BY <1>1, <1>2 DEF Binding
<1>4. binding' = [binding EXCEPT ![u] = b]
  BY <1>1 DEF IInv, TypeOK, DraftExpires
<1>5. /\ binding' \in [Users -> Binding \cup {Nothing}] /\ binding'[u] = b
      /\ \A v \in Users : v # u => binding'[v] = binding[v]
  BY <1>3, <1>4 DEF IInv, TypeOK
<1>6. b # Nothing /\ binding[u] # Nothing
  BY <1>1, <1>3
<1>7. DraftsStay
  BY <1>1, <1>2, <1>3, <1>5, <1>6, ZenonT(40) DEF DraftsStay, HasDraft, Bound
<1> QED
  BY <1>3, <1>5, <1>6, <1>7, ExpiryKeeps DEF DraftExpires, Bound

LEMMA CleanUpDraftsKeeps == ASSUME IInv, CleanUpDrafts PROVE IInv'
<1>1. ASSUME NEW u \in Users
      PROVE  \/ binding'[u] = binding[u]
             \/ /\ binding[u] # Nothing
                /\ binding'[u] = [binding[u] EXCEPT !.draft = Nothing]
  BY DEF CleanUpDrafts, HasDraft, Bound
<1>2. ASSUME NEW u \in Users, binding[u] # Nothing
      PROVE  LET b == [binding[u] EXCEPT !.draft = Nothing]
             IN  /\ b \in Binding /\ b # Nothing /\ b.draft = Nothing
                 /\ b.id = binding[u].id /\ b.sender = binding[u].sender
                 /\ b.asked = binding[u].asked
  <2>1. binding[u] \in Binding
    BY <1>2 DEF IInv, TypeOK
  <2> QED
    BY <2>1 DEF Binding
<1>3. binding' \in [Users -> Binding \cup {Nothing}]
  <2>1. ASSUME NEW u \in Users
        PROVE  binding'[u] \in Binding \cup {Nothing}
    <3>1. CASE binding'[u] = binding[u]
      BY <3>1 DEF IInv, TypeOK
    <3>2. CASE binding[u] # Nothing
                 /\ binding'[u] = [binding[u] EXCEPT !.draft = Nothing]
      BY <3>2, <1>2
    <3> QED
      BY <1>1, <3>1, <3>2
  <2>2. binding' = [u \in Users |-> binding'[u]]
    BY DEF CleanUpDrafts
  <2> QED
    BY <2>1, <2>2
<1>4. DraftsStay
  BY <1>1, <1>2 DEF DraftsStay, HasDraft, Bound
<1>5. \A u \in Users :
        /\ Bound(u)' <=> Bound(u)
        /\ Bound(u) => /\ binding'[u].id = binding[u].id
                       /\ binding'[u].sender = binding[u].sender
                       /\ binding'[u].asked = binding[u].asked
  BY <1>1, <1>2 DEF Bound
<1> QED
  BY <1>3, <1>4, <1>5, ExpiryKeeps DEF CleanUpDrafts

-----------------------------------------------------------------------------
(***************************************************************************)
(* Subscriptions of the web.                                               *)
(***************************************************************************)

\* A subscription that is not active with these fields any more, and what it
\* has kept.
Faded(x) == [x EXCEPT !.current = FALSE]

Kept(x, y) ==
  /\ x.user = y.user /\ x.fields = y.fields /\ x.stamp = y.stamp
  /\ x.sender = y.sender /\ x.message = y.message /\ x.warned = y.warned
  /\ x.current => y.current

\* A step that changes only what the user has, and adds nothing by a message.
LEMMA SubsKeep ==
  ASSUME IInv, UNCHANGED <<code, qr, binding, log, sent, run, issued, drafts, unbinds>>,
         subs' \subseteq Subscription,
         \A x \in ByMessage' : \E y \in ByMessage :
           x \in {y, Faded(y)},
         \A x, y \in ByMessage' : x # y => \E p, q \in ByMessage :
           p # q /\ x \in {p, Faded(p)}
                 /\ y \in {q, Faded(q)}
  PROVE  IInv'
<1>1. TypeOK' /\ CallInv' /\ IdInv' /\ AskedInv' /\ ShownInv'
  BY DEF IInv, TypeOK, CallInv, IdInv, AskedInv, ShownInv, ShownTo, Content, StillBound,
         BoundByOwnRequest, Bound, HasDraft, Answered
<1>2. \A y \in ByMessage : Kept(y, y) /\ Kept(Faded(y), y)
  BY SubsOfType DEF IInv, Subscription, Kept, Faded
<1>3. \A x \in ByMessage' : \E y \in ByMessage :
        x.stamp = y.stamp /\ x.sender = y.sender /\ x.message = y.message
          /\ x.warned = y.warned
  <2>1. \A x \in ByMessage' : \E y \in ByMessage : Kept(x, y)
    BY <1>2
  <2> QED
    BY <2>1 DEF Kept
<1>4. StampInv'
  BY <1>3 DEF IInv, StampInv, HasDraft, Bound
<1>5. LogInv'
  BY <1>3 DEF IInv, LogInv
<1>6. PreviewedFirst'
  BY <1>3 DEF IInv, PreviewedFirst, Answered
<1>7. ASSUME NEW x \in ByMessage', NEW y \in ByMessage', x # y
      PROVE  \E p, q \in ByMessage : p # q /\ Kept(x, p) /\ Kept(y, q)
  BY <1>2, <1>7
<1>8. AddedOnce'
  BY <1>7 DEF IInv, AddedOnce, Kept
<1>9. WarnedFirst'
  <2>1. \A x \in ByMessage' : x.warned => Answered(x.sender, "duplicate", x.stamp)'
    BY <1>3 DEF IInv, WarnedFirst, Answered
  <2>2. ASSUME NEW x \in ByMessage', NEW y \in ByMessage', x # y,
               x.user = y.user, x.fields = y.fields, x.current, y.current
        PROVE  x.warned \/ y.warned
    BY <1>7, <2>2 DEF IInv, WarnedFirst, Kept
  <2> QED
    BY <2>1, <2>2 DEF WarnedFirst
<1> QED
  BY <1>1, <1>4, <1>5, <1>6, <1>8, <1>9 DEF IInv

LEMMA CreateSubscriptionKeeps ==
  ASSUME IInv, NEW u \in Users, NEW f \in Fields, CreateSubscription(u, f)
  PROVE  IInv'
<1> DEFINE new == [user |-> u, fields |-> f, stamp |-> 0, sender |-> Nothing,
                   message |-> Nothing, warned |-> FALSE, current |-> TRUE]
<1>1. new \in Subscription
  BY DEF Subscription
<1>2. subs' \subseteq Subscription
  BY <1>1 DEF IInv, TypeOK, CreateSubscription
<1>3. ByMessage' = ByMessage
  BY DEF ByMessage, CreateSubscription
<1> QED
  BY <1>2, <1>3, SubsKeep DEF CreateSubscription

LEMMA ChangeSubscriptionKeeps ==
  ASSUME IInv, NEW x \in subs, ChangeSubscription(x)
  PROVE  IInv'
<1> DEFINE z == Faded(x)
<1>1. x \in Subscription
  BY DEF IInv, TypeOK
<1>2. z \in Subscription /\ z.sender = x.sender
  BY <1>1 DEF Subscription, Faded
<1>3. subs' = (subs \ {x}) \cup {z}
  BY DEF ChangeSubscription, Faded
<1>4. subs' \subseteq Subscription
  BY <1>2, <1>3 DEF IInv, TypeOK
<1>5. \A p \in ByMessage' : \/ p \in ByMessage /\ p # x
                            \/ p = z /\ x \in ByMessage
  BY <1>2, <1>3 DEF ByMessage
<1>6. \A p \in ByMessage' : \E y \in ByMessage :
        p \in {y, Faded(y)}
  BY <1>5
<1>7. \A p, q \in ByMessage' : p # q => \E y, w \in ByMessage :
        y # w /\ p \in {y, Faded(y)}
              /\ q \in {w, Faded(w)}
  BY <1>5
<1> QED
  BY <1>4, <1>6, <1>7, SubsKeep DEF ChangeSubscription

-----------------------------------------------------------------------------
(***************************************************************************)
(* Calls of process that write nothing.                                    *)
(***************************************************************************)

Call == [pc : {"idle", "waiting", "reading"}, sender : Senders \cup {Nothing},
         message : MessageIds \cup {Nothing}, user : Users \cup {Nothing},
         id : 0 .. MaxIssued, late : BOOLEAN]

LEMMA CallType ==
  ASSUME TypeOK
  PROVE  run \in [Runs -> Call] /\ Idle \in Call
  BY DEF TypeOK, Call, Idle

\* The tables stay; what is left is about the calls.
LEMMA TablesKeep ==
  ASSUME IInv, UNCHANGED <<code, qr, binding, log, subs, issued, drafts, unbinds>>,
         run' \in [Runs -> Call],
         sent' \in [Senders -> [MessageIds -> Contents \cup {Nothing}]],
         CallInv', IdInv'
  PROVE  IInv'
<1>1. TypeOK'
  BY DEF IInv, TypeOK, Call
<1>2. AskedInv'
  BY DEF IInv, AskedInv, BoundByOwnRequest, Bound
<1>3. LogGrows
  BY DEF LogGrows
<1>4. DraftsStay
  BY DEF DraftsStay, HasDraft, Bound
<1> QED
  BY <1>1, <1>2, <1>3, <1>4, DraftsKeep DEF IInv

LEMMA RollbackKeeps == ASSUME IInv, NEW r \in Runs, Rollback(r) PROVE IInv'
<1>1. run' = [run EXCEPT ![r] = Idle]
  BY DEF Rollback
<1>2. /\ run'[r] = Idle /\ run'[r].pc = "idle"
      /\ \A q \in Runs : q # r => run'[q] = run[q]
      /\ run' \in [Runs -> Call]
  BY <1>1, CallType DEF IInv, Idle
<1>3. CallInv'
  BY <1>2 DEF IInv, CallInv, Rollback, Content
<1>4. IdInv'
  BY <1>2 DEF IInv, IdInv, Rollback, Content, StillBound, Bound
<1>5. sent' \in [Senders -> [MessageIds -> Contents \cup {Nothing}]]
  BY DEF IInv, TypeOK, Rollback
<1> QED
  BY <1>2, <1>3, <1>4, <1>5, TablesKeep DEF Rollback

\* The call's message and binding, once it may answer.
LEMMA UnansweredCall ==
  ASSUME IInv, NEW r \in Runs,
         Unanswered(r) \/ run[r].pc = "reading"
  PROVE  /\ run[r].pc # "idle" /\ Content(r).kind # "code"
         /\ run[r].sender \in Senders /\ run[r].message \in MessageIds
         /\ run[r].user \in Users
         /\ StillBound(r) /\ binding[run[r].user] \in Binding
         /\ binding[run[r].user].sender = run[r].sender
         /\ log[run[r].sender][run[r].message] = Nothing
<1>1. run[r].pc # "idle" /\ Content(r).kind # "code" /\ StillBound(r)
        /\ log[run[r].sender][run[r].message] = Nothing
  BY DEF IInv, IdInv, Unanswered
<1> QED
  BY <1>1 DEF IInv, TypeOK, CallInv, IdInv, StillBound, Bound

LEMMA AskModelKeeps == ASSUME IInv, NEW r \in Runs, AskModel(r) PROVE IInv'
<1>1. run[r] \in Call /\ run' = [run EXCEPT ![r] = [run[r] EXCEPT !.pc = "reading"]]
  BY CallType DEF IInv, AskModel
<1>2. LET x == [run[r] EXCEPT !.pc = "reading"] IN
      /\ x \in Call /\ x.pc = "reading" /\ x.sender = run[r].sender
      /\ x.message = run[r].message /\ x.user = run[r].user /\ x.id = run[r].id
  BY <1>1 DEF Call
<1>3. /\ run'[r].pc = "reading" /\ run'[r].sender = run[r].sender
      /\ run'[r].message = run[r].message /\ run'[r].user = run[r].user
      /\ run'[r].id = run[r].id
      /\ \A q \in Runs : q # r => run'[q] = run[q]
      /\ run' \in [Runs -> Call]
  BY <1>1, <1>2, CallType DEF IInv
<1>4. /\ run[r].pc # "idle" /\ StillBound(r) /\ Content(r).kind = "text"
      /\ log[run[r].sender][run[r].message] = Nothing
  BY UnansweredCall DEF AskModel
<1>5. CallInv'
  BY <1>3, <1>4 DEF IInv, CallInv, AskModel, Content
<1>6. IdInv'
  BY <1>3, <1>4 DEF IInv, IdInv, AskModel, Content, StillBound, Bound
<1>7. sent' \in [Senders -> [MessageIds -> Contents \cup {Nothing}]]
  BY DEF IInv, TypeOK, AskModel
<1> QED
  BY <1>3, <1>5, <1>6, <1>7, TablesKeep DEF AskModel

LEMMA ReceiveKeeps ==
  ASSUME IInv, NEW r \in Runs, NEW s \in Senders, NEW m \in MessageIds,
         NEW content \in Contents, NEW late \in BOOLEAN,
         Receive(r, s, m, content, late)
  PROVE  IInv'
<1>1. PICK u \in Users :
        /\ content.kind # "code" => u \in BoundTo(s)
        /\ run' = [run EXCEPT ![r] =
             [pc |-> "waiting", sender |-> s, message |-> m, user |-> u,
              id |-> IF Bound(u) THEN binding[u].id ELSE 0,
              late |-> late /\ HasDraft(u) /\ binding[u].draft.expired]]
  BY DEF Receive
<1> DEFINE id == IF Bound(u) THEN binding[u].id ELSE 0
           x == [pc |-> "waiting", sender |-> s, message |-> m, user |-> u,
                 id |-> id,
                 late |-> late /\ HasDraft(u) /\ binding[u].draft.expired]
<1>2. id \in 0 .. MaxIssued /\ id <= issued
  BY DEF IInv, TypeOK, IdInv, Bound, Binding, Code
<1>3. (late /\ HasDraft(u) /\ binding[u].draft.expired) \in BOOLEAN
  BY DEF IInv, TypeOK, HasDraft, Bound, Binding, Draft
<1>4. x \in Call
  BY <1>2, <1>3 DEF Call
<1>5. /\ run'[r] = x /\ run' \in [Runs -> Call]
      /\ \A q \in Runs : q # r => run'[q] = run[q]
  BY <1>1, <1>4, CallType DEF IInv
<1>6. /\ sent' \in [Senders -> [MessageIds -> Contents \cup {Nothing}]]
      /\ sent'[s][m] = content /\ content # Nothing
      /\ \A t \in Senders, n \in MessageIds :
           t # s => sent'[t][n] = sent[t][n]
  BY DEF IInv, TypeOK, Receive
<1>7. \A q \in Runs : q # r /\ run[q].pc # "idle" =>
        run[q].sender # s /\ run[q].sender \in Senders /\ run[q].message \in MessageIds
  BY DEF IInv, CallInv, Receive, SenderFree
<1>8. \A q \in Runs : q # r /\ run[q].pc # "idle" => Content(q)' = Content(q)
  BY <1>5, <1>6, <1>7 DEF Content
<1>9. Content(r)' = content
  BY <1>5, <1>6 DEF Content
<1>10. issued' = issued /\ binding' = binding /\ log' = log
  BY DEF Receive
<1>11. CallInv'
  <2>1. /\ x.pc = "waiting" /\ x.sender = s /\ x.message = m /\ x.user = u
        /\ x.id = id
    OBVIOUS
  <2> HIDE DEF x, id
  <2>2. \A q \in Runs : run'[q].pc # "idle" =>
          /\ run'[q].sender \in Senders /\ run'[q].message \in MessageIds
          /\ run'[q].user \in Users /\ Content(q)' # Nothing
          /\ run'[q].id <= issued'
    BY <2>1, <1>2, <1>5, <1>6, <1>8, <1>9, <1>10 DEF IInv, CallInv
  <2>3. \A p, q \in Runs :
          run'[p].pc # "idle" /\ run'[q].pc # "idle" /\ run'[p].sender = run'[q].sender
            => p = q
    BY <2>1, <1>5, <1>7 DEF IInv, CallInv
  <2> QED
    BY <2>2, <2>3 DEF CallInv
<1>12. IdInv'
  <2>1. content.kind # "code" => binding[u].sender = s
    BY <1>1 DEF BoundTo
  <2> QED
    BY <2>1, <1>5, <1>8, <1>9, <1>10 DEF IInv, IdInv, StillBound, Bound
<1> QED
  BY <1>5, <1>6, <1>11, <1>12, TablesKeep DEF Receive

-----------------------------------------------------------------------------
(***************************************************************************)
(* Calls that commit.                                                      *)
(***************************************************************************)

LEMMA BindByCodeKeeps == ASSUME IInv, NEW r \in Runs, BindByCode(r) PROVE IInv'
<1> DEFINE u == run[r].user
           s == run[r].sender
           m == run[r].message
<1>1. u \in Users /\ s \in Senders /\ m \in MessageIds /\ run[r].pc = "waiting"
  BY DEF IInv, CallInv, BindByCode
<1>2. code[u] \in CodeRow /\ code[u].asked = unbinds[u]
  BY <1>1 DEF IInv, TypeOK, AskedInv, BindByCode
<1>3. code[u].asked \in 0 .. MaxUnbinds
  BY <1>2 DEF CodeRow
<1>4. Binds(u, s, code[u].asked) /\ Issue /\ ~Bound(u)
  BY DEF BindByCode, Binds
<1>5. UNCHANGED <<qr, subs, sent, drafts, unbinds>>
  BY DEF BindByCode
<1>6. qr' \in [Users -> QrRow \cup {Nothing}]
        /\ \A v \in Users : qr'[v] # Nothing => qr'[v] = qr[v]
  BY <1>5 DEF IInv, TypeOK
<1>7. /\ binding' \in [Users -> Binding \cup {Nothing}]
      /\ code' \in [Users -> CodeRow \cup {Nothing}]
      /\ AskedInv' /\ BindingsStay /\ DraftsStay
  BY <1>1, <1>2, <1>3, <1>4, <1>5, <1>6, BindsKeeps
<1>8. issued' \in Code /\ issued' \in 0 .. MaxIssued /\ issued' \in Nat
        /\ issued' > issued
  BY <1>4, IssueType
<1>9. [id |-> issued', reply |-> "bound", stamp |-> 0] \in Record
  BY <1>8 DEF Record, Replies
<1>10. /\ log' \in [Senders -> [MessageIds -> {Nothing} \cup Record]]
       /\ \A t \in Senders, n \in MessageIds :
            ~(t = s /\ n = m) => log'[t][n] = log[t][n]
  BY <1>1, <1>9 DEF IInv, TypeOK, BindByCode
<1>11. LogGrows
  BY <1>10 DEF LogGrows, BindByCode
<1>12. /\ run' \in [Runs -> Call] /\ run'[r].pc = "idle"
       /\ \A q \in Runs : q # r => run'[q] = run[q]
  BY CallType DEF IInv, BindByCode, Idle
<1>13. TypeOK'
  BY <1>5, <1>6, <1>7, <1>8, <1>10, <1>12 DEF IInv, TypeOK, Call
<1>14. CallInv'
  <2>1. issued \in Nat /\ \A q \in Runs : run[q].id \in Nat
    BY DEF IInv, TypeOK
  <2> QED
    BY <2>1, <1>5, <1>8, <1>12 DEF IInv, CallInv, Content
<1>15. IdInv'
  <2>1. \A v \in Users : Bound(v)' => binding'[v].id <= issued'
    BY <1>7 DEF BindingsStay
  <2>2. ASSUME NEW q \in Runs, q # r, run[q].pc # "idle", Content(q).kind # "code",
               StillBound(q)'
        PROVE  binding'[run[q].user].sender = run[q].sender
    <3>1. run[q].user \in Users /\ run[q].id <= issued /\ run[q].id \in Nat
            /\ issued \in Nat
      BY <2>2 DEF IInv, TypeOK, CallInv
    <3>2. binding'[run[q].user] # Nothing /\ binding'[run[q].user].id = run[q].id
      BY <2>2, <1>12 DEF StillBound, Bound
    <3>3. ~(binding'[run[q].user].id > issued)
      BY <3>1, <3>2
    <3>4. /\ Bound(run[q].user) /\ binding[run[q].user].id = run[q].id
          /\ binding'[run[q].user].sender = binding[run[q].user].sender
      <4>1. BindingsStay
        BY <1>7
      <4> QED
        BY <4>1, <3>1, <3>2, <3>3 DEF BindingsStay, Bound
    <3> QED
      BY <2>2, <3>4 DEF IInv, IdInv, StillBound
  <2>3. ASSUME NEW q \in Runs, q # r, run[q].pc = "reading"
        PROVE  /\ StillBound(q)' /\ Content(q).kind = "text"
               /\ log'[run[q].sender][run[q].message] = Nothing
    <3>1. /\ run[q].user \in Users /\ ~UserFree(run[q].user) /\ StillBound(q)
          /\ run[q].sender \in Senders /\ run[q].message \in MessageIds
          /\ run[q].sender # s /\ Content(q).kind = "text"
          /\ log[run[q].sender][run[q].message] = Nothing
      BY <1>1, <2>3 DEF IInv, CallInv, IdInv, UserFree
    <3> QED
      BY <3>1, <2>3, <1>7, <1>10, <1>12 DEF BindingsStay, StillBound, Bound
  <2>4. \A q \in Runs : q # r => Content(q)' = Content(q)
    BY <1>5, <1>12 DEF Content
  <2>5. \A q \in Runs : run'[q].pc # "idle" => q # r /\ run'[q] = run[q]
    BY <1>12
  <2>6. \A q \in Runs :
          run'[q].pc # "idle" /\ Content(q)'.kind # "code" /\ StillBound(q)'
            => binding'[run'[q].user].sender = run'[q].sender
    BY <2>2, <2>4, <2>5
  <2>7. \A q \in Runs : run'[q].pc = "reading" =>
          /\ Content(q)'.kind = "text" /\ StillBound(q)'
          /\ log'[run'[q].sender][run'[q].message] = Nothing
    BY <2>3, <2>4, <2>5
  <2> QED
    BY <2>1, <2>6, <2>7 DEF IdInv
<1> QED
  BY <1>5, <1>7, <1>11, <1>13, <1>14, <1>15, DraftsKeep DEF IInv

\* What a commit of the draft d with its reply does, for the user u and the
\* sender s of the call.
LEMMA CommitShape ==
  ASSUME IInv, NEW r \in Runs, Unanswered(r) \/ run[r].pc = "reading",
         NEW u, NEW s, u = run[r].user, s = run[r].sender,
         NEW d \in Draft \cup {Nothing}, NEW reply \in Replies,
         CommitDraft(r, d, reply)
  PROVE  /\ u \in Users /\ s \in Senders /\ Bound(u) /\ binding[u].sender = s
         /\ binding' \in [Users -> Binding \cup {Nothing}]
         /\ Bound(u)' /\ binding'[u].draft = d /\ binding'[u].sender = s
         /\ \A v \in Users : v # u => binding'[v] = binding[v]
         /\ log' \in [Senders -> [MessageIds -> {Nothing} \cup Record]]
         /\ run[r].message \in MessageIds
         /\ log[s][run[r].message] = Nothing
         /\ log'[s][run[r].message] # Nothing
         /\ d # Nothing => Answered(s, reply, d.stamp)'
         /\ LogGrows /\ run' \in [Runs -> Call]
         /\ CallInv' /\ IdInv' /\ AskedInv'
<1> DEFINE m == run[r].message
           b == [binding[u] EXCEPT !.draft = d]
           rec == [id |-> run[r].id, reply |-> reply,
                   stamp |-> IF d = Nothing THEN 0 ELSE d.stamp]
<1>1. /\ run[r].pc # "idle" /\ Content(r).kind # "code"
      /\ s \in Senders /\ m \in MessageIds /\ u \in Users
      /\ StillBound(r) /\ binding[u] \in Binding
      /\ binding[u].sender = s /\ log[s][m] = Nothing
  BY UnansweredCall
<1>2. Bound(u) /\ binding[u].id = run[r].id
  BY <1>1 DEF StillBound
<1>3. /\ b \in Binding /\ b # Nothing /\ b.draft = d /\ b.sender = s
      /\ b.id = binding[u].id /\ b.asked = binding[u].asked
  BY <1>1 DEF Binding
<1>4. binding' = [binding EXCEPT ![u] = b]
  BY <1>1 DEF IInv, TypeOK, CommitDraft
<1>5. /\ binding' \in [Users -> Binding \cup {Nothing}] /\ binding'[u] = b
      /\ \A v \in Users : v # u => binding'[v] = binding[v]
  BY <1>1, <1>3, <1>4 DEF IInv, TypeOK
<1>6. run[r].id \in Code
  BY <1>1, <1>2 DEF Binding
<1>7. rec \in Record /\ rec # Nothing
  BY <1>6 DEF Record, Draft
<1>8. log' = [log EXCEPT ![s][m] = rec]
  BY DEF CommitDraft, Recorded
<1>9. /\ log' \in [Senders -> [MessageIds -> {Nothing} \cup Record]]
      /\ log'[s][m] = rec
      /\ \A t \in Senders, n \in MessageIds :
           ~(t = s /\ n = m) => log'[t][n] = log[t][n]
  BY <1>1, <1>7, <1>8 DEF IInv, TypeOK
<1>10. d # Nothing => Answered(s, reply, d.stamp)'
  <2>1. d # Nothing => rec.reply = reply /\ rec.stamp = d.stamp
    OBVIOUS
  <2>2. d # Nothing => /\ log'[s][m] # Nothing /\ log'[s][m].reply = reply
                       /\ log'[s][m].stamp = d.stamp
    BY <2>1, <1>7, <1>9
  <2> QED
    BY <1>1, <2>2 DEF Answered
<1>11. LogGrows
  BY <1>1, <1>9 DEF LogGrows
<1>12. /\ run' \in [Runs -> Call] /\ run'[r].pc = "idle"
       /\ \A q \in Runs : q # r => run'[q] = run[q]
  BY CallType DEF IInv, CommitDraft, Idle
<1>13. CallInv'
  BY <1>12 DEF IInv, CallInv, CommitDraft, Content
<1>14. \A v \in Users : /\ Bound(v)' <=> Bound(v)
                        /\ Bound(v) => /\ binding'[v].id = binding[v].id
                                       /\ binding'[v].sender = binding[v].sender
                                       /\ binding'[v].asked = binding[v].asked
  BY <1>1, <1>2, <1>3, <1>5 DEF Bound
<1>15. AskedInv'
  BY <1>14 DEF IInv, AskedInv, BoundByOwnRequest, CommitDraft
<1>16. IdInv'
  <2>1. \A q \in Runs : q # r /\ run[q].pc # "idle" =>
          run[q].user \in Users /\ (StillBound(q)' <=> StillBound(q))
    BY <1>12, <1>14 DEF IInv, CallInv, StillBound, Bound
  <2>2. \A q \in Runs : q # r /\ run[q].pc = "reading" =>
          log'[run[q].sender][run[q].message] = Nothing
    BY <1>1, <1>9 DEF IInv, CallInv, IdInv
  <2>3. \A q \in Runs : q # r => Content(q)' = Content(q)
    BY <1>12 DEF Content, CommitDraft
  <2>4. ASSUME NEW q \in Runs, run'[q].pc # "idle", Content(q)'.kind # "code",
               StillBound(q)'
        PROVE  binding'[run'[q].user].sender = run'[q].sender
    <3>1. q # r /\ run'[q] = run[q] /\ run[q].pc # "idle" /\ StillBound(q)
            /\ Content(q).kind # "code" /\ run[q].user \in Users
      BY <2>1, <2>3, <2>4, <1>12
    <3> QED
      BY <3>1, <1>14 DEF IInv, IdInv, StillBound
  <2>5. ASSUME NEW q \in Runs, run'[q].pc = "reading"
        PROVE  /\ Content(q)'.kind = "text" /\ StillBound(q)'
               /\ log'[run'[q].sender][run'[q].message] = Nothing
    BY <2>1, <2>2, <2>3, <2>5, <1>12 DEF IInv, IdInv
  <2>6. \A v \in Users : Bound(v)' => binding'[v].id <= issued'
    BY <1>14 DEF IInv, IdInv, CommitDraft
  <2> QED
    BY <2>4, <2>5, <2>6 DEF IdInv
<1>17. Bound(u)' /\ binding'[u].draft = d /\ binding'[u].sender = s
  BY <1>3, <1>5 DEF Bound
<1>18. log'[s][m] # Nothing
  BY <1>7, <1>9
<1> QED
  BY <1>1, <1>2, <1>5, <1>9, <1>10, <1>11, <1>12, <1>13, <1>15, <1>16, <1>17, <1>18

LEMMA DraftOfType ==
  ASSUME IInv, NEW r \in Runs, Unanswered(r) \/ run[r].pc = "reading"
  PROVE  /\ DraftOf(r) \in Draft \cup {Nothing}
         /\ DraftOf(r) # Nothing =>
              /\ HasDraft(run[r].user) /\ DraftOf(r) = binding[run[r].user].draft
              /\ DraftOf(r) \in Draft
<1>1. run[r].user \in Users /\ StillBound(r) /\ binding[run[r].user] \in Binding
  BY UnansweredCall
<1> QED
  BY <1>1 DEF DraftOf, HasDraft, StillBound, Binding

\* A commit that leaves the draft as it is, or deletes it, and adds nothing.
LEMMA QuietCommitKeeps ==
  ASSUME IInv, NEW r \in Runs, Unanswered(r) \/ run[r].pc = "reading",
         NEW d \in {Nothing, DraftOf(r)}, NEW reply \in Replies,
         CommitDraft(r, d, reply), UNCHANGED <<subs, drafts>>
  PROVE  IInv'
<1>1. d \in Draft \cup {Nothing}
  BY DraftOfType
<1>2. PICK u, s : u = run[r].user /\ s = run[r].sender
  OBVIOUS
<1>3. /\ u \in Users /\ Bound(u) /\ binding[u].sender = s
      /\ binding' \in [Users -> Binding \cup {Nothing}]
      /\ binding'[u].draft = d /\ binding'[u].sender = s
      /\ \A v \in Users : v # u => binding'[v] = binding[v]
      /\ log' \in [Senders -> [MessageIds -> {Nothing} \cup Record]]
      /\ LogGrows /\ run' \in [Runs -> Call]
      /\ CallInv' /\ IdInv' /\ AskedInv'
  BY <1>1, <1>2, CommitShape
<1>4. DraftsStay
  <2>1. d # Nothing => HasDraft(u) /\ d = binding[u].draft
    BY <1>2, DraftOfType
  <2> QED
    BY <2>1, <1>3 DEF DraftsStay, HasDraft, Bound
<1>5. TypeOK'
  BY <1>3 DEF IInv, TypeOK, CommitDraft, Call
<1> QED
  BY <1>3, <1>4, <1>5, DraftsKeep DEF IInv

LEMMA QuietKeeps ==
  ASSUME IInv, NEW r \in Runs,
         Upcoming(r) \/ Cancel(r) \/ ConfirmRefused(r) \/ Multiple(r)
  PROVE  IInv'
<1> USE DEF Replies
<1>1. CASE Upcoming(r)
  BY <1>1, QuietCommitKeeps DEF Upcoming
<1>2. CASE Cancel(r)
  BY <1>2, QuietCommitKeeps DEF Cancel
<1>3. CASE ConfirmRefused(r)
  <2>1. Unanswered(r) /\ UNCHANGED <<subs, drafts>>
    BY <1>3 DEF ConfirmRefused, Confirms
  <2>2. \E reply \in Replies : CommitDraft(r, DraftOf(r), reply)
    BY <1>3 DEF ConfirmRefused
  <2> QED
    BY <2>1, <2>2, QuietCommitKeeps
<1>4. CASE Multiple(r)
  BY <1>4, QuietCommitKeeps DEF Multiple
<1> QED
  BY <1>1, <1>2, <1>3, <1>4

\* The warning is recorded with the draft that is marked as warned of.
LEMMA ConfirmWarnsKeeps == ASSUME IInv, NEW r \in Runs, ConfirmWarns(r) PROVE IInv'
<1>1. Unanswered(r) /\ DraftOf(r) # Nothing
  BY DEF ConfirmWarns, Confirmable, Confirms
<1>2. PICK u, s : u = run[r].user /\ s = run[r].sender
  OBVIOUS
<1>3. PICK old \in Draft : old = DraftOf(r) /\ HasDraft(u) /\ old = binding[u].draft
  BY <1>1, <1>2, DraftOfType
<1>4. PICK d \in Draft : d = [old EXCEPT !.warned = TRUE]
  BY <1>3 DEF Draft
<1>5. /\ d.stamp = old.stamp /\ d.fields = old.fields /\ d.ready = old.ready
      /\ d.added = old.added
  BY <1>3, <1>4 DEF Draft
<1>6. CommitDraft(r, d, "duplicate") /\ UNCHANGED <<subs, drafts>>
  BY <1>3, <1>4 DEF ConfirmWarns
<1>7. "duplicate" \in Replies
  BY DEF Replies
<1>8. /\ u \in Users /\ s \in Senders /\ Bound(u) /\ binding[u].sender = s
      /\ binding' \in [Users -> Binding \cup {Nothing}]
      /\ Bound(u)' /\ binding'[u].draft = d /\ binding'[u].sender = s
      /\ \A v \in Users : v # u => binding'[v] = binding[v]
      /\ log' \in [Senders -> [MessageIds -> {Nothing} \cup Record]]
      /\ d # Nothing => Answered(s, "duplicate", d.stamp)'
      /\ LogGrows /\ run' \in [Runs -> Call]
      /\ CallInv' /\ IdInv' /\ AskedInv'
  BY <1>1, <1>2, <1>6, <1>7, CommitShape
<1>9. d # Nothing
  OBVIOUS
<1>10. TypeOK'
  BY <1>6, <1>8 DEF IInv, TypeOK, CommitDraft, Call
<1>11. ByMessage' = ByMessage /\ \A x \in ByMessage : x.sender \in Senders
  BY <1>6, SubsOfType DEF IInv, ByMessage
<1>12. \A v \in Users : HasDraft(v)' =>
         /\ HasDraft(v) /\ binding'[v].draft.stamp = binding[v].draft.stamp
         /\ binding'[v].draft.added = binding[v].draft.added
  BY <1>3, <1>5, <1>8 DEF HasDraft, Bound
<1>13. StampInv'
  BY <1>6, <1>11, <1>12 DEF IInv, StampInv
<1>14. ShownInv'
  <2>1. old.ready => old.fields # Partial /\ Answered(s, "preview", old.stamp)
    BY <1>3, <1>8 DEF IInv, ShownInv, ShownTo
  <2>2. old.ready => Answered(s, "preview", old.stamp)'
    BY <2>1, <1>8, AnsweredStays DEF IInv
  <2>3. ShownTo(s, d)'
    BY <2>1, <2>2, <1>5, <1>8, <1>9 DEF ShownTo
  <2>4. ShownTo(binding[u].sender, binding[u].draft)'
    BY <2>3, <1>8 DEF ShownTo, Answered
  <2>5. ASSUME NEW v \in Users, v # u, HasDraft(v)'
        PROVE  ShownTo(binding[v].sender, binding[v].draft)'
    BY <2>5, <1>8, <1>12, ShownStays
  <2> QED
    BY <2>4, <2>5 DEF ShownInv
<1>15. LogInv'
  BY <1>8, <1>11 DEF IInv, LogInv, LogGrows
<1>16. AddedOnce'
  BY <1>11 DEF IInv, AddedOnce
<1>17. PreviewedFirst'
  BY <1>8, <1>11, AnsweredStays DEF IInv, PreviewedFirst
<1>18. WarnedFirst'
  BY <1>8, <1>11, AnsweredStays DEF IInv, WarnedFirst
<1> QED
  BY <1>8, <1>10, <1>13, <1>14, <1>15, <1>16, <1>17, <1>18 DEF IInv

\* The new draft has a stamp of its own, and is ready only with its preview.
LEMMA WriteDraftKeeps ==
  ASSUME IInv, NEW r \in Runs, NEW f \in Fields \cup {Partial}, NEW asks \in BOOLEAN,
         WriteDraft(r, f, asks)
  PROVE  IInv'
<1>1. run[r].pc = "reading" /\ drafts' = drafts + 1 /\ subs' = subs
        /\ drafts \in Nat /\ drafts' \in 1 .. MaxDrafts
  BY DEF WriteDraft, IInv, TypeOK
<1>2. PICK u, s : u = run[r].user /\ s = run[r].sender
  OBVIOUS
<1> DEFINE new == [fields |-> f, ready |-> f # Partial /\ ~asks, warned |-> FALSE,
                   added |-> FALSE, expired |-> FALSE, stamp |-> drafts']
<1>3. PICK d \in Draft :
        /\ d = new /\ d.fields = f /\ ~d.warned /\ ~d.added /\ d.stamp = drafts'
        /\ d.ready => f # Partial /\ ~asks
  <2>1. (f # Partial /\ ~asks) \in BOOLEAN
    OBVIOUS
  <2>2. new \in Draft
    BY <2>1, <1>1, SMT DEF Draft
  <2>3. /\ new.fields = f /\ ~new.warned /\ ~new.added /\ new.stamp = drafts'
        /\ new.ready => f # Partial /\ ~asks
    OBVIOUS
  <2> HIDE DEF new
  <2> QED
    BY <2>2, <2>3
<1>4. PICK reply \in Replies : reply = IF f # Partial /\ ~asks THEN "preview" ELSE "question"
  BY DEF Replies
<1>5. CommitDraft(r, d, reply)
  BY <1>3, <1>4 DEF WriteDraft, Previewed, WarnedAgain
<1>6. /\ u \in Users /\ s \in Senders /\ Bound(u) /\ binding[u].sender = s
      /\ binding' \in [Users -> Binding \cup {Nothing}]
      /\ Bound(u)' /\ binding'[u].draft = d /\ binding'[u].sender = s
      /\ \A v \in Users : v # u => binding'[v] = binding[v]
      /\ log' \in [Senders -> [MessageIds -> {Nothing} \cup Record]]
      /\ d # Nothing => Answered(s, reply, d.stamp)'
      /\ LogGrows /\ run' \in [Runs -> Call]
      /\ CallInv' /\ IdInv' /\ AskedInv'
  BY <1>1, <1>2, <1>5, CommitShape
<1>7. TypeOK'
  BY <1>1, <1>5, <1>6 DEF IInv, TypeOK, CommitDraft, Call
<1>8. ByMessage' = ByMessage
        /\ \A x \in ByMessage : x.sender \in Senders /\ x.stamp \in Nat
  BY <1>1, SubsOfType DEF IInv, ByMessage
<1>9. \A v \in Users : HasDraft(v)' /\ v # u =>
        HasDraft(v) /\ binding'[v] = binding[v]
          /\ binding[v].draft.stamp \in Nat /\ binding[v].sender \in Senders
  BY <1>6 DEF IInv, TypeOK, HasDraft, Bound, Binding, Draft
<1>10. StampInv'
  <2>1. \A v \in Users : HasDraft(v)' => \/ v = u /\ binding'[v].draft.stamp = drafts'
                                         \/ v # u /\ binding'[v].draft.stamp <= drafts
    BY <1>3, <1>6, <1>9 DEF IInv, StampInv
  <2>2. \A v \in Users : HasDraft(v)' => binding'[v].draft.stamp <= drafts'
    BY <2>1, <1>1, <1>6, <1>9
  <2>3. \A v, w \in Users :
          HasDraft(v)' /\ HasDraft(w)'
            /\ binding'[v].draft.stamp = binding'[w].draft.stamp => v = w
    BY <2>1, <1>1, <1>9 DEF IInv, StampInv
  <2>4. \A x \in ByMessage : x.stamp <= drafts
    BY DEF IInv, StampInv
  <2>5. \A x \in ByMessage, v \in Users :
          HasDraft(v)' /\ binding'[v].draft.stamp = x.stamp => binding'[v].draft.added
    BY <2>1, <2>4, <1>1, <1>8, <1>9 DEF IInv, StampInv
  <2>6. \A x \in ByMessage : x.stamp <= drafts'
    BY <2>4, <1>1, <1>8
  <2> QED
    BY <2>2, <2>3, <2>5, <2>6, <1>8 DEF StampInv
<1>11. ShownInv'
  <2>1. d # Nothing
    OBVIOUS
  <2>2. ShownTo(s, d)'
    BY <2>1, <1>3, <1>4, <1>6 DEF ShownTo
  <2>3. ShownTo(binding[u].sender, binding[u].draft)'
    BY <2>2, <1>6 DEF ShownTo, Answered
  <2>4. ASSUME NEW v \in Users, v # u, HasDraft(v)'
        PROVE  ShownTo(binding[v].sender, binding[v].draft)'
    BY <2>4, <1>6, <1>9, ShownStays
  <2> QED
    BY <2>3, <2>4 DEF ShownInv
<1>12. LogInv'
  BY <1>6, <1>8 DEF IInv, LogInv, LogGrows
<1>13. AddedOnce'
  BY <1>8 DEF IInv, AddedOnce
<1>14. PreviewedFirst'
  BY <1>6, <1>8, AnsweredStays DEF IInv, PreviewedFirst
<1>15. WarnedFirst'
  BY <1>6, <1>8, AnsweredStays DEF IInv, WarnedFirst
<1> QED
  BY <1>6, <1>7, <1>10, <1>11, <1>12, <1>13, <1>14, <1>15 DEF IInv

\* What a confirmation finds: a draft that is ready and has not been added.
LEMMA Confirming ==
  ASSUME IInv, NEW r \in Runs, ConfirmCreates(r),
         NEW u, NEW s, u = run[r].user, s = run[r].sender
  PROVE  \E d \in Draft :
           /\ d = DraftOf(r) /\ HasDraft(u) /\ d = binding[u].draft
           /\ d.ready /\ ~d.added /\ d.fields \in Fields
           /\ d.stamp \in 1 .. drafts
           /\ Answered(s, "preview", d.stamp)
           /\ Forced(r) => Answered(s, "duplicate", d.stamp)
           /\ Unanswered(r) /\ u \in Users /\ s \in Senders
           /\ Bound(u) /\ binding[u].sender = s
           /\ run[r].message \in MessageIds /\ log[s][run[r].message] = Nothing
           /\ UNCHANGED drafts
<1>1. Unanswered(r) /\ DraftOf(r) # Nothing /\ ~Added(DraftOf(r)) /\ DraftOf(r).ready
        /\ drafts' = drafts
  BY DEF ConfirmCreates, Confirmable, Confirms
<1>2. /\ u \in Users /\ s \in Senders /\ binding[u].sender = s
      /\ run[r].message \in MessageIds /\ log[s][run[r].message] = Nothing
  BY <1>1, UnansweredCall
<1>3. PICK d \in Draft : d = DraftOf(r) /\ HasDraft(u) /\ d = binding[u].draft
  BY <1>1, DraftOfType
<1>4. ShownTo(s, d) /\ d.stamp <= drafts
  BY <1>2, <1>3 DEF IInv, ShownInv, StampInv
<1>5. d.fields \in Fields /\ d.stamp \in 1 .. drafts
  BY <1>1, <1>3, <1>4 DEF IInv, TypeOK, Draft, ShownTo
<1>6. Forced(r) => d.warned
  BY <1>3 DEF Forced
<1> QED
  BY <1>1, <1>2, <1>3, <1>4, <1>5, <1>6 DEF ShownTo, Added, HasDraft

\* The stamp of what is added is used up with its draft, and the message has
\* its reply.
LEMMA ConfirmCreatesKeeps == ASSUME IInv, NEW r \in Runs, ConfirmCreates(r) PROVE IInv'
<1>1. PICK u, s, m : u = run[r].user /\ s = run[r].sender /\ m = run[r].message
  OBVIOUS
<1>2. PICK d \in Draft :
        /\ d = DraftOf(r) /\ HasDraft(u) /\ d = binding[u].draft
        /\ d.ready /\ ~d.added /\ d.fields \in Fields
        /\ d.stamp \in 1 .. drafts
        /\ Answered(s, "preview", d.stamp)
        /\ Forced(r) => Answered(s, "duplicate", d.stamp)
        /\ Unanswered(r) /\ u \in Users /\ s \in Senders
        /\ Bound(u) /\ binding[u].sender = s
        /\ m \in MessageIds /\ log[s][m] = Nothing /\ drafts' = drafts
  BY <1>1, Confirming
<1>3. PICK new \in Subscription :
        /\ subs' = subs \cup {new}
        /\ new.user = u /\ new.fields = d.fields /\ new.stamp = d.stamp
        /\ new.sender = s /\ new.message = m /\ new.warned = Forced(r) /\ new.current
        /\ new.warned => Answered(s, "duplicate", d.stamp)
        /\ ~new.warned => Duplicates(u, d.fields) = {}
  <2> DEFINE x == [user |-> u, fields |-> d.fields, stamp |-> d.stamp, sender |-> s,
                   message |-> m, warned |-> Forced(r), current |-> TRUE]
  <2>1. Forced(r) \in BOOLEAN
    BY <1>2 DEF Forced, Draft
  <2>2. d.stamp \in 0 .. MaxDrafts
    BY DEF Draft
  <2>3. x \in Subscription
    BY <1>2, <2>1, <2>2, SMT DEF Subscription
  <2>4. /\ x.user = u /\ x.fields = d.fields /\ x.stamp = d.stamp
        /\ x.sender = s /\ x.message = m /\ x.warned = Forced(r) /\ x.current
    OBVIOUS
  <2>5. subs' = subs \cup {x} /\ (Duplicates(u, d.fields) = {} \/ Forced(r))
    BY <1>1, <1>2 DEF ConfirmCreates
  <2> HIDE DEF x
  <2> QED
    BY <1>2, <2>3, <2>4, <2>5
<1>4. PICK e \in Draft \cup {Nothing} :
        /\ CommitDraft(r, e, "added")
        /\ e # Nothing => /\ e \in Draft /\ e.stamp = d.stamp /\ e.added
                          /\ e.ready = d.ready /\ e.warned = d.warned
                          /\ e.fields = d.fields
  <2>1. LET e == [d EXCEPT !.added = TRUE] IN
        /\ e \in Draft /\ e.stamp = d.stamp /\ e.added
        /\ e.ready = d.ready /\ e.warned = d.warned /\ e.fields = d.fields
    BY DEF Draft
  <2>2. \/ CommitDraft(r, [d EXCEPT !.added = TRUE], "added")
        \/ CommitDraft(r, Nothing, "added")
    BY <1>2 DEF ConfirmCreates
  <2>3. CASE CommitDraft(r, Nothing, "added")
    BY <2>3
  <2>4. CASE CommitDraft(r, [d EXCEPT !.added = TRUE], "added")
    <3>1. PICK e : e = [d EXCEPT !.added = TRUE]
      OBVIOUS
    <3> QED
      BY <2>1, <2>4, <3>1
  <2> QED
    BY <2>2, <2>3, <2>4
<1>5. "added" \in Replies
  BY DEF Replies
<1>6. /\ binding' \in [Users -> Binding \cup {Nothing}]
      /\ Bound(u)' /\ binding'[u].draft = e /\ binding'[u].sender = s
      /\ \A v \in Users : v # u => binding'[v] = binding[v]
      /\ log' \in [Senders -> [MessageIds -> {Nothing} \cup Record]]
      /\ log'[s][m] # Nothing
      /\ LogGrows /\ run' \in [Runs -> Call]
      /\ CallInv' /\ IdInv' /\ AskedInv'
  BY <1>1, <1>2, <1>4, <1>5, CommitShape
<1>7. TypeOK'
  <2>1. subs' \subseteq Subscription
    BY <1>3 DEF IInv, TypeOK
  <2> QED
    BY <2>1, <1>2, <1>4, <1>6 DEF IInv, TypeOK, CommitDraft, Call
<1>8. ByMessage' = ByMessage \cup {new}
  BY <1>2, <1>3 DEF ByMessage
<1>9. \A x \in ByMessage : /\ x.sender \in Senders /\ x.message \in MessageIds
                           /\ log[x.sender][x.message] # Nothing
  BY SubsOfType DEF IInv, LogInv
<1>10. \A x \in ByMessage : x.stamp # d.stamp
  BY <1>2 DEF IInv, StampInv
<1>11. \A v \in Users : HasDraft(v)' =>
         /\ HasDraft(v) /\ binding'[v].draft.stamp = binding[v].draft.stamp
         /\ v = u => binding'[v].draft.added /\ binding'[v].draft = e
         /\ v # u => binding'[v] = binding[v]
  BY <1>2, <1>4, <1>6 DEF HasDraft, Bound
<1>12. StampInv'
  <2>1. \A v \in Users : HasDraft(v)' => binding'[v].draft.stamp <= drafts'
    BY <1>2, <1>11 DEF IInv, StampInv
  <2>2. \A v, w \in Users :
          HasDraft(v)' /\ HasDraft(w)'
            /\ binding'[v].draft.stamp = binding'[w].draft.stamp => v = w
    BY <1>11 DEF IInv, StampInv
  <2>3. \A x \in ByMessage' : x.stamp <= drafts'
    BY <1>2, <1>3, <1>8 DEF IInv, StampInv
  <2>4. \A v \in Users :
          HasDraft(v)' /\ binding'[v].draft.stamp = d.stamp => binding'[v].draft.added
    BY <1>2, <1>11 DEF IInv, StampInv
  <2>5. \A x \in ByMessage', v \in Users :
          HasDraft(v)' /\ binding'[v].draft.stamp = x.stamp => binding'[v].draft.added
    BY <2>4, <1>3, <1>8, <1>11 DEF IInv, StampInv
  <2> QED
    BY <2>1, <2>2, <2>3, <2>5 DEF StampInv
<1>13. ShownInv'
  <2>1. ASSUME NEW v \in Users, v # u, HasDraft(v)'
        PROVE  ShownTo(binding[v].sender, binding[v].draft)'
    BY <2>1, <1>6, <1>11, ShownStays
  <2>2. ASSUME HasDraft(u)'
        PROVE  ShownTo(binding[u].sender, binding[u].draft)'
    <3>1. ShownTo(s, d)
      BY <1>2 DEF IInv, ShownInv
    <3>2. ShownTo(s, d)'
      BY <3>1, <1>2, <1>6, AnsweredStays DEF IInv, ShownTo
    <3>3. e # Nothing /\ binding'[u].draft = e
      BY <2>2, <1>6 DEF HasDraft, Bound
    <3> QED
      BY <3>2, <3>3, <1>4, <1>6 DEF ShownTo, Answered
  <2> QED
    BY <2>1, <2>2 DEF ShownInv
<1>14. LogInv'
  BY <1>2, <1>3, <1>6, <1>8, <1>9 DEF LogInv, LogGrows
<1>15. AddedOnce'
  <2>1. \A x \in ByMessage : ~(x.sender = s /\ x.message = m) /\ x.stamp # d.stamp
    BY <1>2, <1>9, <1>10
  <2> QED
    BY <2>1, <1>3, <1>8 DEF IInv, AddedOnce
<1>16. PreviewedFirst'
  <2>1. \A x \in ByMessage : Answered(x.sender, "preview", x.stamp)'
    BY <1>6, <1>9, AnsweredStays DEF IInv, PreviewedFirst
  <2>2. Answered(s, "preview", d.stamp)'
    BY <1>2, <1>6, AnsweredStays DEF IInv
  <2> QED
    BY <2>1, <2>2, <1>3, <1>8 DEF PreviewedFirst, Answered
<1>17. WarnedFirst'
  <2>1. \A x \in ByMessage : x.warned => Answered(x.sender, "duplicate", x.stamp)'
    BY <1>6, <1>9, AnsweredStays DEF IInv, WarnedFirst
  <2>2. new.warned => Answered(s, "duplicate", d.stamp)'
    BY <1>2, <1>3, <1>6, AnsweredStays DEF IInv
  <2>3. \A x \in ByMessage' : x.warned => Answered(x.sender, "duplicate", x.stamp)'
    BY <2>1, <2>2, <1>3, <1>8 DEF Answered
  <2>4. \A x \in ByMessage : x.user = u /\ x.fields = d.fields /\ x.current => new.warned
    BY <1>3 DEF ByMessage, Duplicates
  <2>5. \A x, y \in ByMessage' :
          x # y /\ x.user = y.user /\ x.fields = y.fields /\ x.current /\ y.current
            => x.warned \/ y.warned
    BY <2>4, <1>3, <1>8 DEF IInv, WarnedFirst
  <2> QED
    BY <2>3, <2>5 DEF WarnedFirst
<1> QED
  BY <1>6, <1>7, <1>12, <1>13, <1>14, <1>15, <1>16, <1>17 DEF IInv

-----------------------------------------------------------------------------
(***************************************************************************)
(* The invariant, and what follows from it.                                *)
(***************************************************************************)

LEMMA InitKeeps == Init => IInv
<1> SUFFICES ASSUME Init PROVE IInv
  OBVIOUS
<1>1. TypeOK
  BY DEF Init, TypeOK, Idle
<1>2. CallInv /\ IdInv
  BY DEF Init, CallInv, IdInv, Idle, Bound
<1>3. AskedInv
  BY DEF Init, AskedInv, BoundByOwnRequest, Bound
<1>4. ByMessage = {}
  BY DEF Init, ByMessage
<1>5. StampInv /\ ShownInv /\ LogInv
  BY <1>4 DEF Init, StampInv, ShownInv, LogInv, HasDraft, Bound
<1>6. AddedOnce /\ PreviewedFirst /\ WarnedFirst
  BY <1>4 DEF AddedOnce, PreviewedFirst, WarnedFirst
<1> QED
  BY <1>1, <1>2, <1>3, <1>5, <1>6 DEF IInv

LEMMA ProcessKeeps == ASSUME IInv, NEW r \in Runs, ProcessStep(r) PROVE IInv'
BY ReceiveKeeps, BindByCodeKeeps, QuietKeeps, ConfirmWarnsKeeps, ConfirmCreatesKeeps,
   AskModelKeeps, RollbackKeeps, WriteDraftKeeps DEF ProcessStep

LEMMA StutterKeeps == ASSUME IInv, UNCHANGED vars PROVE IInv'
<1>1. TypeOK' /\ AskedInv' /\ issued' \in Nat /\ issued' >= issued
  BY DEF IInv, TypeOK, AskedInv, BoundByOwnRequest, Bound, vars
<1> QED
  BY <1>1, BindingsSame, OutsideKeeps DEF vars

LEMMA NextKeeps == IInv /\ [Next]_vars => IInv'
<1> SUFFICES ASSUME IInv, [Next]_vars PROVE IInv'
  OBVIOUS
<1>1. CASE WebStep
  BY <1>1, BindingCodeKeeps, QrcodeKeeps, QrcodeStatusKeeps, UnbindKeeps,
     CreateSubscriptionKeeps, FlowAssumption DEF WebStep
<1>2. CASE SubscriptionStep
  BY <1>2, ChangeSubscriptionKeeps DEF SubscriptionStep
<1>3. CASE Environment
  BY <1>3, ScanKeeps, CodeExpiresKeeps, QrExpiresKeeps, DraftExpiresKeeps,
     CleanUpDraftsKeeps, CleanUpCodesKeeps DEF Environment
<1>4. CASE \E r \in Runs : ProcessStep(r)
  BY <1>4, ProcessKeeps
<1>5. CASE UNCHANGED vars
  BY <1>5, StutterKeeps
<1> QED
  BY <1>1, <1>2, <1>3, <1>4, <1>5 DEF Next

LEMMA Inductive == Spec => []IInv
  BY InitKeeps, NextKeeps, PTL DEF Spec

\* Every state has the declared types.
THEOREM TypeCorrect == Spec => []TypeOK
<1>1. IInv => TypeOK
  BY DEF IInv
<1> QED
  BY <1>1, Inductive, PTL

\* However often its confirmation is delivered, and however many calls of
\* process are open (wechat.rs, process and confirm), a message adds one
\* subscription at most, and so does a draft.
THEOREM NothingIsAddedTwice == Spec => []AddedOnce
<1>1. IInv => AddedOnce
  BY DEF IInv
<1> QED
  BY <1>1, Inductive, PTL

\* What a confirmation adds has been shown to the sender as a preview, with the
\* fields it is added with, although drafts are overwritten, expire and are
\* deleted by the worker.
THEOREM AdditionsWerePreviewed == Spec => []PreviewedFirst
<1>1. IInv => PreviewedFirst
  BY DEF IInv
<1> QED
  BY <1>1, Inductive, PTL

\* Of two subscriptions alike that messages have added, the second was added
\* after a warning about that very draft.
THEOREM DuplicatesWereWarned == Spec => []WarnedFirst
<1>1. IInv => WarnedFirst
  BY DEF IInv
<1> QED
  BY <1>1, Inductive, PTL

\* A code or a QR session asked for before an unbinding never binds after it.
THEOREM BindingsWereAskedFor == Spec => []BoundByOwnRequest
<1>1. IInv => BoundByOwnRequest
  BY DEF IInv, AskedInv
<1> QED
  BY <1>1, Inductive, PTL

\* process reads the binding before it waits for the user's row; what it adds
\* after the wait is for the user the sender is bound to then.
THEOREM AddsForItsUser == Spec => AddedForTheBoundUser
<1> DEFINE Right == \A x \in subs' \ subs :
             x.sender # Nothing /\ x.current =>
               Bound(x.user) /\ binding[x.user].sender = x.sender
<1>1. IInv /\ [Next]_vars => [Right]_vars
  <2> SUFFICES ASSUME IInv, [Next]_vars PROVE [Right]_vars
    OBVIOUS
  <2>1. CASE subs' \subseteq subs
    BY <2>1
  <2>2. ASSUME NEW u \in Users, NEW f \in WebFields, CreateSubscription(u, f)
        PROVE  Right
    BY <2>2 DEF CreateSubscription
  <2>3. ASSUME NEW x \in subs, ChangeSubscription(x)
        PROVE  Right
    BY <2>3 DEF ChangeSubscription, IInv, TypeOK, Subscription
  <2>4. ASSUME NEW r \in Runs, ConfirmCreates(r)
        PROVE  Right
    <3>1. PICK u, s : u = run[r].user /\ s = run[r].sender
      OBVIOUS
    <3>2. Bound(u) /\ binding[u].sender = s
      BY <2>4, <3>1, Confirming
    <3>3. \A x \in subs' \ subs : x.user = u /\ x.sender = s
      BY <2>4, <3>1 DEF ConfirmCreates
    <3> QED
      BY <3>2, <3>3 DEF Bound
  <2>5. CASE WebStep
    BY <2>1, <2>2, <2>5 DEF WebStep, BindingCode, Qrcode, QrcodeStatus, Unbind
  <2>6. CASE SubscriptionStep
    BY <2>3, <2>6 DEF SubscriptionStep
  <2>7. CASE Environment
    BY <2>1, <2>7 DEF Environment, Scan, CodeExpires, QrExpires, DraftExpires,
       CleanUpDrafts, CleanUpCodes
  <2>8. ASSUME NEW r \in Runs, ProcessStep(r)
        PROVE  Right
    BY <2>1, <2>4, <2>8 DEF ProcessStep, Receive, BindByCode, Upcoming, Cancel,
       ConfirmRefused, ConfirmWarns, AskModel, Multiple, Rollback, WriteDraft
  <2>9. CASE UNCHANGED vars
    BY <2>1, <2>9 DEF vars
  <2> QED
    BY <2>5, <2>6, <2>7, <2>8, <2>9 DEF Next
<1> QED
  BY <1>1, Inductive, PTL DEF Spec, AddedForTheBoundUser
=============================================================================
