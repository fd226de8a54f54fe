-------------------------- MODULE ChatStorageProofs --------------------------
(***************************************************************************)
(* Proofs about ChatStorage for any number of attachments, requests and    *)
(* worker slots: the byte counters are what the rows hold, a verified      *)
(* attachment keeps its object, a removed one is queued for deletion, a    *)
(* bound one is kept, and finished work is final.                          *)
(***************************************************************************)
EXTENDS ChatStorage, FiniteSetTheorems, TLAPS

Row == [status : {"none", "initiated", "scanning", "processing", "ready", "failed"},
        kind : {"image", "document"},
        parse : {"none", "not_required", "queued", "processing", "ready", "failed"},
        quota : Quota, active : BOOLEAN,
        conv : Conversations \cup {None}, msg : Messages \cup {None},
        attempts : Nat, polls : 0 .. MaxPolls, submitted : BOOLEAN,
        token : Workers \cup {None}, stale : BOOLEAN]
Job == [status : {"none", "queued", "running", "succeeded", "failed"}, due : {"now", "late"},
        attempts : Nat, token : Workers \cup {None}, stale : BOOLEAN]
Deleting == {"delete", "deleted", "failed", "refused"}

\* TypeOK with the shape of the records spelled out.
Types ==
    /\ TypeOK
    /\ row \in [Attachments -> Row]
    /\ age \in [Attachments -> {"unborn", "fresh", "late", "orphan"}]
    /\ object \in [Attachments -> {"none", "good", "bad"}]
    /\ job \in [Attachments -> Job]
    /\ check \in [Completers -> [step : {"idle", "verify", "commit", "reject", "reset"},
                                 att : Attachments \cup {None}]]
    /\ hold \in [Workers -> [task : {"none", "parse"} \cup Deleting,
                             att : Attachments \cup {None}, attempts : Nat]]
    /\ \A c \in Completers : check[c].step # "idle" => check[c].att \in Attachments
    /\ \A w \in Workers : hold[w].task # "none" => hold[w].att \in Attachments
    /\ clearing.on \in BOOLEAN

\* A row holds quota as long as it exists; only an upload under way is reserved,
\* and its document has not been parsed yet.
RowShape(a) ==
    /\ row[a].status = "none" <=> row[a].quota = "none"
    /\ row[a].status \in {"initiated", "scanning"} => row[a].parse \in {"not_required", "queued"}
    /\ row[a].status = "none" => row[a].msg = None /\ row[a].parse = "none"

\* Identifiers are not used again: what was seen once is never unborn, and what
\* a cascade removed never comes back.
Once(a) ==
    /\ age[a] = "unborn" => a \notin Present /\ job[a].status = "none"
    /\ \A q \in Quota : <<a, q>> \in lost => age[a] # "unborn" /\ a \notin Present

\* A clear transaction holds the locks of rows that exist.
LocksHeld ==
    /\ clearing.rows \subseteq Present
    /\ ~clearing.on => clearing.rows = {}

\* While the account is open, what is charged has no deletion job; once it is
\* closed, every row has one.
ChargedHasNoJob(a) ==
    account = "active" /\ row[a].quota \in {"reserved", "committed"} => job[a].status = "none"
ClosedIsQueued(a) == account # "active" /\ a \in Present => job[a].status # "none"
JobFirst == \A w \in Workers : hold[w].task \in Deleting => job[hold[w].att].status # "none"

\* A completer about to commit saw the good object, and nobody may have deleted it.
SeenGood ==
    \A c \in Completers : check[c].step # "idle" =>
        /\ age[check[c].att] # "unborn"
        /\ check[c].step = "commit" /\ account = "active" /\ row[check[c].att].quota = "reserved"
              => object[check[c].att] = "good"

\* A deleted account has no rows.
Gone == account = "deleted" => Present = {}

Finite == IsFiniteSet(Present) /\ IsFiniteSet(lost) /\ lost \subseteq Attachments \X Quota

RowsOK ==
    /\ \A a \in Attachments : RowShape(a) /\ Once(a) /\ ChargedHasNoJob(a) /\ ClosedIsQueued(a)
    /\ LocksHeld /\ Gone /\ Finite
    /\ AccountMatchesRows /\ RemovedIsQueued
ObjectsOK == JobFirst /\ SeenGood /\ ReadyHasObject

IInv == Types /\ RowsOK /\ ObjectsOK
-----------------------------------------------------------------------------
\* The parts of Types, by what an action writes.
Records ==
    /\ row \in [Attachments -> Row]
    /\ age \in [Attachments -> {"unborn", "fresh", "late", "orphan"}]
    /\ object \in [Attachments -> {"none", "good", "bad"}]
    /\ job \in [Attachments -> Job]
    /\ check \in [Completers -> [step : {"idle", "verify", "commit", "reject", "reset"},
                                 att : Attachments \cup {None}]]
    /\ hold \in [Workers -> [task : {"none", "parse"} \cup Deleting,
                             att : Attachments \cup {None}, attempts : Nat]]
Busy ==
    /\ \A c \in Completers : check[c].step # "idle" => check[c].att \in Attachments
    /\ \A w \in Workers : hold[w].task # "none" => hold[w].att \in Attachments
Rest ==
    /\ account \in {"active", "deleting", "deleted"}
    /\ open \subseteq Conversations
    /\ clearing.on \in BOOLEAN
Counters == used \in Nat /\ reserved \in Nat

LEMMA TypesAre == Types <=> Records /\ Busy /\ Rest /\ Counters
<1>1. Types => Records /\ Busy /\ Rest /\ Counters
  BY DEF Types, TypeOK, Records, Busy, Rest, Counters
<1>2. Records /\ Busy /\ Rest /\ Counters => Types
  <2> SUFFICES ASSUME Records, Busy, Rest, Counters PROVE Types
    OBVIOUS
  <2>1. \A a \in Attachments : row[a] \in Row /\ job[a] \in Job
    BY DEF Records
  <2>2. \A a \in Attachments :
          /\ row[a].status \in {"none", "initiated", "scanning", "processing", "ready", "failed"}
          /\ row[a].parse \in {"none", "not_required", "queued", "processing", "ready", "failed"}
          /\ row[a].quota \in Quota /\ row[a].attempts \in Nat /\ row[a].polls \in 0 .. MaxPolls
          /\ age[a] \in {"unborn", "fresh", "late", "orphan"}
          /\ object[a] \in {"none", "good", "bad"}
          /\ job[a].status \in {"none", "queued", "running", "succeeded", "failed"}
    BY <2>1 DEF Row, Job, Records
  <2>3. \A c \in Completers : check[c].step \in {"idle", "verify", "commit", "reject", "reset"}
    BY DEF Records
  <2>4. \A w \in Workers : hold[w].task \in {"none", "parse", "delete", "deleted", "failed", "refused"}
    BY DEF Records, Deleting
  <2> QED
    BY <2>2, <2>3, <2>4 DEF Types, TypeOK, Records, Busy, Rest, Counters
<1> QED
  BY <1>1, <1>2

LEMMA TypesAreNext == Types' <=> Records' /\ Busy' /\ Rest' /\ Counters'
<1>1. Types' => Records' /\ Busy' /\ Rest' /\ Counters'
  BY DEF Types, TypeOK, Records, Busy, Rest, Counters
<1>2. Records' /\ Busy' /\ Rest' /\ Counters' => Types'
  <2> SUFFICES ASSUME Records', Busy', Rest', Counters' PROVE Types'
    OBVIOUS
  <2>1. \A a \in Attachments : row'[a] \in Row /\ job'[a] \in Job
    BY DEF Records
  <2>2. \A a \in Attachments :
          /\ row'[a].status \in {"none", "initiated", "scanning", "processing", "ready", "failed"}
          /\ row'[a].parse \in {"none", "not_required", "queued", "processing", "ready", "failed"}
          /\ row'[a].quota \in Quota /\ row'[a].attempts \in Nat /\ row'[a].polls \in 0 .. MaxPolls
          /\ age'[a] \in {"unborn", "fresh", "late", "orphan"}
          /\ object'[a] \in {"none", "good", "bad"}
          /\ job'[a].status \in {"none", "queued", "running", "succeeded", "failed"}
    BY <2>1 DEF Row, Job, Records
  <2>3. \A c \in Completers : check'[c].step \in {"idle", "verify", "commit", "reject", "reset"}
    BY DEF Records
  <2>4. \A w \in Workers : hold'[w].task \in {"none", "parse", "delete", "deleted", "failed", "refused"}
    BY DEF Records, Deleting
  <2> QED
    BY <2>2, <2>3, <2>4 DEF Types, TypeOK, Records, Busy, Rest, Counters
<1> QED
  BY <1>1, <1>2

\* Records the actions build.
LEMMA EmptyRecords ==
    /\ NoRow \in Row /\ NoJob \in Job
    /\ NoHold \in [task : {"none", "parse"} \cup Deleting, att : Attachments \cup {None}, attempts : Nat]
    /\ NoCheck \in [step : {"idle", "verify", "commit", "reject", "reset"}, att : Attachments \cup {None}]
<1>1. 0 \in 0 .. MaxPolls
  BY ChatStorageConstants
<1> QED
  BY <1>1 DEF NoRow, Row, Quota, NoJob, Job, NoHold, Deleting, NoCheck

LEMMA NonNegativeIs ==
    ASSUME NEW n \in Int
    PROVE  NonNegative(n) \in Nat /\ (n >= 0 => NonNegative(n) = n)
BY DEF NonNegative

LEMMA EnqueueWrites ==
    ASSUME job \in [Attachments -> Job], NEW S, NEW due, \A a \in Attachments : due[a] \in {"now", "late"},
           Enqueue(S, due)
    PROVE  /\ job' \in [Attachments -> Job]
           /\ \A a \in Attachments :
                 /\ job[a].status # "none" => job'[a] = job[a]
                 /\ a \in S => job'[a].status # "none"
                 /\ a \notin S => job'[a] = job[a]
<1>1. \A a \in Attachments : Queued(due[a]) \in Job /\ Queued(due[a]).status = "queued"
  BY DEF Queued, NoJob, Job
<1>2. \A a \in Attachments :
         job'[a] = IF a \in S /\ job[a].status = "none" THEN Queued(due[a]) ELSE job[a]
  BY DEF Enqueue
<1>3. job' \in [Attachments -> Job]
  BY <1>1 DEF Enqueue
<1> QED
  BY <1>1, <1>2, <1>3

\* A row with some fields replaced by values of their domain.
LEMMA FinishedRows ==
    ASSUME NEW r \in Row, NEW terminal \in BOOLEAN
    PROVE  /\ Unlocked(r) \in Row /\ Submitted(r) \in Row /\ Parsed(r) \in Row
           /\ ParseFailed(r, terminal) \in Row
           /\ r.submitted /\ r.polls < MaxPolls => Deferred(r) \in Row
<1>1. Unlocked(r) \in Row
  BY DEF Unlocked, Row
<1>2. NonNegative(r.attempts - 1) \in Nat /\ 0 \in 0 .. MaxPolls
  BY NonNegativeIs, ChatStorageConstants DEF Row
<1>3. Submitted(r) \in Row
  BY <1>1, <1>2 DEF Submitted, Unlocked, Row
<1>4. Parsed(r) \in Row
  BY <1>1 DEF Parsed, Row
<1>5. ParseFailed(r, terminal) \in Row
  <2>1. CASE terminal
    <3>1. ParseFailed(r, terminal) = [Unlocked(r) EXCEPT !.status = "failed", !.parse = "failed"]
      BY <2>1 DEF ParseFailed
    <3> QED
      BY <1>1, <3>1 DEF Row
  <2>2. CASE ~terminal
    <3>1. ParseFailed(r, terminal) = [Unlocked(r) EXCEPT !.status = "processing", !.parse = "queued"]
      BY <2>2 DEF ParseFailed
    <3> QED
      BY <1>1, <3>1 DEF Row
  <2> QED
    BY <2>1, <2>2
<1>6. r.polls < MaxPolls => Deferred(r) \in Row
  <2>1. r.polls < MaxPolls => r.polls + 1 \in 0 .. MaxPolls
    BY ChatStorageConstants DEF Row
  <2> QED
    BY <1>1, <1>2, <2>1 DEF Deferred, Unlocked, Row
<1> QED
  BY <1>1, <1>3, <1>4, <1>5, <1>6

LEMMA SetCheckTypes ==
    ASSUME Records, Busy, NEW c \in Completers, NEW a \in Attachments,
           NEW step \in {"idle", "verify", "commit", "reject", "reset"},
           SetCheck(c, step, a) \/ EndCheck(c)
    PROVE  /\ check' \in [Completers -> [step : {"idle", "verify", "commit", "reject", "reset"},
                                         att : Attachments \cup {None}]]
           /\ \A d \in Completers : check'[d].step # "idle" => check'[d].att \in Attachments
<1>1. CASE SetCheck(c, step, a)
  BY <1>1 DEF SetCheck, Records, Busy
<1>2. CASE EndCheck(c)
  <2>1. /\ NoCheck \in [step : {"idle", "verify", "commit", "reject", "reset"}, att : Attachments \cup {None}]
        /\ NoCheck.step = "idle"
    BY EmptyRecords DEF NoCheck
  <2> QED
    BY <1>2, <2>1 DEF EndCheck, Records, Busy
<1> QED
  BY <1>1, <1>2

LEMMA HoldTypes ==
    ASSUME Records, Busy, NEW w \in Workers,
           \/ Drop(w)
           \/ \E a \in Attachments, n \in Nat, task \in {"parse"} \cup Deleting : Claim(w, task, a, n)
           \/ hold[w].task # "none" /\ \E task \in Deleting : hold' = [hold EXCEPT ![w].task = task]
    PROVE  /\ hold' \in [Workers -> [task : {"none", "parse"} \cup Deleting,
                                     att : Attachments \cup {None}, attempts : Nat]]
           /\ \A v \in Workers : hold'[v].task # "none" => hold'[v].att \in Attachments
<1>1. CASE Drop(w)
  <2>1. /\ NoHold \in [task : {"none", "parse"} \cup Deleting, att : Attachments \cup {None}, attempts : Nat]
        /\ NoHold.task = "none"
    BY EmptyRecords DEF NoHold
  <2> QED
    BY <1>1, <2>1 DEF Drop, Records, Busy
<1>2. ASSUME NEW a \in Attachments, NEW n \in Nat, NEW task \in {"parse"} \cup Deleting, Claim(w, task, a, n)
      PROVE  /\ hold' \in [Workers -> [task : {"none", "parse"} \cup Deleting,
                                       att : Attachments \cup {None}, attempts : Nat]]
             /\ \A v \in Workers : hold'[v].task # "none" => hold'[v].att \in Attachments
  BY <1>2 DEF Claim, Records, Busy
<1>3. ASSUME NEW task \in Deleting, hold[w].task # "none", hold' = [hold EXCEPT ![w].task = task]
      PROVE  /\ hold' \in [Workers -> [task : {"none", "parse"} \cup Deleting,
                                       att : Attachments \cup {None}, attempts : Nat]]
             /\ \A v \in Workers : hold'[v].task # "none" => hold'[v].att \in Attachments
  BY <1>3 DEF Records, Busy
<1> QED
  BY <1>1, <1>2, <1>3

LEMMA WithoutRowsTypes ==
    ASSUME Records, NEW S, row' = WithoutRows(S)
    PROVE  /\ row' \in [Attachments -> Row]
           /\ \A a \in Attachments : row'[a] = IF a \in S THEN NoRow ELSE row[a]
BY EmptyRecords DEF WithoutRows, Records

LEMMA DueTypes == \A a \in Attachments : Due[a] \in {"now", "late"} /\ AtOnce[a] \in {"now", "late"}
BY DEF Due, AtOnce

LEMMA RecordsStep ==
    ASSUME Types, [Next]_vars
    PROVE  Records' /\ Busy' /\ Rest'
<1>t. Records /\ Busy /\ Rest /\ row \in [Attachments -> Row] /\ \A a \in Attachments : row[a] \in Row
  BY TypesAre DEF Records
<1>r. ASSUME row' = row PROVE row' \in [Attachments -> Row]
  BY <1>r, <1>t
<1>j. ASSUME NEW S, NEW due, due = Due \/ due = AtOnce, Enqueue(S, due)
      PROVE  job' \in [Attachments -> Job]
  BY <1>t, <1>j, DueTypes, EnqueueWrites DEF Records
<1>1. ASSUME NEW a \in Attachments, NEW v \in Conversations, NEW kind \in Kinds, Initiate(a, v, kind)
      PROVE  Records' /\ Busy' /\ Rest'
  <2>1. kind \in {"image", "document"} /\ 0 \in 0 .. MaxPolls
    BY ChatStorageConstants
  <2>2. [NoRow EXCEPT !.status = "initiated", !.kind = kind, !.conv = v, !.quota = "reserved",
                  !.parse = IF kind = "image" THEN "not_required" ELSE "queued"] \in Row
    BY <2>1 DEF NoRow, Row, Quota
  <2>3. row' \in [Attachments -> Row]
    BY <1>1, <1>t, <2>2 DEF Initiate
  <2> QED
    BY <1>1, <1>t, <2>3 DEF Initiate, Records, Busy, Rest
<1>2. ASSUME NEW a \in Attachments, NEW content \in {"good", "bad"}, Upload(a, content)
      PROVE  Records' /\ Busy' /\ Rest'
  BY <1>2, <1>t DEF Upload, Records, Busy, Rest
<1>3. ASSUME NEW a \in Attachments, Tick(a) PROVE Records' /\ Busy' /\ Rest'
  BY <1>3, <1>t DEF Tick, Records, Busy, Rest
<1>4. ASSUME NEW c \in Completers, NEW a \in Attachments, BeginCompletion(c, a)
      PROVE  Records' /\ Busy' /\ Rest'
  <2>1. [row[a] EXCEPT !.status = "scanning"] \in Row
    BY <1>t DEF Row
  <2>2. row' = [row EXCEPT ![a] = [row[a] EXCEPT !.status = "scanning"]]
    BY <1>4, <1>t DEF BeginCompletion
  <2> QED
    BY <1>4, <1>t, <2>1, <2>2, SetCheckTypes DEF BeginCompletion, Records, Busy, Rest
<1>5. ASSUME NEW c \in Completers, Verify(c) PROVE Records' /\ Busy' /\ Rest'
  <2>1. check[c].att \in Attachments
    BY <1>5, <1>t DEF Verify, Busy
  <2>2. Verdict(object[check[c].att]) \in {"reset", "reject", "commit"}
    BY <2>1, <1>t DEF Verdict, Records
  <2> QED
    BY <1>5, <1>t, <2>1, <2>2, SetCheckTypes DEF Verify, Records, Busy, Rest
<1>6. ASSUME NEW c \in Completers, CompleteVerified(c) PROVE Records' /\ Busy' /\ Rest'
  <2>1. check[c].att \in Attachments
    BY <1>6, <1>t DEF CompleteVerified, Busy
  <2>2. PICK a \in Attachments : a = check[c].att
    BY <2>1
  <2>3. row' \in [Attachments -> Row]
    <3>1. CASE CanCommit(a)
      <4>1. [row[a] EXCEPT !.quota = "committed",
                           !.status = IF row[a].kind = "image" THEN "ready" ELSE "processing"] \in Row
        BY <1>t DEF Row, Quota
      <4>2. row' = [row EXCEPT ![a] = [row[a] EXCEPT !.quota = "committed",
                           !.status = IF row[a].kind = "image" THEN "ready" ELSE "processing"]]
        BY <1>6, <1>t, <2>2, <3>1 DEF CompleteVerified
      <4> QED
        BY <1>t, <4>1, <4>2
    <3>2. CASE ~CanCommit(a)
      BY <1>6, <1>t, <2>2, <3>2 DEF CompleteVerified
    <3> QED
      BY <3>1, <3>2
  <2>4. EndCheck(c) \/ SetCheck(c, "reset", a) \/ SetCheck(c, "reject", a)
    BY <1>6, <2>2 DEF CompleteVerified
  <2> QED
    BY <1>6, <1>t, <2>2, <2>3, <2>4, SetCheckTypes DEF CompleteVerified, Records, Busy, Rest
<1>7. ASSUME NEW c \in Completers, RejectCompletion(c) PROVE Records' /\ Busy' /\ Rest'
  <2>1. check[c].att \in Attachments
    BY <1>7, <1>t DEF RejectCompletion, Busy
  <2>2. PICK a \in Attachments : a = check[c].att
    BY <2>1
  <2>3. [row[a] EXCEPT !.status = "failed", !.parse = "failed", !.quota = "released", !.active = FALSE] \in Row
    BY <1>t DEF Row, Quota
  <2>4. row' = row \/ row' = [row EXCEPT ![a] = [row[a] EXCEPT !.status = "failed", !.parse = "failed",
                                                   !.quota = "released", !.active = FALSE]]
    BY <1>7, <1>t, <2>2 DEF RejectCompletion
  <2>5. job' \in [Attachments -> Job]
    BY <1>7, <1>t, <1>j DEF RejectCompletion, Records
  <2> QED
    BY <1>7, <1>t, <2>2, <2>3, <2>4, <2>5, SetCheckTypes DEF RejectCompletion, Records, Busy, Rest
<1>8. ASSUME NEW c \in Completers, ResetCompletion(c) PROVE Records' /\ Busy' /\ Rest'
  <2>1. check[c].att \in Attachments
    BY <1>8, <1>t DEF ResetCompletion, Busy
  <2>2. PICK a \in Attachments : a = check[c].att
    BY <2>1
  <2>3. [row[a] EXCEPT !.status = "initiated"] \in Row
    BY <1>t DEF Row
  <2>4. row' = row \/ row' = [row EXCEPT ![a] = [row[a] EXCEPT !.status = "initiated"]]
    BY <1>8, <1>t, <2>2 DEF ResetCompletion
  <2> QED
    BY <1>8, <1>t, <2>2, <2>3, <2>4, SetCheckTypes DEF ResetCompletion, Records, Busy, Rest
<1>9. ASSUME NEW c \in Completers, CompleterCrash(c) PROVE Records' /\ Busy' /\ Rest'
  <2>1. check[c].att \in Attachments
    BY <1>9, <1>t DEF CompleterCrash, Busy
  <2> QED
    BY <1>9, <1>t, <2>1, SetCheckTypes DEF CompleterCrash, Records, Busy, Rest
<1>10. ASSUME NEW S \in SUBSET Attachments, NEW m \in Messages, BindToMessage(S, m)
       PROVE  Records' /\ Busy' /\ Rest'
  <2>1. \A a \in Attachments : [row[a] EXCEPT !.msg = m] \in Row
    BY <1>t DEF Row
  <2>2. row' \in [Attachments -> Row]
    BY <1>10, <1>t, <2>1 DEF BindToMessage
  <2> QED
    BY <1>10, <1>t, <2>2 DEF BindToMessage, Records, Busy, Rest
<1>11. ASSUME NEW a \in Attachments, DeleteUnbound(a) \/ EnqueueExpiredOrphan(a)
       PROVE  Records' /\ Busy' /\ Rest'
  <2>1. row' \in [Attachments -> Row]
    BY <1>11, <1>t, WithoutRowsTypes DEF DeleteUnbound, EnqueueExpiredOrphan
  <2>2. job' \in [Attachments -> Job]
    BY <1>11, <1>j DEF DeleteUnbound, EnqueueExpiredOrphan, RemoveRows
  <2> QED
    BY <1>11, <1>t, <2>1, <2>2 DEF DeleteUnbound, EnqueueExpiredOrphan, Records, Busy, Rest
<1>12. ASSUME NEW v \in Conversations, DeleteConversation(v) \/ CreateConversation(v)
       PROVE  Records' /\ Busy' /\ Rest'
  <2>1. row' \in [Attachments -> Row]
    BY <1>12, <1>t, WithoutRowsTypes DEF DeleteConversation, CreateConversation
  <2>2. job' \in [Attachments -> Job]
    BY <1>12, <1>t, <1>j DEF DeleteConversation, CreateConversation, RemoveRows, Records
  <2> QED
    BY <1>12, <1>t, <2>1, <2>2 DEF DeleteConversation, CreateConversation, Records, Busy, Rest
<1>13. CASE ClearSelect \/ ClearAbort
  <2>1. clearing'.on \in BOOLEAN
    <3>1. clearing' = [on |-> TRUE, rows |-> Present] \/ clearing' = [on |-> FALSE, rows |-> {}]
      BY <1>13 DEF ClearSelect, ClearAbort
    <3>2. [on |-> TRUE, rows |-> Present].on \in BOOLEAN /\ [on |-> FALSE, rows |-> {}].on \in BOOLEAN
      OBVIOUS
    <3> QED
      BY <3>1, <3>2, Zenon
  <2> QED
    BY <1>13, <1>t, <2>1 DEF ClearSelect, ClearAbort, Records, Busy, Rest
<1>14. CASE ClearCommit
  <2>1. row' \in [Attachments -> Row] /\ job' \in [Attachments -> Job]
    BY <1>14, <1>t, <1>j, WithoutRowsTypes DEF ClearCommit, RemoveRows
  <2> QED
    BY <1>14, <1>t, <2>1 DEF ClearCommit, Records, Busy, Rest
<1>15. CASE PrepareUserDeletion
  <2>1. job' \in [Attachments -> Job]
    BY <1>15, <1>j DEF PrepareUserDeletion
  <2> QED
    BY <1>15, <1>t, <2>1 DEF PrepareUserDeletion, Records, Busy, Rest
<1>16. CASE DeleteUser
  BY <1>16, <1>t, WithoutRowsTypes DEF DeleteUser, Records, Busy, Rest
<1>17. ASSUME NEW w \in Workers, NEW a \in Attachments, ClaimDeletion(w, a)
       PROVE  Records' /\ Busy' /\ Rest'
  <2>1. job[a] \in Job /\ job[a].attempts + 1 \in Nat
    BY <1>t DEF Records, Job
  <2>2. [job[a] EXCEPT !.status = "running", !.attempts = @ + 1, !.token = w, !.stale = FALSE] \in Job
    BY <2>1 DEF Job
  <2>3. job' = [job EXCEPT ![a] = [job[a] EXCEPT !.status = "running", !.attempts = @ + 1,
                                                 !.token = w, !.stale = FALSE]]
    BY <1>17, <1>t DEF ClaimDeletion, Records
  <2>4. \E n \in Nat, task \in {"parse"} \cup Deleting : Claim(w, task, a, n)
    BY <1>17, <2>1 DEF ClaimDeletion, Deleting
  <2> QED
    BY <1>17, <1>t, <2>2, <2>3, <2>4, HoldTypes DEF ClaimDeletion, Records, Busy, Rest
<1>18. ASSUME NEW w \in Workers, DeleteObject(w) PROVE Records' /\ Busy' /\ Rest'
  <2>1. hold[w].task # "none" /\ \E task \in Deleting : hold' = [hold EXCEPT ![w].task = task]
    BY <1>18 DEF DeleteObject, Deleting
  <2>2. object' \in [Attachments -> {"none", "good", "bad"}]
    BY <1>18, <1>t DEF DeleteObject, Records
  <2> QED
    BY <1>18, <1>t, <2>1, <2>2, HoldTypes DEF DeleteObject, Records, Busy, Rest
<1>19. ASSUME NEW w \in Workers, MarkDeletion(w) PROVE Records' /\ Busy' /\ Rest'
  <2>1. hold[w].att \in Attachments
    BY <1>19, <1>t DEF MarkDeletion, Busy
  <2>2. PICK a \in Attachments : a = hold[w].att
    BY <2>1
  <2>3. ASSUME NEW result \in {"succeeded", "failed", "queued"}, NEW due \in {"now", "late"}
        PROVE  [job[a] EXCEPT !.status = result, !.token = None, !.stale = FALSE, !.due = due] \in Job
    <3>1. job[a] \in Job
      BY <1>t DEF Records
    <3> QED
      BY <3>1 DEF Job
  <2>4. job' = job \/ \E result \in {"succeeded", "failed", "queued"}, due \in {"now", "late"} :
           job' = [job EXCEPT ![a] = [job[a] EXCEPT !.status = result, !.token = None,
                                                    !.stale = FALSE, !.due = due]]
    <3>1. job[a].due \in {"now", "late"} /\ job \in [Attachments -> Job]
      BY <1>t DEF Records, Job
    <3>2. CASE JobLease(w)
      <4>1. PICK result \in {"succeeded", "failed", "queued"} :
              job' = [job EXCEPT ![a].status = result, ![a].token = None, ![a].stale = FALSE,
                                 ![a].due = IF result = "queued" THEN "now" ELSE @]
        BY <1>19, <2>2, <3>2 DEF MarkDeletion
      <4>2. job' = [job EXCEPT ![a] = [job[a] EXCEPT !.status = result, !.token = None, !.stale = FALSE,
                                                     !.due = IF result = "queued" THEN "now" ELSE job[a].due]]
        BY <3>1, <4>1
      <4>3. (IF result = "queued" THEN "now" ELSE job[a].due) \in {"now", "late"}
        BY <3>1
      <4> QED
        BY <4>2, <4>3
    <3>3. CASE ~JobLease(w)
      BY <1>19, <3>3 DEF MarkDeletion
    <3> QED
      BY <3>2, <3>3
  <2>5. job' \in [Attachments -> Job]
    BY <1>t, <2>3, <2>4 DEF Records
  <2> QED
    BY <1>19, <1>t, <2>5, HoldTypes DEF MarkDeletion, Records, Busy, Rest
<1>20. ASSUME NEW w \in Workers, NEW a \in Attachments, ClaimParse(w, a)
       PROVE  Records' /\ Busy' /\ Rest'
  <2>1. row[a].attempts + 1 \in Nat
    BY <1>t DEF Row
  <2>2. [row[a] EXCEPT !.parse = "processing", !.attempts = @ + 1, !.token = w, !.stale = FALSE] \in Row
    BY <1>t, <2>1 DEF Row
  <2>3. row' = [row EXCEPT ![a] = [row[a] EXCEPT !.parse = "processing", !.attempts = @ + 1,
                                                 !.token = w, !.stale = FALSE]]
    BY <1>20, <1>t DEF ClaimParse
  <2>4. \E n \in Nat, task \in {"parse"} \cup Deleting : Claim(w, task, a, n)
    BY <1>20, <2>1 DEF ClaimParse
  <2> QED
    BY <1>20, <1>t, <2>2, <2>3, <2>4, HoldTypes DEF ClaimParse, Records, Busy, Rest
<1>21. ASSUME NEW w \in Workers, FinishParse(w) PROVE Records' /\ Busy' /\ Rest'
  <2>1. hold[w].att \in Attachments
    BY <1>21, <1>t DEF FinishParse, Busy
  <2>2. PICK a \in Attachments : a = hold[w].att
    BY <2>1
  <2>3. row' = row \/ \E new \in Row : row' = [row EXCEPT ![a] = new]
    <3>1. /\ \A b \in BOOLEAN : ParseFailed(row[a], b) \in Row
          /\ Parsed(row[a]) \in Row /\ Submitted(row[a]) \in Row
          /\ row[a].submitted /\ row[a].polls < MaxPolls => Deferred(row[a]) \in Row
      BY <1>t, FinishedRows
    <3>2. (hold[w].attempts >= MaxAttempts) \in BOOLEAN
      OBVIOUS
    <3> QED
      BY <1>21, <2>2, <3>1, <3>2 DEF FinishParse
  <2>4. row' \in [Attachments -> Row]
    BY <1>t, <2>3
  <2> QED
    BY <1>21, <1>t, <2>4, HoldTypes DEF FinishParse, Records, Busy, Rest
<1>22. ASSUME NEW w \in Workers, LeaseLapses(w) PROVE Records' /\ Busy' /\ Rest'
  <2>1. hold[w].att \in Attachments
    BY <1>22, <1>t DEF LeaseLapses, Busy
  <2>2. PICK a \in Attachments : a = hold[w].att
    BY <2>1
  <2>3. [row[a] EXCEPT !.stale = TRUE] \in Row /\ [job[a] EXCEPT !.stale = TRUE] \in Job
    <3>1. row[a] \in Row /\ job[a] \in Job
      BY <1>t DEF Records
    <3>2. [row[a] EXCEPT !.stale = TRUE] \in Row
      BY <3>1 DEF Row
    <3>3. [job[a] EXCEPT !.stale = TRUE] \in Job
      BY <3>1 DEF Job
    <3> QED
      BY <3>2, <3>3
  <2>4. row' = row \/ row' = [row EXCEPT ![a] = [row[a] EXCEPT !.stale = TRUE]]
    BY <1>22, <1>t, <2>2 DEF LeaseLapses
  <2>5. job' = job \/ job' = [job EXCEPT ![a] = [job[a] EXCEPT !.stale = TRUE]]
    BY <1>22, <1>t, <2>2 DEF LeaseLapses, Records
  <2>6. row' \in [Attachments -> Row] /\ job' \in [Attachments -> Job]
    BY <1>t, <2>3, <2>4, <2>5 DEF Records
  <2>7. Drop(w) \/ hold' = hold
    BY <1>22 DEF LeaseLapses
  <2> QED
    BY <1>22, <1>t, <2>6, <2>7, HoldTypes DEF LeaseLapses, Records, Busy, Rest
<1>23. CASE UNCHANGED vars
  BY <1>23, <1>t DEF vars, Records, Busy, Rest
<1> QED
  BY <1>1, <1>2, <1>3, <1>4, <1>5, <1>6, <1>7, <1>8, <1>9, <1>10, <1>11, <1>12, <1>13, <1>14,
     <1>15, <1>16, <1>17, <1>18, <1>19, <1>20, <1>21, <1>22, <1>23
     DEF Next, AttachmentStep, CompleterStep, WorkerStep, AccountStep
-----------------------------------------------------------------------------
\* Steps that neither create nor remove a row, nor change what one holds.
Quiet ==
    /\ UNCHANGED <<account, used, reserved, lost>>
    /\ \A a \in Attachments :
          /\ row'[a].quota = row[a].quota
          /\ row'[a].status = "none" <=> row[a].status = "none"
          /\ RowShape(a)'
          /\ job'[a].status = "none" <=> job[a].status = "none"
          /\ age'[a] = "unborn" <=> age[a] = "unborn"
    /\ LocksHeld'

\* Rows nobody has locked are removed, their objects queued for deletion.
Removes(S) ==
    /\ S \subseteq Present /\ S \cap clearing.rows = {}
    /\ UNCHANGED <<account, lost, age, clearing>>
    /\ RemoveRows(S, Due) \/ RemoveRows(S, AtOnce)
    /\ row' = WithoutRows(S)

\* An upload that was verified is charged, a rejected one is not.
Charges(a) ==
    /\ CanCommit(a) /\ \E c \in Completers : check[c].step = "commit" /\ check[c].att = a
    /\ row' = [row EXCEPT ![a].quota = "committed",
                          ![a].status = IF row[a].kind = "image" THEN "ready" ELSE "processing"]
    /\ reserved' = reserved - 1 /\ used' = used + 1
    /\ UNCHANGED <<account, lost, age, clearing, job>>
Returns(a) ==
    /\ row[a].status = "scanning" /\ row[a].quota = "reserved"
    /\ row' = [row EXCEPT ![a].status = "failed", ![a].parse = "failed",
                          ![a].quota = "released", ![a].active = FALSE]
    /\ reserved' = reserved - 1
    /\ Enqueue({a}, AtOnce)
    /\ UNCHANGED <<account, lost, age, clearing, used>>

\* A row that changes only in ways that matter to neither quota nor message.
LEMMA RowTouched ==
    ASSUME Types, RowsOK, NEW a \in Attachments, NEW r, row' = [row EXCEPT ![a] = r],
           r.quota = row[a].quota, r.msg = row[a].msg,
           row[a].status # "none", r.status # "none",
           r.status \in {"initiated", "scanning"} => r.parse \in {"not_required", "queued"},
           UNCHANGED <<account, used, reserved, lost, age, clearing>>,
           \A b \in Attachments : job'[b].status = "none" <=> job[b].status = "none"
    PROVE  Quiet
<1>1. \A b \in Attachments : row'[b] = IF b = a THEN r ELSE row[b]
  BY DEF Types
<1>2. \A b \in Attachments : row'[b].status = "none" <=> row[b].status = "none"
  BY <1>1
<1>3. Present' = Present
  BY <1>2 DEF Present
<1> QED
  BY <1>1, <1>2, <1>3 DEF Quiet, RowsOK, RowShape, LocksHeld

LEMMA RowsUntouched ==
    ASSUME RowsOK, UNCHANGED <<account, used, reserved, lost, row, clearing>>,
           \A b \in Attachments : job'[b].status = "none" <=> job[b].status = "none",
           \A b \in Attachments : age'[b] = "unborn" <=> age[b] = "unborn"
    PROVE  Quiet
<1>1. \A b \in Attachments : RowShape(b)'
  BY DEF RowsOK, RowShape
<1>2. LocksHeld'
  BY DEF RowsOK, LocksHeld, Present
<1> QED
  BY <1>1, <1>2 DEF Quiet

LEMMA CompleterKinds ==
    ASSUME Types, RowsOK, NEW c \in Completers, CompleterStep(c)
    PROVE  Quiet \/ \E a \in Attachments : Charges(a) \/ Returns(a)
<1>0. /\ row \in [Attachments -> Row] /\ \A a \in Attachments : row[a] \in Row
      /\ check[c].step # "idle" => check[c].att \in Attachments
  BY DEF Types
<1>1. ASSUME NEW a \in Attachments, BeginCompletion(c, a) PROVE Quiet
  <2>1. row' = [row EXCEPT ![a] = [row[a] EXCEPT !.status = "scanning"]] /\ row[a].status = "initiated"
    BY <1>0, <1>1 DEF BeginCompletion
  <2>2. row[a].parse \in {"not_required", "queued"}
    BY <2>1 DEF RowsOK, RowShape
  <2>3. /\ [row[a] EXCEPT !.status = "scanning"].quota = row[a].quota
        /\ [row[a] EXCEPT !.status = "scanning"].msg = row[a].msg
        /\ [row[a] EXCEPT !.status = "scanning"].status = "scanning"
        /\ [row[a] EXCEPT !.status = "scanning"].parse = row[a].parse
    BY <1>0 DEF Row
  <2> QED
    BY <1>1, <2>1, <2>2, <2>3, RowTouched DEF BeginCompletion
<1>2. CASE Verify(c) \/ CompleterCrash(c)
  BY <1>2, RowsUntouched DEF Verify, CompleterCrash
<1>3. CASE CompleteVerified(c)
  <2>1. PICK a \in Attachments : a = check[c].att
    BY <1>0, <1>3 DEF CompleteVerified
  <2>2. CASE CanCommit(a)
    BY <1>3, <2>1, <2>2 DEF CompleteVerified, Charges
  <2>3. CASE ~CanCommit(a)
    BY <1>3, <2>1, <2>3, RowsUntouched DEF CompleteVerified
  <2> QED
    BY <2>2, <2>3
<1>4. CASE RejectCompletion(c)
  <2>1. PICK a \in Attachments : a = check[c].att
    BY <1>0, <1>4 DEF RejectCompletion
  <2> QED
    BY <1>4, <2>1, RowsUntouched DEF RejectCompletion, Returns
<1>5. CASE ResetCompletion(c)
  <2>1. PICK a \in Attachments : a = check[c].att
    BY <1>0, <1>5 DEF ResetCompletion
  <2>2. CASE row' = row
    BY <1>5, <2>2, RowsUntouched DEF ResetCompletion
  <2>3. CASE CanCommit(a) /\ row' = [row EXCEPT ![a].status = "initiated"]
    <3>1. row' = [row EXCEPT ![a] = [row[a] EXCEPT !.status = "initiated"]] /\ row[a].status = "scanning"
      BY <1>0, <2>3 DEF CanCommit
    <3>2. row[a].parse \in {"not_required", "queued"}
      BY <3>1 DEF RowsOK, RowShape
    <3>3. /\ [row[a] EXCEPT !.status = "initiated"].quota = row[a].quota
          /\ [row[a] EXCEPT !.status = "initiated"].msg = row[a].msg
          /\ [row[a] EXCEPT !.status = "initiated"].status = "initiated"
          /\ [row[a] EXCEPT !.status = "initiated"].parse = row[a].parse
      BY <1>0 DEF Row
    <3> QED
      BY <1>5, <3>1, <3>2, <3>3, RowTouched DEF ResetCompletion
  <2> QED
    BY <1>5, <2>1, <2>2, <2>3 DEF ResetCompletion
<1> QED
  BY <1>1, <1>2, <1>3, <1>4, <1>5 DEF CompleterStep

LEMMA WorkerQuiet ==
    ASSUME Types, RowsOK, JobFirst, NEW w \in Workers, WorkerStep(w) \/ LeaseLapses(w)
    PROVE  Quiet
<1>0. /\ row \in [Attachments -> Row] /\ \A a \in Attachments : row[a] \in Row
      /\ job \in [Attachments -> Job] /\ \A a \in Attachments : job[a] \in Job
      /\ hold[w].task # "none" => hold[w].att \in Attachments
  BY DEF Types
<1>1. ASSUME NEW a \in Attachments, ClaimDeletion(w, a) PROVE Quiet
  <2>1. \A b \in Attachments : job'[b].status = "none" <=> job[b].status = "none"
    BY <1>0, <1>1 DEF ClaimDeletion, JobClaimable, Job
  <2> QED
    BY <1>1, <2>1, RowsUntouched DEF ClaimDeletion
<1>2. CASE DeleteObject(w)
  BY <1>2, RowsUntouched DEF DeleteObject
<1>3. CASE MarkDeletion(w)
  <2>1. PICK a \in Attachments : a = hold[w].att
    BY <1>0, <1>3 DEF MarkDeletion
  <2>2. \A b \in Attachments : job'[b].status = "none" <=> job[b].status = "none"
    <3>1. CASE JobLease(w)
      <4>1. job[a].status = "running"
        BY <2>1, <3>1 DEF JobLease
      <4>2. PICK result \in {"succeeded", "failed", "queued"} :
              job' = [job EXCEPT ![a].status = result, ![a].token = None, ![a].stale = FALSE,
                                 ![a].due = IF result = "queued" THEN "now" ELSE @]
        BY <1>3, <2>1, <3>1 DEF MarkDeletion
      <4> QED
        BY <1>0, <4>1, <4>2 DEF Job
    <3>2. CASE ~JobLease(w)
      BY <1>3, <3>2 DEF MarkDeletion
    <3> QED
      BY <3>1, <3>2
  <2> QED
    BY <1>3, <2>2, RowsUntouched DEF MarkDeletion
<1>4. ASSUME NEW a \in Attachments, ClaimParse(w, a) PROVE Quiet
  <2> DEFINE r == [row[a] EXCEPT !.parse = "processing", !.attempts = @ + 1, !.token = w, !.stale = FALSE]
  <2>1. row' = [row EXCEPT ![a] = r] /\ row[a].status = "processing"
    BY <1>0, <1>4 DEF ClaimParse
  <2>2. r.quota = row[a].quota /\ r.msg = row[a].msg /\ r.status = row[a].status
    BY <1>0 DEF Row
  <2> HIDE DEF r
  <2> QED
    BY <1>4, <2>1, <2>2, RowTouched DEF ClaimParse
<1>5. CASE FinishParse(w)
  <2>1. PICK a \in Attachments : a = hold[w].att
    BY <1>0, <1>5 DEF FinishParse
  <2>2. CASE ParseLease(w)
    <3>1. row[a].parse = "processing" /\ row[a].status \notin {"none", "initiated", "scanning"}
      BY <2>1, <2>2 DEF ParseLease, RowsOK, RowShape
    <3>2. PICK r \in {ParseFailed(row[a], TRUE), ParseFailed(row[a], FALSE), Parsed(row[a]),
                     Deferred(row[a]), Submitted(row[a])} :
             row' = [row EXCEPT ![a] = r]
      <4>1. ParseFailed(row[a], hold[w].attempts >= MaxAttempts) \in
               {ParseFailed(row[a], TRUE), ParseFailed(row[a], FALSE)}
        <5>1. hold[w].attempts >= MaxAttempts \/ ~(hold[w].attempts >= MaxAttempts)
          OBVIOUS
        <5> QED
          BY <5>1 DEF ParseFailed
      <4> QED
        BY <1>5, <2>1, <2>2, <4>1 DEF FinishParse
    <3>3. /\ r.quota = row[a].quota /\ r.msg = row[a].msg
          /\ r.status \in {"failed", "processing", "ready", row[a].status}
      <4>1. r.quota = row[a].quota /\ r.msg = row[a].msg
        <5>1. \A n \in {ParseFailed(row[a], TRUE), ParseFailed(row[a], FALSE), Parsed(row[a]),
                        Deferred(row[a]), Submitted(row[a])} :
                 n.quota = row[a].quota /\ n.msg = row[a].msg
          BY <1>0 DEF ParseFailed, Parsed, Deferred, Submitted, Unlocked, Row
        <5> QED
          BY <3>2, <5>1
      <4>2. r.status \in {"failed", "processing", "ready", row[a].status}
        BY <1>0, <3>2 DEF ParseFailed, Parsed, Deferred, Submitted, Unlocked, Row
      <4> QED
        BY <4>1, <4>2
    <3> QED
      BY <1>5, <3>1, <3>2, <3>3, RowTouched DEF FinishParse
  <2>3. CASE ~ParseLease(w)
    BY <1>5, <2>3, RowsUntouched DEF FinishParse
  <2> QED
    BY <2>2, <2>3
<1>6. CASE LeaseLapses(w)
  <2>1. PICK a \in Attachments : a = hold[w].att
    BY <1>0, <1>6 DEF LeaseLapses
  <2>2. CASE hold[w].task = "parse" /\ ParseLease(w)
    <3> DEFINE r == [row[a] EXCEPT !.stale = TRUE]
    <3>1. row' = [row EXCEPT ![a] = r] /\ job' = job
      BY <1>0, <1>6, <2>1, <2>2 DEF LeaseLapses
    <3>2. r.quota = row[a].quota /\ r.msg = row[a].msg /\ r.status = row[a].status /\ r.parse = row[a].parse
      BY <1>0 DEF Row
    <3>3. row[a].status # "none" /\ (r.status \in {"initiated", "scanning"} => r.parse \in {"not_required", "queued"})
      BY <2>1, <2>2, <3>2 DEF ParseLease, RowsOK, RowShape
    <3> HIDE DEF r
    <3> QED
      BY <1>6, <3>1, <3>2, <3>3, RowTouched DEF LeaseLapses
  <2>3. CASE hold[w].task # "parse" \/ ~ParseLease(w)
    <3>1. row' = row
      BY <1>6, <2>3 DEF LeaseLapses
    <3>2. \A b \in Attachments : job'[b].status = job[b].status
      BY <1>0, <1>6, <2>1 DEF LeaseLapses, Job
    <3> QED
      BY <1>6, <3>1, <3>2, RowsUntouched DEF LeaseLapses
  <2> QED
    BY <2>2, <2>3
<1> QED
  BY <1>1, <1>2, <1>3, <1>4, <1>5, <1>6 DEF WorkerStep
-----------------------------------------------------------------------------
\* Counting.  HeldBy(S, q) is what Count counts.
HeldBy(S, q) == {a \in S : row[a].quota = q}
LostOf(q) == {x \in lost : x[2] = q}

LEMMA Counting ==
    /\ \A S, q : Count(S, q) = Cardinality(HeldBy(S, q))
    /\ \A q : Count(Present, q)' = Cardinality(HeldBy(Present, q)')
    /\ \A q : LostUnits(q) = Cardinality(LostOf(q)) /\ LostUnits(q)' = Cardinality(LostOf(q)')
BY DEF Count, HeldBy, LostUnits, LostOf

LEMMA CountIsNat ==
    ASSUME NEW S, IsFiniteSet(S), NEW q
    PROVE  Count(S, q) \in Nat /\ IsFiniteSet(HeldBy(S, q))
<1>1. HeldBy(S, q) \in SUBSET S
  BY DEF HeldBy
<1> QED
  BY <1>1, FS_Subset, FS_CardinalityType, Counting

LEMMA LostIsNat ==
    ASSUME Finite, NEW q
    PROVE  LostUnits(q) \in Nat /\ IsFiniteSet(LostOf(q))
<1>1. LostOf(q) \in SUBSET lost
  BY DEF LostOf
<1> QED
  BY <1>1, FS_Subset, FS_CardinalityType, Counting DEF Finite

\* The rows without S hold what all rows hold, less what S holds.
LEMMA CountSplit ==
    ASSUME NEW T, IsFiniteSet(T), NEW S \in SUBSET T, NEW q
    PROVE  /\ Count(T \ S, q) = Count(T, q) - Count(S, q)
           /\ Count(S, q) \in Nat /\ Count(T, q) \in Nat /\ Count(S, q) <= Count(T, q)
<1>1. IsFiniteSet(S) /\ IsFiniteSet(HeldBy(T, q)) /\ Count(T, q) \in Nat
  BY FS_Subset, CountIsNat
<1>2. Count(S, q) \in Nat
  BY <1>1, CountIsNat
<1>3. /\ HeldBy(T \ S, q) = HeldBy(T, q) \ HeldBy(S, q)
      /\ HeldBy(T, q) \cap HeldBy(S, q) = HeldBy(S, q)
      /\ HeldBy(S, q) \in SUBSET HeldBy(T, q)
  BY DEF HeldBy
<1>4. Cardinality(HeldBy(T \ S, q)) = Cardinality(HeldBy(T, q)) - Cardinality(HeldBy(S, q))
  <2>1. Cardinality(HeldBy(T, q) \ HeldBy(S, q)) =
           Cardinality(HeldBy(T, q)) - Cardinality(HeldBy(T, q) \cap HeldBy(S, q))
    BY <1>1, FS_Difference
  <2> QED
    BY <1>3, <2>1
<1>5. Cardinality(HeldBy(S, q)) <= Cardinality(HeldBy(T, q))
  BY <1>1, <1>3, FS_Subset
<1> QED
  BY <1>1, <1>2, <1>4, <1>5, Counting

\* A row present before and after with the same quota counts the same.
LEMMA CountSame ==
    ASSUME Present' = Present, NEW q, \A a \in Present : row'[a].quota = q <=> row[a].quota = q
    PROVE  Count(Present, q)' = Count(Present, q)
<1>1. HeldBy(Present, q)' = HeldBy(Present, q)
  BY DEF HeldBy
<1> QED
  BY <1>1, Counting

LEMMA CountOneMore ==
    ASSUME IsFiniteSet(Present), NEW q, NEW a, HeldBy(Present, q)' = HeldBy(Present, q) \cup {a},
           a \notin HeldBy(Present, q)
    PROVE  Count(Present, q)' = Count(Present, q) + 1
BY CountIsNat, FS_AddElement, Counting

LEMMA CountOneLess ==
    ASSUME IsFiniteSet(Present), NEW q, NEW a, HeldBy(Present, q)' = HeldBy(Present, q) \ {a},
           a \in HeldBy(Present, q)
    PROVE  Count(Present, q)' = Count(Present, q) - 1 /\ Count(Present, q) >= 1
<1>1. IsFiniteSet(HeldBy(Present, q))
  BY CountIsNat
<1>2. Cardinality(HeldBy(Present, q) \ {a}) = Cardinality(HeldBy(Present, q)) - 1
  BY <1>1, FS_RemoveElement
<1>3. Cardinality(HeldBy(Present, q) \ {a}) \in Nat /\ Cardinality(HeldBy(Present, q)) \in Nat
  BY <1>1, FS_RemoveElement, FS_CardinalityType
<1> QED
  BY <1>2, <1>3, Counting
-----------------------------------------------------------------------------
LEMMA QuietRows ==
    ASSUME Types, RowsOK, Quiet
    PROVE  RowsOK' /\ Counters'
<1> USE DEF RowsOK
<1>1. Present' = Present
  BY DEF Quiet, Present
<1>2. \A a \in Attachments : RowShape(a)' /\ Once(a)' /\ ChargedHasNoJob(a)' /\ ClosedIsQueued(a)'
  BY <1>1 DEF Quiet, Once, ChargedHasNoJob, ClosedIsQueued
<1>3. LocksHeld' /\ Gone' /\ Finite' /\ RemovedIsQueued'
  BY <1>1 DEF Quiet, Gone, Finite, RemovedIsQueued
<1>4. AccountMatchesRows'
  <2>1. \A q : Count(Present, q)' = Count(Present, q)
    <3>1. \A a \in Present : row'[a].quota = row[a].quota
      BY DEF Quiet, Present
    <3> QED
      BY <1>1, <3>1, CountSame
  <2>2. \A q : LostUnits(q)' = LostUnits(q)
    BY DEF Quiet, LostUnits
  <2> QED
    BY <2>1, <2>2 DEF AccountMatchesRows, Quiet
<1>5. Counters'
  BY TypesAre DEF Quiet, Counters
<1> QED
  BY <1>2, <1>3, <1>4, <1>5

LEMMA InitiateRows ==
    ASSUME Types, RowsOK, NEW a \in Attachments, NEW v \in Conversations, NEW kind \in Kinds,
           Initiate(a, v, kind)
    PROVE  RowsOK' /\ Counters'
<1> USE DEF RowsOK
<1>1. /\ account = "active" /\ age[a] = "unborn" /\ a \notin Present /\ job[a].status = "none"
      /\ UNCHANGED <<account, used, job, lost, clearing>> /\ reserved' = reserved + 1
  BY DEF Initiate, Once
<1>2. /\ \A b \in Attachments : b # a => row'[b] = row[b] /\ age'[b] = age[b]
      /\ row'[a].status = "initiated" /\ row'[a].quota = "reserved" /\ row'[a].msg = None
      /\ row'[a].parse \in {"not_required", "queued"} /\ age'[a] = "fresh"
  BY DEF Initiate, NoRow, Types
<1>3. Present' = Present \cup {a}
  BY <1>2 DEF Present
<1>4. \A b \in Attachments : RowShape(b)' /\ Once(b)' /\ ChargedHasNoJob(b)' /\ ClosedIsQueued(b)'
  BY <1>1, <1>2, <1>3 DEF RowShape, Once, ChargedHasNoJob, ClosedIsQueued
<1>5. LocksHeld' /\ Gone' /\ RemovedIsQueued'
  BY <1>1, <1>2, <1>3 DEF LocksHeld, Gone, RemovedIsQueued
<1>6. Finite'
  BY <1>1, <1>3, FS_AddElement DEF Finite
<1>7. /\ HeldBy(Present, "reserved")' = HeldBy(Present, "reserved") \cup {a}
      /\ HeldBy(Present, "committed")' = HeldBy(Present, "committed")
  BY <1>1, <1>2, <1>3 DEF HeldBy, Present
<1>8. /\ Count(Present, "reserved")' = Count(Present, "reserved") + 1
      /\ Count(Present, "committed")' = Count(Present, "committed")
  BY <1>1, <1>7, CountOneMore, Counting DEF Finite, HeldBy
<1>9. AccountMatchesRows' /\ Counters'
  <2>1. \A q : LostUnits(q)' = LostUnits(q) /\ LostUnits(q) \in Nat
    BY <1>1, LostIsNat DEF LostUnits
  <2>2. Count(Present, "reserved") \in Nat /\ used \in Nat /\ reserved \in Nat
    BY CountIsNat, TypesAre DEF Finite, Counters
  <2> QED
    BY <1>1, <1>8, <2>1, <2>2 DEF AccountMatchesRows, Counters
<1> QED
  BY <1>4, <1>5, <1>6, <1>9

LEMMA ChargesRows ==
    ASSUME Types, RowsOK, NEW a \in Attachments, Charges(a)
    PROVE  RowsOK' /\ Counters'
<1> USE DEF RowsOK
<1>1. /\ row[a].status = "scanning" /\ row[a].quota = "reserved"
      /\ UNCHANGED <<account, lost, age, clearing, job>>
      /\ reserved' = reserved - 1 /\ used' = used + 1
  BY DEF Charges, CanCommit
<1>2. /\ \A b \in Attachments : b # a => row'[b] = row[b]
      /\ row'[a].status \in {"ready", "processing"} /\ row'[a].quota = "committed"
  BY DEF Charges, Types, Row
<1>3. Present' = Present /\ a \in Present
  BY <1>1, <1>2 DEF Present
<1>4. \A b \in Attachments : RowShape(b)' /\ Once(b)' /\ ChargedHasNoJob(b)' /\ ClosedIsQueued(b)'
  BY <1>1, <1>2, <1>3 DEF RowShape, Once, ChargedHasNoJob, ClosedIsQueued
<1>5. LocksHeld' /\ Gone' /\ RemovedIsQueued' /\ Finite'
  BY <1>1, <1>3 DEF LocksHeld, Gone, RemovedIsQueued, Finite
<1>7. /\ HeldBy(Present, "reserved")' = HeldBy(Present, "reserved") \ {a}
      /\ HeldBy(Present, "committed")' = HeldBy(Present, "committed") \cup {a}
      /\ a \in HeldBy(Present, "reserved") /\ a \notin HeldBy(Present, "committed")
  BY <1>1, <1>2, <1>3 DEF HeldBy, Present
<1>8. /\ Count(Present, "reserved")' = Count(Present, "reserved") - 1
      /\ Count(Present, "committed")' = Count(Present, "committed") + 1
      /\ Count(Present, "reserved") >= 1
  BY <1>7, CountOneMore, CountOneLess DEF Finite
<1>9. AccountMatchesRows' /\ Counters'
  <2>1. \A q : LostUnits(q)' = LostUnits(q) /\ LostUnits(q) \in Nat
    BY <1>1, LostIsNat DEF LostUnits
  <2>2. Count(Present, "reserved") \in Nat /\ Count(Present, "committed") \in Nat /\ used \in Nat
    BY CountIsNat, TypesAre DEF Finite, Counters
  <2>3. account # "deleted"
    BY <1>3 DEF Gone
  <2> QED
    BY <1>1, <1>8, <2>1, <2>2, <2>3 DEF AccountMatchesRows, Counters
<1> QED
  BY <1>4, <1>5, <1>9

LEMMA ReturnsRows ==
    ASSUME Types, RowsOK, NEW a \in Attachments, Returns(a)
    PROVE  RowsOK' /\ Counters'
<1> USE DEF RowsOK
<1>1. /\ row[a].status = "scanning" /\ row[a].quota = "reserved"
      /\ UNCHANGED <<account, lost, age, clearing, used>> /\ reserved' = reserved - 1
  BY DEF Returns
<1>2. /\ \A b \in Attachments : b # a => row'[b] = row[b]
      /\ row'[a].status = "failed" /\ row'[a].quota = "released"
  BY DEF Returns, Types, Row
<1>3. Present' = Present /\ a \in Present
  BY <1>1, <1>2 DEF Present
<1>4. \A b \in Attachments :
         /\ job[b].status # "none" => job'[b] = job[b]
         /\ b # a => job'[b] = job[b]
  BY EnqueueWrites, DueTypes DEF Returns, Types
<1>5. \A b \in Attachments : RowShape(b)' /\ Once(b)' /\ ChargedHasNoJob(b)' /\ ClosedIsQueued(b)'
  <2>1. ASSUME NEW b \in Attachments, b # a
        PROVE  RowShape(b)' /\ Once(b)' /\ ChargedHasNoJob(b)' /\ ClosedIsQueued(b)'
    BY <1>1, <1>2, <1>3, <1>4, <2>1 DEF RowShape, Once, ChargedHasNoJob, ClosedIsQueued
  <2>2. RowShape(a)' /\ Once(a)' /\ ChargedHasNoJob(a)' /\ ClosedIsQueued(a)'
    BY <1>1, <1>2, <1>3, <1>4 DEF RowShape, Once, ChargedHasNoJob, ClosedIsQueued
  <2> QED
    BY <2>1, <2>2
<1>6. LocksHeld' /\ Gone' /\ RemovedIsQueued' /\ Finite'
  BY <1>1, <1>3, <1>4 DEF LocksHeld, Gone, RemovedIsQueued, Finite
<1>7. /\ HeldBy(Present, "reserved")' = HeldBy(Present, "reserved") \ {a}
      /\ HeldBy(Present, "committed")' = HeldBy(Present, "committed")
      /\ a \in HeldBy(Present, "reserved")
  BY <1>1, <1>2, <1>3 DEF HeldBy, Present
<1>8. /\ Count(Present, "reserved")' = Count(Present, "reserved") - 1
      /\ Count(Present, "committed")' = Count(Present, "committed")
      /\ Count(Present, "reserved") >= 1
  BY <1>7, CountOneLess, Counting DEF Finite
<1>9. AccountMatchesRows' /\ Counters'
  <2>1. \A q : LostUnits(q)' = LostUnits(q) /\ LostUnits(q) \in Nat
    BY <1>1, LostIsNat DEF LostUnits
  <2>2. Count(Present, "reserved") \in Nat /\ used \in Nat
    BY CountIsNat, TypesAre DEF Finite, Counters
  <2>3. account # "deleted"
    BY <1>3 DEF Gone
  <2> QED
    BY <1>1, <1>8, <2>1, <2>2, <2>3 DEF AccountMatchesRows, Counters
<1> QED
  BY <1>5, <1>6, <1>9

LEMMA RemovesRows ==
    ASSUME Types, RowsOK, NEW S, Removes(S)
    PROVE  RowsOK' /\ Counters'
<1> USE DEF RowsOK
<1>1. S \subseteq Present /\ S \cap clearing.rows = {} /\ UNCHANGED <<account, lost, age, clearing>>
  BY DEF Removes
<1>2. \A b \in Attachments : row'[b] = IF b \in S THEN NoRow ELSE row[b]
  BY WithoutRowsTypes, TypesAre DEF Removes
<1>3. Present' = Present \ S
  BY <1>2 DEF Present, NoRow
<1>4. \A b \in Attachments :
         /\ job[b].status # "none" => job'[b] = job[b]
         /\ b \in S => job'[b].status # "none"
         /\ b \notin S => job'[b] = job[b]
  <2>1. {a \in S : NeedsJob(a)} = S
    BY DEF NeedsJob
  <2> QED
    BY <2>1, EnqueueWrites, DueTypes DEF Removes, RemoveRows, Types
<1>5. \A b \in Attachments : RowShape(b)'
  BY <1>2 DEF RowShape, NoRow
<1>6. \A b \in Attachments : Once(b)'
  BY <1>1, <1>3, <1>4 DEF Once
<1>7. \A b \in Attachments : ChargedHasNoJob(b)' /\ ClosedIsQueued(b)'
  BY <1>1, <1>2, <1>3, <1>4 DEF ChargedHasNoJob, ClosedIsQueued, NoRow
<1>8. LocksHeld' /\ Gone'
  BY <1>1, <1>3 DEF LocksHeld, Gone
<1>9. Finite'
  BY <1>1, <1>3, FS_Difference DEF Finite
<1>10. RemovedIsQueued'
  BY <1>1, <1>3, <1>4 DEF RemovedIsQueued
<1>11. ASSUME NEW q
       PROVE  /\ q # "none" => Count(Present, q)' = Count(Present, q) - Count(S, q)
              /\ Count(S, q) \in Nat /\ Count(Present, q) \in Nat /\ Count(S, q) <= Count(Present, q)
  <2>1. IsFiniteSet(Present) /\ S \in SUBSET Present
    BY <1>1 DEF Finite
  <2>2. /\ Count(Present \ S, q) = Count(Present, q) - Count(S, q)
        /\ Count(S, q) \in Nat /\ Count(Present, q) \in Nat /\ Count(S, q) <= Count(Present, q)
    BY <2>1, CountSplit
  <2>3. ASSUME q # "none"
        PROVE  Count(Present, q)' = Count(Present \ S, q)
    <3>1. HeldBy(Present, q)' = HeldBy(Present \ S, q)
      BY <1>2, <1>3, <2>3 DEF HeldBy, Present, NoRow
    <3> QED
      BY <3>1, Counting
  <2> QED
    BY <2>2, <2>3
<1>12. /\ used' = NonNegative(used - Count(S, "committed"))
       /\ reserved' = NonNegative(reserved - Count(S, "reserved"))
  BY DEF Removes, RemoveRows, ReturnedReserved
<1>13. used \in Nat /\ reserved \in Nat
  BY TypesAre DEF Counters
<1>14. Counters'
  BY <1>11, <1>12, <1>13, NonNegativeIs DEF Counters
<1>15. AccountMatchesRows'
  <2>1. \A q : LostUnits(q)' = LostUnits(q) /\ LostUnits(q) \in Nat
    BY <1>1, LostIsNat DEF LostUnits
  <2>2. CASE account # "deleted"
    <3>1. /\ used - Count(S, "committed") = Count(Present, "committed")' + LostUnits("committed")
          /\ reserved - Count(S, "reserved") = Count(Present, "reserved")' + LostUnits("reserved")
      BY <1>11, <2>1, <2>2 DEF AccountMatchesRows
    <3>2. used - Count(S, "committed") \in Nat /\ reserved - Count(S, "reserved") \in Nat
      BY <1>11, <2>1, <2>2, <1>13 DEF AccountMatchesRows
    <3> QED
      BY <1>12, <2>1, <3>1, <3>2, NonNegativeIs DEF AccountMatchesRows
  <2>3. CASE account = "deleted"
    BY <1>1, <2>3 DEF AccountMatchesRows
  <2> QED
    BY <2>2, <2>3
<1> QED
  BY <1>5, <1>6, <1>7, <1>8, <1>9, <1>10, <1>14, <1>15

\* What a cascade removed, remembered with the quota it held.
TagsOf(S) == {<<a, row[a].quota>> : a \in S}

LEMMA TagsCount ==
    ASSUME NEW S, IsFiniteSet(S)
    PROVE  IsFiniteSet(TagsOf(S)) /\ Cardinality(TagsOf(S)) = Cardinality(S)
<1> DEFINE f == [a \in S |-> <<a, row[a].quota>>]
<1>1. f \in Bijection(S, TagsOf(S))
  BY DEF Bijection, Injection, IsInjective, Surjection, TagsOf
<1>2. ExistsBijection(S, TagsOf(S))
  BY <1>1 DEF ExistsBijection
<1> QED
  BY <1>2, FS_Bijection

LEMMA ClearCommitRows ==
    ASSUME Types, RowsOK, ClearCommit
    PROVE  RowsOK' /\ Counters'
<1> USE DEF RowsOK
<1> DEFINE S == clearing.rows
           missed == Present \ S
<1>1. /\ S \subseteq Present /\ UNCHANGED <<account, age>> /\ lost' = lost \cup TagsOf(missed)
      /\ clearing' = [on |-> FALSE, rows |-> {}]
  BY DEF ClearCommit, LocksHeld, TagsOf
<1>2. \A b \in Attachments : row'[b] = IF b \in Present THEN NoRow ELSE row[b]
  BY WithoutRowsTypes, TypesAre DEF ClearCommit
<1>3. Present' = {}
  BY <1>2 DEF Present, NoRow
<1>4. \A b \in Attachments :
         /\ job[b].status # "none" => job'[b] = job[b]
         /\ b \in S => job'[b].status # "none"
         /\ b \notin S => job'[b] = job[b]
  <2>1. {a \in S : NeedsJob(a)} = S
    BY DEF NeedsJob
  <2> QED
    BY <2>1, EnqueueWrites, DueTypes DEF ClearCommit, RemoveRows, Types
<1>5. \A b \in Attachments : RowShape(b)'
  BY <1>2 DEF RowShape, NoRow
<1>6. \A b \in Attachments : Once(b)'
  <2>1. \A b \in Attachments, q \in Quota : <<b, q>> \in lost' => <<b, q>> \in lost \/ b \in Present
    BY <1>1 DEF TagsOf
  <2> QED
    BY <1>1, <1>3, <1>4, <2>1 DEF Once
<1>7. \A b \in Attachments : ChargedHasNoJob(b)' /\ ClosedIsQueued(b)'
  BY <1>1, <1>2, <1>3, <1>4 DEF ChargedHasNoJob, ClosedIsQueued, NoRow, Present, RowShape
<1>8. LocksHeld' /\ Gone'
  BY <1>1, <1>3 DEF LocksHeld, Gone
<1>f. IsFiniteSet(S) /\ IsFiniteSet(missed)
  BY <1>1, FS_Subset, FS_Difference DEF Finite
<1>9. Finite'
  <2>1. IsFiniteSet(lost')
    BY <1>1, <1>f, TagsCount, FS_Union DEF Finite
  <2>2. lost' \subseteq Attachments \X Quota
    BY <1>1 DEF Finite, TagsOf, Present, Types, Row
  <2> QED
    BY <1>3, <2>1, <2>2, FS_EmptySet DEF Finite
<1>10. RemovedIsQueued'
  <2>1. \A b \in missed : row[b].quota \in Quota /\ <<b, row[b].quota>> \in lost'
    BY <1>1 DEF Present, Types, Row, TagsOf
  <2>2. lost \subseteq lost'
    BY <1>1
  <2> QED
    BY <1>1, <1>4, <2>1, <2>2 DEF RemovedIsQueued
<1>11. ASSUME NEW q
       PROVE  /\ Count(missed, q) = Count(Present, q) - Count(S, q)
              /\ Count(S, q) \in Nat /\ Count(Present, q) \in Nat /\ Count(S, q) <= Count(Present, q)
  <2>1. IsFiniteSet(Present) /\ S \in SUBSET Present
    BY <1>1 DEF Finite
  <2> QED
    BY <2>1, CountSplit
<1>12. \A q \in Quota : LostUnits(q)' = LostUnits(q) + Count(missed, q) /\ LostUnits(q) \in Nat
  <2> TAKE q \in Quota
  <2>1. LostOf(q)' = LostOf(q) \cup TagsOf(HeldBy(missed, q))
    BY <1>1 DEF LostOf, TagsOf, HeldBy
  <2>2. LostOf(q) \cap TagsOf(HeldBy(missed, q)) = {}
    BY DEF Once, LostOf, TagsOf, HeldBy, Present
  <2>3. /\ IsFiniteSet(HeldBy(missed, q)) /\ IsFiniteSet(LostOf(q))
        /\ LostUnits(q) \in Nat /\ Count(missed, q) \in Nat
    BY <1>f, CountIsNat, LostIsNat
  <2>4. /\ IsFiniteSet(TagsOf(HeldBy(missed, q)))
        /\ Cardinality(TagsOf(HeldBy(missed, q))) = Cardinality(HeldBy(missed, q))
    BY <2>3, TagsCount
  <2>5. Cardinality(LostOf(q) \cup TagsOf(HeldBy(missed, q))) =
           Cardinality(LostOf(q)) + Cardinality(TagsOf(HeldBy(missed, q)))
    <3>1. Cardinality(LostOf(q) \cup TagsOf(HeldBy(missed, q))) =
             Cardinality(LostOf(q)) + Cardinality(TagsOf(HeldBy(missed, q)))
               - Cardinality(LostOf(q) \cap TagsOf(HeldBy(missed, q)))
      BY <2>3, <2>4, FS_Union
    <3>2. Cardinality(LostOf(q) \cap TagsOf(HeldBy(missed, q))) = 0
      BY <2>2, FS_EmptySet
    <3>3. Cardinality(LostOf(q)) \in Nat /\ Cardinality(TagsOf(HeldBy(missed, q))) \in Nat
      BY <2>3, <2>4, FS_CardinalityType
    <3> QED
      BY <3>1, <3>2, <3>3
  <2>6. LostUnits(q)' = LostUnits(q) + Count(missed, q)
    <3>1. LostUnits(q)' = Cardinality(LostOf(q)') /\ LostUnits(q) = Cardinality(LostOf(q))
      BY Counting
    <3>2. Count(missed, q) = Cardinality(HeldBy(missed, q))
      BY Counting
    <3>3. LostUnits(q)' = Cardinality(LostOf(q) \cup TagsOf(HeldBy(missed, q)))
      BY <2>1, <3>1
    <3> QED
      BY <2>4, <2>5, <3>1, <3>2, <3>3
  <2> QED
    BY <2>3, <2>6
<1>13. /\ used' = NonNegative(used - Count(S, "committed"))
       /\ reserved' = NonNegative(reserved - Count(S, "reserved"))
  BY DEF ClearCommit, RemoveRows, ReturnedReserved
<1>14. used \in Nat /\ reserved \in Nat
  BY TypesAre DEF Counters
<1>15. Counters'
  BY <1>11, <1>13, <1>14, NonNegativeIs DEF Counters
<1>16. AccountMatchesRows'
  <2>1. \A q : Count(Present, q)' = 0
    <3>1. \A q : HeldBy(Present, q)' = {}
      BY <1>3 DEF HeldBy
    <3> QED
      BY <3>1, FS_EmptySet, Counting
  <2>2. CASE account # "deleted"
    <3>0. "committed" \in Quota /\ "reserved" \in Quota
      BY DEF Quota
    <3>a. ASSUME NEW q \in Quota, NEW n, n = Count(Present, q) + LostUnits(q)
          PROVE  n - Count(S, q) = LostUnits(q)' /\ LostUnits(q)' \in Nat
      <4>1. /\ LostUnits(q)' = LostUnits(q) + Count(missed, q) /\ LostUnits(q) \in Nat
            /\ Count(missed, q) = Count(Present, q) - Count(S, q)
            /\ Count(S, q) \in Nat /\ Count(Present, q) \in Nat /\ Count(S, q) <= Count(Present, q)
        BY <1>11, <1>12
      <4> QED
        BY <3>a, <4>1
    <3>1. /\ used - Count(S, "committed") = LostUnits("committed")'
          /\ reserved - Count(S, "reserved") = LostUnits("reserved")'
          /\ LostUnits("committed")' \in Nat /\ LostUnits("reserved")' \in Nat
      BY <2>2, <3>0, <3>a DEF AccountMatchesRows
    <3> QED
      BY <1>13, <2>1, <3>1, NonNegativeIs DEF AccountMatchesRows
  <2>3. CASE account = "deleted"
    BY <1>1, <2>3 DEF AccountMatchesRows
  <2> QED
    BY <2>2, <2>3
<1> QED
  BY <1>5, <1>6, <1>7, <1>8, <1>9, <1>10, <1>15, <1>16

LEMMA PrepareRows ==
    ASSUME Types, RowsOK, PrepareUserDeletion
    PROVE  RowsOK' /\ Counters'
<1> USE DEF RowsOK
<1>1. account' = "deleting" /\ UNCHANGED <<row, used, reserved, age, clearing, lost>>
  BY DEF PrepareUserDeletion
<1>2. Present' = Present
  BY <1>1 DEF Present
<1>3. \A b \in Attachments :
         /\ job[b].status # "none" => job'[b] = job[b]
         /\ b \in Present => job'[b].status # "none"
         /\ b \notin Present => job'[b] = job[b]
  BY EnqueueWrites, DueTypes DEF PrepareUserDeletion, Types
<1>4. \A b \in Attachments : RowShape(b)' /\ Once(b)' /\ ChargedHasNoJob(b)' /\ ClosedIsQueued(b)'
  BY <1>1, <1>2, <1>3 DEF RowShape, Once, ChargedHasNoJob, ClosedIsQueued
<1>5. LocksHeld' /\ Gone' /\ Finite' /\ RemovedIsQueued'
  BY <1>1, <1>2, <1>3 DEF LocksHeld, Gone, Finite, RemovedIsQueued
<1>6. AccountMatchesRows' /\ Counters'
  <2>1. \A q : Count(Present, q)' = Count(Present, q) /\ LostUnits(q)' = LostUnits(q)
    BY <1>1, <1>2, CountSame DEF LostUnits
  <2>2. account # "deleted"
    BY DEF PrepareUserDeletion
  <2> QED
    BY <1>1, <2>1, <2>2, TypesAre DEF AccountMatchesRows, Counters
<1> QED
  BY <1>4, <1>5, <1>6

LEMMA DeleteUserRows ==
    ASSUME Types, RowsOK, DeleteUser
    PROVE  RowsOK' /\ Counters'
<1> USE DEF RowsOK
<1>1. account' = "deleted" /\ account = "deleting" /\ UNCHANGED <<age, job, clearing, lost>> /\ ~clearing.on
  BY DEF DeleteUser
<1>2. \A b \in Attachments : row'[b] = IF b \in Present THEN NoRow ELSE row[b]
  BY WithoutRowsTypes, TypesAre DEF DeleteUser
<1>3. Present' = {}
  BY <1>2 DEF Present, NoRow
<1>4. \A b \in Attachments : RowShape(b)'
  BY <1>2 DEF RowShape, NoRow
<1>5. \A b \in Attachments : Once(b)' /\ ChargedHasNoJob(b)' /\ ClosedIsQueued(b)'
  BY <1>1, <1>3 DEF Once, ChargedHasNoJob, ClosedIsQueued
<1>6. LocksHeld' /\ Gone' /\ Finite'
  BY <1>1, <1>3, FS_EmptySet DEF LocksHeld, Gone, Finite
<1>7. RemovedIsQueued'
  BY <1>1, <1>3 DEF RemovedIsQueued, ClosedIsQueued
<1>8. AccountMatchesRows' /\ Counters'
  BY <1>1 DEF AccountMatchesRows, Counters, DeleteUser
<1> QED
  BY <1>4, <1>5, <1>6, <1>7, <1>8
-----------------------------------------------------------------------------
LEMMA AccountKinds ==
    ASSUME Types, RowsOK,
           \/ \E a \in Attachments, content \in {"good", "bad"} : Upload(a, content)
           \/ \E a \in Attachments : Tick(a) \/ DeleteUnbound(a) \/ EnqueueExpiredOrphan(a)
           \/ \E S \in SUBSET Attachments, m \in Messages : BindToMessage(S, m)
           \/ \E v \in Conversations : DeleteConversation(v) \/ CreateConversation(v)
           \/ ClearSelect \/ ClearAbort \/ UNCHANGED vars
    PROVE  Quiet \/ \E S \in SUBSET Attachments : Removes(S)
<1>1. ASSUME NEW a \in Attachments, NEW content \in {"good", "bad"}, Upload(a, content)
      PROVE  Quiet
  BY <1>1, RowsUntouched DEF Upload
<1>2. ASSUME NEW a \in Attachments, Tick(a)
      PROVE  Quiet
  <2>1. \A b \in Attachments : age'[b] = "unborn" <=> age[b] = "unborn"
    BY <1>2 DEF Tick, Types
  <2> QED
    BY <1>2, <2>1, RowsUntouched DEF Tick
<1>3. ASSUME NEW a \in Attachments, DeleteUnbound(a)
      PROVE  Removes({a})
  BY <1>3 DEF DeleteUnbound, Removes, Locked
<1>4. ASSUME NEW a \in Attachments, EnqueueExpiredOrphan(a)
      PROVE  Removes({a})
  BY <1>4 DEF EnqueueExpiredOrphan, Expirable, Removes, Locked
<1>5. ASSUME NEW S \in SUBSET Attachments, NEW m \in Messages, BindToMessage(S, m)
      PROVE  Quiet
  <2>1. UNCHANGED <<account, used, reserved, lost, age, job, clearing>>
    BY <1>5 DEF BindToMessage
  <2>2. \A a \in Attachments :
           row'[a] = row[a] \/ (a \in S /\ row'[a] = [row[a] EXCEPT !.msg = m])
    BY <1>5 DEF BindToMessage
  <2>3. \A a \in Attachments :
           /\ row'[a].quota = row[a].quota /\ row'[a].status = row[a].status
           /\ row'[a].parse = row[a].parse
           /\ row[a].status = "none" => row'[a].msg = row[a].msg
    <3>1. \A a \in S : row[a].status = "ready"
      BY <1>5 DEF BindToMessage, Bindable
    <3>2. \A r \in Row : LET n == [r EXCEPT !.msg = m]
                         IN  n.quota = r.quota /\ n.status = r.status /\ n.parse = r.parse
      BY DEF Row
    <3>3. \A a \in Attachments : row[a] \in Row
      BY DEF Types
    <3> QED
      BY <2>2, <3>1, <3>2, <3>3
  <2>4. \A a \in Attachments : RowShape(a)'
    BY <2>3 DEF RowsOK, RowShape
  <2>5. LocksHeld'
    BY <2>1, <2>3 DEF RowsOK, LocksHeld, Present
  <2> QED
    BY <2>1, <2>3, <2>4, <2>5 DEF Quiet
<1>6. ASSUME NEW v \in Conversations, DeleteConversation(v)
      PROVE  Removes({a \in Present : row[a].conv = v})
  BY <1>6 DEF DeleteConversation, Removes, Locked
<1>7. ASSUME NEW v \in Conversations, CreateConversation(v)
      PROVE  Quiet
  BY <1>7, RowsUntouched DEF CreateConversation
<1>8. CASE ClearSelect \/ ClearAbort
  <2>1. /\ UNCHANGED <<account, used, reserved, lost, row, job, age>>
        /\ clearing' \in {[on |-> TRUE, rows |-> Present], [on |-> FALSE, rows |-> {}]}
    BY <1>8 DEF ClearSelect, ClearAbort
  <2>2. LocksHeld'
    BY <2>1 DEF LocksHeld, Present
  <2>3. \A a \in Attachments : RowShape(a)'
    BY <2>1 DEF RowsOK, RowShape
  <2> QED
    BY <2>1, <2>2, <2>3 DEF Quiet
<1>9. CASE UNCHANGED vars
  BY <1>9, RowsUntouched DEF vars
<1>10. \A a \in Attachments : {a} \in SUBSET Attachments
  OBVIOUS
<1>11. \A v : {a \in Present : row[a].conv = v} \in SUBSET Attachments
  BY DEF Present
<1> QED
  BY <1>1, <1>2, <1>3, <1>4, <1>5, <1>6, <1>7, <1>8, <1>9, <1>10, <1>11

\* Every step is of one of seven kinds.
LEMMA StepKinds ==
    ASSUME Types, RowsOK, JobFirst, [Next]_vars
    PROVE  \/ Quiet
           \/ \E a \in Attachments, v \in Conversations, kind \in Kinds : Initiate(a, v, kind)
           \/ \E a \in Attachments : Charges(a) \/ Returns(a)
           \/ \E S \in SUBSET Attachments : Removes(S)
           \/ ClearCommit \/ PrepareUserDeletion \/ DeleteUser
<1>1. CASE \E c \in Completers : CompleterStep(c)
  BY <1>1, CompleterKinds
<1>2. CASE \E w \in Workers : WorkerStep(w) \/ LeaseLapses(w)
  BY <1>2, WorkerQuiet
<1>3. CASE \E a \in Attachments : AttachmentStep(a)
  BY <1>3, AccountKinds DEF AttachmentStep
<1>4. CASE AccountStep \/ UNCHANGED vars
  BY <1>4, AccountKinds DEF AccountStep
<1> QED
  BY <1>1, <1>2, <1>3, <1>4 DEF Next

LEMMA RowsStep ==
    ASSUME Types, RowsOK, JobFirst, [Next]_vars
    PROVE  RowsOK' /\ Counters'
BY StepKinds, QuietRows, InitiateRows, ChargesRows, ReturnsRows, RemovesRows, ClearCommitRows,
   PrepareRows, DeleteUserRows
-----------------------------------------------------------------------------
\* What no step undoes, and the only ways a row comes to hold quota.
Forward ==
    /\ account' = "active" => account = "active"
    /\ \A a \in Attachments :
          /\ age'[a] = "unborn" => age[a] = "unborn"
          /\ job'[a].status = "none" => job[a].status = "none"
          /\ row'[a].quota = "reserved" => row[a].quota = "reserved" \/ age[a] = "unborn"
          /\ row'[a].quota = "committed" => row[a].quota = "committed" \/ Charges(a)

LEMMA ForwardStep ==
    ASSUME Types, RowsOK, JobFirst, [Next]_vars
    PROVE  Forward
<1>j. ASSUME NEW S, NEW due, due = Due \/ due = AtOnce, Enqueue(S, due)
      PROVE  \A a \in Attachments : job'[a].status = "none" => job[a].status = "none"
  BY <1>j, EnqueueWrites, DueTypes DEF Types
<1>1. CASE Quiet
  BY <1>1 DEF Quiet, Forward
<1>2. ASSUME NEW a \in Attachments, NEW v \in Conversations, NEW kind \in Kinds, Initiate(a, v, kind)
      PROVE  Forward
  <2>1. /\ age[a] = "unborn" /\ UNCHANGED <<account, job>> /\ age'[a] = "fresh"
        /\ row'[a].quota = "reserved"
        /\ \A b \in Attachments : b # a => row'[b] = row[b] /\ age'[b] = age[b]
    BY <1>2 DEF Initiate, NoRow, Types
  <2> QED
    BY <2>1 DEF Forward
<1>3. ASSUME NEW a \in Attachments, Charges(a)
      PROVE  Forward
  <2>1. /\ UNCHANGED <<account, job, age>>
        /\ row'[a].quota = "committed" /\ \A b \in Attachments : b # a => row'[b] = row[b]
    BY <1>3 DEF Charges, Types, Row
  <2> QED
    BY <1>3, <2>1 DEF Forward
<1>4. ASSUME NEW a \in Attachments, Returns(a)
      PROVE  Forward
  <2>1. /\ UNCHANGED <<account, age>>
        /\ row'[a].quota = "released" /\ \A b \in Attachments : b # a => row'[b] = row[b]
    BY <1>4 DEF Returns, Types, Row
  <2>2. \A b \in Attachments : job'[b].status = "none" => job[b].status = "none"
    BY <1>4, <1>j DEF Returns
  <2> QED
    BY <2>1, <2>2 DEF Forward
<1>5. ASSUME NEW S, row' = WithoutRows(S)
      PROVE  \A a \in Attachments : row'[a].quota \in {row[a].quota, "none"}
  BY <1>5, WithoutRowsTypes, TypesAre DEF NoRow
<1>6. ASSUME NEW S \in SUBSET Attachments, Removes(S)
      PROVE  Forward
  <2>1. \A b \in Attachments : job'[b].status = "none" => job[b].status = "none"
    BY <1>6, <1>j DEF Removes, RemoveRows
  <2>2. \A b \in Attachments : row'[b].quota \in {row[b].quota, "none"}
    BY <1>6, <1>5 DEF Removes
  <2> QED
    BY <1>6, <2>1, <2>2 DEF Removes, Forward
<1>7. CASE ClearCommit
  <2>1. \A b \in Attachments : job'[b].status = "none" => job[b].status = "none"
    BY <1>7, <1>j DEF ClearCommit, RemoveRows
  <2>2. \A b \in Attachments : row'[b].quota \in {row[b].quota, "none"}
    BY <1>7, <1>5 DEF ClearCommit
  <2> QED
    BY <1>7, <2>1, <2>2 DEF ClearCommit, Forward
<1>8. CASE PrepareUserDeletion
  <2>1. \A b \in Attachments : job'[b].status = "none" => job[b].status = "none"
    BY <1>8, <1>j DEF PrepareUserDeletion
  <2> QED
    BY <1>8, <2>1 DEF PrepareUserDeletion, Forward
<1>9. CASE DeleteUser
  <2>1. \A b \in Attachments : row'[b].quota \in {row[b].quota, "none"}
    BY <1>9, <1>5 DEF DeleteUser
  <2> QED
    BY <1>9, <2>1 DEF DeleteUser, Forward
<1> QED
  BY <1>1, <1>2, <1>3, <1>4, <1>6, <1>7, <1>8, <1>9, StepKinds
-----------------------------------------------------------------------------
LEMMA JobFirstStep ==
    ASSUME Types, RowsOK, JobFirst, [Next]_vars
    PROVE  JobFirst'
<1>0. \A a \in Attachments : job'[a].status = "none" => job[a].status = "none"
  BY ForwardStep DEF Forward
<1>1. ASSUME NEW w \in Workers, hold'[w].task \in Deleting
      PROVE  \/ hold[w].task \in Deleting /\ hold'[w].att = hold[w].att
             \/ job'[hold'[w].att].status # "none"
  <2>1. CASE hold' = hold
    BY <1>1, <2>1
  <2>2. ASSUME NEW v \in Workers, NEW a \in Attachments, ClaimDeletion(v, a)
        PROVE  hold'[w] = hold[w] \/ (hold'[w].att = a /\ job'[a].status = "running")
    BY <2>2 DEF ClaimDeletion, Claim, Types, Job
  <2>3. ASSUME NEW v \in Workers, DeleteObject(v)
        PROVE  hold'[w] = hold[w] \/ (hold[w].task \in Deleting /\ hold'[w].att = hold[w].att)
    BY <2>3 DEF DeleteObject, Deleting, Types
  <2>4. ASSUME NEW v \in Workers, Drop(v)
        PROVE  hold'[w] = hold[w]
    BY <1>1, <2>4 DEF Drop, NoHold, Deleting, Types
  <2>5. ASSUME NEW v \in Workers, NEW a \in Attachments, ClaimParse(v, a)
        PROVE  hold'[w] = hold[w]
    BY <1>1, <2>5 DEF ClaimParse, Claim, Deleting, Types
  <2>6. ASSUME NEW v \in Workers, WorkerStep(v) \/ LeaseLapses(v)
        PROVE  \/ hold' = hold \/ Drop(v) \/ DeleteObject(v)
               \/ \E a \in Attachments : ClaimDeletion(v, a) \/ ClaimParse(v, a)
    BY <2>6 DEF WorkerStep, MarkDeletion, FinishParse, LeaseLapses
  <2>7. CASE \A v \in Workers : ~WorkerStep(v) /\ ~LeaseLapses(v)
    <3>1. hold' = hold
      BY <2>7 DEF Next, vars, AttachmentStep, CompleterStep, AccountStep, Initiate, Upload, Tick, DeleteUnbound,
                  EnqueueExpiredOrphan, BeginCompletion, Verify, CompleteVerified, RejectCompletion,
                  ResetCompletion, CompleterCrash, BindToMessage, DeleteConversation,
                  CreateConversation, ClearSelect, ClearCommit, ClearAbort, PrepareUserDeletion,
                  DeleteUser
    <3> QED
      BY <2>1, <3>1
  <2> QED
    BY <1>1, <2>1, <2>2, <2>3, <2>4, <2>5, <2>6, <2>7
<1>2. \A w \in Workers : hold[w].task \in Deleting => hold[w].att \in Attachments
  BY DEF Types, Deleting
<1> QED
  BY <1>0, <1>1, <1>2 DEF JobFirst

\* Only the object of a queued deletion is deleted, and only what was verified is
\* committed.
ObjectOnlyQueued ==
    \A a \in Attachments : object[a] = "good" => object'[a] = "good" \/ job[a].status # "none"

LEMMA ObjectStep ==
    ASSUME Types, JobFirst, [Next]_vars
    PROVE  ObjectOnlyQueued
<1>1. CASE object' = object
  BY <1>1 DEF ObjectOnlyQueued
<1>2. ASSUME NEW a \in Attachments, NEW content \in {"good", "bad"}, Upload(a, content)
      PROVE  ObjectOnlyQueued
  BY <1>2 DEF Upload, ObjectOnlyQueued, Types
<1>3. ASSUME NEW w \in Workers, DeleteObject(w)
      PROVE  ObjectOnlyQueued
  <2>1. hold[w].att \in Attachments /\ job[hold[w].att].status # "none"
    BY <1>3 DEF DeleteObject, Types, JobFirst, Deleting
  <2> QED
    BY <1>3, <2>1 DEF DeleteObject, ObjectOnlyQueued, Types
<1>4. CASE ~ \E w \in Workers : DeleteObject(w)
  <2>1. object' = object \/ \E a \in Attachments, content \in {"good", "bad"} : Upload(a, content)
    BY <1>4 DEF Next, vars, AttachmentStep, CompleterStep, WorkerStep, AccountStep, Initiate, Tick,
                DeleteUnbound, EnqueueExpiredOrphan, BeginCompletion, Verify, CompleteVerified,
                RejectCompletion, ResetCompletion, CompleterCrash, BindToMessage, DeleteConversation,
                CreateConversation, ClearSelect, ClearCommit, ClearAbort, PrepareUserDeletion,
                DeleteUser, ClaimDeletion, MarkDeletion, ClaimParse, FinishParse, LeaseLapses
  <2> QED
    BY <1>1, <1>2, <2>1
<1> QED
  BY <1>3, <1>4

\* A completer works on a row that exists, and decides to commit on a good object.
CheckSaw ==
    \A c \in Completers : check'[c].step # "idle" =>
        \/ /\ check[c].step # "idle" /\ check'[c].att = check[c].att
           /\ check'[c].step = "commit" =>
                 check[c].step = "commit" \/ object[check'[c].att] = "good"
        \/ check'[c].step # "commit" /\ check'[c].att \in Present

LEMMA CheckStep ==
    ASSUME Types, [Next]_vars
    PROVE  CheckSaw
<1>1. CASE check' = check
  BY <1>1 DEF CheckSaw
<1>2. ASSUME NEW c \in Completers, CompleterStep(c)
      PROVE  CheckSaw
  <2>1. ASSUME NEW d \in Completers, d # c
        PROVE  check'[d] = check[d]
    BY <1>2, <2>1 DEF CompleterStep, BeginCompletion, Verify, CompleteVerified, RejectCompletion,
                      ResetCompletion, CompleterCrash, SetCheck, EndCheck, Types
  <2>2. \/ check'[c].step = "idle"
        \/ /\ check[c].step # "idle" /\ check'[c].att = check[c].att
           /\ check'[c].step = "commit" =>
                 check[c].step = "commit" \/ object[check'[c].att] = "good"
        \/ check'[c].step # "commit" /\ check'[c].att \in Present
    <3>1. ASSUME NEW a \in Attachments, BeginCompletion(c, a)
          PROVE  check'[c].step = "verify" /\ check'[c].att \in Present
      BY <3>1 DEF BeginCompletion, SetCheck, Present, Types
    <3>2. CASE Verify(c)
      <4>1. /\ check[c].step # "idle" /\ check'[c].att = check[c].att
            /\ check'[c].step \in {Verdict(object[check[c].att]), "reset"}
        BY <3>2 DEF Verify, SetCheck, Types
      <4>2. check[c].att \in Attachments
        BY <4>1 DEF Types
      <4>3. Verdict(object[check[c].att]) = "commit" => object[check[c].att] = "good"
        BY <4>2 DEF Verdict, Types
      <4> QED
        BY <4>1, <4>3
    <3>3. CASE CompleteVerified(c)
      <4>1. check'[c].step = "idle" \/ (check'[c].step \in {"reset", "reject"} /\ check'[c].att = check[c].att)
        BY <3>3 DEF CompleteVerified, SetCheck, EndCheck, NoCheck, Types
      <4> QED
        BY <3>3, <4>1 DEF CompleteVerified
    <3>4. CASE RejectCompletion(c) \/ ResetCompletion(c) \/ CompleterCrash(c)
      BY <3>4 DEF RejectCompletion, ResetCompletion, CompleterCrash, EndCheck, NoCheck, Types
    <3> QED
      BY <1>2, <3>1, <3>2, <3>3, <3>4 DEF CompleterStep
  <2> QED
    BY <2>1, <2>2 DEF CheckSaw
<1>3. CASE ~ \E c \in Completers : CompleterStep(c)
  <2>1. check' = check
    BY <1>3 DEF Next, vars, AttachmentStep, WorkerStep, AccountStep, Initiate, Upload, Tick,
                DeleteUnbound, EnqueueExpiredOrphan, BindToMessage, DeleteConversation,
                CreateConversation, ClearSelect, ClearCommit, ClearAbort, PrepareUserDeletion,
                DeleteUser, ClaimDeletion, DeleteObject, MarkDeletion, ClaimParse, FinishParse, LeaseLapses
  <2> QED
    BY <1>1, <2>1
<1> QED
  BY <1>2, <1>3

LEMMA ObjectsStep ==
    ASSUME IInv, [Next]_vars
    PROVE  ObjectsOK'
<1>1. Types /\ RowsOK /\ JobFirst /\ SeenGood /\ ReadyHasObject
  BY DEF IInv, ObjectsOK
<1>2. Forward /\ ObjectOnlyQueued /\ CheckSaw /\ JobFirst' /\ RowsOK'
  BY <1>1, ForwardStep, ObjectStep, CheckStep, JobFirstStep, RowsStep
<1>3. \A a \in Attachments :
         account = "active" /\ row[a].quota \in {"reserved", "committed"} => job[a].status = "none"
  BY <1>1 DEF RowsOK, ChargedHasNoJob
<1>4. \A a \in Attachments :
         /\ age[a] = "unborn" => a \notin Present
         /\ row[a].quota # "none" => a \in Present
  BY <1>1 DEF RowsOK, Once, RowShape, Present
<1>5. ReadyHasObject'
  <2> SUFFICES ASSUME account' = "active", NEW a \in Attachments, row'[a].quota = "committed"
               PROVE  object'[a] = "good"
    BY DEF ReadyHasObject, Present
  <2>1. account = "active"
    BY <1>2 DEF Forward
  <2>2. object[a] = "good" /\ row[a].quota \in {"reserved", "committed"}
    <3>1. CASE row[a].quota = "committed"
      BY <1>1, <1>4, <2>1, <3>1 DEF ReadyHasObject
    <3>2. CASE Charges(a)
      BY <1>1, <2>1, <3>2 DEF Charges, CanCommit, SeenGood
    <3> QED
      BY <1>2, <3>1, <3>2 DEF Forward
  <2> QED
    BY <1>2, <1>3, <2>1, <2>2 DEF ObjectOnlyQueued
<1>6. SeenGood'
  <2> SUFFICES ASSUME NEW c \in Completers, check'[c].step # "idle",
                      NEW a, a = check'[c].att
               PROVE  /\ age'[a] # "unborn"
                      /\ check'[c].step = "commit" /\ account' = "active" /\ row'[a].quota = "reserved"
                            => object'[a] = "good"
    BY DEF SeenGood
  <2>1. a \in Attachments /\ age[a] # "unborn"
    <3>1. CASE check[c].step # "idle" /\ a = check[c].att
      BY <1>1, <3>1 DEF SeenGood, Types
    <3>2. CASE a \in Present
      BY <1>4, <3>2 DEF Present
    <3> QED
      BY <1>2, <3>1, <3>2 DEF CheckSaw
  <2>2. age'[a] # "unborn"
    BY <1>2, <2>1 DEF Forward
  <2>3. ASSUME check'[c].step = "commit", account' = "active", row'[a].quota = "reserved"
        PROVE  object'[a] = "good"
    <3>1. account = "active" /\ row[a].quota = "reserved"
      BY <1>2, <2>1, <2>3 DEF Forward
    <3>2. object[a] = "good"
      BY <1>1, <1>2, <2>3, <3>1 DEF CheckSaw, SeenGood
    <3> QED
      BY <1>2, <1>3, <2>1, <3>1, <3>2 DEF ObjectOnlyQueued
  <2> QED
    BY <2>2, <2>3
<1> QED
  BY <1>2, <1>5, <1>6 DEF ObjectsOK
-----------------------------------------------------------------------------
LEMMA InitHolds == Init => IInv
<1> SUFFICES ASSUME Init PROVE IInv
  OBVIOUS
<1>1. NoRow \in Row /\ NoJob \in Job
  BY EmptyRecords
<1>2. Records /\ Busy /\ Rest /\ Counters
  BY <1>1, EmptyRecords DEF Init, Records, Busy, Rest, Counters, NoCheck, NoHold
<1>3. Present = {} /\ lost = {}
  BY DEF Init, Present, NoRow
<1>4. \A a \in Attachments :
         /\ row[a].status = "none" /\ row[a].quota = "none" /\ row[a].msg = None /\ row[a].parse = "none"
         /\ job[a].status = "none" /\ age[a] = "unborn"
  BY DEF Init, NoRow, NoJob
<1>5. \A a \in Attachments : RowShape(a) /\ Once(a) /\ ChargedHasNoJob(a) /\ ClosedIsQueued(a)
  BY <1>3, <1>4 DEF RowShape, Once, ChargedHasNoJob, ClosedIsQueued
<1>6. Finite /\ LocksHeld /\ Gone /\ RemovedIsQueued
  BY <1>3, <1>4, FS_EmptySet DEF Init, Finite, LocksHeld, Gone, RemovedIsQueued
<1>7. AccountMatchesRows
  <2>1. \A q : HeldBy(Present, q) = {} /\ LostOf(q) = {}
    BY <1>3 DEF HeldBy, LostOf
  <2>2. \A q : Count(Present, q) = 0 /\ LostUnits(q) = 0
    BY <2>1, Counting, FS_EmptySet
  <2> QED
    BY <2>2 DEF Init, AccountMatchesRows
<1>8. ObjectsOK
  BY <1>3 DEF Init, ObjectsOK, JobFirst, SeenGood, ReadyHasObject, NoHold, NoCheck, Deleting
<1> QED
  BY <1>2, <1>5, <1>6, <1>7, <1>8, TypesAre DEF IInv, RowsOK

LEMMA Step == IInv /\ [Next]_vars => IInv'
<1> SUFFICES ASSUME IInv, [Next]_vars PROVE IInv'
  OBVIOUS
<1>1. Types /\ RowsOK /\ JobFirst
  BY DEF IInv, ObjectsOK
<1>2. Records' /\ Busy' /\ Rest' /\ RowsOK' /\ Counters' /\ ObjectsOK'
  BY <1>1, RecordsStep, RowsStep, ObjectsStep
<1> QED
  BY <1>2, TypesAreNext DEF IInv

\* The invariant of the rows, the locks, the deletion jobs and the requests under
\* way that the theorems below rest on.
THEOREM Inductive == Spec => []IInv
<1>1. IInv /\ UNCHANGED vars => IInv'
  BY Step
<1> QED
  BY InitHolds, Step, PTL DEF Spec

\* Every variable stays in its domain, and the byte counters never become
\* negative: the subtraction of every removal is covered by what is charged.
THEOREM TypeCorrect == Spec => []TypeOK
<1>1. IInv => TypeOK
  BY DEF IInv, Types
<1> QED
  BY Inductive, <1>1, PTL

\* reserved_bytes and used_bytes of the storage account are what the rows hold,
\* with what a cascade of clearConversationData left charged.
THEOREM AccountIsTheRows == Spec => []AccountMatchesRows
<1>1. IInv => AccountMatchesRows
  BY DEF IInv, RowsOK
<1> QED
  BY Inductive, <1>1, PTL

\* A verified attachment keeps its object while the account is open: no deletion
\* job of the worker, however late, is about an object that is in use.
THEOREM ReadyKeepsObject == Spec => []ReadyHasObject
<1>1. IInv => ReadyHasObject
  BY DEF IInv, ObjectsOK
<1> QED
  BY Inductive, <1>1, PTL

\* Every removal except the cascade of clearConversationData leaves a deletion job
\* for the object.
THEOREM RemovedLeavesJob == Spec => []RemovedIsQueued
<1>1. IInv => RemovedIsQueued
  BY DEF IInv, RowsOK
<1> QED
  BY Inductive, <1>1, PTL
-----------------------------------------------------------------------------
\* Requests and workers leave the message of a row and a finished parse alone.
Keeps ==
    \A b \in Attachments :
        /\ row'[b].msg = row[b].msg
        /\ row[b].parse \in {"ready", "failed"} => row'[b].parse = row[b].parse

LEMMA OneRowKeeps ==
    ASSUME Types, NEW a \in Attachments, NEW r, row' = [row EXCEPT ![a] = r], r.msg = row[a].msg,
           row[a].parse \in {"ready", "failed"} => r.parse = row[a].parse
    PROVE  Keeps
<1>1. \A b \in Attachments : row'[b] = IF b = a THEN r ELSE row[b]
  BY DEF Types
<1> QED
  BY <1>1 DEF Keeps

LEMMA CompleterKeeps ==
    ASSUME Types, RowsOK, NEW c \in Completers, CompleterStep(c)
    PROVE  Keeps
<1>0. /\ row \in [Attachments -> Row] /\ \A a \in Attachments : row[a] \in Row
      /\ check[c].step # "idle" => check[c].att \in Attachments
  BY DEF Types
<1>1. CASE row' = row
  BY <1>1 DEF Keeps
<1>2. ASSUME NEW a \in Attachments, NEW status, row' = [row EXCEPT ![a].status = status]
      PROVE  Keeps
  <2>1. row' = [row EXCEPT ![a] = [row[a] EXCEPT !.status = status]]
    BY <1>0, <1>2
  <2>2. /\ [row[a] EXCEPT !.status = status].msg = row[a].msg
        /\ [row[a] EXCEPT !.status = status].parse = row[a].parse
    BY <1>0 DEF Row
  <2> QED
    BY <2>1, <2>2, OneRowKeeps
<1>3. ASSUME NEW a \in Attachments, Charges(a)
      PROVE  Keeps
  BY <1>0, <1>3 DEF Charges, Row, Keeps
<1>4. ASSUME NEW a \in Attachments, Returns(a)
      PROVE  Keeps
  <2>1. row[a].parse \notin {"ready", "failed"}
    BY <1>4 DEF Returns, RowsOK, RowShape
  <2> QED
    BY <1>0, <1>4, <2>1 DEF Returns, Row, Keeps
<1>5. CASE \E a \in Attachments : BeginCompletion(c, a)
  BY <1>2, <1>5 DEF BeginCompletion
<1>6. CASE CompleteVerified(c)
  <2>1. check[c].att \in Attachments
    BY <1>0, <1>6 DEF CompleteVerified
  <2> QED
    BY <1>1, <1>3, <1>6, <2>1 DEF CompleteVerified, Charges
<1>7. CASE RejectCompletion(c)
  <2>1. check[c].att \in Attachments
    BY <1>0, <1>7 DEF RejectCompletion
  <2> QED
    BY <1>1, <1>4, <1>7, <2>1 DEF RejectCompletion, Returns
<1>8. CASE ResetCompletion(c)
  <2>1. check[c].att \in Attachments
    BY <1>0, <1>8 DEF ResetCompletion
  <2> QED
    BY <1>1, <1>2, <1>8, <2>1 DEF ResetCompletion
<1>9. CASE Verify(c) \/ CompleterCrash(c)
  BY <1>1, <1>9 DEF Verify, CompleterCrash
<1> QED
  BY <1>5, <1>6, <1>7, <1>8, <1>9 DEF CompleterStep

LEMMA WorkerKeeps ==
    ASSUME Types, NEW w \in Workers, WorkerStep(w) \/ LeaseLapses(w)
    PROVE  Keeps
<1>0. /\ row \in [Attachments -> Row] /\ \A a \in Attachments : row[a] \in Row
      /\ hold[w].task # "none" => hold[w].att \in Attachments
  BY DEF Types
<1>1. CASE row' = row
  BY <1>1 DEF Keeps
<1>2. ASSUME NEW a \in Attachments, ClaimParse(w, a)
      PROVE  Keeps
  <2> DEFINE r == [row[a] EXCEPT !.parse = "processing", !.attempts = @ + 1, !.token = w, !.stale = FALSE]
  <2>1. row' = [row EXCEPT ![a] = r]
    BY <1>0, <1>2 DEF ClaimParse
  <2>2. r.msg = row[a].msg /\ row[a].parse \notin {"ready", "failed"}
    BY <1>0, <1>2 DEF ClaimParse, ParseDue, Row
  <2> HIDE DEF r
  <2> QED
    BY <2>1, <2>2, OneRowKeeps
<1>3. CASE FinishParse(w)
  <2>1. PICK a \in Attachments : a = hold[w].att
    BY <1>0, <1>3 DEF FinishParse
  <2>2. CASE ParseLease(w)
    <3>1. PICK r \in {ParseFailed(row[a], TRUE), ParseFailed(row[a], FALSE), Parsed(row[a]),
                     Deferred(row[a]), Submitted(row[a])} :
             row' = [row EXCEPT ![a] = r]
      <4>1. ParseFailed(row[a], hold[w].attempts >= MaxAttempts) \in
               {ParseFailed(row[a], TRUE), ParseFailed(row[a], FALSE)}
        <5>1. hold[w].attempts >= MaxAttempts \/ ~(hold[w].attempts >= MaxAttempts)
          OBVIOUS
        <5> QED
          BY <5>1 DEF ParseFailed
      <4> QED
        BY <1>3, <2>1, <2>2, <4>1 DEF FinishParse
    <3>2. r.msg = row[a].msg
      BY <1>0, <3>1 DEF ParseFailed, Parsed, Deferred, Submitted, Unlocked, Row
    <3>3. row[a].parse = "processing"
      BY <2>1, <2>2 DEF ParseLease
    <3> QED
      BY <3>1, <3>2, <3>3, OneRowKeeps
  <2>3. CASE ~ParseLease(w)
    BY <1>1, <1>3, <2>3 DEF FinishParse
  <2> QED
    BY <2>2, <2>3
<1>4. CASE LeaseLapses(w)
  <2>1. PICK a \in Attachments : a = hold[w].att
    BY <1>0, <1>4 DEF LeaseLapses
  <2>2. row' = row \/ row' = [row EXCEPT ![a] = [row[a] EXCEPT !.stale = TRUE]]
    BY <1>0, <1>4, <2>1 DEF LeaseLapses
  <2>3. /\ [row[a] EXCEPT !.stale = TRUE].msg = row[a].msg
        /\ [row[a] EXCEPT !.stale = TRUE].parse = row[a].parse
    BY <1>0 DEF Row
  <2> QED
    BY <1>1, <2>2, <2>3, OneRowKeeps
<1>5. CASE MarkDeletion(w) \/ DeleteObject(w) \/ \E a \in Attachments : ClaimDeletion(w, a)
  BY <1>1, <1>5 DEF MarkDeletion, DeleteObject, ClaimDeletion
<1> QED
  BY <1>2, <1>3, <1>4, <1>5 DEF WorkerStep

KeepsBound ==
    \A a \in Attachments : row[a].msg # None /\ row'[a].msg # row[a].msg
        => row[a].conv \notin open' \/ account' = "deleted"

LEMMA BoundStep ==
    ASSUME IInv, [Next]_vars
    PROVE  KeepsBound
<1>t. /\ row \in [Attachments -> Row] /\ \A a \in Attachments : row[a] \in Row
      /\ \A c \in Completers : check[c].step # "idle" => check[c].att \in Attachments
      /\ \A w \in Workers : hold[w].task # "none" => hold[w].att \in Attachments
      /\ \A a \in Attachments : row[a].status = "none" => row[a].msg = None
  BY DEF IInv, Types, RowsOK, RowShape
<1>1. CASE \A a \in Attachments : row'[a].msg = row[a].msg
  BY <1>1 DEF KeepsBound
<1>2. ASSUME NEW a \in Attachments, NEW r, r.msg = row[a].msg, row' = [row EXCEPT ![a] = r]
      PROVE  \A b \in Attachments : row'[b].msg = row[b].msg
  BY <1>t, <1>2
<1>3. ASSUME NEW a \in Attachments, NEW v \in Conversations, NEW kind \in Kinds, Initiate(a, v, kind)
      PROVE  KeepsBound
  <2>1. row[a].status = "none"
    BY <1>3 DEF Initiate, IInv, RowsOK, Once, Present
  <2>2. \A b \in Attachments : b # a => row'[b] = row[b]
    BY <1>t, <1>3 DEF Initiate
  <2> QED
    BY <1>t, <2>1, <2>2 DEF KeepsBound
<1>4. ASSUME NEW S, \A a \in S : row[a].msg = None, row' = WithoutRows(S)
      PROVE  KeepsBound
  BY <1>4, <1>t DEF WithoutRows, KeepsBound
<1>5. ASSUME NEW a \in Attachments, DeleteUnbound(a) \/ EnqueueExpiredOrphan(a)
      PROVE  KeepsBound
  <2>1. row[a].msg = None /\ row' = WithoutRows({a})
    BY <1>5 DEF DeleteUnbound, EnqueueExpiredOrphan, Expirable
  <2> QED
    BY <1>4, <2>1
<1>6. ASSUME NEW S \in SUBSET Attachments, NEW m \in Messages, BindToMessage(S, m)
      PROVE  KeepsBound
  <2>1. \A a \in S : row[a].msg \in {None, m}
    BY <1>6 DEF BindToMessage, Bindable
  <2>2. \A r \in Row : [r EXCEPT !.msg = m].msg = m
    BY DEF Row
  <2>3. \A a \in Attachments : row'[a].msg = IF a \in S THEN m ELSE row[a].msg
    BY <1>6, <1>t, <2>2 DEF BindToMessage
  <2> QED
    BY <2>1, <2>3 DEF KeepsBound
<1>7. ASSUME NEW v \in Conversations, DeleteConversation(v)
      PROVE  KeepsBound
  <2>1. \A a \in Attachments : row[a].conv # v => row'[a] = row[a] \/ row[a].msg = None
    BY <1>7, <1>t DEF DeleteConversation, WithoutRows
  <2> QED
    BY <1>7, <2>1 DEF DeleteConversation, KeepsBound
<1>8. CASE ClearCommit \/ DeleteUser
  BY <1>8 DEF ClearCommit, DeleteUser, KeepsBound
<1>9. CASE Keeps
  BY <1>9 DEF Keeps, KeepsBound
<1>10. CASE UNCHANGED vars
  BY <1>1, <1>10 DEF vars
<1>11. \/ row' = row \/ Keeps
       \/ \E a \in Attachments, v \in Conversations, kind \in Kinds : Initiate(a, v, kind)
       \/ \E a \in Attachments : DeleteUnbound(a) \/ EnqueueExpiredOrphan(a)
       \/ \E S \in SUBSET Attachments, m \in Messages : BindToMessage(S, m)
       \/ \E v \in Conversations : DeleteConversation(v)
       \/ ClearCommit \/ DeleteUser
  <2>1. Types /\ RowsOK
    BY DEF IInv
  <2> QED
    BY <2>1, CompleterKeeps, WorkerKeeps
       DEF Next, AttachmentStep, AccountStep, Upload, Tick, CreateConversation, ClearSelect, ClearAbort,
           PrepareUserDeletion, vars
<1> QED
  BY <1>1, <1>3, <1>5, <1>6, <1>7, <1>8, <1>9, <1>11

\* An attachment bound to a message is only removed with its conversation or its
\* account: expiry, deleteUnbound and late completions leave it alone.
THEOREM BoundStays == Spec => BoundIsKept
<1>1. IInv /\ [Next]_vars => [KeepsBound]_vars
  BY BoundStep
<1> QED
  BY Inductive, <1>1, PTL DEF Spec, BoundIsKept, KeepsBound
-----------------------------------------------------------------------------
StaysFinished ==
    \A a \in Attachments :
        /\ row[a].parse \in {"ready", "failed"} => row'[a].parse \in {row[a].parse, "none"}
        /\ job[a].status \in {"succeeded", "failed"} => job'[a].status = job[a].status

LEMMA FinishedStep ==
    ASSUME IInv, [Next]_vars
    PROVE  StaysFinished
<1>t. /\ Types /\ RowsOK /\ row \in [Attachments -> Row] /\ job \in [Attachments -> Job]
      /\ \A a \in Attachments : row[a] \in Row /\ job[a] \in Job
      /\ \A w \in Workers : hold[w].task # "none" => hold[w].att \in Attachments
  BY DEF IInv, Types
<1>1. \A a \in Attachments : row[a].parse \in {"ready", "failed"} => row'[a].parse \in {row[a].parse, "none"}
  <2>1. CASE Keeps
    BY <2>1 DEF Keeps
  <2>2. CASE row' = row
    BY <2>2
  <2>3. ASSUME NEW a \in Attachments, NEW v \in Conversations, NEW kind \in Kinds, Initiate(a, v, kind)
        PROVE  \A b \in Attachments : row[b].parse \in {"ready", "failed"} => row'[b].parse = row[b].parse
    <3>1. row[a].parse = "none"
      BY <2>3 DEF Initiate, IInv, RowsOK, Once, Present, RowShape
    <3>2. \A b \in Attachments : b # a => row'[b] = row[b]
      BY <1>t, <2>3 DEF Initiate
    <3> QED
      BY <3>1, <3>2
  <2>4. ASSUME NEW S, row' = WithoutRows(S)
        PROVE  \A b \in Attachments : row'[b].parse \in {row[b].parse, "none"}
    BY <2>4 DEF WithoutRows, NoRow
  <2>5. ASSUME NEW S \in SUBSET Attachments, NEW m \in Messages, BindToMessage(S, m)
        PROVE  \A b \in Attachments : row'[b].parse = row[b].parse
    <3>1. \A r \in Row : [r EXCEPT !.msg = m].parse = r.parse
      BY DEF Row
    <3> QED
      BY <1>t, <2>5, <3>1 DEF BindToMessage
  <2>6. \/ row' = row \/ Keeps
        \/ \E a \in Attachments, v \in Conversations, kind \in Kinds : Initiate(a, v, kind)
        \/ \E S \in SUBSET Attachments, m \in Messages : BindToMessage(S, m)
        \/ \E S : row' = WithoutRows(S)
    BY <1>t, CompleterKeeps, WorkerKeeps
       DEF Next, AttachmentStep, AccountStep, Upload, Tick, CreateConversation, ClearSelect, ClearAbort,
           PrepareUserDeletion, vars, DeleteUnbound, EnqueueExpiredOrphan, DeleteConversation, ClearCommit,
           DeleteUser
  <2> QED
    BY <2>1, <2>2, <2>3, <2>4, <2>5, <2>6
<1>2. \A a \in Attachments : job[a].status \in {"succeeded", "failed"} => job'[a].status = job[a].status
  <2>1. CASE job' = job
    BY <2>1
  <2>2. ASSUME NEW S, NEW due, Enqueue(S, due)
        PROVE  \A a \in Attachments : job[a].status # "none" => job'[a] = job[a]
    BY <2>2 DEF Enqueue
  <2>3. ASSUME NEW w \in Workers, NEW a \in Attachments, ClaimDeletion(w, a)
        PROVE  \A b \in Attachments : job[b].status \in {"succeeded", "failed"} => job'[b] = job[b]
    BY <1>t, <2>3 DEF ClaimDeletion, JobClaimable
  <2>4. ASSUME NEW w \in Workers, MarkDeletion(w)
        PROVE  \A b \in Attachments : job[b].status \in {"succeeded", "failed"} => job'[b] = job[b]
    <3>1. PICK a \in Attachments : a = hold[w].att
      BY <1>t, <2>4 DEF MarkDeletion
    <3>2. job' = job \/ (job[a].status = "running" /\ \A b \in Attachments : b # a => job'[b] = job[b])
      BY <1>t, <2>4, <3>1 DEF MarkDeletion, JobLease
    <3> QED
      BY <3>2
  <2>5. ASSUME NEW w \in Workers, LeaseLapses(w)
        PROVE  \A b \in Attachments : job'[b].status = job[b].status
    <3>1. PICK a \in Attachments : a = hold[w].att
      BY <1>t, <2>5 DEF LeaseLapses
    <3>2. job' = job \/ job' = [job EXCEPT ![a] = [job[a] EXCEPT !.stale = TRUE]]
      BY <1>t, <2>5, <3>1 DEF LeaseLapses
    <3>3. [job[a] EXCEPT !.stale = TRUE].status = job[a].status
      BY <1>t DEF Job
    <3> QED
      BY <1>t, <3>2, <3>3
  <2>6. \/ job' = job \/ \E S, due : Enqueue(S, due)
        \/ \E w \in Workers, a \in Attachments : ClaimDeletion(w, a)
        \/ \E w \in Workers : MarkDeletion(w) \/ LeaseLapses(w)
    <3>1. ASSUME NEW c \in Completers, CompleterStep(c)
          PROVE  job' = job \/ \E S, due : Enqueue(S, due)
      BY <3>1 DEF CompleterStep, BeginCompletion, Verify, CompleteVerified, RejectCompletion,
                  ResetCompletion, CompleterCrash
    <3>2. ASSUME NEW w \in Workers, WorkerStep(w)
          PROVE  \/ job' = job \/ MarkDeletion(w) \/ \E a \in Attachments : ClaimDeletion(w, a)
      BY <3>2 DEF WorkerStep, DeleteObject, ClaimParse, FinishParse
    <3>3. ASSUME NEW a \in Attachments, AttachmentStep(a)
          PROVE  job' = job \/ \E S, due : Enqueue(S, due)
      BY <3>3 DEF AttachmentStep, Initiate, Upload, Tick, DeleteUnbound, EnqueueExpiredOrphan, RemoveRows
    <3>4. ASSUME AccountStep
          PROVE  job' = job \/ \E S, due : Enqueue(S, due)
      BY <3>4 DEF AccountStep, BindToMessage, DeleteConversation, CreateConversation, ClearSelect,
                  ClearCommit, ClearAbort, PrepareUserDeletion, DeleteUser, RemoveRows
    <3> QED
      BY <3>1, <3>2, <3>3, <3>4 DEF Next, vars
  <2> QED
    BY <2>1, <2>2, <2>3, <2>4, <2>5, <2>6
<1> QED
  BY <1>1, <1>2 DEF StaysFinished

\* A worker that lost its lease does not overwrite what the one that took over
\* finished: parse results and ended deletion jobs are final.
THEOREM FinishedStays == Spec => FinishedWorkIsFinal
<1>1. IInv /\ [Next]_vars => [StaysFinished]_vars
  BY FinishedStep
<1> QED
  BY Inductive, <1>1, PTL DEF Spec, FinishedWorkIsFinal, StaysFinished
=============================================================================
