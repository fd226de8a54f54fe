----------------------------- MODULE ChatStorage -----------------------------
(***************************************************************************)
(* The private chat attachments of one account: upload, verification,      *)
(* binding, removal and expiry (chat-attachments/repository.ts and         *)
(* service.ts, deletion.ts, conversation deletion of api/store.ts) and the *)
(* chat storage worker that parses documents and deletes objects           *)
(* (worker/chat-storage.ts).                                               *)
(*                                                                         *)
(* One unit is the declared size of an attachment.  The object key of an   *)
(* attachment is its identifier, which is never used again.  A lease token *)
(* is the worker slot that holds it: a slot has one job at a time and      *)
(* forgets it before it claims another, so equal tokens mean one claim.    *)
(* renewAttachmentLease only keeps the lock young; here a lock turns stale *)
(* when its worker crashes or is paused for longer than a lease.           *)
(***************************************************************************)
EXTENDS Integers, FiniteSets

CONSTANTS
    Attachments,    \* attachment identifiers and object keys
    Kinds,          \* kinds of attachments uploaded, "image" or "document"
    Conversations,  \* conversations of the account
    Messages,       \* user messages
    Completers,     \* requests that complete an upload
    Workers,        \* worker slots
    None,
    Limit,          \* limit_bytes of the storage account, in units
    MaxPerMessage,  \* attachments one message may carry
    MaxAttempts,    \* parse_max_attempts and max_attempts
    MaxPolls,       \* polls of the external parser
    MaxLapses       \* bound: leases that go stale, and failed clears, in a behaviour

ASSUME ChatStorageConstants ==
    /\ Kinds \subseteq {"image", "document"}
    /\ None \notin Conversations \cup Messages \cup Workers \cup Attachments
    /\ {Limit, MaxPerMessage, MaxAttempts, MaxPolls, MaxLapses} \subseteq Nat

VARIABLES
    account,    \* "active", "deleting" or "deleted"
    open,       \* conversations that exist and are not deleted
    row,        \* row[a]: the chat_attachment row
    used,       \* used_bytes
    reserved,   \* reserved_bytes
    age,        \* age[a]: "unborn", "fresh", "late" (PUT URL expired) or "orphan" (24 h)
    object,     \* object[a]: what is stored, "none", "good" or "bad"
    job,        \* job[a]: the chat_storage_deletion_job row of the key
    check,      \* check[c]: what completer c is doing
    hold,       \* hold[w]: what worker slot w is doing
    clearing,   \* the clearConversationData transaction in progress
    lost,       \* history: rows a cascade removed behind the back of the accounting
    lapses      \* leases that went stale and clear transactions that failed so far

vars == <<account, open, row, used, reserved, age, object, job, check, hold, clearing, lost, lapses>>

NoRow == [status |-> "none", kind |-> "image", parse |-> "none", quota |-> "none",
          active |-> TRUE, conv |-> None, msg |-> None,
          attempts |-> 0, polls |-> 0, submitted |-> FALSE, token |-> None, stale |-> FALSE]
NoJob  == [status |-> "none", due |-> "now", attempts |-> 0, token |-> None, stale |-> FALSE]
NoHold == [task |-> "none", att |-> None, attempts |-> 0]
NoCheck == [step |-> "idle", att |-> None]

Present == {a \in Attachments : row[a].status # "none"}
Locked(a) == a \in clearing.rows

Count(S, q) == Cardinality({a \in S : row[a].quota = q})
NonNegative(n) == IF n < 0 THEN 0 ELSE n

Init ==
    /\ account = "active"
    /\ open = Conversations
    /\ row = [a \in Attachments |-> NoRow]
    /\ used = 0 /\ reserved = 0
    /\ age = [a \in Attachments |-> "unborn"]
    /\ object = [a \in Attachments |-> "none"]
    /\ job = [a \in Attachments |-> NoJob]
    /\ check = [c \in Completers |-> NoCheck]
    /\ hold = [w \in Workers |-> NoHold]
    /\ clearing = [on |-> FALSE, rows |-> {}]
    /\ lost = {}
    /\ lapses = 0
-----------------------------------------------------------------------------

\* initiate: a row, a reservation and a PUT URL.
Initiate(a, v, kind) ==
    /\ account = "active" /\ v \in open /\ age[a] = "unborn"
    /\ used + reserved + 1 <= Limit
    /\ row' = [row EXCEPT ![a] = [NoRow EXCEPT
                  !.status = "initiated", !.kind = kind, !.conv = v, !.quota = "reserved",
                  !.parse = IF kind = "image" THEN "not_required" ELSE "queued"]]
    /\ reserved' = reserved + 1
    /\ age' = [age EXCEPT ![a] = "fresh"]
    /\ UNCHANGED <<account, open, used, object, job, check, hold, clearing, lost, lapses>>

\* The browser stores bytes through the URL; x-oss-forbid-overwrite keeps what is
\* there.
Upload(a, content) ==
    /\ age[a] = "fresh" /\ object[a] = "none"
    /\ object' = [object EXCEPT ![a] = content]
    /\ UNCHANGED <<account, open, row, used, reserved, age, job, check, hold, clearing, lost, lapses>>

\* The upload URL, and a minute later its grace period, expires; a day passes.
Tick(a) ==
    /\ age[a] \in {"fresh", "late"}
    /\ age' = [age EXCEPT ![a] = IF @ = "fresh" THEN "late" ELSE "orphan"]
    /\ UNCHANGED <<account, open, row, used, reserved, object, job, check, hold, clearing, lost, lapses>>
-----------------------------------------------------------------------------

SetCheck(c, step, a) == check' = [check EXCEPT ![c] = [step |-> step, att |-> a]]
EndCheck(c) == check' = [check EXCEPT ![c] = NoCheck]

\* beginCompletion.  A committed attachment is answered without a change.
BeginCompletion(c, a) ==
    /\ check[c].step = "idle" /\ ~Locked(a)
    /\ row[a].status = "initiated" /\ row[a].conv \in open
    /\ row[a].quota = "reserved" /\ row[a].active
    /\ row' = [row EXCEPT ![a].status = "scanning"]
    /\ SetCheck(c, "verify", a)
    /\ UNCHANGED <<account, open, used, reserved, age, object, job, hold, clearing, lost, lapses>>

\* What complete() does next with the object it finds; a missing object is a
\* provider error, wrong bytes are an API error.
VerdictMetadataOnly(content) == IF content = "bad" THEN "reject" ELSE "commit"
Verdict(content) ==
    CASE content = "none" -> "reset"
      [] content = "bad"  -> "reject"
      [] content = "good" -> "commit"

Verify(c) ==
    /\ check[c].step = "verify"
    /\ \/ SetCheck(c, Verdict(object[check[c].att]), check[c].att)
       \/ SetCheck(c, "reset", check[c].att)
    /\ UNCHANGED <<account, open, row, used, reserved, age, object, job, hold, clearing, lost, lapses>>

CanCommit(a) == row[a].status = "scanning" /\ row[a].quota = "reserved" /\ row[a].active

\* completeVerified.  A row that changed meanwhile is an API error, which leads to
\* rejectCompletion; a lost connection leads to resetCompletion.
CompleteVerified(c) ==
    LET a == check[c].att
    IN  /\ check[c].step = "commit" /\ ~Locked(a)
        /\ IF CanCommit(a)
           THEN /\ row' = [row EXCEPT ![a].quota = "committed",
                             ![a].status = IF row[a].kind = "image" THEN "ready" ELSE "processing"]
                /\ reserved' = reserved - 1 /\ used' = used + 1
                /\ EndCheck(c) \/ SetCheck(c, "reset", a)
           ELSE SetCheck(c, "reject", a) /\ UNCHANGED <<row, used, reserved>>
        /\ UNCHANGED <<account, open, age, object, job, hold, clearing, lost, lapses>>

\* An enqueued job keeps the job its key already has.
Queued(due) == [NoJob EXCEPT !.status = "queued", !.due = due]
Enqueue(S, due) ==
    job' = [a \in Attachments |->
              IF a \in S /\ job[a].status = "none" THEN Queued(due[a]) ELSE job[a]]
AtOnce == [a \in Attachments |-> "now"]

\* rejectCompletion: the reservation is returned and the object deleted at once.
RejectCompletion(c) ==
    LET a == check[c].att
    IN  /\ check[c].step = "reject" /\ ~Locked(a)
        /\ EndCheck(c)
        /\ \/ /\ row[a].status = "scanning" /\ row[a].quota = "reserved"
              /\ reserved' = reserved - 1
              /\ row' = [row EXCEPT ![a].status = "failed", ![a].parse = "failed",
                                    ![a].quota = "released", ![a].active = FALSE]
              /\ Enqueue({a}, AtOnce)
           \/ UNCHANGED <<row, reserved, job>>
        /\ UNCHANGED <<account, open, used, age, object, hold, clearing, lost, lapses>>

\* resetCompletion: the upload may be completed again.
ResetCompletion(c) ==
    LET a == check[c].att
    IN  /\ check[c].step = "reset" /\ ~Locked(a)
        /\ EndCheck(c)
        /\ \/ CanCommit(a) /\ row' = [row EXCEPT ![a].status = "initiated"]
           \/ UNCHANGED row
        /\ UNCHANGED <<account, open, used, reserved, age, object, job, hold, clearing, lost, lapses>>

\* The request is cut off; its row may stay in scanning.
CompleterCrash(c) ==
    /\ check[c].step # "idle"
    /\ EndCheck(c)
    /\ UNCHANGED <<account, open, row, used, reserved, age, object, job, hold, clearing, lost, lapses>>
-----------------------------------------------------------------------------

\* bindToMessage: all of the attachments or none of them.
Bindable(a, m) ==
    /\ row[a].quota = "committed" /\ row[a].active /\ row[a].status = "ready"
    /\ row[a].parse \in {"ready", "not_required"}
    /\ row[a].conv \in open
    /\ row[a].msg \in {None, m}

BindToMessage(S, m) ==
    /\ S # {} /\ \A a \in S : Bindable(a, m) /\ ~Locked(a)
    /\ Cardinality(S \cup {a \in Present : row[a].msg = m}) <= MaxPerMessage
    /\ row' = [a \in Attachments |-> IF a \in S THEN [row[a] EXCEPT !.msg = m] ELSE row[a]]
    /\ UNCHANGED <<account, open, used, reserved, age, object, job, check, hold, clearing, lost, lapses>>

\* When the object of a removed row may be deleted: a reserved upload can still
\* arrive until its URL has expired.
Due == [a \in Attachments |-> IF row[a].quota = "reserved" THEN "late" ELSE "now"]

\* Rows S are removed: their objects are queued and their bytes returned.
NeedsJobCommitted(a) == row[a].quota = "committed"
NeedsJob(a) == TRUE
ReturnedReservedNone(S) == 0
ReturnedReserved(S) == Count(S, "reserved")
RemoveRows(S, due) ==
    /\ Enqueue({a \in S : NeedsJob(a)}, due)
    /\ used' = NonNegative(used - Count(S, "committed"))
    /\ reserved' = NonNegative(reserved - ReturnedReserved(S))

WithoutRows(S) == [a \in Attachments |-> IF a \in S THEN NoRow ELSE row[a]]

\* deleteUnbound: the user takes an attachment back.
DeleteUnbound(a) ==
    /\ a \in Present /\ ~Locked(a) /\ row[a].conv \in open
    /\ row[a].msg = None /\ row[a].active
    /\ RemoveRows({a}, Due)
    /\ row' = WithoutRows({a})
    /\ UNCHANGED <<account, open, age, object, check, hold, clearing, lost, lapses>>

\* enqueueExpiredOrphans, one row: 24 hours without a message.
ExpirableBoundToo(a) == a \in Present /\ row[a].active /\ age[a] = "orphan"
ExpirableUnlessScanning(a) ==
    a \in Present /\ row[a].msg = None /\ row[a].status # "scanning" /\ row[a].active /\ age[a] = "orphan"
Expirable(a) == a \in Present /\ row[a].msg = None /\ row[a].active /\ age[a] = "orphan"

EnqueueExpiredOrphan(a) ==
    /\ Expirable(a) /\ ~Locked(a)
    /\ RemoveRows({a}, AtOnce)
    /\ row' = WithoutRows({a})
    /\ UNCHANGED <<account, open, age, object, check, hold, clearing, lost, lapses>>

\* deleteConversation: the conversation is closed first, then its rows go.
DeleteConversation(v) ==
    LET S == {a \in Present : row[a].conv = v}
    IN  /\ v \in open /\ \A a \in S : ~Locked(a)
        /\ open' = open \ {v}
        /\ RemoveRows(S, Due)
        /\ row' = WithoutRows(S)
        /\ UNCHANGED <<account, age, object, check, hold, clearing, lost, lapses>>

\* A new conversation takes the place of a deleted one.
CreateConversation(v) ==
    /\ account = "active" /\ v \notin open
    /\ open' = open \cup {v}
    /\ UNCHANGED <<account, row, used, reserved, age, object, job, check, hold, clearing, lost, lapses>>

\* clearConversationData selects and locks the rows it sees ...
ClearSelect ==
    /\ account # "deleted" /\ ~clearing.on
    /\ clearing' = [on |-> TRUE, rows |-> Present]
    /\ UNCHANGED <<account, open, row, used, reserved, age, object, job, check, hold, lost, lapses>>

\* ... and deletes the conversations in a later statement, which cascades to rows
\* that were inserted in between.
ClearCommit ==
    LET missed == Present \ clearing.rows
    IN  /\ clearing.on
        /\ RemoveRows(clearing.rows, Due)
        /\ row' = WithoutRows(Present)
        /\ lost' = lost \cup {<<a, row[a].quota>> : a \in missed}
        /\ open' = {}
        /\ clearing' = [on |-> FALSE, rows |-> {}]
        /\ UNCHANGED <<account, age, object, check, hold, lapses>>

\* The transaction fails and is rolled back.
ClearAbort ==
    /\ clearing.on /\ lapses < MaxLapses
    /\ clearing' = [on |-> FALSE, rows |-> {}]
    /\ lapses' = lapses + 1
    /\ UNCHANGED <<account, open, row, used, reserved, age, object, job, check, hold, lost>>

\* prepareUserDeletion queues every object and keeps the rows ...
PrepareUserDeletion ==
    /\ account = "active" /\ clearing.rows = {}
    /\ account' = "deleting"
    /\ Enqueue(Present, Due)
    /\ UNCHANGED <<open, row, used, reserved, age, object, check, hold, clearing, lost, lapses>>

\* ... which cascade, like the storage account, when the user row is deleted.
DeleteUser ==
    /\ account = "deleting" /\ ~clearing.on
    /\ account' = "deleted"
    /\ open' = {} /\ row' = WithoutRows(Present)
    /\ used' = 0 /\ reserved' = 0
    /\ UNCHANGED <<age, object, job, check, hold, clearing, lost, lapses>>
-----------------------------------------------------------------------------

Claim(w, task, a, n) == hold' = [hold EXCEPT ![w] = [task |-> task, att |-> a, attempts |-> n]]
Drop(w) == hold' = [hold EXCEPT ![w] = NoHold]

\* CLAIM_DELETION_SQL: a due job, or one whose worker went silent.
JobClaimableQueued(a) == job[a].status = "queued" /\ (job[a].due = "late" => age[a] # "fresh")
JobClaimable(a) ==
    \/ job[a].status = "queued" /\ (job[a].due = "late" => age[a] # "fresh")
    \/ job[a].status = "running" /\ job[a].stale

ClaimDeletion(w, a) ==
    /\ hold[w].task = "none" /\ JobClaimable(a)
    /\ job' = [job EXCEPT ![a].status = "running", ![a].attempts = @ + 1,
                          ![a].token = w, ![a].stale = FALSE]
    /\ Claim(w, "delete", a, job[a].attempts + 1)
    /\ UNCHANGED <<account, open, row, used, reserved, age, object, check, clearing, lost, lapses>>

\* deletePrivate: the object is gone, or the call failed.
DeleteObject(w) ==
    /\ hold[w].task = "delete"
    /\ \/ /\ object' = [object EXCEPT ![hold[w].att] = "none"]
          /\ hold' = [hold EXCEPT ![w].task = "deleted"]
       \/ UNCHANGED object /\ \E t \in {"failed", "refused"} : hold' = [hold EXCEPT ![w].task = t]
    /\ UNCHANGED <<account, open, row, used, reserved, age, job, check, clearing, lost, lapses>>

\* The fence of every mark: the lease is still the one that was claimed.
JobLease(w) == job[hold[w].att].status = "running" /\ job[hold[w].att].token = w

\* markDeletionSucceeded and markDeletionFailed; a stale lease changes nothing.
MarkDeletion(w) ==
    LET a == hold[w].att
        terminal == hold[w].task = "refused" \/ hold[w].attempts >= MaxAttempts
        result == IF hold[w].task = "deleted" THEN "succeeded"
                  ELSE IF terminal THEN "failed" ELSE "queued"
    IN  /\ hold[w].task \in {"deleted", "failed", "refused"}
        /\ job' = IF JobLease(w)
                  THEN [job EXCEPT ![a].status = result, ![a].token = None, ![a].stale = FALSE,
                                   ![a].due = IF result = "queued" THEN "now" ELSE @]
                  ELSE job
        /\ Drop(w)
        /\ UNCHANGED <<account, open, row, used, reserved, age, object, check, clearing, lost, lapses>>

\* CLAIM_ATTACHMENT_PARSE_SQL.
ParseDueQueued(a) == row[a].parse = "queued"
ParseDue(a) == row[a].parse = "queued" \/ (row[a].parse = "processing" /\ row[a].stale)

ClaimParse(w, a) ==
    /\ hold[w].task = "none" /\ ~Locked(a)
    /\ row[a].kind = "document" /\ row[a].quota = "committed" /\ row[a].active
    /\ row[a].status = "processing" /\ ParseDue(a)
    /\ row' = [row EXCEPT ![a].parse = "processing", ![a].attempts = @ + 1,
                          ![a].token = w, ![a].stale = FALSE]
    /\ Claim(w, "parse", a, row[a].attempts + 1)
    /\ UNCHANGED <<account, open, used, reserved, age, object, job, check, clearing, lost, lapses>>

ParseLeaseAny(w) == row[hold[w].att].status # "none"
ParseLease(w) == row[hold[w].att].parse = "processing" /\ row[hold[w].att].token = w

\* The row after markParserSubmitted, deferParserPoll, saveChunksAndComplete and
\* markAttachmentFailed; a resubmission or poll gives the attempt back.
Unlocked(r) == [r EXCEPT !.token = None, !.stale = FALSE]
Submitted(r) == [Unlocked(r) EXCEPT !.parse = "queued", !.submitted = TRUE, !.polls = 0,
                                    !.attempts = NonNegative(@ - 1)]
Deferred(r) == [Unlocked(r) EXCEPT !.parse = "queued", !.polls = @ + 1,
                                   !.attempts = NonNegative(@ - 1)]
Parsed(r) == [Unlocked(r) EXCEPT !.status = "ready", !.parse = "ready"]
ParseFailed(r, terminal) ==
    [Unlocked(r) EXCEPT !.status = IF terminal THEN "failed" ELSE "processing",
                        !.parse = IF terminal THEN "failed" ELSE "queued"]

\* runOnce for a parse job: local text, a submission to the parser or one poll of
\* it, each of which may fail; nothing is written under a lease that was lost.
FinishParse(w) ==
    LET a == hold[w].att
        r == row[a]
        budget == r.submitted => r.polls < MaxPolls
        outcomes ==
            {ParseFailed(r, TRUE)} \cup
            (IF budget THEN {Parsed(r), ParseFailed(r, hold[w].attempts >= MaxAttempts),
                             IF r.submitted THEN Deferred(r) ELSE Submitted(r)} ELSE {})
    IN  /\ hold[w].task = "parse" /\ ~Locked(a)
        /\ IF ParseLease(w) THEN \E new \in outcomes : row' = [row EXCEPT ![a] = new]
           ELSE UNCHANGED row
        /\ Drop(w)
        /\ UNCHANGED <<account, open, used, reserved, age, object, job, check, clearing, lost, lapses>>

\* Fifteen minutes pass without a renewal: the worker is paused, or it crashed.
LeaseLapses(w) ==
    LET a == hold[w].att
    IN  /\ hold[w].task # "none" /\ lapses < MaxLapses
        /\ lapses' = lapses + 1
        /\ IF hold[w].task = "parse"
           THEN /\ row' = IF ParseLease(w) THEN [row EXCEPT ![a].stale = TRUE] ELSE row
                /\ UNCHANGED job
           ELSE /\ job' = IF JobLease(w) THEN [job EXCEPT ![a].stale = TRUE] ELSE job
                /\ UNCHANGED row
        /\ Drop(w) \/ UNCHANGED hold
        /\ UNCHANGED <<account, open, used, reserved, age, object, check, clearing, lost>>
-----------------------------------------------------------------------------

CompleterStep(c) ==
    \/ \E a \in Attachments : BeginCompletion(c, a)
    \/ Verify(c)
    \/ CompleteVerified(c)
    \/ RejectCompletion(c)
    \/ ResetCompletion(c)
    \/ CompleterCrash(c)

WorkerStep(w) ==
    \/ \E a \in Attachments : ClaimDeletion(w, a)
    \/ DeleteObject(w)
    \/ MarkDeletion(w)
    \/ \E a \in Attachments : ClaimParse(w, a)
    \/ FinishParse(w)

AttachmentStep(a) ==
    \/ \E v \in Conversations, kind \in Kinds : Initiate(a, v, kind)
    \/ \E content \in {"good", "bad"} : Upload(a, content)
    \/ Tick(a)
    \/ DeleteUnbound(a)
    \/ EnqueueExpiredOrphan(a)

AccountStep ==
    \/ \E S \in SUBSET Attachments, m \in Messages : BindToMessage(S, m)
    \/ \E v \in Conversations : DeleteConversation(v)
    \/ \E v \in Conversations : CreateConversation(v)
    \/ ClearSelect
    \/ ClearCommit
    \/ ClearAbort
    \/ PrepareUserDeletion
    \/ DeleteUser

Next ==
    \/ \E a \in Attachments : AttachmentStep(a)
    \/ \E c \in Completers : CompleterStep(c)
    \/ \E w \in Workers : WorkerStep(w)
    \/ \E w \in Workers : LeaseLapses(w)
    \/ AccountStep

Spec == Init /\ [][Next]_vars

\* The worker process loops for ever over its claims, and a transaction that was
\* begun ends.
WorkerFairness ==
    /\ \A w \in Workers : WF_vars(WorkerStep(w))
    /\ WF_vars(ClearCommit)

WorkerFairSpec == Spec /\ WorkerFairness

\* Its loop also enqueues expired orphans, and time passes.
ExpiryFairness == \A a \in Attachments : WF_vars(EnqueueExpiredOrphan(a)) /\ WF_vars(Tick(a))
-----------------------------------------------------------------------------

Quota == {"none", "reserved", "committed", "released"}

\* Every variable stays in its domain; the byte counters never become negative.
TypeOK ==
    /\ account \in {"active", "deleting", "deleted"}
    /\ open \subseteq Conversations
    /\ used \in Nat /\ reserved \in Nat
    /\ \A a \in Attachments :
          /\ row[a].status \in {"none", "initiated", "scanning", "processing", "ready", "failed"}
          /\ row[a].parse \in {"none", "not_required", "queued", "processing", "ready", "failed"}
          /\ row[a].quota \in Quota /\ row[a].attempts \in Nat /\ row[a].polls \in 0 .. MaxPolls
          /\ age[a] \in {"unborn", "fresh", "late", "orphan"}
          /\ object[a] \in {"none", "good", "bad"}
          /\ job[a].status \in {"none", "queued", "running", "succeeded", "failed"}
    /\ \A c \in Completers : check[c].step \in {"idle", "verify", "commit", "reject", "reset"}
    /\ \A w \in Workers : hold[w].task \in {"none", "parse", "delete", "deleted", "failed", "refused"}

LostUnits(q) == Cardinality({x \in lost : x[2] = q})

\* used_bytes and reserved_bytes are what the rows hold, through verification,
\* rejection, removal, expiry and conversation deletion in any order; GREATEST
\* hides no error.  The units of rows a cascade of
\* clearConversationData removed stay charged.
AccountMatchesRows ==
    account # "deleted" =>
        /\ reserved = Count(Present, "reserved") + LostUnits("reserved")
        /\ used = Count(Present, "committed") + LostUnits("committed")

\* An attachment that was verified keeps its object for as long as its row can be
\* used, whatever deletion jobs, stale workers and late completions do.
ReadyHasObject ==
    account = "active" =>
        \A a \in Present : row[a].quota = "committed" => object[a] = "good"

\* No row is removed without a deletion job for its object, except by the cascade
\* of clearConversationData.
RemovedIsQueued ==
    \A a \in Attachments :
        age[a] # "unborn" /\ a \notin Present /\ (\A q \in Quota : <<a, q>> \notin lost)
            => job[a].status # "none"

\* "so a late upload cannot recreate an orphan after an early delete"
\* (docs/agent-v3-attachments.md): once the object of an upload that was never
\* accepted is deleted, it stays deleted.
RejectedUploadStaysDeleted ==
    \A a \in Attachments :
        row[a].quota = "released" /\ job[a].status = "succeeded" => object[a] = "none"

\* "Conversation deletion and account deletion enqueue private object keys before
\* metadata is removed or cascaded" (docs/agent-v3-attachments.md).
EnqueuedBeforeCascade == \A x \in lost : job[x[1]].status # "none"

\* An attachment that belongs to a message is only removed with its conversation or
\* its account, never by expiry or by its uploader, and never changes message.
BoundIsKept ==
    [][\A a \in Attachments : row[a].msg # None /\ row'[a].msg # row[a].msg
          => row[a].conv \notin open' \/ account' = "deleted"]_vars

\* What a worker finished stays finished: a worker that lost its lease cannot
\* overwrite the outcome of the one that took over.
FinishedWorkIsFinal ==
    [][\A a \in Attachments :
          /\ row[a].parse \in {"ready", "failed"} => row'[a].parse \in {row[a].parse, "none"}
          /\ job[a].status \in {"succeeded", "failed"} => job'[a].status = job[a].status]_vars

\* Every accepted document is eventually parsed, given up or removed, by the
\* parse loop alone: it does not take the expiry of an orphan to end it.
ParsingEnds ==
    \A a \in Attachments : row[a].status = "processing" ~> row[a].status # "processing"

\* Once time passes, every queued deletion eventually succeeds or is given up.
DeletionEnds == ExpiryFairness =>
    \A a \in Attachments : job[a].status = "queued" ~> job[a].status \in {"succeeded", "failed"}

\* A completion that was cut off does not hold its reservation for ever: the row
\* leaves scanning, at the latest when the orphan expires.
ScanningEnds == ExpiryFairness =>
    \A a \in Attachments : row[a].status = "scanning" ~> row[a].status # "scanning"
=============================================================================
