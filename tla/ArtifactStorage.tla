--------------------------- MODULE ArtifactStorage ---------------------------
(***************************************************************************)
(* The files an answer run produces: the create_artifact tool call         *)
(* (artifact-runtime.ts), its repository (artifact-storage.ts), the        *)
(* cleanup of a failed run (run-settlement.ts), and the ways conversations *)
(* and the account go away, for one account with one conversation.         *)
(*                                                                         *)
(* A run makes at most one create_artifact call (it is non-repeatable), so *)
(* run, tool call and artifact share a name; an object key is an artifact  *)
(* and a format.  The tool call goes on in the background when its run     *)
(* fails: a call of the same batch whose record cannot be stored rejects   *)
(* the Promise.all with the signal quiet, a timeout aborts the signal, and *)
(* recovery may find the run stale.  Transactions that wait for a row lock *)
(* after they took their snapshot are two steps.  A call that fails may do *)
(* so before or after it took effect.  Attempts and stale leases of the    *)
(* worker are in module ChatStorage; here a deletion is retried or given   *)
(* up.                                                                     *)
(***************************************************************************)
EXTENDS Integers, FiniteSets

CONSTANTS
    Artifacts,   \* runs, and the artifact of each
    Formats,     \* formats of an artifact, one file each
    Workers,     \* worker slots
    None,
    Limit        \* limit_bytes of the storage account, in files

ASSUME ArtifactConstants ==
    /\ None \notin Artifacts \cup Formats \cup Workers
    /\ Limit \in Nat

VARIABLES
    account,    \* "active", "deleting" or "deleted"
    conv,       \* the conversation, "open" or "gone"
    run,        \* run[a]: "running", "answered", "failed" or "gone"
    art,        \* art[a]: the chat_artifact row
    file,       \* file[k]: quota_state of the chat_artifact_file row
    old,        \* old[k]: an hour has passed since the file was reserved
    object,     \* object[k]: the object is stored
    job,        \* job[k]: the chat_storage_deletion_job row of the key
    maker,      \* maker[a]: the tool call
    signal,     \* signal[a]: the abort signal of the tool call
    cleaner,    \* cleaner[a]: the settlement of a failed run in progress
    clearing,   \* the clearConversationData transaction in progress
    hold,       \* hold[w]: what worker slot w is doing
    used,       \* used_bytes
    reserved,   \* reserved_bytes
    stray       \* history: rows removed while their units stayed charged

dbVars == <<account, conv, run, art, file, used, reserved, stray>>
vars == <<dbVars, old, object, job, maker, signal, cleaner, clearing, hold>>

Keys == Artifacts \X Formats
KeysOf(a) == {a} \X Formats
Rows(S) == {k \in Keys : k[1] \in S /\ file[k] # "none"}
Count(S, q) == Cardinality({k \in S : file[k] = q})
NonNegative(n) == IF n < 0 THEN 0 ELSE n

NoJob == [status |-> "none", due |-> "now", token |-> None]
NoHold == [task |-> "none", key |-> None]
NoClean == [on |-> FALSE, owns |-> FALSE, snap |-> {}]
NoMaker == [pc |-> "idle", fmt |-> None, left |-> {}, doomed |-> {}, ready |-> FALSE, broken |-> FALSE]

Init ==
    /\ account = "active" /\ conv = "open"
    /\ run = [a \in Artifacts |-> "running"]
    /\ art = [a \in Artifacts |-> "none"]
    /\ file = [k \in Keys |-> "none"]
    /\ old = [k \in Keys |-> FALSE]
    /\ object = [k \in Keys |-> FALSE]
    /\ job = [k \in Keys |-> NoJob]
    /\ maker = [a \in Artifacts |-> NoMaker]
    /\ signal = [a \in Artifacts |-> FALSE]
    /\ cleaner = [a \in Artifacts |-> NoClean]
    /\ clearing = [on |-> FALSE, rows |-> {}]
    /\ hold = [w \in Workers |-> NoHold]
    /\ used = 0 /\ reserved = 0
    /\ stray = {}
-----------------------------------------------------------------------------

Pc(a, label) == maker[a].pc = label
Goto(a, label) == maker' = [maker EXCEPT ![a].pc = label]
Current(a) == <<a, maker[a].fmt>>

\* Transactions of tool calls that hold the user and the conversation row.
Creating == {a \in Artifacts : Pc(a, "creating")}
Reserving == {a \in Artifacts : Pc(a, "reserving")}

\* The artifact row is locked by another transaction.
Held(a) == a \in clearing.rows \/ cleaner[a].owns

Queued(due) == [status |-> "queued", due |-> due, token |-> None]
AtOnce == [k \in Keys |-> "now"]
\* A file that is still reserved may be in the middle of its upload.
Due == [k \in Keys |-> IF file[k] = "reserved" THEN "late" ELSE "now"]

\* ON CONFLICT DO NOTHING: a key keeps the job it has.
Enqueue(S, due) ==
    job' = [k \in Keys |-> IF k \in S /\ job[k].status = "none" THEN Queued(due[k]) ELSE job[k]]

\* The rows S go and their units with them.
ReturnUnits(S) ==
    /\ used' = NonNegative(used - Count(S, "committed"))
    /\ reserved' = NonNegative(reserved - Count(S, "reserved"))
WithoutFiles(S) == [k \in Keys |-> IF k \in S THEN "none" ELSE file[k]]
-----------------------------------------------------------------------------

\* createArtifact: account, conversation and run are checked under locks.  The
\* KEY SHARE lock on the run makes recovery wait, which locks it FOR UPDATE, but
\* not RunStore.fail, which updates no key column.
CreateCheck(a) ==
    /\ Pc(a, "idle")
    /\ account = "active" /\ conv = "open" /\ run[a] = "running"
    /\ Goto(a, "creating")
    /\ UNCHANGED <<dbVars, old, object, job, signal, cleaner, clearing, hold>>

\* The insert commits; a call that fails, with or without effect, ends the tool.
CreateCommit(a) ==
    /\ Pc(a, "creating")
    /\ \/ /\ art' = [art EXCEPT ![a] = "generating"]
          /\ \/ maker' = [maker EXCEPT ![a].pc = "boundary", ![a].left = Formats]
             \/ Goto(a, "done")
       \/ Goto(a, "done") /\ UNCHANGED art
    /\ UNCHANGED <<account, conv, run, file, used, reserved, stray, old, object, job, signal,
                   cleaner, clearing, hold>>

\* The specification is invalid, or the scope was not found.
CreateRefused(a) ==
    /\ Pc(a, "idle")
    /\ Goto(a, "done")
    /\ UNCHANGED <<dbVars, old, object, job, signal, cleaner, clearing, hold>>

\* ProductionArtifactStorage.create between two calls: an aborted run stops here,
\* rendering may fail, then one file after the other and finally the artifact.
Boundary(a) ==
    /\ Pc(a, "boundary")
    /\ \/ /\ signal[a] \/ maker[a].left = Formats
          /\ Goto(a, "fail")
       \/ /\ ~signal[a]
          /\ \/ \E f \in maker[a].left :
                   maker' = [maker EXCEPT ![a].pc = "reserve", ![a].fmt = f, ![a].left = @ \ {f}]
             \/ maker[a].left = {} /\ Goto(a, "complete")
    /\ UNCHANGED <<dbVars, old, object, job, signal, cleaner, clearing, hold>>

\* reserveFile up to the lock on the artifact row.
ReserveLock(a) ==
    /\ Pc(a, "reserve") /\ ~Held(a)
    /\ IF account = "active" /\ conv = "open" /\ art[a] = "generating"
       THEN Goto(a, "reserving") ELSE Goto(a, "fail")
    /\ UNCHANGED <<dbVars, old, object, job, signal, cleaner, clearing, hold>>

\* reserveFile: the storage account, the file row, COMMIT.  It is called outside
\* the try block of persistFile: a failure goes straight to storage.fail.
ReserveCommit(a) ==
    LET k == Current(a)
    IN  /\ Pc(a, "reserving")
        /\ \/ /\ used + reserved + 1 <= Limit /\ file[k] = "none"
              /\ file' = [file EXCEPT ![k] = "reserved"]
              /\ reserved' = reserved + 1
              /\ Goto(a, "put") \/ Goto(a, "fail")
           \/ Goto(a, "fail") /\ UNCHANGED <<file, reserved>>
        /\ UNCHANGED <<account, conv, run, art, used, stray, old, object, job, signal, cleaner,
                       clearing, hold>>

\* putPrivate and statPrivate: stored and verified, or an error that says nothing
\* about the object.
Put(a) ==
    /\ Pc(a, "put")
    /\ \/ object' = [object EXCEPT ![Current(a)] = TRUE] /\ (Goto(a, "commit") \/ Goto(a, "abort"))
       \/ UNCHANGED object /\ Goto(a, "abort")
    /\ UNCHANGED <<dbVars, old, job, signal, cleaner, clearing, hold>>

CanCommit(a) == file[Current(a)] = "reserved" /\ art[a] = "generating"

CommitFile(a) ==
    /\ Pc(a, "commit") /\ ~Held(a)
    /\ \/ /\ CanCommit(a)
          /\ file' = [file EXCEPT ![Current(a)] = "committed"]
          /\ reserved' = reserved - 1 /\ used' = used + 1
          /\ Goto(a, "boundary") \/ Goto(a, "abort")
       \/ Goto(a, "abort") /\ UNCHANGED <<file, used, reserved>>
    /\ UNCHANGED <<account, conv, run, art, stray, old, object, job, signal, cleaner, clearing, hold>>

\* abortFile queues the deletion of the object again whatever became of an earlier
\* job (ON CONFLICT DO UPDATE): the object may have been stored after it was done.
RequeuedIfNone(j) == IF j.status = "none" THEN Queued("now") ELSE j
Requeued(j) == Queued("now")

AbortFile(a) ==
    LET k == Current(a)
    IN  /\ Pc(a, "abort") /\ ~Held(a)
        /\ \/ /\ account # "deleted"
              /\ ReturnUnits({k} \cap {x \in Keys : file[x] = "reserved"})
              /\ file' = [file EXCEPT ![k] = IF @ = "reserved" THEN "none" ELSE @]
              /\ job' = [job EXCEPT ![k] = Requeued(@)]
              /\ art' = [art EXCEPT ![a] = IF @ = "none" THEN @ ELSE "failed"]
              /\ Goto(a, "fail")
           \/ /\ maker' = [maker EXCEPT ![a].pc = "fail", ![a].broken = TRUE]
              /\ UNCHANGED <<file, used, reserved, job, art>>
        /\ UNCHANGED <<account, conv, run, stray, old, object, signal, cleaner, clearing, hold>>

\* completeArtifact: every requested format is there.
AllCommitted(a) == \A k \in KeysOf(a) : file[k] = "committed"

CompleteArtifact(a) ==
    /\ Pc(a, "complete") /\ ~Held(a)
    /\ \/ /\ art[a] = "generating" /\ conv = "open" /\ AllCommitted(a)
          /\ art' = [art EXCEPT ![a] = "ready"]
          /\ Goto(a, "returned") \/ Goto(a, "fail")
       \/ Goto(a, "fail") /\ UNCHANGED art
    /\ UNCHANGED <<account, conv, run, file, used, reserved, stray, old, object, job, signal,
                   cleaner, clearing, hold>>

\* The last look at the signal; then the tool reports a ready artifact.
Return(a) ==
    /\ Pc(a, "returned")
    /\ IF signal[a] THEN Goto(a, "fail")
       ELSE maker' = [maker EXCEPT ![a].pc = "done", ![a].ready = TRUE]
    /\ UNCHANGED <<dbVars, old, object, job, signal, cleaner, clearing, hold>>

\* The status failArtifact leaves behind.
FailedUnlessReady(st) == IF st = "ready" THEN st ELSE "failed"
Failed(st) == "failed"
FailedUnits(a) == Rows({a})

\* failArtifact: every file of the artifact is released and queued.
FailArtifact(a) ==
    /\ Pc(a, "fail") /\ ~Held(a)
    /\ \/ /\ art[a] # "none"
          /\ ReturnUnits(FailedUnits(a))
          /\ Enqueue(Rows({a}), AtOnce)
          /\ file' = WithoutFiles(Rows({a}))
          /\ art' = [art EXCEPT ![a] = Failed(@)]
          /\ \/ maker' = [maker EXCEPT ![a].pc = "delete", ![a].doomed = Rows({a})]
             \/ Goto(a, "done")
       \/ Goto(a, "done") /\ UNCHANGED <<file, used, reserved, job, art>>
    /\ UNCHANGED <<account, conv, run, stray, old, object, signal, cleaner, clearing, hold>>

\* ChatArtifactStorageService.fail also deletes the objects, as far as it can.
DeleteDirect(a) ==
    /\ Pc(a, "delete")
    /\ \E S \in SUBSET maker[a].doomed :
          object' = [k \in Keys |-> object[k] /\ k \notin S]
    /\ maker' = [maker EXCEPT ![a].pc = "done", ![a].doomed = {}]
    /\ UNCHANGED <<dbVars, old, job, signal, cleaner, clearing, hold>>

\* The tool or run timeout, or the user, aborts the tool call.
Abort(a) ==
    /\ ~signal[a] /\ maker[a].pc \notin {"idle", "done", "dead"}
    /\ signal' = [signal EXCEPT ![a] = TRUE]
    /\ UNCHANGED <<dbVars, old, object, job, maker, cleaner, clearing, hold>>

Crash(a) ==
    /\ maker[a].pc \notin {"done", "dead"}
    /\ maker' = [maker EXCEPT ![a] = [NoMaker EXCEPT !.pc = "dead"]]
    /\ UNCHANGED <<dbVars, old, object, job, signal, cleaner, clearing, hold>>
-----------------------------------------------------------------------------

\* RunStore.complete: only an answer with a ready artifact is stored.
AnswerRun(a) ==
    /\ run[a] = "running" /\ account = "active" /\ ~cleaner[a].on
    /\ Pc(a, "done") /\ maker[a].ready
    /\ run' = [run EXCEPT ![a] = "answered"]
    /\ UNCHANGED <<account, conv, art, file, used, reserved, stray, old, object, job, maker, signal,
                   cleaner, clearing, hold>>

\* RunStore.fail, called by a live handler, and recoverStaleAgentRuns settle the
\* run; the first statement of cleanupRunArtifactsInTransaction takes its snapshot
\* of the files and then locks the artifact row or waits for it.
CleanupStart(a, by) ==
    /\ run[a] = "running" /\ account = "active" /\ ~cleaner[a].on
    /\ by = "recovery" => ~Pc(a, "creating")
    /\ by = "handler" => ~Pc(a, "dead")
    /\ cleaner' = [cleaner EXCEPT ![a] =
          [on |-> TRUE, snap |-> Rows({a}),
           owns |-> art[a] # "none" /\ a \notin Reserving /\ a \notin clearing.rows]]
    /\ UNCHANGED <<dbVars, old, object, job, maker, signal, clearing, hold>>

\* The rows whose units the first statement returns: the ones of its snapshot, as
\* they are once the lock is granted.
SummedCommitted(a) == {k \in cleaner[a].snap : file[k] = "committed"}
Summed(a) == cleaner[a].snap \cap Rows({a})

\* The rest of the transaction: later statements see every row there is now.
CleanupFinish(a) ==
    /\ cleaner[a].on /\ a \notin Reserving /\ a \notin clearing.rows
    /\ ReturnUnits(Summed(a))
    /\ Enqueue(Rows({a}), AtOnce)
    /\ file' = WithoutFiles(Rows({a}))
    /\ art' = [art EXCEPT ![a] = IF @ = "none" THEN @ ELSE "failed"]
    /\ run' = [run EXCEPT ![a] = "failed"]
    /\ cleaner' = [cleaner EXCEPT ![a] = NoClean]
    /\ stray' = stray \cup {<<k, file[k]>> : k \in Rows({a}) \ cleaner[a].snap}
    /\ UNCHANGED <<account, conv, old, object, maker, signal, clearing, hold>>

\* A settlement that fails is rolled back; the run stays for the next one.
CleanupRollback(a) ==
    /\ cleaner[a].on
    /\ cleaner' = [cleaner EXCEPT ![a] = NoClean]
    /\ UNCHANGED <<dbVars, old, object, job, maker, signal, clearing, hold>>
-----------------------------------------------------------------------------

NoSettlement == \A a \in Artifacts : ~cleaner[a].owns

\* deleteConversation waits for the SHARE locks of createArtifact and reserveFile.
DeleteConversation ==
    /\ conv = "open" /\ Creating = {} /\ Reserving = {} /\ NoSettlement /\ clearing.rows = {}
    /\ conv' = "gone"
    /\ Enqueue(Rows(Artifacts), Due)
    /\ ReturnUnits(Rows(Artifacts))
    /\ file' = WithoutFiles(Keys)
    /\ art' = [a \in Artifacts |-> "none"]
    /\ UNCHANGED <<account, run, stray, old, object, maker, signal, cleaner, clearing, hold>>

\* clearConversationData selects and locks what it sees ...
ClearSelect ==
    /\ account # "deleted" /\ ~clearing.on /\ Reserving = {} /\ NoSettlement
    /\ clearing' = [on |-> TRUE, rows |-> {a \in Artifacts : art[a] # "none"}]
    /\ UNCHANGED <<dbVars, old, object, job, maker, signal, cleaner, hold>>

\* ... and deletes the conversation, which cascades to runs and to artifacts that
\* appeared in between.
ClearCommit ==
    LET missed == Rows(Artifacts \ clearing.rows)
    IN  /\ clearing.on /\ Creating = {} /\ Reserving = {} /\ \A a \in Artifacts : ~cleaner[a].on
        /\ Enqueue(Rows(clearing.rows), Due)
        /\ ReturnUnits(Rows(clearing.rows))
        /\ stray' = stray \cup {<<k, file[k]>> : k \in missed}
        /\ conv' = "gone"
        /\ run' = [a \in Artifacts |-> "gone"]
        /\ art' = [a \in Artifacts |-> "none"]
        /\ file' = WithoutFiles(Keys)
        /\ clearing' = [on |-> FALSE, rows |-> {}]
        /\ UNCHANGED <<account, old, object, maker, signal, cleaner, hold>>

ClearAbort ==
    /\ clearing.on
    /\ clearing' = [on |-> FALSE, rows |-> {}]
    /\ UNCHANGED <<dbVars, old, object, job, maker, signal, cleaner, hold>>

\* prepareUserDeletion waits for everyone who holds the user row.
PrepareUserDeletion ==
    /\ account = "active" /\ Creating = {} /\ Reserving = {} /\ clearing.rows = {}
    /\ \A a \in Artifacts : ~cleaner[a].on
    /\ account' = "deleting"
    /\ Enqueue(Rows(Artifacts), Due)
    /\ UNCHANGED <<conv, run, art, file, used, reserved, stray, old, object, maker, signal,
                   cleaner, clearing, hold>>

DeleteUser ==
    /\ account = "deleting" /\ ~clearing.on
    /\ account' = "deleted" /\ conv' = "gone"
    /\ run' = [a \in Artifacts |-> "gone"]
    /\ art' = [a \in Artifacts |-> "none"]
    /\ file' = WithoutFiles(Keys)
    /\ used' = 0 /\ reserved' = 0
    /\ UNCHANGED <<stray, old, object, job, maker, signal, cleaner, clearing, hold>>
-----------------------------------------------------------------------------

\* An hour passes; no upload to the store takes that long.
Tick(k) ==
    /\ job[k].status = "queued" /\ job[k].due = "late" /\ ~old[k]
    /\ ~(Pc(k[1], "put") /\ Current(k[1]) = k)
    /\ old' = [old EXCEPT ![k] = TRUE]
    /\ UNCHANGED <<dbVars, object, job, maker, signal, cleaner, clearing, hold>>

\* CLAIM_DELETION_SQL.
ClaimDeletion(w, k) ==
    /\ hold[w].task = "none"
    /\ job[k].status = "queued" /\ (job[k].due = "late" => old[k])
    /\ job' = [job EXCEPT ![k].status = "running", ![k].token = w]
    /\ hold' = [hold EXCEPT ![w] = [task |-> "delete", key |-> k]]
    /\ UNCHANGED <<dbVars, old, object, maker, signal, cleaner, clearing>>

DeleteObject(w) ==
    /\ hold[w].task = "delete"
    /\ \/ /\ object' = [object EXCEPT ![hold[w].key] = FALSE]
          /\ hold' = [hold EXCEPT ![w].task = "deleted"]
       \/ UNCHANGED object /\ hold' = [hold EXCEPT ![w].task = "failed"]
    /\ UNCHANGED <<dbVars, old, job, maker, signal, cleaner, clearing>>

\* The fence of markDeletionSucceeded and markDeletionFailed: a job that was queued
\* again meanwhile has lost this lease.
JobLease(w) == job[hold[w].key].status = "running" /\ job[hold[w].key].token = w

MarkDeletion(w) ==
    /\ hold[w].task \in {"deleted", "failed"}
    /\ hold' = [hold EXCEPT ![w] = NoHold]
    /\ IF JobLease(w)
       THEN \E st \in IF hold[w].task = "deleted" THEN {"succeeded"} ELSE {"queued", "failed"} :
               job' = [job EXCEPT ![hold[w].key] = [status |-> st, due |-> "now", token |-> None]]
       ELSE UNCHANGED job
    /\ UNCHANGED <<dbVars, old, object, maker, signal, cleaner, clearing>>
-----------------------------------------------------------------------------

MakerStep(a) ==
    \/ CreateCheck(a)
    \/ CreateCommit(a)
    \/ CreateRefused(a)
    \/ Boundary(a)
    \/ ReserveLock(a)
    \/ ReserveCommit(a)
    \/ Put(a)
    \/ CommitFile(a)
    \/ AbortFile(a)
    \/ CompleteArtifact(a)
    \/ Return(a)
    \/ FailArtifact(a)
    \/ DeleteDirect(a)
    \/ Abort(a)
    \/ Crash(a)

RunStep(a) ==
    \/ AnswerRun(a)
    \/ \E by \in {"handler", "recovery"} : CleanupStart(a, by)
    \/ CleanupFinish(a)
    \/ CleanupRollback(a)

AccountStep ==
    \/ DeleteConversation
    \/ ClearSelect
    \/ ClearCommit
    \/ ClearAbort
    \/ PrepareUserDeletion
    \/ DeleteUser

WorkerStep(w) ==
    \/ \E k \in Keys : ClaimDeletion(w, k)
    \/ DeleteObject(w)
    \/ MarkDeletion(w)

Next ==
    \/ \E a \in Artifacts : MakerStep(a)
    \/ \E a \in Artifacts : RunStep(a)
    \/ \E w \in Workers : WorkerStep(w)
    \/ \E k \in Keys : Tick(k)
    \/ AccountStep

Spec == Init /\ [][Next]_vars
-----------------------------------------------------------------------------

\* Every variable stays in its domain; the byte counters never become negative.
TypeOK ==
    /\ account \in {"active", "deleting", "deleted"} /\ conv \in {"open", "gone"}
    /\ run \in [Artifacts -> {"running", "answered", "failed", "gone"}]
    /\ art \in [Artifacts -> {"none", "generating", "ready", "failed"}]
    /\ file \in [Keys -> {"none", "reserved", "committed"}]
    /\ used \in Nat /\ reserved \in Nat
    /\ \A k \in Keys : job[k].status \in {"none", "queued", "running", "succeeded", "failed"}
    /\ \A a \in Artifacts : maker[a].left \subseteq Formats /\ maker[a].doomed \subseteq Keys

StrayUnits(q) == Cardinality({x \in stray : x[2] = q})

\* The bytes charged for artifacts are what the file rows hold, whichever of the
\* tool call, the settlement of the run, recovery and deletion removes them; only
\* rows that clearConversationData and the settlement of a run remove without
\* having seen them stay charged.
AccountMatchesRows ==
    account # "deleted" =>
        /\ reserved = Count(Keys, "reserved") + StrayUnits("reserved")
        /\ used = Count(Keys, "committed") + StrayUnits("committed")

\* An artifact shown as ready can be downloaded in every format, and an answer that
\* was stored has such an artifact: no deletion job, cleanup or late failure path
\* takes an object of it away.
ReadyIsDownloadable ==
    account = "active" => \A a \in Artifacts :
        /\ art[a] = "ready" => \A k \in KeysOf(a) : file[k] = "committed" /\ object[k]
        /\ run[a] = "answered" /\ art[a] # "none" => art[a] = "ready"

\* A tool call that ended, and whose cleanup calls were answered, leaves no object
\* without a row or a job that will delete it, even when the object was stored
\* after the run was cleaned up and its first deletion job had finished.
NoOrphanObject ==
    \A k \in Keys :
        /\ object[k] /\ file[k] = "none" /\ k \notin {x[1] : x \in stray}
        /\ Pc(k[1], "done") /\ ~maker[k[1]].broken
        => job[k].status \in {"queued", "running", "failed"}

\* "A failed, cancelled, or timed-out run also [...] releases committed/reserved
\* storage bytes" (docs/agent-v3-artifacts.md): once every run has failed, every
\* tool call is over and no file is left, nothing is charged.
FailedRunReleasesBytes ==
    /\ \A a \in Artifacts : run[a] = "failed" /\ maker[a].pc \in {"done", "dead"}
    /\ \A k \in Keys : file[k] = "none"
    => used = 0 /\ reserved = 0

\* "... and queues object deletion" (same sentence): a failed run whose tool call
\* is over keeps no file.
FailedRunKeepsNoFile ==
    \A a \in Artifacts :
        run[a] = "failed" /\ maker[a].pc \in {"done", "dead"} => Rows({a}) = {}
=============================================================================
