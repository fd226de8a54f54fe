------------------------------ MODULE AgentRun ------------------------------
(***************************************************************************)
(* The life of an answer run of one account: the HTTP handlers of          *)
(* http-v2.ts, the run store, cancellation, the stream, and the recovery   *)
(* pass of retention.ts, interleaved transaction by transaction.           *)
(*                                                                         *)
(* A handler is one POST; the run it may create has the handler's name and *)
(* the turn of an initial run has the name of that run.  The two quota     *)
(* leases of a client request behave as in module Lease, which QuotaLedger *)
(* implements.  A process may be paused for any time, so a run or a lease  *)
(* may be older than the stale threshold whenever recovery looks at it,    *)
(* even while its handler is alive.  A call that fails may do so before or *)
(* after its transaction committed (a lost acknowledgement).  The locals   *)
(* of a handler that ended are reset.                                      *)
(***************************************************************************)
EXTENDS Integers, FiniteSets

CONSTANTS
    Handlers,       \* POST requests, and the runs and turns they create
    Keys,           \* client request identifiers
    Conversations,  \* conversations of the account
    None,           \* no conversation, turn or run
    MaxRecoveryBatch \* orphaned leases a recovery pass has in hand at a time

ASSUME AgentRunConstants ==
    /\ None \notin Handlers \cup Keys \cup Conversations
    /\ MaxRecoveryBatch \in Nat \ {0}

VARIABLES
    account,   \* "active", "deleting" or "deleted"
    lease,     \* lease[k][r]: aggregate status of the lease of key k for r
    run,       \* run[h]: the agent_run row
    selected,  \* selected[t]: selectedRunId of turn t
    pc,        \* pc[h]: where handler h is
    req,       \* req[h]: what handler h was asked
    todo,      \* todo[h]: settlements still in flight (Promise.allSettled)
    clean,     \* clean[h]: every settlement so far ended as expected
    signal,    \* signal[h]: "quiet", "due" (cancellation accepted, abort not yet
               \* called) or "aborted"
    told,      \* told[h]: what the client was told at the end
    orphans    \* leases a recovery pass read as orphaned and has yet to release

runVars     == <<run, selected>>
handlerVars == <<pc, req, todo, clean, signal, told>>
vars == <<account, lease, runVars, handlerVars, orphans>>

Resources == {"answer", "model_attempt"}
Leases    == Keys \X Resources
Active    == {"running"}
Terminal  == {"completed", "incomplete", "failed", "cancelled"}
Actions   == {"initial", "retry", "continue", "regenerate"}
LeaseStatus == {"none", "reserved", "committed", "released"}

NoRun == [status |-> "none", key |-> None, conv |-> None, turn |-> None, version |-> 0,
          cancel |-> FALSE, settled |-> FALSE, quota |-> "none"]
NoReq == [key |-> None, conv |-> None, turn |-> None, action |-> "initial"]

RunsOfTurn(t)   == {h \in Handlers : run[h].status # "none" /\ run[h].turn = t}
LatestRun(t)    == CHOOSE h \in RunsOfTurn(t) :
                      \A g \in RunsOfTurn(t) : run[g].version <= run[h].version

\* findRunByClientRequest and findActiveRun.
RunsWithKey(k)  == {h \in Handlers : run[h].status # "none" /\ run[h].key = k}
ActiveRuns(c)   == {h \in Handlers : run[h].status \in Active /\ run[h].conv = c}

-----------------------------------------------------------------------------
\* A run left behind by the migration that introduced settlement: terminal, its
\* settlement pending and its lease still reserved.
LegacyRun(h, k, c, st) ==
    [status |-> st, key |-> k, conv |-> c, turn |-> h, version |-> 1,
     cancel |-> FALSE, settled |-> FALSE, quota |-> "reserved"]

Fresh ==
    /\ run = [h \in Handlers |-> NoRun]
    /\ lease = [k \in Keys |-> [r \in Resources |-> "none"]]
    /\ pc = [h \in Handlers |-> "idle"]

Migrated ==
    \E g \in Handlers, k \in Keys, c \in Conversations, st \in Terminal :
        /\ run = [h \in Handlers |-> IF h = g THEN LegacyRun(g, k, c, st) ELSE NoRun]
        /\ lease = [j \in Keys |-> [r \in Resources |->
                       IF j # k THEN "none" ELSE IF r = "answer" THEN "reserved" ELSE "committed"]]
        /\ pc = [h \in Handlers |-> IF h = g THEN "dead" ELSE "idle"]

Init ==
    /\ Fresh \/ Migrated
    /\ account = "active"
    /\ selected = [t \in Handlers |-> IF run[t].status = "completed" THEN t ELSE None]
    /\ req = [h \in Handlers |-> NoReq]
    /\ todo = [h \in Handlers |-> {}]
    /\ clean = [h \in Handlers |-> TRUE]
    /\ signal = [h \in Handlers |-> "quiet"]
    /\ told = [h \in Handlers |-> "nothing"]
    /\ orphans = {}

-----------------------------------------------------------------------------
\* transitionQuotaReservation on an aggregate: a settled lease keeps its status,
\* a lease without rows raises QuotaReservationNotFoundError.
SettledAgain(st, target) == IF st = "none" THEN st ELSE target
Settled(st, target) == IF st = "reserved" THEN target ELSE st

Answer(h) == lease[req[h].key]["answer"]
Model(h)  == lease[req[h].key]["model_attempt"]

SetLease(k, r, st) == lease' = [lease EXCEPT ![k][r] = st]

GoTo(h, label) == pc' = [pc EXCEPT ![h] = label]

Continue(h, label) == GoTo(h, label) /\ UNCHANGED <<req, told, todo, clean, signal>>

\* The handler answers and ends, or dies without a word.
End(h, label, what) ==
    /\ GoTo(h, label)
    /\ req' = [req EXCEPT ![h] = [NoReq EXCEPT !.key = req[h].key]]
    /\ told' = [told EXCEPT ![h] = what]
    /\ todo' = [todo EXCEPT ![h] = {}]
    /\ clean' = [clean EXCEPT ![h] = TRUE]
    /\ signal' = [signal EXCEPT ![h] = "quiet"]
Tell(h, what) == End(h, "done", what)

-----------------------------------------------------------------------------
\* postAgentV3 / postAgentActionV3 up to lookupClientRequest: the account check,
\* an earlier run of the same client request, the turn of an action.
Start(h, k, c, t, a) ==
    /\ pc[h] = "idle"
    /\ IF a = "initial" THEN t = None ELSE t \in Handlers /\ RunsOfTurn(t) # {} /\ run[t].conv = c
    /\ IF account # "active" \/ RunsWithKey(k) # {}
       THEN Tell(h, "refused")
       ELSE /\ GoTo(h, "reserveAnswer")
            /\ req' = [req EXCEPT ![h] = [key |-> k, conv |-> c, turn |-> t, action |-> a]]
            /\ UNCHANGED <<told, todo, clean, signal>>
    /\ UNCHANGED <<account, lease, runVars, orphans>>

\* reserveRunQuotas, the answer lease: refused for a closed account, a reused
\* request, an exhausted quota or a failed call (then its lease may be orphaned).
ReserveAnswer(h) ==
    /\ pc[h] = "reserveAnswer"
    /\ \/ /\ account = "active" /\ Answer(h) = "none"
          /\ SetLease(req[h].key, "answer", "reserved")
          /\ Continue(h, "reserveModel") \/ Tell(h, "refused")
       \/ Tell(h, "refused") /\ UNCHANGED lease
    /\ UNCHANGED <<account, runVars, orphans>>

\* Go on, or leave for the settlements in ops, all started before any is awaited.
Proceed(h, label) == GoTo(h, label) /\ UNCHANGED todo
Settle(h, label, ops) == GoTo(h, label) /\ todo' = [todo EXCEPT ![h] = ops]

\* reserveRunQuotas, the model attempt: any failure releases the answer lease.
ReserveModel(h) ==
    /\ pc[h] = "reserveModel"
    /\ \/ /\ account = "active" /\ Model(h) = "none"
          /\ SetLease(req[h].key, "model_attempt", "reserved")
          /\ Proceed(h, "create") \/ Settle(h, "undo", {"answer"})
       \/ Settle(h, "undo", {"answer"}) /\ UNCHANGED lease
    /\ UNCHANGED <<account, runVars, req, clean, signal, told, orphans>>

\* createAction: what the latest version of the turn allows.
ActionAllowed(a, st) ==
    \/ a = "retry" /\ st \in {"failed", "cancelled"}
    \/ a = "continue" /\ st = "incomplete"
    \/ a = "regenerate" /\ st = "completed"

\* findActiveRun under the conversation lock: one answer at a time.
BusyTurnOnly(h) == \E g \in ActiveRuns(req[h].conv) : run[g].turn = req[h].turn
Busy(h) == ActiveRuns(req[h].conv) # {}

Creatable(h) ==
    /\ account = "active"
    /\ RunsWithKey(req[h].key) = {}
    /\ ~Busy(h)
    /\ req[h].action # "initial" =>
          /\ RunsOfTurn(req[h].turn) # {}
          /\ ActionAllowed(req[h].action, run[LatestRun(req[h].turn)].status)

NewRun(h) ==
    [status |-> "running", key |-> req[h].key, conv |-> req[h].conv,
     turn |-> IF req[h].action = "initial" THEN h ELSE req[h].turn,
     version |-> IF req[h].action = "initial" THEN 1 ELSE run[LatestRun(req[h].turn)].version + 1,
     cancel |-> FALSE, settled |-> FALSE, quota |-> "reserved"]

\* createInitial and createAction; releaseRunReservations follows when no run was
\* created, or when the call failed.
Create(h) ==
    /\ pc[h] = "create"
    /\ \/ /\ Creatable(h)
          /\ run' = [run EXCEPT ![h] = NewRun(h)]
          /\ Proceed(h, "bind") \/ Settle(h, "undo", Resources)
       \/ Settle(h, "undo", Resources) /\ UNCHANGED run
    /\ UNCHANGED <<account, lease, selected, req, clean, signal, told, orphans>>

\* bindToMessage and createDeepSeekUserPartition; a failure settles the run and
\* the model attempt (settleCreatedRunFailure).
Bind(h) ==
    /\ pc[h] = "bind"
    /\ Proceed(h, "commitModel") \/ Settle(h, "settle", {"run", "model_attempt"})
    /\ UNCHANGED <<account, lease, runVars, req, clean, signal, told, orphans>>

\* The status the model attempt must have before the model is called.
Paid(st) == st = "committed"

\* The model attempt is paid for, then the stream starts.
CommitModel(h) ==
    /\ pc[h] = "commitModel"
    /\ \/ /\ Model(h) # "none"
          /\ SetLease(req[h].key, "model_attempt", Settled(Model(h), "committed"))
          /\ \/ Paid(Settled(Model(h), "committed")) /\ Proceed(h, "stream")
             \/ Settle(h, "settle", {"run", "model_attempt"})
       \/ Settle(h, "settle", {"run", "model_attempt"}) /\ UNCHANGED lease
    /\ UNCHANGED <<account, runVars, req, clean, signal, told, orphans>>

\* One releaseQuota of an allSettled: its outcome is clean when the lease ended
\* released; a failed call may or may not have taken effect.
ReleaseLease(h, r) ==
    LET final == Settled(lease[req[h].key][r], "released")
    IN  /\ pc[h] \in {"undo", "settle"}
        /\ r \in todo[h] \cap Resources
        /\ \/ SetLease(req[h].key, r, final) /\ clean' = [clean EXCEPT ![h] = @ /\ final = "released"]
           \/ SetLease(req[h].key, r, final) /\ clean' = [clean EXCEPT ![h] = FALSE]
           \/ UNCHANGED lease /\ clean' = [clean EXCEPT ![h] = FALSE]
        /\ todo' = [todo EXCEPT ![h] = @ \ {r}]
        /\ UNCHANGED <<account, runVars, pc, req, signal, told, orphans>>

-----------------------------------------------------------------------------
\* settleAnswerQuotaInTransaction: the lease must end with the status expected
\* of the run, otherwise the surrounding transaction rolls back.
Expected(st) == IF st = "completed" THEN "committed" ELSE "released"
CanSettleAnyway(k, st) == TRUE
CanSettle(k, st) == Settled(lease[k]["answer"], Expected(st)) = Expected(st)

\* The run row and its lease after a settlement with status st.
SettleRun(h, st) ==
    /\ run' = [run EXCEPT ![h].status = st, ![h].settled = TRUE, ![h].quota = Expected(st)]
    /\ SetLease(run[h].key, "answer", Settled(lease[run[h].key]["answer"], Expected(st)))

\* RunStore.fail: settles a running run; a run that another path failed and
\* released already counts as settled; anything else is RUN_NOT_FAILABLE.
FailSettles(h, st) == run[h].status \in Active /\ CanSettle(run[h].key, st) /\ SettleRun(h, st)
AlreadyTerminal(h) == run[h].status \in Terminal
AlreadyReleased(h) ==
    /\ run[h].status \in {"failed", "cancelled"} /\ run[h].settled /\ run[h].quota = "released"

\* store.fail within settleCreatedRunFailure.
FailCreatedRun(h) ==
    /\ pc[h] = "settle" /\ "run" \in todo[h]
    /\ \/ FailSettles(h, "failed") /\ UNCHANGED clean
       \/ AlreadyReleased(h) /\ UNCHANGED <<run, lease, clean>>
       \/ FailSettles(h, "failed") /\ clean' = [clean EXCEPT ![h] = FALSE]
       \/ UNCHANGED <<run, lease>> /\ clean' = [clean EXCEPT ![h] = FALSE]
    /\ todo' = [todo EXCEPT ![h] = @ \ {"run"}]
    /\ UNCHANGED <<account, selected, pc, req, signal, told, orphans>>

\* All settlements are back: a definite answer, or RUN_SETTLEMENT_PENDING.
EndSettlement(h) ==
    /\ pc[h] \in {"undo", "settle"} /\ todo[h] = {}
    /\ Tell(h, IF clean[h] THEN "released" ELSE "pending")
    /\ UNCHANGED <<account, lease, runVars, orphans>>

-----------------------------------------------------------------------------
\* RunStore.complete: refused for a closed account, a run that is no longer
\* running, or a run whose cancellation was accepted.
Completable(h) == account = "active" /\ run[h].status \in Active /\ ~run[h].cancel

SelectAlways(h, st) == selected' = [selected EXCEPT ![run[h].turn] = h]
Select(h, st) ==
    selected' = IF st = "completed" THEN [selected EXCEPT ![run[h].turn] = h] ELSE selected

\* The catch block of streamRun reads the signal once, when the error arrives.
Catch(h) == Continue(h, IF signal[h] = "aborted" THEN "failCancelled" ELSE "failFailed")

\* The orchestrator stored its answer.
Complete(h, st) ==
    /\ pc[h] = "stream"
    /\ Completable(h) /\ CanSettle(run[h].key, st)
    /\ SettleRun(h, st)
    /\ Select(h, st)
    /\ Tell(h, st) \/ Catch(h)
    /\ UNCHANGED <<account, orphans>>

\* The orchestrator threw: model, tool, validation, timeout, abort, or a refused
\* complete.
StreamError(h) ==
    /\ pc[h] = "stream"
    /\ Catch(h)
    /\ UNCHANGED <<account, lease, runVars, orphans>>

\* The catch block of streamRun settles the run and tells the client.
FailStream(h) ==
    LET st == IF pc[h] = "failCancelled" THEN "cancelled" ELSE "failed"
    IN  /\ pc[h] \in {"failCancelled", "failFailed"}
        /\ \/ FailSettles(h, st) /\ (Tell(h, st) \/ Tell(h, "pending"))
           \/ AlreadyReleased(h) /\ Tell(h, st) /\ UNCHANGED <<run, lease>>
           \/ Tell(h, "pending") /\ UNCHANGED <<run, lease>>
        /\ UNCHANGED <<account, selected, orphans>>

-----------------------------------------------------------------------------
\* requestCancellation, the transaction ...
Cancel(h) ==
    /\ run[h].status \in Active
    /\ run' = [run EXCEPT ![h].cancel = TRUE]
    /\ signal' = [signal EXCEPT ![h] =
                    IF @ = "quiet" /\ pc[h] \notin {"done", "dead"} THEN "due" ELSE @]
    /\ UNCHANGED <<account, lease, selected, pc, req, todo, clean, told, orphans>>

\* ... and the abort that follows it.  The controller is registered while the run
\* streams; before that nobody listens.
SignalAbort(h) ==
    /\ signal[h] = "due"
    /\ signal' = [signal EXCEPT ![h] = IF pc[h] = "stream" THEN "aborted" ELSE "quiet"]
    /\ UNCHANGED <<account, lease, runVars, pc, req, todo, clean, told, orphans>>

\* The client disconnects (request.signal, or the stream's cancel callback); an
\* earlier disconnect is first seen by the stream.
Disconnect(h) ==
    /\ pc[h] = "stream" /\ signal[h] # "aborted"
    /\ signal' = [signal EXCEPT ![h] = "aborted"]
    /\ UNCHANGED <<account, lease, runVars, pc, req, todo, clean, told, orphans>>

\* The process ends in the middle of a handler.
Crash(h) ==
    /\ pc[h] \notin {"idle", "done", "dead"}
    /\ End(h, "dead", "nothing")
    /\ UNCHANGED <<account, lease, runVars, orphans>>

-----------------------------------------------------------------------------
\* recoverStaleAgentRuns, one candidate: every condition is read again under
\* the conversation lock, so only the state at that moment matters.
WasInterruptedUncancelled(h) == run[h].status \in Active /\ ~run[h].cancel
WasInterrupted(h) == run[h].status \in Active
NeedsTerminalSettlement(h) == run[h].status \in Terminal /\ ~run[h].settled

RecoverRun(h) ==
    LET st == IF WasInterrupted(h) THEN "failed" ELSE run[h].status
    IN  /\ WasInterrupted(h) \/ NeedsTerminalSettlement(h)
        /\ CanSettle(run[h].key, st)
        /\ SettleRun(h, st)
        /\ UNCHANGED <<account, selected, handlerVars, orphans>>

\* recoverStaleAgentRuns, the orphan query: read once, outside any transaction.
OrphanedModelOnly(k, r) == lease[k][r] = "reserved" /\ r # "answer"
Orphaned(k, r) == lease[k][r] = "reserved" /\ (r = "answer" => RunsWithKey(k) = {})

ScanOrphans(k, r) ==
    /\ Orphaned(k, r) /\ <<k, r>> \notin orphans
    /\ Cardinality(orphans) < MaxRecoveryBatch
    /\ orphans' = orphans \cup {<<k, r>>}
    /\ UNCHANGED <<account, lease, runVars, handlerVars>>

\* The release that follows does not look at the runs again; the transaction
\* rolls back when the lease is gone or was committed meanwhile.
ReleaseOrphan(k, r) ==
    /\ <<k, r>> \in orphans
    /\ orphans' = orphans \ {<<k, r>>}
    /\ SetLease(k, r, Settled(lease[k][r], "released"))
    /\ UNCHANGED <<account, runVars, handlerVars>>

-----------------------------------------------------------------------------
\* prepareUserDeletion: the rows of the answer leases go with the user-scoped
\* bucket, the global row of a model attempt is released.
PrepareUserDeletion ==
    /\ account = "active"
    /\ account' = "deleting"
    /\ lease' = [k \in Keys |-> [r \in Resources |->
                    IF r = "answer" THEN "none" ELSE Settled(lease[k][r], "released")]]
    /\ UNCHANGED <<runVars, handlerVars, orphans>>

\* Better Auth removes the user; runs, turns and ledger rows cascade.
DeleteUser ==
    /\ account = "deleting"
    /\ account' = "deleted"
    /\ lease' = [k \in Keys |-> [r \in Resources |-> "none"]]
    /\ run' = [h \in Handlers |-> NoRun]
    /\ selected' = [t \in Handlers |-> None]
    /\ UNCHANGED <<handlerVars, orphans>>

HandlerStep(h) ==
    \/ ReserveAnswer(h)
    \/ ReserveModel(h)
    \/ Create(h)
    \/ Bind(h)
    \/ CommitModel(h)
    \/ \E r \in Resources : ReleaseLease(h, r)
    \/ FailCreatedRun(h)
    \/ EndSettlement(h)
    \/ \E st \in {"completed", "incomplete"} : Complete(h, st)
    \/ StreamError(h)
    \/ FailStream(h)

ClientStep(h) ==
    \/ \E k \in Keys, c \in Conversations, t \in Handlers \cup {None}, a \in Actions :
          Start(h, k, c, t, a)
    \/ Cancel(h)
    \/ SignalAbort(h)
    \/ Disconnect(h)
    \/ Crash(h)

RecoveryStep ==
    \/ \E h \in Handlers : RecoverRun(h)
    \/ \E k \in Keys, r \in Resources : ScanOrphans(k, r)
    \/ \E k \in Keys, r \in Resources : ReleaseOrphan(k, r)

Next ==
    \/ \E h \in Handlers : HandlerStep(h)
    \/ \E h \in Handlers : ClientStep(h)
    \/ RecoveryStep
    \/ PrepareUserDeletion
    \/ DeleteUser

Spec == Init /\ [][Next]_vars

\* The worker keeps running recovery passes and time passes between them, so
\* what stays recoverable is recovered.  Handlers may be cut off at any point:
\* nothing is assumed of them, nor of clients.
Fairness ==
    /\ \A h \in Handlers : WF_vars(RecoverRun(h))
    /\ \A k \in Keys, r \in Resources : WF_vars(ScanOrphans(k, r)) /\ WF_vars(ReleaseOrphan(k, r))

FairSpec == Spec /\ Fairness
-----------------------------------------------------------------------------

RunRow == [status : {"none"} \cup Active \cup Terminal, key : Keys \cup {None},
           conv : Conversations \cup {None}, turn : Handlers \cup {None},
           version : Nat, cancel : BOOLEAN, settled : BOOLEAN, quota : LeaseStatus]

\* Every variable stays in its domain; the quota column of a run only ever holds
\* a status of a lease.
TypeOK ==
    /\ account \in {"active", "deleting", "deleted"}
    /\ lease \in [Keys -> [Resources -> LeaseStatus]]
    /\ orphans \subseteq Leases
    /\ run \in [Handlers -> RunRow]
    /\ selected \in [Handlers -> Handlers \cup {None}]
    /\ pc \in [Handlers -> {"idle", "reserveAnswer", "reserveModel", "create", "bind", "commitModel",
                            "stream", "undo", "settle", "failCancelled", "failFailed", "done", "dead"}]
    /\ req \in [Handlers -> [key : Keys \cup {None}, conv : Conversations \cup {None},
                             turn : Handlers \cup {None}, action : Actions]]
    /\ todo \in [Handlers -> SUBSET (Resources \cup {"run"})]
    /\ clean \in [Handlers -> BOOLEAN]
    /\ signal \in [Handlers -> {"quiet", "due", "aborted"}]
    /\ told \in [Handlers -> {"nothing", "refused", "released", "pending", "completed",
                              "incomplete", "cancelled", "failed"}]

\* An answer is charged exactly when it was delivered: a committed answer lease
\* belongs to a completed run, and a settled run agrees with its lease, whatever
\* recovery, cancellation and failing handlers did in between.
ChargeMatchesAnswer ==
    /\ \A k \in Keys : lease[k]["answer"] = "committed" =>
          \E h \in Handlers : run[h].key = k /\ run[h].status = "completed" /\ run[h].settled
    /\ \A h \in Handlers : run[h].settled /\ account = "active" =>
          /\ run[h].quota = Expected(run[h].status)
          /\ lease[run[h].key]["answer"] = run[h].quota

\* A conversation never has two runs in progress.
OneAnswerAtATime ==
    \A c \in Conversations : \A g, h \in ActiveRuns(c) : g = h

\* The selected run of a turn is its newest completed version.
SelectedIsNewestCompleted ==
    \A t \in Handlers :
        LET done == {h \in RunsOfTurn(t) : run[h].status = "completed"}
        IN  IF done = {} THEN selected[t] = None
            ELSE selected[t] \in done /\ \A h \in done : run[h].version <= run[selected[t]].version

\* What the client was told at the end is what happened: an answer was stored
\* and charged, or nothing is charged and the run is over.
ToldTheTruth ==
    account = "active" => \A h \in Handlers :
        /\ told[h] = "completed" => run[h].status = "completed" /\ Answer(h) = "committed"
        /\ told[h] = "incomplete" => run[h].status = "incomplete" /\ Answer(h) = "released"
        /\ told[h] \in {"failed", "cancelled"} =>
              run[h].status \in {"failed", "cancelled"} /\ Answer(h) = "released"
        /\ told[h] = "released" => Answer(h) = "released"

\* The leases of the account under the names module Lease gives them.
Promise == INSTANCE Lease WITH
    Users <- {"account"}, Requests <- Keys,
    account <- [u \in {"account"} |-> account],
    lease <- [l \in {"account"} \X Resources \X Keys |-> lease[l[3]][l[2]]]

\* Handlers, failure paths and recovery use the quota component as it may be used:
\* no step of theirs needs a lease to do what QuotaLedger would not do.
UsesLeases == Promise!Spec

\* Every reserved lease is eventually committed, released or removed: a crashed
\* or failing handler never holds quota for ever.
LeasesSettle ==
    \A k \in Keys, r \in Resources : lease[k][r] = "reserved" ~> lease[k][r] # "reserved"

\* Every run eventually ends and is settled, unless its account is being deleted.
RunsSettle ==
    \A h \in Handlers : run[h].status # "none" ~>
        (account # "active" \/ (run[h].status \in Terminal /\ run[h].settled))
=============================================================================
