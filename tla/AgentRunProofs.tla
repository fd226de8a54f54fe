--------------------------- MODULE AgentRunProofs ---------------------------
(***************************************************************************)
(* Proofs about AgentRun for any number of requests, client identifiers    *)
(* and conversations: what is charged is what was delivered, one answer at *)
(* a time, the selected version, what the client is told, and that the     *)
(* handlers use quota leases as module Lease allows.                       *)
(***************************************************************************)
EXTENDS AgentRun, TLAPS

Exists(h) == run[h].status # "none"

\* A run row names its request, its conversation and its turn.
RowsNamed ==
    \A h \in Handlers : Exists(h) =>
        run[h].key \in Keys /\ run[h].conv \in Conversations /\ run[h].turn \in Handlers

\* The rows and leases by themselves.  A turn is named by its first run.
SettledIsOver == \A h \in Handlers : run[h].settled => run[h].status \in Terminal
ClosedHoldsNoAnswer == account # "active" => \A k \in Keys : lease[k]["answer"] = "none"
TurnHasFirstRun ==
    \A h \in Handlers : Exists(h) =>
        /\ Exists(run[h].turn) /\ run[run[h].turn].turn = run[h].turn
        /\ run[run[h].turn].conv = run[h].conv
TurnHasLatest ==
    \A t \in Handlers : RunsOfTurn(t) # {} =>
        \E h \in RunsOfTurn(t) : \A g \in RunsOfTurn(t) : run[g].version <= run[h].version
ActiveIsNewest ==
    \A g, h \in Handlers :
        (run[g].status \in Active /\ Exists(h) /\ run[h].turn = run[g].turn /\ g # h)
            => run[h].version < run[g].version

RowsOK ==
    /\ RowsNamed /\ SettledIsOver /\ ClosedHoldsNoAnswer
    /\ TurnHasFirstRun /\ TurnHasLatest /\ ActiveIsNewest
    /\ ChargeMatchesAnswer /\ OneAnswerAtATime /\ SelectedIsNewestCompleted

\* What a handler knows.  Until it creates its run there is none of its name;
\* what it asked for stays valid; the run it created carries its request (only
\* a run inherited from the migration has no handler).
Early == {"reserveAnswer", "reserveModel", "create"}
NotYetCreated(h) == pc[h] \in Early \cup {"idle"} => ~Exists(h)
HasKey(h) ==
    (pc[h] \notin {"idle", "done", "dead"} \/ told[h] \notin {"nothing", "refused"}) => req[h].key \in Keys
Asked(h) ==
    pc[h] \in Early =>
        /\ req[h].conv \in Conversations
        /\ (req[h].action # "initial" /\ account = "active") =>
              /\ req[h].turn \in Handlers /\ Exists(req[h].turn)
              /\ run[req[h].turn].turn = req[h].turn /\ run[req[h].turn].conv = req[h].conv
OwnRun(h) == Exists(h) => run[h].key = req[h].key \/ pc[h] = "dead"
ToldAtTheEnd(h) == told[h] # "nothing" => pc[h] = "done"

\* Clean settlements leave the answer lease released, once nothing that may
\* release it is in flight.
CleanMeansReleased(h) ==
    (account = "active" /\ pc[h] \in {"undo", "settle"} /\ clean[h] /\ todo[h] \cap {"answer", "run"} = {})
        => Answer(h) = "released"
IsTrue(h, what) ==
    account = "active" =>
        /\ what = "completed" => run[h].status = "completed" /\ Answer(h) = "committed"
        /\ what = "incomplete" => run[h].status = "incomplete" /\ Answer(h) = "released"
        /\ what \in {"failed", "cancelled"} =>
              run[h].status \in {"failed", "cancelled"} /\ Answer(h) = "released"
        /\ what = "released" => Answer(h) = "released"
Truth(h) == IsTrue(h, told[h])

HandlerOK(h) ==
    /\ NotYetCreated(h) /\ HasKey(h) /\ Asked(h) /\ OwnRun(h) /\ ToldAtTheEnd(h)
    /\ CleanMeansReleased(h) /\ Truth(h)
HandlersOK == \A h \in Handlers : HandlerOK(h)

IInv == TypeOK /\ RowsOK /\ HandlersOK
-----------------------------------------------------------------------------
\* The latest version of a turn is one of its runs, and no other is newer.
LEMMA LatestIsNewest ==
    ASSUME TurnHasLatest, NEW t \in Handlers, RunsOfTurn(t) # {}
    PROVE  /\ LatestRun(t) \in RunsOfTurn(t)
           /\ \A g \in RunsOfTurn(t) : run[g].version <= run[LatestRun(t)].version
BY DEF TurnHasLatest, LatestRun

\* What a settlement of one run writes.
LEMMA SettleRunWrites ==
    ASSUME TypeOK, RowsNamed, NEW h \in Handlers, NEW st \in Terminal, Exists(h), SettleRun(h, st)
    PROVE  /\ run' \in [Handlers -> RunRow]
           /\ run' = [run EXCEPT ![h].status = st, ![h].settled = TRUE, ![h].quota = Expected(st)]
           /\ lease' \in [Keys -> [Resources -> LeaseStatus]]
           /\ lease' = [lease EXCEPT ![run[h].key]["answer"] =
                           Settled(lease[run[h].key]["answer"], Expected(st))]
           /\ run[h].key \in Keys
<1>1. run[h].key \in Keys
  BY DEF RowsNamed
<1>2. run' = [run EXCEPT ![h].status = st, ![h].settled = TRUE, ![h].quota = Expected(st)]
  BY DEF SettleRun
<1>3. run \in [Handlers -> RunRow] /\ Expected(st) \in LeaseStatus
  BY DEF TypeOK, Expected, LeaseStatus
<1>4. run' \in [Handlers -> RunRow]
  <2>1. st \in {"none"} \cup Active \cup Terminal
    OBVIOUS
  <2>2. [run[h] EXCEPT !.status = st, !.settled = TRUE, !.quota = Expected(st)] \in RunRow
    BY <1>3, <2>1 DEF RunRow
  <2>3. run' = [run EXCEPT ![h] = [run[h] EXCEPT !.status = st, !.settled = TRUE, !.quota = Expected(st)]]
    BY <1>2, <1>3
  <2> QED
    BY <1>3, <2>2, <2>3
<1>5. lease \in [Keys -> [Resources -> LeaseStatus]] /\ "answer" \in Resources
  BY DEF TypeOK, Resources
<1>6. lease' = [lease EXCEPT ![run[h].key]["answer"] =
                  Settled(lease[run[h].key]["answer"], Expected(st))]
  BY DEF SettleRun, SetLease
<1>7. Settled(lease[run[h].key]["answer"], Expected(st)) \in LeaseStatus
  BY <1>1, <1>3, <1>5 DEF Settled
<1> QED
  BY <1>1, <1>2, <1>4, <1>5, <1>6, <1>7

LEMMA SetLeaseTypes ==
    ASSUME TypeOK, NEW k \in Keys, NEW r \in Resources, NEW st \in LeaseStatus, SetLease(k, r, st)
    PROVE  lease' \in [Keys -> [Resources -> LeaseStatus]]
BY DEF SetLease, TypeOK

LEMMA SettledTypes ==
    ASSUME TypeOK, NEW k \in Keys, NEW r \in Resources, NEW target \in {"committed", "released"}
    PROVE  Settled(lease[k][r], target) \in LeaseStatus
BY DEF Settled, TypeOK, LeaseStatus

\* The moves of a handler keep its variables in their domains.
HandlerTypes ==
    /\ pc \in [Handlers -> {"idle", "reserveAnswer", "reserveModel", "create", "bind", "commitModel",
                            "stream", "undo", "settle", "failCancelled", "failFailed", "done", "dead"}]
    /\ req \in [Handlers -> [key : Keys \cup {None}, conv : Conversations \cup {None},
                             turn : Handlers \cup {None}, action : Actions]]
    /\ todo \in [Handlers -> SUBSET (Resources \cup {"run"})]
    /\ clean \in [Handlers -> BOOLEAN]
    /\ signal \in [Handlers -> {"quiet", "due", "aborted"}]
    /\ told \in [Handlers -> {"nothing", "refused", "released", "pending", "completed",
                              "incomplete", "cancelled", "failed"}]

\* End resets the locals of the handler and keeps the key of its request.
LEMMA EndWrites ==
    ASSUME HandlerTypes, NEW h \in Handlers,
           NEW label \in {"done", "dead"},
           NEW what \in {"nothing", "refused", "released", "pending", "completed",
                         "incomplete", "cancelled", "failed"},
           End(h, label, what)
    PROVE  /\ HandlerTypes'
           /\ pc'[h] = label /\ told'[h] = what /\ req'[h].key = req[h].key
<1>1. /\ req' = [req EXCEPT ![h] = [NoReq EXCEPT !.key = req[h].key]]
      /\ req[h].key \in Keys \cup {None}
  BY DEF End, HandlerTypes
<1>2. [NoReq EXCEPT !.key = req[h].key] =
         [key |-> req[h].key, conv |-> None, turn |-> None, action |-> "initial"]
  BY DEF NoReq
<1>3. req' \in [Handlers -> [key : Keys \cup {None}, conv : Conversations \cup {None},
                             turn : Handlers \cup {None}, action : Actions]]
  BY <1>1, <1>2 DEF HandlerTypes, Actions
<1>4. req'[h].key = req[h].key
  BY <1>1, <1>2 DEF HandlerTypes
<1>5. todo' \in [Handlers -> SUBSET (Resources \cup {"run"})]
  BY DEF End, HandlerTypes
<1>6. clean' \in [Handlers -> BOOLEAN]
  BY DEF End, HandlerTypes
<1>7. signal' \in [Handlers -> {"quiet", "due", "aborted"}]
  BY DEF End, HandlerTypes
<1> QED
  BY <1>3, <1>4, <1>5, <1>6, <1>7 DEF End, GoTo, HandlerTypes

LEMMA NewRunRow ==
    ASSUME TypeOK, RowsNamed, TurnHasLatest, NEW h \in Handlers, HasKey(h), Asked(h),
           pc[h] = "create", Creatable(h)
    PROVE  /\ NewRun(h) \in RunRow
           /\ req[h].key \in Keys /\ req[h].conv \in Conversations /\ NewRun(h).turn \in Handlers
<1>1. req[h].key \in Keys /\ req[h].conv \in Conversations /\ account = "active"
  BY DEF HasKey, Asked, Early, Creatable
<1>2. CASE req[h].action = "initial"
  <2>1. NewRun(h) = [status |-> "running", key |-> req[h].key, conv |-> req[h].conv, turn |-> h,
                     version |-> 1, cancel |-> FALSE, settled |-> FALSE, quota |-> "reserved"]
    BY <1>2 DEF NewRun
  <2> QED
    BY <1>1, <2>1 DEF RunRow, Active, LeaseStatus
<1>3. CASE req[h].action # "initial"
  <2>1. req[h].turn \in Handlers /\ RunsOfTurn(req[h].turn) # {}
    BY <1>1, <1>3 DEF Asked, Creatable, Early
  <2>2. LatestRun(req[h].turn) \in Handlers
    BY <2>1, LatestIsNewest DEF RunsOfTurn
  <2>3. run[LatestRun(req[h].turn)].version + 1 \in Nat
    BY <2>2 DEF TypeOK, RunRow
  <2>4. NewRun(h) = [status |-> "running", key |-> req[h].key, conv |-> req[h].conv,
                     turn |-> req[h].turn, version |-> run[LatestRun(req[h].turn)].version + 1,
                     cancel |-> FALSE, settled |-> FALSE, quota |-> "reserved"]
    BY <1>3 DEF NewRun
  <2> QED
    BY <1>1, <2>1, <2>3, <2>4 DEF RunRow, Active, LeaseStatus
<1> QED
  BY <1>2, <1>3

LEMMA InitTypes == Init => TypeOK
<1> SUFFICES ASSUME Init PROVE TypeOK
  OBVIOUS
<1>1. NoRun \in RunRow
  BY DEF NoRun, RunRow, LeaseStatus
<1>2. NoReq \in [key : Keys \cup {None}, conv : Conversations \cup {None},
                turn : Handlers \cup {None}, action : Actions]
  BY DEF NoReq, Actions
<1>3. CASE Fresh
  BY <1>1, <1>2, <1>3 DEF Init, Fresh, TypeOK, LeaseStatus
<1>4. CASE Migrated
  <2>1. PICK g \in Handlers, k \in Keys, c \in Conversations, st \in Terminal :
          /\ run = [h \in Handlers |-> IF h = g THEN LegacyRun(g, k, c, st) ELSE NoRun]
          /\ lease = [j \in Keys |-> [r \in Resources |->
                       IF j # k THEN "none" ELSE IF r = "answer" THEN "reserved" ELSE "committed"]]
          /\ pc = [h \in Handlers |-> IF h = g THEN "dead" ELSE "idle"]
    BY <1>4 DEF Migrated
  <2>2. LegacyRun(g, k, c, st) \in RunRow
    BY DEF LegacyRun, RunRow, LeaseStatus
  <2>3. run \in [Handlers -> RunRow]
    BY <1>1, <2>1, <2>2
  <2>4. lease \in [Keys -> [Resources -> LeaseStatus]]
    BY <2>1 DEF LeaseStatus
  <2> QED
    BY <1>2, <2>1, <2>3, <2>4 DEF Init, TypeOK
<1> QED
  BY <1>3, <1>4 DEF Init

LEMMA TypesStep == TypeOK /\ RowsNamed /\ TurnHasLatest /\ HandlersOK /\ [Next]_vars => TypeOK'
<1> SUFFICES ASSUME TypeOK, RowsNamed, TurnHasLatest, HandlersOK, [Next]_vars PROVE TypeOK'
  OBVIOUS
<1> USE DEF runVars, handlerVars
<1>a. HandlerTypes
  BY DEF TypeOK, HandlerTypes
<1>b. ASSUME HandlerTypes', account' = account, run' = run, selected' = selected,
             orphans' = orphans, lease' = lease
      PROVE  TypeOK'
  BY <1>b DEF TypeOK, HandlerTypes
<1>c. ASSUME HandlerTypes', account' = account, run' = run, selected' = selected,
             orphans' = orphans, lease' \in [Keys -> [Resources -> LeaseStatus]]
      PROVE  TypeOK'
  BY <1>c DEF TypeOK, HandlerTypes
<1>d. ASSUME HandlerTypes', account' = account, run' \in [Handlers -> RunRow],
             selected' \in [Handlers -> Handlers \cup {None}],
             orphans' = orphans, lease' \in [Keys -> [Resources -> LeaseStatus]]
      PROVE  TypeOK'
  BY <1>d DEF TypeOK, HandlerTypes
<1>1. ASSUME NEW h \in Handlers, ReserveAnswer(h) PROVE TypeOK'
  <2>1. req[h].key \in Keys
    BY <1>1 DEF ReserveAnswer, HandlersOK, HandlerOK, HasKey
  <2>2. HandlerTypes'
    BY <1>1, <1>a, EndWrites DEF ReserveAnswer, Tell, Continue, GoTo, HandlerTypes
  <2>3. lease' \in [Keys -> [Resources -> LeaseStatus]]
    BY <1>1, <2>1, SetLeaseTypes DEF ReserveAnswer, Resources, LeaseStatus, TypeOK
  <2> QED
    BY <1>1, <1>c, <2>2, <2>3 DEF ReserveAnswer
<1>2. ASSUME NEW h \in Handlers, ReserveModel(h) PROVE TypeOK'
  <2>1. req[h].key \in Keys
    BY <1>2 DEF ReserveModel, HandlersOK, HandlerOK, HasKey
  <2>2. HandlerTypes'
    BY <1>2, <1>a DEF ReserveModel, Proceed, Settle, GoTo, HandlerTypes, Resources
  <2>3. lease' \in [Keys -> [Resources -> LeaseStatus]]
    BY <1>2, <2>1, SetLeaseTypes DEF ReserveModel, Resources, LeaseStatus, TypeOK
  <2> QED
    BY <1>2, <1>c, <2>2, <2>3 DEF ReserveModel
<1>3. ASSUME NEW h \in Handlers, Create(h) PROVE TypeOK'
  <2>1. run' \in [Handlers -> RunRow]
    BY <1>3, NewRunRow DEF Create, TypeOK, HandlersOK, HandlerOK
  <2>2. HandlerTypes'
    BY <1>3, <1>a DEF Create, Proceed, Settle, GoTo, HandlerTypes
  <2> QED
    BY <1>3, <1>d, <2>1, <2>2 DEF Create, TypeOK
<1>4. ASSUME NEW h \in Handlers, Bind(h) PROVE TypeOK'
  <2>1. HandlerTypes'
    BY <1>4, <1>a DEF Bind, Proceed, Settle, GoTo, HandlerTypes, Resources
  <2> QED
    BY <1>4, <1>b, <2>1 DEF Bind
<1>5. ASSUME NEW h \in Handlers, CommitModel(h) PROVE TypeOK'
  <2>1. req[h].key \in Keys
    BY <1>5 DEF CommitModel, HandlersOK, HandlerOK, HasKey
  <2>2. HandlerTypes'
    BY <1>5, <1>a DEF CommitModel, Proceed, Settle, GoTo, HandlerTypes, Resources
  <2>3. lease' \in [Keys -> [Resources -> LeaseStatus]]
    BY <1>5, <2>1, SetLeaseTypes, SettledTypes DEF CommitModel, Model, Resources, TypeOK
  <2> QED
    BY <1>5, <1>c, <2>2, <2>3 DEF CommitModel
<1>6. ASSUME NEW h \in Handlers, NEW r \in Resources, ReleaseLease(h, r) PROVE TypeOK'
  <2>1. req[h].key \in Keys
    BY <1>6 DEF ReleaseLease, HandlersOK, HandlerOK, HasKey
  <2>2. todo' \in [Handlers -> SUBSET (Resources \cup {"run"})]
    BY <1>6 DEF ReleaseLease, TypeOK
  <2>3. clean' \in [Handlers -> BOOLEAN]
    BY <1>6 DEF ReleaseLease, TypeOK
  <2>4. HandlerTypes'
    BY <1>6, <1>a, <2>2, <2>3 DEF ReleaseLease, HandlerTypes
  <2>5. lease' \in [Keys -> [Resources -> LeaseStatus]]
    BY <1>6, <2>1, SetLeaseTypes, SettledTypes DEF ReleaseLease, TypeOK
  <2> QED
    BY <1>6, <1>c, <2>4, <2>5 DEF ReleaseLease
<1>7. ASSUME NEW h \in Handlers, FailCreatedRun(h) PROVE TypeOK'
  <2>1. clean' \in [Handlers -> BOOLEAN]
    BY <1>7 DEF FailCreatedRun, TypeOK
  <2>2. todo' \in [Handlers -> SUBSET (Resources \cup {"run"})]
    BY <1>7 DEF FailCreatedRun, TypeOK
  <2>3. HandlerTypes'
    BY <1>7, <1>a, <2>1, <2>2 DEF FailCreatedRun, HandlerTypes
  <2>4. run' \in [Handlers -> RunRow] /\ lease' \in [Keys -> [Resources -> LeaseStatus]]
    BY <1>7, SettleRunWrites DEF FailCreatedRun, FailSettles, TypeOK, Exists, Active, Terminal
  <2> QED
    BY <1>7, <1>d, <2>3, <2>4 DEF FailCreatedRun, TypeOK
<1>8. ASSUME NEW h \in Handlers, EndSettlement(h) PROVE TypeOK'
  <2>1. HandlerTypes'
    BY <1>8, <1>a, EndWrites DEF EndSettlement, Tell
  <2> QED
    BY <1>8, <1>b, <2>1 DEF EndSettlement
<1>9. ASSUME NEW h \in Handlers, NEW st \in {"completed", "incomplete"}, Complete(h, st) PROVE TypeOK'
  <2>1. HandlerTypes'
    BY <1>9, <1>a, EndWrites DEF Complete, Tell, Catch, Continue, GoTo, HandlerTypes
  <2>2. Exists(h) /\ run[h].turn \in Handlers
    BY <1>9 DEF Complete, Completable, Exists, Active, RowsNamed
  <2>3. run' \in [Handlers -> RunRow] /\ lease' \in [Keys -> [Resources -> LeaseStatus]]
    BY <1>9, <2>2, SettleRunWrites DEF Complete, Terminal
  <2>4. selected' \in [Handlers -> Handlers \cup {None}]
    BY <1>9, <2>2 DEF Complete, Select, TypeOK
  <2> QED
    BY <1>9, <1>d, <2>1, <2>3, <2>4 DEF Complete
<1>10. ASSUME NEW h \in Handlers, StreamError(h) PROVE TypeOK'
  <2>1. HandlerTypes'
    BY <1>10, <1>a DEF StreamError, Catch, Continue, GoTo, HandlerTypes
  <2> QED
    BY <1>10, <1>b, <2>1 DEF StreamError
<1>11. ASSUME NEW h \in Handlers, FailStream(h) PROVE TypeOK'
  <2>1. HandlerTypes'
    BY <1>11, <1>a, EndWrites DEF FailStream, Tell
  <2>2. run' \in [Handlers -> RunRow] /\ lease' \in [Keys -> [Resources -> LeaseStatus]]
    BY <1>11, SettleRunWrites DEF FailStream, FailSettles, TypeOK, Exists, Active, Terminal
  <2> QED
    BY <1>11, <1>d, <2>1, <2>2 DEF FailStream, TypeOK
<1>12. ASSUME NEW h \in Handlers, NEW k \in Keys, NEW c \in Conversations,
              NEW t \in Handlers \cup {None}, NEW a \in Actions, Start(h, k, c, t, a)
       PROVE  TypeOK'
  <2>1. HandlerTypes'
    BY <1>12, <1>a, EndWrites DEF Start, Tell, GoTo, HandlerTypes
  <2> QED
    BY <1>12, <1>b, <2>1 DEF Start
<1>13. ASSUME NEW h \in Handlers, Cancel(h) PROVE TypeOK'
  <2>1. signal' \in [Handlers -> {"quiet", "due", "aborted"}]
    BY <1>13 DEF Cancel, TypeOK
  <2>2. HandlerTypes'
    BY <1>13, <1>a, <2>1 DEF Cancel, HandlerTypes
  <2>3. run' \in [Handlers -> RunRow]
    <3>0. run \in [Handlers -> RunRow] /\ run[h] \in RunRow
      BY DEF TypeOK
    <3>1. [run[h] EXCEPT !.cancel = TRUE] \in RunRow
      BY <3>0 DEF RunRow
    <3>2. run' = [run EXCEPT ![h] = [run[h] EXCEPT !.cancel = TRUE]]
      BY <1>13, <3>1 DEF Cancel
    <3> QED
      BY <3>0, <3>1, <3>2
  <2> QED
    BY <1>13, <1>d, <2>2, <2>3 DEF Cancel, TypeOK
<1>14. ASSUME NEW h \in Handlers, SignalAbort(h) \/ Disconnect(h) PROVE TypeOK'
  <2>1. HandlerTypes'
    BY <1>14, <1>a DEF SignalAbort, Disconnect, HandlerTypes
  <2> QED
    BY <1>14, <1>b, <2>1 DEF SignalAbort, Disconnect
<1>15. ASSUME NEW h \in Handlers, Crash(h) PROVE TypeOK'
  <2>1. HandlerTypes'
    BY <1>15, <1>a, EndWrites DEF Crash
  <2> QED
    BY <1>15, <1>b, <2>1 DEF Crash
<1>16. ASSUME NEW h \in Handlers, RecoverRun(h) PROVE TypeOK'
  <2>1. run' \in [Handlers -> RunRow] /\ lease' \in [Keys -> [Resources -> LeaseStatus]]
    BY <1>16, SettleRunWrites
       DEF RecoverRun, WasInterrupted, NeedsTerminalSettlement, Exists, Active, Terminal
  <2> QED
    BY <1>16, <1>a, <1>d, <2>1 DEF RecoverRun, TypeOK, HandlerTypes
<1>17. ASSUME NEW k \in Keys, NEW r \in Resources, ScanOrphans(k, r) PROVE TypeOK'
  BY <1>17 DEF ScanOrphans, TypeOK, Leases
<1>18. ASSUME NEW k \in Keys, NEW r \in Resources, ReleaseOrphan(k, r) PROVE TypeOK'
  <2>1. lease' \in [Keys -> [Resources -> LeaseStatus]]
    BY <1>18, SetLeaseTypes, SettledTypes DEF ReleaseOrphan
  <2> QED
    BY <1>18, <2>1 DEF ReleaseOrphan, TypeOK
<1>19. CASE PrepareUserDeletion
  <2>1. lease' \in [Keys -> [Resources -> LeaseStatus]]
    <3>1. \A k \in Keys, r \in Resources :
             (IF r = "answer" THEN "none" ELSE Settled(lease[k][r], "released")) \in LeaseStatus
      BY SettledTypes DEF LeaseStatus
    <3> QED
      BY <1>19, <3>1 DEF PrepareUserDeletion
  <2> QED
    BY <1>19, <2>1 DEF PrepareUserDeletion, TypeOK
<1>20. CASE DeleteUser
  BY <1>20 DEF DeleteUser, TypeOK, NoRun, RunRow, LeaseStatus
<1>21. CASE UNCHANGED vars
  BY <1>21 DEF vars, TypeOK
<1> QED
  BY <1>1, <1>2, <1>3, <1>4, <1>5, <1>6, <1>7, <1>8, <1>9, <1>10, <1>11, <1>12, <1>13, <1>14,
     <1>15, <1>16, <1>17, <1>18, <1>19, <1>20, <1>21
     DEF Next, HandlerStep, ClientStep, RecoveryStep
-----------------------------------------------------------------------------
\* The kinds of steps the rows and the answer leases see.  A quiet step leaves
\* the rows alone; an answer lease may be taken or given back.
AnswersMove ==
    \A k \in Keys :
        \/ lease'[k]["answer"] = lease[k]["answer"]
        \/ account = "active" /\ lease[k]["answer"] = "none" /\ lease'[k]["answer"] = "reserved"
        \/ lease[k]["answer"] = "reserved" /\ lease'[k]["answer"] = "released"

Quiet == UNCHANGED <<account, run, selected>> /\ AnswersMove

\* A run is settled: one in progress, or an old one with the status it has.
Settles(h, st) ==
    /\ Exists(h) /\ CanSettle(run[h].key, st) /\ SettleRun(h, st) /\ account' = account
    /\ run[h].status \in Active \/ (NeedsTerminalSettlement(h) /\ st = run[h].status)
    /\ selected' = IF st = "completed" /\ run[h].status \in Active
                   THEN [selected EXCEPT ![run[h].turn] = h] ELSE selected

Creates(h) ==
    /\ ~Exists(h) /\ pc[h] = "create" /\ HasKey(h) /\ Asked(h) /\ Creatable(h)
    /\ run' = [run EXCEPT ![h] = NewRun(h)]
    /\ UNCHANGED <<account, lease, selected>>

\* Setting one lease of a request.
LEMMA SetLeaseWrites ==
    ASSUME TypeOK, NEW k \in Keys, NEW r \in Resources, NEW st, SetLease(k, r, st)
    PROVE  \A j \in Keys, q \in Resources :
              lease'[j][q] = IF j = k /\ q = r THEN st ELSE lease[j][q]
BY DEF SetLease, TypeOK

LEMMA SetLeaseMoves ==
    ASSUME TypeOK, NEW k \in Keys, NEW r \in Resources, NEW st, SetLease(k, r, st),
           \/ r # "answer" \/ st = lease[k][r]
           \/ account = "active" /\ lease[k][r] = "none" /\ st = "reserved"
           \/ lease[k][r] = "reserved" /\ st = "released"
    PROVE  AnswersMove
<1>1. "answer" \in Resources
  BY DEF Resources
<1> QED
  BY <1>1, SetLeaseWrites DEF AnswersMove

\* Every step is of one of these kinds.
LEMMA StepKinds ==
    ASSUME TypeOK, RowsOK, HandlersOK, [Next]_vars
    PROVE  \/ Quiet
           \/ \E h \in Handlers, st \in Terminal : Settles(h, st)
           \/ \E h \in Handlers : Creates(h)
           \/ \E h \in Handlers : Cancel(h)
           \/ PrepareUserDeletion
           \/ DeleteUser
<1> USE DEF runVars, handlerVars
<1>0. ASSUME lease' = lease PROVE AnswersMove
  BY <1>0 DEF AnswersMove
<1>1. ASSUME NEW h \in Handlers, ReserveAnswer(h) PROVE Quiet
  <2>1. req[h].key \in Keys /\ "answer" \in Resources
    BY <1>1 DEF ReserveAnswer, HandlersOK, HandlerOK, HasKey, Resources
  <2> QED
    BY <1>0, <1>1, <2>1, SetLeaseMoves DEF ReserveAnswer, Answer, Quiet
<1>2. ASSUME NEW h \in Handlers, ReserveModel(h) PROVE Quiet
  <2>1. req[h].key \in Keys /\ "model_attempt" \in Resources /\ "model_attempt" # "answer"
    BY <1>2 DEF ReserveModel, HandlersOK, HandlerOK, HasKey, Resources
  <2> QED
    BY <1>0, <1>2, <2>1, SetLeaseMoves DEF ReserveModel, Quiet
<1>3. ASSUME NEW h \in Handlers, Create(h) PROVE Quiet \/ Creates(h)
  BY <1>0, <1>3 DEF Create, Quiet, Creates, HandlersOK, HandlerOK, NotYetCreated, Early
<1>4. ASSUME NEW h \in Handlers, Bind(h) PROVE Quiet
  BY <1>0, <1>4 DEF Bind, Quiet
<1>5. ASSUME NEW h \in Handlers, CommitModel(h) PROVE Quiet
  <2>1. req[h].key \in Keys /\ "model_attempt" \in Resources /\ "model_attempt" # "answer"
    BY <1>5 DEF CommitModel, HandlersOK, HandlerOK, HasKey, Resources
  <2> QED
    BY <1>0, <1>5, <2>1, SetLeaseMoves DEF CommitModel, Quiet
<1>6. ASSUME NEW h \in Handlers, NEW r \in Resources, ReleaseLease(h, r) PROVE Quiet
  <2>1. req[h].key \in Keys
    BY <1>6 DEF ReleaseLease, HandlersOK, HandlerOK, HasKey
  <2>2. ASSUME SetLease(req[h].key, r, Settled(lease[req[h].key][r], "released")) PROVE AnswersMove
    BY <2>1, <2>2, SetLeaseMoves DEF Settled
  <2> QED
    BY <1>0, <1>6, <2>2 DEF ReleaseLease, Quiet
<1>7. ASSUME NEW h \in Handlers, FailCreatedRun(h) PROVE Quiet \/ \E st \in Terminal : Settles(h, st)
  BY <1>0, <1>7 DEF FailCreatedRun, FailSettles, Quiet, Settles, Exists, Active, Terminal
<1>8. ASSUME NEW h \in Handlers, EndSettlement(h) PROVE Quiet
  BY <1>0, <1>8 DEF EndSettlement, Quiet
<1>9. ASSUME NEW h \in Handlers, NEW st \in {"completed", "incomplete"}, Complete(h, st)
      PROVE  st \in Terminal /\ Settles(h, st)
  BY <1>9 DEF Complete, Completable, Select, Settles, Exists, Active, Terminal
<1>10. ASSUME NEW h \in Handlers, StreamError(h) PROVE Quiet
  BY <1>0, <1>10 DEF StreamError, Quiet
<1>11. ASSUME NEW h \in Handlers, FailStream(h) PROVE Quiet \/ \E st \in Terminal : Settles(h, st)
  <2>1. ASSUME NEW st \in {"failed", "cancelled"}, FailSettles(h, st), UNCHANGED <<account, selected>>
        PROVE  st \in Terminal /\ Settles(h, st)
    BY <2>1 DEF FailSettles, Settles, Exists, Active, Terminal
  <2>2. (IF pc[h] = "failCancelled" THEN "cancelled" ELSE "failed") \in {"failed", "cancelled"}
    OBVIOUS
  <2> QED
    BY <1>0, <1>11, <2>1, <2>2 DEF FailStream, Quiet
<1>12. ASSUME NEW h \in Handlers, NEW k \in Keys, NEW c \in Conversations,
              NEW t \in Handlers \cup {None}, NEW a \in Actions, Start(h, k, c, t, a)
       PROVE  Quiet
  BY <1>0, <1>12 DEF Start, Quiet
<1>14. ASSUME NEW h \in Handlers, SignalAbort(h) \/ Disconnect(h) \/ Crash(h) PROVE Quiet
  BY <1>0, <1>14 DEF SignalAbort, Disconnect, Crash, Quiet
<1>16. ASSUME NEW h \in Handlers, RecoverRun(h) PROVE \E st \in Terminal : Settles(h, st)
  <2>1. CASE WasInterrupted(h)
    <3>1. /\ CanSettle(run[h].key, "failed") /\ SettleRun(h, "failed")
          /\ UNCHANGED <<account, selected>>
      BY <1>16, <2>1 DEF RecoverRun
    <3> QED
      BY <2>1, <3>1 DEF Settles, WasInterrupted, Exists, Active, Terminal
  <2>2. CASE ~WasInterrupted(h)
    <3>1. /\ NeedsTerminalSettlement(h)
          /\ CanSettle(run[h].key, run[h].status) /\ SettleRun(h, run[h].status)
          /\ UNCHANGED <<account, selected>>
      BY <1>16, <2>2 DEF RecoverRun
    <3> QED
      BY <2>2, <3>1 DEF Settles, WasInterrupted, NeedsTerminalSettlement, Exists, Active, Terminal
  <2> QED
    BY <2>1, <2>2
<1>17. ASSUME NEW k \in Keys, NEW r \in Resources, ScanOrphans(k, r) PROVE Quiet
  BY <1>0, <1>17 DEF ScanOrphans, Quiet
<1>18. ASSUME NEW k \in Keys, NEW r \in Resources, ReleaseOrphan(k, r) PROVE Quiet
  <2>1. SetLease(k, r, Settled(lease[k][r], "released"))
    BY <1>18 DEF ReleaseOrphan
  <2>2. AnswersMove
    BY <2>1, SetLeaseMoves DEF Settled
  <2> QED
    BY <1>18, <2>2 DEF ReleaseOrphan, Quiet
<1>21. CASE UNCHANGED vars
  BY <1>0, <1>21 DEF vars, Quiet
<1> QED
  BY <1>1, <1>2, <1>3, <1>4, <1>5, <1>6, <1>7, <1>8, <1>9, <1>10, <1>11, <1>12, <1>14,
     <1>16, <1>17, <1>18, <1>21
     DEF Next, HandlerStep, ClientStep, RecoveryStep
-----------------------------------------------------------------------------
\* Runs that keep their name, turn, conversation and version, none of them newly
\* in progress, keep the order of the versions.
SameRuns ==
    \A h \in Handlers :
        /\ Exists(h)' = Exists(h)
        /\ run'[h].key = run[h].key /\ run'[h].conv = run[h].conv
        /\ run'[h].turn = run[h].turn /\ run'[h].version = run[h].version
        /\ run'[h].status \in Active => run[h].status \in Active

VersionsOK == RowsNamed /\ TurnHasFirstRun /\ TurnHasLatest /\ ActiveIsNewest /\ OneAnswerAtATime

LEMMA SameRunsVersions ==
    ASSUME SameRuns, VersionsOK
    PROVE  VersionsOK'
<1>1. RowsNamed'
  BY DEF SameRuns, VersionsOK, RowsNamed
<1>2. TurnHasFirstRun'
  BY DEF SameRuns, VersionsOK, RowsNamed, TurnHasFirstRun
<1>3. TurnHasLatest'
  <2>1. \A t \in Handlers : RunsOfTurn(t)' = RunsOfTurn(t)
    BY DEF RunsOfTurn, SameRuns, Exists
  <2>2. \A t \in Handlers : \A h \in RunsOfTurn(t) : run'[h].version = run[h].version
    BY DEF RunsOfTurn, SameRuns
  <2> QED
    BY <2>1, <2>2 DEF VersionsOK, TurnHasLatest
<1>4. ActiveIsNewest'
  BY DEF SameRuns, VersionsOK, ActiveIsNewest
<1>5. OneAnswerAtATime'
  BY DEF SameRuns, VersionsOK, OneAnswerAtATime, ActiveRuns
<1> QED
  BY <1>1, <1>2, <1>3, <1>4, <1>5 DEF VersionsOK

\* The newest completed version of a turn, one turn at a time.
Done(t) == {h \in RunsOfTurn(t) : run[h].status = "completed"}
SelectionOK(t) ==
    IF Done(t) = {} THEN selected[t] = None
    ELSE selected[t] \in Done(t) /\ \A h \in Done(t) : run[h].version <= run[selected[t]].version

LEMMA SelectionIs == SelectedIsNewestCompleted <=> \A t \in Handlers : SelectionOK(t)
BY DEF SelectedIsNewestCompleted, SelectionOK, Done

LEMMA SelectionIsNext == SelectedIsNewestCompleted' <=> \A t \in Handlers : SelectionOK(t)'
BY DEF SelectedIsNewestCompleted, SelectionOK, Done

LEMMA QuietRows ==
    ASSUME TypeOK, RowsOK, Quiet
    PROVE  RowsOK'
<1> USE DEF RowsOK, Quiet
<1>1. VersionsOK'
  BY SameRunsVersions DEF VersionsOK, SameRuns, Exists
<1>2. SettledIsOver'
  BY DEF SettledIsOver
<1>3. ClosedHoldsNoAnswer'
  BY DEF ClosedHoldsNoAnswer, AnswersMove
<1>4. ChargeMatchesAnswer'
  <2>1. ASSUME NEW k \in Keys, lease'[k]["answer"] = "committed"
        PROVE  \E h \in Handlers : run'[h].key = k /\ run'[h].status = "completed" /\ run'[h].settled
    BY <2>1 DEF ChargeMatchesAnswer, AnswersMove
  <2>2. ASSUME NEW h \in Handlers, run'[h].settled, account' = "active"
        PROVE  run'[h].quota = Expected(run'[h].status) /\ lease'[run'[h].key]["answer"] = run'[h].quota
    <3>1. run[h].key \in Keys
      BY <2>2 DEF SettledIsOver, RowsNamed, Exists, Terminal
    <3>2. lease[run[h].key]["answer"] = Expected(run[h].status) /\ run[h].quota = Expected(run[h].status)
      BY <2>2 DEF ChargeMatchesAnswer
    <3>3. lease'[run[h].key]["answer"] = lease[run[h].key]["answer"]
      BY <3>1, <3>2 DEF AnswersMove, Expected
    <3> QED
      BY <3>2, <3>3
  <2> QED
    BY <2>1, <2>2 DEF ChargeMatchesAnswer
<1>5. SelectedIsNewestCompleted'
  BY DEF SelectedIsNewestCompleted, RunsOfTurn
<1> QED
  BY <1>1, <1>2, <1>3, <1>4, <1>5 DEF VersionsOK

\* What a settlement does to each row and each answer lease.
LEMMA SettlesWrites ==
    ASSUME TypeOK, RowsOK, NEW h \in Handlers, NEW st \in Terminal, Settles(h, st)
    PROVE  /\ account' = account /\ run[h].key \in Keys /\ run[h].turn \in Handlers
           /\ \A g \in Handlers : g # h => run'[g] = run[g]
           /\ run'[h].status = st /\ run'[h].settled /\ run'[h].quota = Expected(st)
           /\ run'[h].key = run[h].key /\ run'[h].conv = run[h].conv
           /\ run'[h].turn = run[h].turn /\ run'[h].version = run[h].version
           /\ run'[h].cancel = run[h].cancel
           /\ lease'[run[h].key]["answer"] = Expected(st)
           /\ lease[run[h].key]["answer"] \in {"reserved", Expected(st)}
           /\ \A k \in Keys : k # run[h].key => lease'[k]["answer"] = lease[k]["answer"]
           /\ \A k \in Keys : lease'[k]["model_attempt"] = lease[k]["model_attempt"]
<1>1. run[h].key \in Keys /\ run[h].turn \in Handlers
  BY DEF RowsOK, RowsNamed, Settles
<1>2. /\ run' = [run EXCEPT ![h].status = st, ![h].settled = TRUE, ![h].quota = Expected(st)]
      /\ run \in [Handlers -> RunRow]
  BY DEF Settles, SettleRun, TypeOK
<1>3. /\ \A g \in Handlers : g # h => run'[g] = run[g]
      /\ run'[h].status = st /\ run'[h].settled /\ run'[h].quota = Expected(st)
      /\ run'[h].key = run[h].key /\ run'[h].conv = run[h].conv
      /\ run'[h].turn = run[h].turn /\ run'[h].version = run[h].version
      /\ run'[h].cancel = run[h].cancel
  BY <1>2 DEF RunRow
<1>4. "answer" \in Resources /\ "model_attempt" \in Resources
  BY DEF Resources
<1>5. SetLease(run[h].key, "answer", Settled(lease[run[h].key]["answer"], Expected(st)))
  BY DEF Settles, SettleRun
<1>6. Settled(lease[run[h].key]["answer"], Expected(st)) = Expected(st)
  BY DEF Settles, CanSettle
<1>7. lease[run[h].key]["answer"] \in {"reserved", Expected(st)}
  BY <1>6 DEF Settled
<1>8. account' = account
  BY DEF Settles
<1> QED
  BY <1>1, <1>3, <1>4, <1>5, <1>6, <1>7, <1>8, SetLeaseWrites

LEMMA SettlesRows ==
    ASSUME TypeOK, RowsOK, NEW h \in Handlers, NEW st \in Terminal, Settles(h, st)
    PROVE  RowsOK'
<1> USE DEF RowsOK
<1>0. "answer" \in Resources /\ Exists(h)
  BY DEF Resources, Settles
<1>1. VersionsOK'
  <2>1. SameRuns
    BY <1>0, SettlesWrites DEF SameRuns, Exists, Terminal, Active
  <2> QED
    BY <2>1, SameRunsVersions DEF VersionsOK
<1>2. SettledIsOver'
  BY SettlesWrites DEF SettledIsOver
<1>3. ClosedHoldsNoAnswer'
  BY SettlesWrites DEF ClosedHoldsNoAnswer, Expected
<1>4. ChargeMatchesAnswer'
  <2>1. ASSUME NEW k \in Keys, lease'[k]["answer"] = "committed"
        PROVE  \E g \in Handlers : run'[g].key = k /\ run'[g].status = "completed" /\ run'[g].settled
    <3>1. CASE k = run[h].key
      <4>1. st = "completed"
        BY <2>1, <3>1, SettlesWrites DEF Expected
      <4> QED
        BY <3>1, <4>1, SettlesWrites
    <3>2. CASE k # run[h].key
      <4>1. PICK g \in Handlers : run[g].key = k /\ run[g].status = "completed" /\ run[g].settled
        BY <2>1, <3>2, SettlesWrites DEF ChargeMatchesAnswer
      <4> QED
        BY <3>2, <4>1, SettlesWrites
    <3> QED
      BY <3>1, <3>2
  <2>2. ASSUME NEW g \in Handlers, run'[g].settled, account' = "active"
        PROVE  run'[g].quota = Expected(run'[g].status) /\ lease'[run'[g].key]["answer"] = run'[g].quota
    <3>1. CASE g = h
      BY <3>1, SettlesWrites
    <3>2. CASE g # h
      <4>1. run'[g] = run[g] /\ run[g].settled /\ account = "active"
        BY <2>2, <3>2, SettlesWrites
      <4>2. /\ run[g].key \in Keys
            /\ run[g].quota = Expected(run[g].status) /\ lease[run[g].key]["answer"] = run[g].quota
        BY <4>1 DEF SettledIsOver, RowsNamed, Exists, Terminal, ChargeMatchesAnswer
      <4>3. lease'[run[g].key]["answer"] = lease[run[g].key]["answer"]
        BY <4>2, SettlesWrites DEF Expected
      <4> QED
        BY <4>1, <4>2, <4>3
    <3> QED
      BY <3>1, <3>2
  <2> QED
    BY <2>1, <2>2 DEF ChargeMatchesAnswer
<1>5. SelectedIsNewestCompleted'
  <2> SUFFICES ASSUME NEW t \in Handlers PROVE SelectionOK(t)'
    BY SelectionIsNext
  <2>0. SelectionOK(t)
    BY SelectionIs
  <2>1. RunsOfTurn(t)' = RunsOfTurn(t)
    BY <1>0, SettlesWrites DEF RunsOfTurn, Exists, Terminal
  <2>2. \A g \in Handlers : run'[g].version = run[g].version
    BY SettlesWrites
  <2>3. CASE st = "completed" /\ run[h].status \in Active /\ run[h].turn = t
    <3>1. selected'[t] = h
      BY <2>3, SettlesWrites DEF Settles, TypeOK
    <3>2. h \in Done(t)'
      BY <2>1, <2>3, SettlesWrites DEF Done, RunsOfTurn, Active
    <3>3. \A g \in Done(t)' : run[g].version <= run[h].version
      <4>1. \A g \in Done(t)' : g \in Handlers /\ Exists(g) /\ run[g].turn = t
        BY <2>1 DEF Done, RunsOfTurn, Exists
      <4>2. \A g \in Handlers : run[g].version \in Nat
        BY DEF TypeOK, RunRow
      <4> QED
        BY <2>3, <4>1, <4>2 DEF ActiveIsNewest
    <3> QED
      BY <2>2, <3>1, <3>2, <3>3 DEF SelectionOK, Done, RunsOfTurn
  <2>4. CASE ~(st = "completed" /\ run[h].status \in Active /\ run[h].turn = t)
    <3>1. selected'[t] = selected[t]
      BY <2>4 DEF Settles, TypeOK
    <3>2. Done(t)' = Done(t)
      <4>1. \A g \in RunsOfTurn(t) : run'[g].status = "completed" <=> run[g].status = "completed"
        BY <2>4, SettlesWrites DEF RunsOfTurn, Settles, Active
      <4> QED
        BY <2>1, <4>1 DEF Done
    <3>3. \A g \in Done(t) : g \in Handlers
      BY DEF Done, RunsOfTurn
    <3> QED
      BY <2>0, <2>2, <3>1, <3>2, <3>3 DEF SelectionOK
  <2> QED
    BY <2>3, <2>4
<1> QED
  BY <1>1, <1>2, <1>3, <1>4, <1>5 DEF VersionsOK

LEMMA CreatesWrites ==
    ASSUME TypeOK, RowsOK, NEW h \in Handlers, Creates(h)
    PROVE  /\ NewRun(h) \in RunRow /\ run'[h] = NewRun(h)
           /\ \A g \in Handlers : g # h => run'[g] = run[g]
           /\ NewRun(h).status = "running" /\ ~NewRun(h).settled /\ ~NewRun(h).cancel
           /\ NewRun(h).key = req[h].key /\ req[h].key \in Keys
           /\ NewRun(h).conv = req[h].conv /\ req[h].conv \in Conversations
           /\ NewRun(h).turn \in Handlers
           /\ account = "active" /\ UNCHANGED <<account, lease, selected>>
           /\ ActiveRuns(req[h].conv) = {} /\ ~Exists(h)
<1>1. run' = [run EXCEPT ![h] = NewRun(h)] /\ run \in [Handlers -> RunRow]
  BY DEF Creates, TypeOK
<1>2. /\ NewRun(h) \in RunRow
      /\ req[h].key \in Keys /\ req[h].conv \in Conversations /\ NewRun(h).turn \in Handlers
  BY NewRunRow DEF Creates, RowsOK
<1> QED
  BY <1>1, <1>2 DEF Creates, Creatable, Busy, NewRun

\* Versions of a turn are created one after the other, each when no run of its
\* conversation is in progress.
LEMMA CreatesVersions ==
    ASSUME TypeOK, RowsOK, NEW h \in Handlers, Creates(h)
    PROVE  VersionsOK'
<1>t. PICK t \in Handlers : t = NewRun(h).turn
  BY CreatesWrites
<1>0. ActiveRuns(req[h].conv) = {} /\ ~Exists(h) /\ run'[h].turn = t
  BY <1>t, CreatesWrites
<1>1. RowsNamed'
  BY CreatesWrites DEF RowsOK, RowsNamed, Exists
<1>2. TurnHasFirstRun'
  <2>1. ASSUME NEW g \in Handlers, g # h, Exists(g)
        PROVE  /\ run[g].turn # h /\ run[g].turn \in Handlers
               /\ run'[run[g].turn].status # "none" /\ run'[run[g].turn].turn = run[g].turn
               /\ run'[run[g].turn].conv = run[g].conv
    BY <1>0, <2>1, CreatesWrites DEF RowsOK, RowsNamed, TurnHasFirstRun, Exists
  <2>2. run'[t].status # "none" /\ run'[t].turn = t /\ run'[t].conv = run'[h].conv
    <3>1. CASE req[h].action = "initial"
      <4>1. t = h
        BY <1>t, <3>1 DEF NewRun
      <4> QED
        BY <1>t, <4>1, CreatesWrites
    <3>2. CASE req[h].action # "initial"
      <4>1. t = req[h].turn /\ account = "active"
        BY <1>t, <3>2, CreatesWrites DEF NewRun
      <4>2. Exists(t) /\ run[t].turn = t /\ run[t].conv = req[h].conv
        BY <3>2, <4>1 DEF Creates, Asked, Early
      <4> QED
        BY <1>0, <4>1, <4>2, CreatesWrites DEF Exists
    <3> QED
      BY <3>1, <3>2
  <2>3. ASSUME NEW g \in Handlers, Exists(g)'
        PROVE  /\ run'[run'[g].turn].status # "none" /\ run'[run'[g].turn].turn = run'[g].turn
               /\ run'[run'[g].turn].conv = run'[g].conv
    <3>1. CASE g = h
      BY <1>0, <3>1, <2>2
    <3>2. CASE g # h
      BY <3>2, <2>1, <2>3, CreatesWrites DEF Exists
    <3> QED
      BY <3>1, <3>2
  <2> QED
    BY <2>3 DEF TurnHasFirstRun, Exists
<1>3. ASSUME NEW g \in Handlers, g # h, Exists(g), run[g].turn = t
      PROVE  run[g].version < NewRun(h).version /\ run[g].status \notin Active
  <2>1. CASE req[h].action = "initial"
    <3>1. t = h
      BY <1>t, <2>1 DEF NewRun
    <3> QED
      BY <1>0, <1>3, <3>1 DEF RowsOK, TurnHasFirstRun, Exists
  <2>2. CASE req[h].action # "initial"
    <3>1. t = req[h].turn /\ account = "active" /\ NewRun(h).version = run[LatestRun(t)].version + 1
      BY <1>t, <2>2, CreatesWrites DEF NewRun
    <3>2. g \in RunsOfTurn(t)
      BY <1>3 DEF RunsOfTurn, Exists
    <3>3. LatestRun(t) \in Handlers /\ run[g].version <= run[LatestRun(t)].version
      BY <1>0, <3>2, LatestIsNewest DEF RowsOK, RunsOfTurn
    <3>4. run[g].version \in Nat /\ run[LatestRun(t)].version \in Nat
      BY <3>3 DEF TypeOK, RunRow
    <3>5. run[g].conv = req[h].conv
      <4>1. run[t].conv = req[h].conv
        BY <2>2, <3>1 DEF Creates, Asked, Early
      <4> QED
        BY <1>3, <4>1 DEF RowsOK, TurnHasFirstRun
    <3>6. run[g].status \notin Active
      BY <1>0, <3>5 DEF ActiveRuns
    <3> QED
      BY <3>1, <3>3, <3>4, <3>6
  <2> QED
    BY <2>1, <2>2
<1>4. TurnHasLatest'
  <2> SUFFICES ASSUME NEW u \in Handlers, RunsOfTurn(u)' # {}
               PROVE  \E f \in RunsOfTurn(u)' : \A g \in RunsOfTurn(u)' : run'[g].version <= run'[f].version
    BY DEF TurnHasLatest
  <2>1. CASE u = t
    <3>1. h \in RunsOfTurn(u)'
      BY <1>0, <2>1, CreatesWrites DEF RunsOfTurn
    <3>2. \A g \in RunsOfTurn(u)' : g # h => g \in Handlers /\ Exists(g) /\ run[g].turn = t
      BY <1>0, <2>1, CreatesWrites DEF RunsOfTurn, Exists
    <3>3. NewRun(h).version \in Nat /\ \A g \in Handlers : run[g].version \in Nat
      BY CreatesWrites DEF TypeOK, RunRow
    <3>4. \A g \in RunsOfTurn(u)' : g \in Handlers
      BY DEF RunsOfTurn
    <3>5. \A g \in RunsOfTurn(u)' : run'[g].version <= run'[h].version
      BY <1>3, <3>2, <3>3, <3>4, CreatesWrites
    <3> QED
      BY <3>1, <3>5
  <2>2. CASE u # t
    <3>1. RunsOfTurn(u)' = RunsOfTurn(u)
      <4>1. h \notin RunsOfTurn(u)' /\ h \notin RunsOfTurn(u)
        BY <1>0, <2>2, CreatesWrites DEF RunsOfTurn, Exists
      <4>2. \A g \in Handlers : g # h => (g \in RunsOfTurn(u)' <=> g \in RunsOfTurn(u))
        BY CreatesWrites DEF RunsOfTurn
      <4>3. RunsOfTurn(u)' \subseteq Handlers /\ RunsOfTurn(u) \subseteq Handlers
        BY DEF RunsOfTurn
      <4> QED
        BY <4>1, <4>2, <4>3
    <3>2. \A g \in RunsOfTurn(u) : run'[g].version = run[g].version
      BY <1>0, CreatesWrites DEF RunsOfTurn, Exists
    <3> QED
      BY <2>2, <3>1, <3>2 DEF RowsOK, TurnHasLatest
  <2> QED
    BY <2>1, <2>2
<1>5. ActiveIsNewest'
  <2> SUFFICES ASSUME NEW f \in Handlers, NEW g \in Handlers, run'[f].status \in Active,
                      Exists(g)', run'[g].turn = run'[f].turn, f # g
               PROVE  run'[g].version < run'[f].version
    BY DEF ActiveIsNewest
  <2>1. CASE f = h
    BY <1>0, <2>1, <1>3, CreatesWrites DEF Exists
  <2>2. CASE g = h
    BY <1>0, <2>2, <1>3, CreatesWrites DEF Exists, Active
  <2>3. CASE f # h /\ g # h
    BY <2>3, CreatesWrites DEF RowsOK, ActiveIsNewest, Exists
  <2> QED
    BY <2>1, <2>2, <2>3
<1>6. OneAnswerAtATime'
  BY <1>0, CreatesWrites DEF RowsOK, OneAnswerAtATime, ActiveRuns, Active
<1> QED
  BY <1>1, <1>2, <1>4, <1>5, <1>6 DEF VersionsOK

LEMMA CreatesRows ==
    ASSUME TypeOK, RowsOK, NEW h \in Handlers, Creates(h)
    PROVE  RowsOK'
<1>1. VersionsOK'
  BY CreatesVersions
<1>2. SettledIsOver' /\ ClosedHoldsNoAnswer'
  BY CreatesWrites DEF RowsOK, SettledIsOver, ClosedHoldsNoAnswer
<1>3. ChargeMatchesAnswer'
  <2>1. ASSUME NEW k \in Keys, lease'[k]["answer"] = "committed"
        PROVE  \E g \in Handlers : run'[g].key = k /\ run'[g].status = "completed" /\ run'[g].settled
    BY <2>1, CreatesWrites DEF RowsOK, ChargeMatchesAnswer, Exists
  <2>2. ASSUME NEW g \in Handlers, run'[g].settled, account' = "active"
        PROVE  run'[g].quota = Expected(run'[g].status) /\ lease'[run'[g].key]["answer"] = run'[g].quota
    BY <2>2, CreatesWrites DEF RowsOK, ChargeMatchesAnswer
  <2> QED
    BY <2>1, <2>2 DEF ChargeMatchesAnswer
<1>4. SelectedIsNewestCompleted'
  <2> SUFFICES ASSUME NEW t \in Handlers PROVE SelectionOK(t)'
    BY SelectionIsNext
  <2>0. SelectionOK(t)
    BY SelectionIs DEF RowsOK
  <2>1. Done(t)' = Done(t)
    BY CreatesWrites DEF Done, RunsOfTurn, Exists
  <2>2. \A g \in Done(t) : run'[g].version = run[g].version
    BY CreatesWrites DEF Done, RunsOfTurn, Exists
  <2> QED
    BY <2>0, <2>1, <2>2, CreatesWrites DEF SelectionOK
<1> QED
  BY <1>1, <1>2, <1>3, <1>4 DEF RowsOK, VersionsOK

LEMMA CancelRows ==
    ASSUME TypeOK, RowsOK, NEW h \in Handlers, Cancel(h)
    PROVE  RowsOK'
<1> USE DEF RowsOK
<1>0. /\ UNCHANGED <<account, lease, selected>>
      /\ \A g \in Handlers : /\ run'[g].status = run[g].status /\ run'[g].settled = run[g].settled
                             /\ run'[g].key = run[g].key /\ run'[g].conv = run[g].conv
                             /\ run'[g].turn = run[g].turn /\ run'[g].version = run[g].version
                             /\ run'[g].quota = run[g].quota
  BY DEF Cancel, TypeOK, RunRow
<1>1. VersionsOK'
  BY <1>0, SameRunsVersions DEF VersionsOK, SameRuns, Exists
<1>2. SettledIsOver' /\ ClosedHoldsNoAnswer'
  BY <1>0 DEF SettledIsOver, ClosedHoldsNoAnswer
<1>3. ChargeMatchesAnswer'
  BY <1>0 DEF ChargeMatchesAnswer
<1>4. SelectedIsNewestCompleted'
  <2> SUFFICES ASSUME NEW t \in Handlers PROVE SelectionOK(t)'
    BY SelectionIsNext
  <2>1. SelectionOK(t)
    BY SelectionIs
  <2>2. Done(t)' = Done(t) /\ Done(t) \subseteq Handlers
    BY <1>0 DEF Done, RunsOfTurn
  <2> QED
    BY <1>0, <2>1, <2>2 DEF SelectionOK
<1> QED
  BY <1>1, <1>2, <1>3, <1>4 DEF VersionsOK

LEMMA CloseRows ==
    ASSUME TypeOK, RowsOK, PrepareUserDeletion
    PROVE  RowsOK'
<1> USE DEF RowsOK
<1>0. /\ UNCHANGED <<run, selected>> /\ account' = "deleting"
      /\ \A k \in Keys : lease'[k]["answer"] = "none"
  BY DEF PrepareUserDeletion, runVars, Resources
<1>1. VersionsOK'
  BY <1>0, SameRunsVersions DEF VersionsOK, SameRuns, Exists
<1>2. SettledIsOver' /\ ClosedHoldsNoAnswer' /\ ChargeMatchesAnswer'
  BY <1>0 DEF SettledIsOver, ClosedHoldsNoAnswer, ChargeMatchesAnswer
<1>3. SelectedIsNewestCompleted'
  BY <1>0 DEF SelectedIsNewestCompleted, RunsOfTurn
<1> QED
  BY <1>1, <1>2, <1>3 DEF VersionsOK

LEMMA DeleteRows ==
    ASSUME DeleteUser
    PROVE  RowsOK'
<1>0. /\ account' = "deleted"
      /\ \A h \in Handlers : run'[h].status = "none" /\ ~run'[h].settled /\ selected'[h] = None
      /\ \A k \in Keys : lease'[k]["answer"] = "none"
  BY DEF DeleteUser, NoRun, Resources
<1>1. RowsNamed' /\ TurnHasFirstRun' /\ SettledIsOver' /\ ClosedHoldsNoAnswer'
  BY <1>0 DEF RowsNamed, TurnHasFirstRun, Exists, SettledIsOver, ClosedHoldsNoAnswer
<1>2. \A t \in Handlers : RunsOfTurn(t)' = {}
  BY <1>0 DEF RunsOfTurn
<1>3. TurnHasLatest' /\ SelectedIsNewestCompleted'
  BY <1>0, <1>2 DEF TurnHasLatest, SelectedIsNewestCompleted
<1>4. ActiveIsNewest' /\ OneAnswerAtATime' /\ ChargeMatchesAnswer'
  BY <1>0 DEF ActiveIsNewest, OneAnswerAtATime, ActiveRuns, ChargeMatchesAnswer, Active
<1> QED
  BY <1>1, <1>3, <1>4 DEF RowsOK
-----------------------------------------------------------------------------
LEMMA InitInvariant == Init => IInv
<1> SUFFICES ASSUME Init PROVE IInv
  OBVIOUS
<1>0. TypeOK
  BY InitTypes
<1>1. CASE Fresh
  <2>1. \A h \in Handlers : run[h].status = "none" /\ ~run[h].settled /\ pc[h] = "idle"
    BY <1>1 DEF Fresh, NoRun
  <2>2. \A t \in Handlers : RunsOfTurn(t) = {} /\ selected[t] = None
    BY <2>1 DEF RunsOfTurn, Init
  <2>3. \A k \in Keys : lease[k]["answer"] = "none"
    BY <1>1 DEF Fresh, Resources
  <2>4. RowsNamed /\ SettledIsOver /\ ClosedHoldsNoAnswer /\ TurnHasFirstRun
    BY <2>1, <2>3 DEF RowsNamed, SettledIsOver, ClosedHoldsNoAnswer, TurnHasFirstRun, Exists
  <2>5. TurnHasLatest /\ SelectedIsNewestCompleted
    BY <2>2 DEF TurnHasLatest, SelectedIsNewestCompleted
  <2>6. ActiveIsNewest /\ OneAnswerAtATime /\ ChargeMatchesAnswer
    BY <2>1, <2>3 DEF ActiveIsNewest, OneAnswerAtATime, ActiveRuns, ChargeMatchesAnswer, Active
  <2>7. HandlersOK
    BY <2>1 DEF Init, HandlersOK, HandlerOK, NotYetCreated, HasKey, Asked, OwnRun, ToldAtTheEnd,
                CleanMeansReleased, Truth, IsTrue, Exists, Early
  <2> QED
    BY <1>0, <2>4, <2>5, <2>6, <2>7 DEF IInv, RowsOK
<1>2. CASE Migrated
  <2>1. PICK g \in Handlers, k \in Keys, c \in Conversations, st \in Terminal :
          /\ run = [h \in Handlers |-> IF h = g THEN LegacyRun(g, k, c, st) ELSE NoRun]
          /\ lease = [j \in Keys |-> [r \in Resources |->
                       IF j # k THEN "none" ELSE IF r = "answer" THEN "reserved" ELSE "committed"]]
          /\ pc = [h \in Handlers |-> IF h = g THEN "dead" ELSE "idle"]
    BY <1>2 DEF Migrated
  <2>2. /\ run[g].status = st /\ run[g].turn = g /\ run[g].key = k /\ run[g].conv = c
        /\ run[g].version = 1 /\ ~run[g].settled /\ pc[g] = "dead"
        /\ \A h \in Handlers : h # g => run[h].status = "none" /\ ~run[h].settled /\ pc[h] = "idle"
    BY <2>1 DEF NoRun, LegacyRun
  <2>3. \A j \in Keys : lease[j]["answer"] \in {"none", "reserved"}
    BY <2>1 DEF Resources
  <2>4. \A t \in Handlers : RunsOfTurn(t) = IF t = g THEN {g} ELSE {}
    BY <2>2 DEF RunsOfTurn, Terminal
  <2>5. RowsNamed /\ SettledIsOver /\ ClosedHoldsNoAnswer /\ TurnHasFirstRun
    BY <2>2 DEF RowsNamed, SettledIsOver, ClosedHoldsNoAnswer, TurnHasFirstRun, Exists, Init
  <2>6. TurnHasLatest
    BY <2>2, <2>4 DEF TurnHasLatest
  <2>7. SelectedIsNewestCompleted
    <3>1. \A t \in Handlers : selected[t] = IF t = g /\ st = "completed" THEN g ELSE None
      BY <2>2 DEF Init
    <3>2. \A t \in Handlers : Done(t) = IF t = g /\ st = "completed" THEN {g} ELSE {}
      BY <2>2, <2>4 DEF Done
    <3> QED
      BY <2>2, <3>1, <3>2, SelectionIs DEF SelectionOK
  <2>8. ActiveIsNewest /\ OneAnswerAtATime /\ ChargeMatchesAnswer
    BY <2>2, <2>3 DEF ActiveIsNewest, OneAnswerAtATime, ActiveRuns, ChargeMatchesAnswer, Active,
                      Terminal, Exists
  <2>9. HandlersOK
    BY <2>2 DEF Init, HandlersOK, HandlerOK, NotYetCreated, HasKey, Asked, OwnRun, ToldAtTheEnd,
                CleanMeansReleased, Truth, IsTrue, Exists, Early
  <2> QED
    BY <1>0, <2>5, <2>6, <2>7, <2>8, <2>9 DEF IInv, RowsOK
<1> QED
  BY <1>1, <1>2 DEF Init

LEMMA RowsStep ==
    ASSUME TypeOK, RowsOK, HandlersOK, [Next]_vars
    PROVE  RowsOK'
BY StepKinds, QuietRows, SettlesRows, CreatesRows, CancelRows, CloseRows, DeleteRows
-----------------------------------------------------------------------------
\* What no step undoes while the account stays open: an answer lease that was
\* settled, the names of a row, the end of a run.
Progress ==
    account' = "active" =>
        /\ account = "active"
        /\ \A k \in Keys : lease[k]["answer"] \in {"committed", "released"} =>
                           lease'[k]["answer"] = lease[k]["answer"]
        /\ \A g \in Handlers : Exists(g) =>
              /\ Exists(g)' /\ run'[g].conv = run[g].conv /\ run'[g].turn = run[g].turn
              /\ run[g].status \in Terminal => run'[g].status = run[g].status

\* A run appears only by the Create of its own handler, and keeps its key.
Appears(g) == ~Exists(g) /\ Exists(g)'
KeepsKey(g) == Exists(g)' => Appears(g) \/ run'[g].key = run[g].key

LEMMA StepProgress ==
    ASSUME TypeOK, RowsOK, HandlersOK, [Next]_vars
    PROVE  Progress /\ \A g \in Handlers : KeepsKey(g)
<1>1. CASE Quiet
  BY <1>1 DEF Quiet, AnswersMove, Progress, KeepsKey, Exists
<1>2. ASSUME NEW h \in Handlers, NEW st \in Terminal, Settles(h, st)
      PROVE  Progress /\ \A g \in Handlers : KeepsKey(g)
  BY <1>2, SettlesWrites
     DEF Progress, KeepsKey, Exists, Settles, NeedsTerminalSettlement, Active, Terminal, Expected
<1>3. ASSUME NEW h \in Handlers, Creates(h)
      PROVE  Progress /\ \A g \in Handlers : KeepsKey(g)
  BY <1>3, CreatesWrites DEF Progress, KeepsKey, Appears, Exists
<1>4. ASSUME NEW h \in Handlers, Cancel(h)
      PROVE  Progress /\ \A g \in Handlers : KeepsKey(g)
  <2>1. /\ UNCHANGED <<account, lease>>
        /\ \A g \in Handlers : /\ run'[g].status = run[g].status /\ run'[g].key = run[g].key
                               /\ run'[g].conv = run[g].conv /\ run'[g].turn = run[g].turn
    BY <1>4 DEF Cancel, TypeOK, RunRow
  <2> QED
    BY <2>1 DEF Progress, KeepsKey, Exists
<1>5. CASE PrepareUserDeletion
  BY <1>5 DEF PrepareUserDeletion, runVars, Progress, KeepsKey, Exists
<1>6. CASE DeleteUser
  BY <1>6 DEF DeleteUser, NoRun, Progress, KeepsKey, Exists
<1> QED
  BY <1>1, <1>2, <1>3, <1>4, <1>5, <1>6, StepKinds

\* A handler that takes no step, whatever the others do.
SameHandler(g) ==
    /\ pc'[g] = pc[g] /\ req'[g] = req[g] /\ todo'[g] = todo[g]
    /\ clean'[g] = clean[g] /\ told'[g] = told[g]

LEMMA AskedStays ==
    ASSUME TypeOK, NEW g \in Handlers, Asked(g), Progress, req'[g] = req[g], pc[g] \in Early
    PROVE  Asked(g)'
BY DEF Asked, Progress

LEMMA HandlerStays ==
    ASSUME TypeOK, NEW g \in Handlers, HandlerOK(g), Progress, KeepsKey(g), ~Appears(g), SameHandler(g)
    PROVE  HandlerOK(g)'
<1> USE DEF HandlerOK, SameHandler
<1>1. NotYetCreated(g)' /\ HasKey(g)' /\ OwnRun(g)' /\ ToldAtTheEnd(g)'
  BY DEF NotYetCreated, HasKey, OwnRun, ToldAtTheEnd, KeepsKey, Appears, Exists
<1>2. Asked(g)'
  BY AskedStays DEF Asked
<1>3. CleanMeansReleased(g)'
  <2>1. pc[g] \in {"undo", "settle"} => req[g].key \in Keys
    BY DEF HasKey
  <2> QED
    BY <2>1 DEF CleanMeansReleased, Progress, Answer
<1>4. Truth(g)'
  <2>1. told[g] \in {"nothing", "refused", "pending"} \/ req[g].key \in Keys
    BY DEF HasKey
  <2>2. IsTrue(g, told[g])
    BY DEF Truth
  <2> DEFINE what == told[g]
  <2>3. IsTrue(g, what) /\ (what \in {"nothing", "refused", "pending"} \/ req[g].key \in Keys)
    BY <2>1, <2>2
  <2>4. req'[g].key = req[g].key
    OBVIOUS
  <2> QED
    BY <2>3, <2>4 DEF Truth, IsTrue, Progress, Answer, Terminal, Exists
<1> QED
  BY <1>1, <1>2, <1>3, <1>4

\* A handler ends: what it says is true, and its key is kept for the record.
LEMMA HandlerEnds ==
    ASSUME HandlerTypes, NEW h \in Handlers, HandlerOK(h), KeepsKey(h), ~Appears(h),
           NEW label \in {"done", "dead"},
           NEW what \in {"nothing", "refused", "released", "pending", "completed",
                         "incomplete", "cancelled", "failed"},
           End(h, label, what), pc[h] # "dead",
           label = "done" \/ what = "nothing",
           what \in {"nothing", "refused"} \/ req[h].key \in Keys,
           IsTrue(h, what)'
    PROVE  HandlerOK(h)'
<1> USE DEF HandlerOK
<1>1. pc'[h] = label /\ told'[h] = what /\ req'[h].key = req[h].key
  BY EndWrites
<1>2. NotYetCreated(h)' /\ HasKey(h)' /\ Asked(h)' /\ ToldAtTheEnd(h)' /\ CleanMeansReleased(h)'
  BY <1>1 DEF NotYetCreated, HasKey, Asked, ToldAtTheEnd, CleanMeansReleased, Early
<1>3. OwnRun(h)'
  BY <1>1 DEF OwnRun, KeepsKey, Appears
<1>4. Truth(h)'
  BY <1>1 DEF Truth, IsTrue, Answer
<1> QED
  BY <1>2, <1>3, <1>4

\* A handler goes on.
LEMMA HandlerMoves ==
    ASSUME TypeOK, NEW h \in Handlers, HandlerOK(h), Progress,
           pc[h] \notin {"idle", "done", "dead"}, pc'[h] \notin {"idle", "done", "dead"},
           req'[h] = req[h], told'[h] = told[h],
           pc'[h] \in Early => pc[h] \in Early /\ ~Appears(h),
           Exists(h)' => run'[h].key = req[h].key,
           CleanMeansReleased(h)'
    PROVE  HandlerOK(h)'
<1> USE DEF HandlerOK
<1>1. NotYetCreated(h)' /\ HasKey(h)' /\ OwnRun(h)' /\ ToldAtTheEnd(h)'
  BY DEF NotYetCreated, HasKey, OwnRun, ToldAtTheEnd, Appears, Exists
<1>2. Asked(h)'
  <2>1. CASE pc'[h] \in Early
    BY <2>1, AskedStays DEF Asked
  <2>2. CASE pc'[h] \notin Early
    BY <2>2 DEF Asked
  <2> QED
    BY <2>1, <2>2
<1>3. Truth(h)'
  BY DEF Truth, IsTrue, ToldAtTheEnd
<1> QED
  BY <1>1, <1>2, <1>3

\* The key of a run its handler still works on.
LEMMA OwnKey ==
    ASSUME NEW h \in Handlers, HandlerOK(h), KeepsKey(h), ~Appears(h),
           pc[h] \notin {"idle", "done", "dead"}
    PROVE  /\ req[h].key \in Keys
           /\ Exists(h) => run[h].key = req[h].key
           /\ Exists(h)' => run'[h].key = req[h].key
BY DEF HandlerOK, HasKey, OwnRun, KeepsKey, Appears

\* The run a failing handler settled, or found settled.
LEMMA FailSettlesIs ==
    ASSUME TypeOK, RowsOK, NEW h \in Handlers, NEW st \in {"failed", "cancelled"},
           FailSettles(h, st), UNCHANGED <<account, selected>>
    PROVE  Settles(h, st) /\ st \in Terminal /\ Exists(h)
BY DEF FailSettles, Settles, Exists, Active, Terminal

LEMMA AlreadyReleasedIs ==
    ASSUME RowsOK, NEW h \in Handlers, AlreadyReleased(h), account = "active"
    PROVE  /\ lease[run[h].key]["answer"] = "released" /\ Exists(h)
           /\ run[h].status \in {"failed", "cancelled"}
BY DEF AlreadyReleased, RowsOK, ChargeMatchesAnswer, Exists

\* One step of a handler leaves it in order.
LEMMA HandlerSteps ==
    ASSUME TypeOK, RowsOK, Progress, NEW h \in Handlers, HandlerOK(h), HandlerStep(h),
           KeepsKey(h), Appears(h) => Create(h)
    PROVE  HandlerOK(h)'
<1> USE DEF runVars, handlerVars
<1>0. HandlerTypes
  BY DEF TypeOK, HandlerTypes
<1>1. CASE ReserveAnswer(h)
  <2>1. pc[h] = "reserveAnswer" /\ ~Appears(h) /\ ~Exists(h) /\ ~Exists(h)'
    BY <1>1 DEF ReserveAnswer, Appears, Exists, HandlerOK, NotYetCreated, Early
  <2>2. CASE Continue(h, "reserveModel")
    <3>1. pc'[h] = "reserveModel" /\ req'[h] = req[h] /\ told'[h] = told[h]
      BY <1>0, <2>2 DEF Continue, GoTo, HandlerTypes
    <3>2. CleanMeansReleased(h)'
      BY <3>1 DEF CleanMeansReleased
    <3> QED
      BY <2>1, <3>1, <3>2, HandlerMoves DEF Early
  <2>3. CASE Tell(h, "refused")
    <3>1. IsTrue(h, "refused")'
      BY DEF IsTrue
    <3> QED
      BY <1>0, <2>1, <2>3, <3>1, HandlerEnds DEF Tell
  <2> QED
    BY <1>1, <2>2, <2>3 DEF ReserveAnswer
<1>2. CASE ReserveModel(h)
  <2>1. pc[h] = "reserveModel" /\ ~Appears(h) /\ ~Exists(h) /\ ~Exists(h)'
    BY <1>2 DEF ReserveModel, Appears, Exists, HandlerOK, NotYetCreated, Early
  <2>2. pc'[h] \in {"create", "undo"} /\ req'[h] = req[h] /\ told'[h] = told[h]
    BY <1>0, <1>2 DEF ReserveModel, Proceed, Settle, GoTo, HandlerTypes
  <2>3. pc'[h] = "undo" => "answer" \in todo'[h]
    BY <1>0, <1>2 DEF ReserveModel, Proceed, Settle, GoTo, HandlerTypes
  <2>4. CleanMeansReleased(h)'
    BY <2>2, <2>3 DEF CleanMeansReleased
  <2> QED
    BY <2>1, <2>2, <2>4, HandlerMoves DEF Early
<1>3. CASE Create(h)
  <2>1. pc[h] = "create" /\ ~Exists(h)
    BY <1>3 DEF Create, HandlerOK, NotYetCreated, Early
  <2>2. pc'[h] \in {"bind", "undo"} /\ req'[h] = req[h] /\ told'[h] = told[h]
    BY <1>0, <1>3 DEF Create, Proceed, Settle, GoTo, HandlerTypes
  <2>3. pc'[h] = "undo" => "answer" \in todo'[h]
    BY <1>0, <1>3 DEF Create, Proceed, Settle, GoTo, HandlerTypes, Resources
  <2>4. CleanMeansReleased(h)'
    BY <2>2, <2>3 DEF CleanMeansReleased
  <2>5. Exists(h)' => run'[h].key = req[h].key
    BY <1>3, <2>1, CreatesWrites DEF Create, Creates, HandlerOK, Exists
  <2> QED
    BY <2>1, <2>2, <2>4, <2>5, HandlerMoves DEF Early
<1>4. CASE Bind(h)
  <2>1. pc[h] = "bind" /\ ~Appears(h)
    BY <1>4 DEF Bind, Appears, Exists
  <2>2. pc'[h] \in {"commitModel", "settle"} /\ req'[h] = req[h] /\ told'[h] = told[h]
    BY <1>0, <1>4 DEF Bind, Proceed, Settle, GoTo, HandlerTypes
  <2>3. pc'[h] = "settle" => "run" \in todo'[h]
    BY <1>0, <1>4 DEF Bind, Proceed, Settle, GoTo, HandlerTypes
  <2>4. CleanMeansReleased(h)'
    BY <2>2, <2>3 DEF CleanMeansReleased
  <2> QED
    BY <2>1, <2>2, <2>4, OwnKey, HandlerMoves DEF Early
<1>5. CASE CommitModel(h)
  <2>1. pc[h] = "commitModel" /\ ~Appears(h)
    BY <1>5 DEF CommitModel, Appears, Exists
  <2>2. pc'[h] \in {"stream", "settle"} /\ req'[h] = req[h] /\ told'[h] = told[h]
    BY <1>0, <1>5 DEF CommitModel, Proceed, Settle, GoTo, HandlerTypes
  <2>3. pc'[h] = "settle" => "run" \in todo'[h]
    BY <1>0, <1>5 DEF CommitModel, Proceed, Settle, GoTo, HandlerTypes
  <2>4. CleanMeansReleased(h)'
    BY <2>2, <2>3 DEF CleanMeansReleased
  <2> QED
    BY <2>1, <2>2, <2>4, OwnKey, HandlerMoves DEF Early
<1>6. ASSUME NEW r \in Resources, ReleaseLease(h, r) PROVE HandlerOK(h)'
  <2>1. pc[h] \in {"undo", "settle"} /\ ~Appears(h) /\ run' = run
    BY <1>6 DEF ReleaseLease, Appears, Exists
  <2>2. pc'[h] = pc[h] /\ req'[h] = req[h] /\ told'[h] = told[h] /\ todo'[h] = todo[h] \ {r}
    BY <1>0, <1>6 DEF ReleaseLease, HandlerTypes
  <2>3. req[h].key \in Keys
    BY <2>1, OwnKey
  <2>4. CleanMeansReleased(h)'
    <3> SUFFICES ASSUME account' = "active", clean'[h], todo'[h] \cap {"answer", "run"} = {}
                 PROVE  lease'[req[h].key]["answer"] = "released"
      BY <2>2 DEF CleanMeansReleased, Answer
    <3>1. /\ clean[h] /\ Settled(lease[req[h].key][r], "released") = "released"
          /\ SetLease(req[h].key, r, Settled(lease[req[h].key][r], "released"))
      BY <1>0, <1>6 DEF ReleaseLease, HandlerTypes
    <3>2. CASE r = "answer"
      BY <2>3, <3>1, <3>2, SetLeaseWrites
    <3>3. CASE r # "answer"
      <4>0. todo[h] \cap {"answer", "run"} = {}
        BY <2>2, <3>3 DEF Resources
      <4>1. lease[req[h].key]["answer"] = "released"
        BY <2>1, <3>1, <4>0 DEF HandlerOK, CleanMeansReleased, Progress, Answer
      <4> QED
        BY <2>3, <4>1 DEF Progress
    <3> QED
      BY <3>2, <3>3
  <2> QED
    BY <2>1, <2>2, <2>4, OwnKey, HandlerMoves DEF Early
<1>7. CASE FailCreatedRun(h)
  <2>1. pc[h] = "settle" /\ ~Appears(h)
    BY <1>7 DEF FailCreatedRun, Create
  <2>2. pc'[h] = pc[h] /\ req'[h] = req[h] /\ told'[h] = told[h] /\ todo'[h] = todo[h] \ {"run"}
    BY <1>0, <1>7 DEF FailCreatedRun, HandlerTypes
  <2>4. CleanMeansReleased(h)'
    <3> SUFFICES ASSUME account' = "active", clean'[h]
                 PROVE  lease'[req[h].key]["answer"] = "released"
      BY <2>2 DEF CleanMeansReleased, Answer
    <3>0. account = "active" /\ account' = account /\ selected' = selected
      BY <1>7 DEF Progress, FailCreatedRun
    <3>1. FailSettles(h, "failed") \/ (AlreadyReleased(h) /\ lease' = lease)
      BY <1>0, <1>7 DEF FailCreatedRun, HandlerTypes
    <3>2. CASE FailSettles(h, "failed")
      <4>1. Settles(h, "failed") /\ "failed" \in Terminal /\ Exists(h)
        BY <3>0, <3>2, FailSettlesIs
      <4> QED
        BY <2>1, <4>1, SettlesWrites, OwnKey DEF Expected
    <3>3. CASE AlreadyReleased(h) /\ lease' = lease
      BY <2>1, <3>0, <3>3, AlreadyReleasedIs, OwnKey
    <3> QED
      BY <3>1, <3>2, <3>3
  <2> QED
    BY <2>1, <2>2, <2>4, OwnKey, HandlerMoves DEF Early
<1>8. CASE EndSettlement(h)
  <2>1. pc[h] \in {"undo", "settle"} /\ ~Appears(h) /\ todo[h] = {}
    BY <1>8 DEF EndSettlement, Appears, Exists
  <2>2. req[h].key \in Keys
    BY <2>1, OwnKey
  <2>3. CASE clean[h]
    <3>1. End(h, "done", "released") /\ UNCHANGED <<account, lease>>
      BY <1>8, <2>3 DEF EndSettlement, Tell
    <3>2. req'[h].key = req[h].key
      BY <1>0, <3>1, EndWrites
    <3>3. IsTrue(h, "released")'
      BY <2>1, <2>3, <3>1, <3>2 DEF IsTrue, HandlerOK, CleanMeansReleased, Answer
    <3> QED
      BY <1>0, <2>1, <2>2, <3>1, <3>3, HandlerEnds
  <2>4. CASE ~clean[h]
    <3>1. End(h, "done", "pending")
      BY <1>8, <2>4 DEF EndSettlement, Tell
    <3>2. IsTrue(h, "pending")'
      BY DEF IsTrue
    <3> QED
      BY <1>0, <2>1, <2>2, <3>1, <3>2, HandlerEnds
  <2> QED
    BY <2>3, <2>4
<1>9. ASSUME NEW st \in {"completed", "incomplete"}, Complete(h, st) PROVE HandlerOK(h)'
  <2>1. pc[h] = "stream" /\ ~Appears(h)
    BY <1>9 DEF Complete, Create
  <2>2. req[h].key \in Keys
    BY <2>1, OwnKey
  <2>3. CASE Tell(h, st)
    <3>1. Settles(h, st) /\ st \in Terminal /\ Exists(h)
      BY <1>9 DEF Complete, Completable, Select, Settles, Exists, Active, Terminal
    <3>2. req'[h].key = req[h].key
      BY <1>0, <2>3, EndWrites DEF Tell
    <3>3. run'[h].status = st /\ lease'[req[h].key]["answer"] = Expected(st)
      BY <2>1, <3>1, SettlesWrites, OwnKey
    <3>4. IsTrue(h, st)'
      BY <3>2, <3>3 DEF IsTrue, Answer, Expected
    <3> QED
      BY <1>0, <2>1, <2>2, <2>3, <3>4, HandlerEnds DEF Tell
  <2>4. CASE Catch(h)
    <3>1. /\ pc'[h] \in {"failCancelled", "failFailed"} /\ req'[h] = req[h] /\ told'[h] = told[h]
      BY <1>0, <2>4 DEF Catch, Continue, GoTo, HandlerTypes
    <3>2. CleanMeansReleased(h)'
      BY <3>1 DEF CleanMeansReleased
    <3> QED
      BY <2>1, <3>1, <3>2, OwnKey, HandlerMoves DEF Early
  <2> QED
    BY <1>9, <2>3, <2>4 DEF Complete
<1>10. CASE StreamError(h)
  <2>1. pc[h] = "stream" /\ ~Appears(h)
    BY <1>10 DEF StreamError, Create
  <2>2. /\ pc'[h] \in {"failCancelled", "failFailed"} /\ req'[h] = req[h] /\ told'[h] = told[h]
    BY <1>0, <1>10 DEF StreamError, Catch, Continue, GoTo, HandlerTypes
  <2>3. CleanMeansReleased(h)'
    BY <2>2 DEF CleanMeansReleased
  <2> QED
    BY <2>1, <2>2, <2>3, OwnKey, HandlerMoves DEF Early
<1>11. CASE FailStream(h)
  <2>1. pc[h] \in {"failCancelled", "failFailed"} /\ ~Appears(h)
    BY <1>11 DEF FailStream, Create
  <2>2. req[h].key \in Keys
    BY <2>1, OwnKey
  <2>3. PICK st \in {"failed", "cancelled"} :
           \/ FailSettles(h, st) /\ (Tell(h, st) \/ Tell(h, "pending"))
           \/ AlreadyReleased(h) /\ Tell(h, st) /\ UNCHANGED <<run, lease>>
           \/ Tell(h, "pending") /\ UNCHANGED <<run, lease>>
    BY <1>11 DEF FailStream
  <2>4. CASE Tell(h, "pending")
    <3>1. IsTrue(h, "pending")'
      BY DEF IsTrue
    <3> QED
      BY <1>0, <2>1, <2>2, <2>4, <3>1, HandlerEnds DEF Tell
  <2>5. CASE Tell(h, st) /\ (FailSettles(h, st) \/ (AlreadyReleased(h) /\ UNCHANGED <<run, lease>>))
    <3>1. req'[h].key = req[h].key
      BY <1>0, <2>5, EndWrites DEF Tell
    <3>2. UNCHANGED <<account, selected>>
      BY <1>11 DEF FailStream
    <3>3. account' = "active" =>
             run'[h].status \in {"failed", "cancelled"} /\ lease'[req[h].key]["answer"] = "released"
      <4>1. CASE FailSettles(h, st)
        <5>1. Settles(h, st) /\ st \in Terminal /\ Exists(h)
          BY <3>2, <4>1, FailSettlesIs
        <5> QED
          BY <2>1, <5>1, SettlesWrites, OwnKey DEF Expected
      <4>2. CASE AlreadyReleased(h) /\ UNCHANGED <<run, lease>>
        BY <2>1, <3>2, <4>2, AlreadyReleasedIs, OwnKey
      <4> QED
        BY <2>5, <4>1, <4>2
    <3>4. IsTrue(h, st)'
      BY <3>1, <3>3 DEF IsTrue, Answer
    <3> QED
      BY <1>0, <2>1, <2>2, <2>5, <3>4, HandlerEnds DEF Tell
  <2> QED
    BY <2>3, <2>4, <2>5
<1> QED
  BY <1>1, <1>2, <1>3, <1>4, <1>5, <1>6, <1>7, <1>8, <1>9, <1>10, <1>11 DEF HandlerStep

\* A request arrives, is cancelled, is cut off.
LEMMA ClientSteps ==
    ASSUME TypeOK, RowsOK, Progress, NEW h \in Handlers, HandlerOK(h), ClientStep(h),
           KeepsKey(h), ~Appears(h)
    PROVE  HandlerOK(h)'
<1> USE DEF runVars, handlerVars
<1>0. HandlerTypes
  BY DEF TypeOK, HandlerTypes
<1>1. ASSUME NEW k \in Keys, NEW c \in Conversations, NEW t \in Handlers \cup {None}, NEW a \in Actions,
             Start(h, k, c, t, a)
      PROVE  HandlerOK(h)'
  <2>1. pc[h] = "idle" /\ UNCHANGED <<account, run>>
    BY <1>1 DEF Start
  <2>2. CASE Tell(h, "refused")
    <3>1. IsTrue(h, "refused")'
      BY DEF IsTrue
    <3> QED
      BY <1>0, <2>1, <2>2, <3>1, HandlerEnds DEF Tell
  <2>3. CASE ~Tell(h, "refused")
    <3>1. /\ pc'[h] = "reserveAnswer" /\ told'[h] = told[h]
          /\ req'[h] = [key |-> k, conv |-> c, turn |-> t, action |-> a]
      BY <1>0, <1>1, <2>3 DEF Start, GoTo, HandlerTypes
    <3>2. told'[h] = "nothing" /\ ~Exists(h) /\ ~Exists(h)'
      BY <2>1, <3>1 DEF HandlerOK, ToldAtTheEnd, NotYetCreated, Early, Exists
    <3>3. NotYetCreated(h)' /\ HasKey(h)' /\ OwnRun(h)' /\ ToldAtTheEnd(h)'
      BY <3>1, <3>2 DEF NotYetCreated, HasKey, OwnRun, ToldAtTheEnd, Exists
    <3>4. CleanMeansReleased(h)' /\ Truth(h)'
      BY <3>1, <3>2 DEF CleanMeansReleased, Truth, IsTrue
    <3>5. Asked(h)'
      <4>1. ASSUME a # "initial" PROVE /\ t \in Handlers /\ Exists(t)
                                       /\ run[t].turn = t /\ run[t].conv = c
        <5>1. t \in Handlers /\ RunsOfTurn(t) # {} /\ run[t].conv = c
          BY <1>1, <4>1 DEF Start
        <5>2. PICK g \in Handlers : Exists(g) /\ run[g].turn = t
          BY <5>1 DEF RunsOfTurn, Exists
        <5> QED
          BY <5>1, <5>2 DEF RowsOK, TurnHasFirstRun
      <4> QED
        BY <2>1, <3>1, <4>1 DEF Asked, Exists
    <3> QED
      BY <3>3, <3>4, <3>5 DEF HandlerOK
  <2> QED
    BY <2>2, <2>3
<1>2. CASE Cancel(h) \/ SignalAbort(h) \/ Disconnect(h)
  BY <1>2, HandlerStays DEF Cancel, SignalAbort, Disconnect, SameHandler
<1>3. CASE Crash(h)
  <2>1. IsTrue(h, "nothing")'
    BY DEF IsTrue
  <2> QED
    BY <1>0, <1>3, <2>1, HandlerEnds DEF Crash
<1> QED
  BY <1>1, <1>2, <1>3 DEF ClientStep

\* A handler's step is its own business.
LEMMA OthersStay ==
    ASSUME TypeOK, NEW h \in Handlers, HandlerStep(h) \/ ClientStep(h), NEW g \in Handlers, g # h
    PROVE  SameHandler(g) /\ Exists(g)' = Exists(g)
<1> USE DEF SameHandler, handlerVars, runVars, Exists
<1>0. HandlerTypes /\ run \in [Handlers -> RunRow]
  BY DEF TypeOK, HandlerTypes
<1>e. ASSUME NEW label, NEW what, End(h, label, what) PROVE SameHandler(g)
  BY <1>0, <1>e DEF End, GoTo, HandlerTypes
<1>c. ASSUME NEW label, Continue(h, label) PROVE SameHandler(g)
  BY <1>0, <1>c DEF Continue, GoTo, HandlerTypes
<1>s. ASSUME NEW st, SettleRun(h, st) PROVE run'[g].status = run[g].status
  BY <1>0, <1>s DEF SettleRun
<1>1. CASE ReserveAnswer(h)
  BY <1>0, <1>1, <1>e, <1>c DEF ReserveAnswer, Tell
<1>2. CASE ReserveModel(h)
  BY <1>0, <1>2 DEF ReserveModel, Proceed, Settle, GoTo, HandlerTypes
<1>3. CASE Create(h)
  <2>1. run'[g].status = run[g].status
    BY <1>0, <1>3 DEF Create
  <2> QED
    BY <1>0, <1>3, <2>1 DEF Create, Proceed, Settle, GoTo, HandlerTypes
<1>4. CASE Bind(h)
  BY <1>0, <1>4 DEF Bind, Proceed, Settle, GoTo, HandlerTypes
<1>5. CASE CommitModel(h)
  BY <1>0, <1>5 DEF CommitModel, Proceed, Settle, GoTo, HandlerTypes
<1>6. ASSUME NEW r \in Resources, ReleaseLease(h, r) PROVE SameHandler(g) /\ Exists(g)' = Exists(g)
  BY <1>0, <1>6 DEF ReleaseLease, HandlerTypes
<1>7. CASE FailCreatedRun(h)
  <2>1. run'[g].status = run[g].status
    BY <1>0, <1>7, <1>s DEF FailCreatedRun, FailSettles
  <2> QED
    BY <1>0, <1>7, <2>1 DEF FailCreatedRun, HandlerTypes
<1>8. CASE EndSettlement(h)
  BY <1>0, <1>8, <1>e DEF EndSettlement, Tell
<1>9. ASSUME NEW st \in {"completed", "incomplete"}, Complete(h, st)
      PROVE  SameHandler(g) /\ Exists(g)' = Exists(g)
  BY <1>0, <1>9, <1>e, <1>c, <1>s DEF Complete, Tell, Catch
<1>10. CASE StreamError(h)
  BY <1>0, <1>10, <1>c DEF StreamError, Catch
<1>11. CASE FailStream(h)
  <2>1. run'[g].status = run[g].status
    BY <1>0, <1>11, <1>s DEF FailStream, FailSettles
  <2>2. SameHandler(g)
    BY <1>0, <1>11, <1>e DEF FailStream, Tell
  <2> QED
    BY <2>1, <2>2
<1>12. ASSUME NEW k \in Keys, NEW c \in Conversations, NEW t \in Handlers \cup {None}, NEW a \in Actions,
              Start(h, k, c, t, a)
       PROVE  SameHandler(g) /\ Exists(g)' = Exists(g)
  BY <1>0, <1>12, <1>e DEF Start, Tell, GoTo, HandlerTypes
<1>13. CASE Cancel(h)
  BY <1>0, <1>13 DEF Cancel
<1>14. CASE SignalAbort(h) \/ Disconnect(h)
  BY <1>0, <1>14 DEF SignalAbort, Disconnect
<1>15. CASE Crash(h)
  BY <1>0, <1>15, <1>e DEF Crash
<1> QED
  BY <1>1, <1>2, <1>3, <1>4, <1>5, <1>6, <1>7, <1>8, <1>9, <1>10, <1>11, <1>12, <1>13, <1>14, <1>15
     DEF HandlerStep, ClientStep

LEMMA HandlersStep ==
    ASSUME TypeOK, RowsOK, HandlersOK, [Next]_vars
    PROVE  HandlersOK'
<1>0. Progress /\ HandlerTypes /\ \A g \in Handlers : HandlerOK(g) /\ KeepsKey(g)
  BY StepProgress DEF HandlersOK, TypeOK, HandlerTypes
<1>1. ASSUME NEW h \in Handlers, HandlerStep(h) PROVE HandlersOK'
  <2>1. Appears(h) => Create(h)
    <3>1. CASE FailCreatedRun(h) \/ FailStream(h)
      BY <3>1, SettleRunWrites
         DEF FailCreatedRun, FailStream, FailSettles, SettleRun, Appears, Exists, RowsOK, Active, Terminal
    <3>2. ASSUME NEW st \in {"completed", "incomplete"}, Complete(h, st) PROVE ~Appears(h)
      BY <3>2 DEF Complete, Completable, Appears, Exists, Active
    <3> QED
      BY <1>1, <3>1, <3>2
         DEF HandlerStep, ReserveAnswer, ReserveModel, Bind, CommitModel, ReleaseLease,
             EndSettlement, StreamError, Appears, Exists, runVars
  <2>2. HandlerOK(h)'
    BY <1>0, <1>1, <2>1, HandlerSteps
  <2>3. \A g \in Handlers : g # h => HandlerOK(g)'
    BY <1>0, <1>1, OthersStay, HandlerStays DEF Appears
  <2> QED
    BY <2>2, <2>3 DEF HandlersOK
<1>2. ASSUME NEW h \in Handlers, ClientStep(h) PROVE HandlersOK'
  <2>1. ~Appears(h)
    BY <1>2 DEF ClientStep, Start, Cancel, SignalAbort, Disconnect, Crash, Appears, Exists, Active,
                runVars, handlerVars, TypeOK, RunRow
  <2>2. HandlerOK(h)'
    BY <1>0, <1>2, <2>1, ClientSteps
  <2>3. \A g \in Handlers : g # h => HandlerOK(g)'
    BY <1>0, <1>2, OthersStay, HandlerStays DEF Appears
  <2> QED
    BY <2>2, <2>3 DEF HandlersOK
<1>3. CASE RecoveryStep \/ PrepareUserDeletion \/ DeleteUser \/ UNCHANGED vars
  <2>1. \A g \in Handlers : SameHandler(g)
    BY <1>3 DEF RecoveryStep, RecoverRun, ScanOrphans, ReleaseOrphan, PrepareUserDeletion, DeleteUser,
                vars, handlerVars, SameHandler
  <2>2. \A g \in Handlers : ~Appears(g)
    <3>1. ASSUME NEW f \in Handlers, RecoverRun(f), NEW g \in Handlers PROVE ~Appears(g)
      <4>1. CASE f = g
        BY <3>1, <4>1 DEF RecoverRun, WasInterrupted, NeedsTerminalSettlement, Appears, Exists,
                          Active, Terminal
      <4>2. CASE f # g
        BY <3>1, <4>2 DEF RecoverRun, SettleRun, Appears, Exists, TypeOK
      <4> QED
        BY <4>1, <4>2
    <3>2. CASE DeleteUser
      BY <3>2 DEF DeleteUser, NoRun, Appears, Exists
    <3>3. CASE PrepareUserDeletion \/ UNCHANGED vars
      BY <3>3 DEF PrepareUserDeletion, vars, runVars, Appears, Exists
    <3>4. ASSUME NEW k \in Keys, NEW r \in Resources, ScanOrphans(k, r) \/ ReleaseOrphan(k, r)
          PROVE  \A g \in Handlers : ~Appears(g)
      BY <3>4 DEF ScanOrphans, ReleaseOrphan, runVars, Appears, Exists
    <3> QED
      BY <1>3, <3>1, <3>2, <3>3, <3>4 DEF RecoveryStep
  <2> QED
    BY <1>0, <2>1, <2>2, HandlerStays DEF HandlersOK
<1> QED
  BY <1>1, <1>2, <1>3 DEF Next
-----------------------------------------------------------------------------
\* The invariant holds of every run of the handlers, the clients and the worker.
THEOREM Inductive == Spec => []IInv
<1>1. IInv /\ [Next]_vars => IInv'
  <2> SUFFICES ASSUME IInv, [Next]_vars PROVE IInv'
    OBVIOUS
  <2>1. TypeOK'
    BY TypesStep DEF IInv, RowsOK
  <2> QED
    BY <2>1, RowsStep, HandlersStep DEF IInv
<1> QED
  BY InitInvariant, <1>1, PTL DEF Spec

\* Every variable stays in its domain.
THEOREM TypeCorrect == Spec => []TypeOK
BY Inductive, PTL DEF IInv

\* An answer is charged exactly when it was delivered.
THEOREM ChargedIsDelivered == Spec => []ChargeMatchesAnswer
<1>1. IInv => ChargeMatchesAnswer
  BY DEF IInv, RowsOK
<1> QED
  BY <1>1, Inductive, PTL

\* A conversation never has two runs in progress.
THEOREM OneAnswer == Spec => []OneAnswerAtATime
<1>1. IInv => OneAnswerAtATime
  BY DEF IInv, RowsOK
<1> QED
  BY <1>1, Inductive, PTL

\* The selected run of a turn is its newest completed version.
THEOREM NewestIsSelected == Spec => []SelectedIsNewestCompleted
<1>1. IInv => SelectedIsNewestCompleted
  BY DEF IInv, RowsOK
<1> QED
  BY <1>1, Inductive, PTL

\* What the client was told at the end is what happened.
THEOREM ClientToldTheTruth == Spec => []ToldTheTruth
<1>1. IInv => ToldTheTruth
  BY DEF IInv, HandlersOK, HandlerOK, Truth, IsTrue, ToldTheTruth
<1> QED
  BY <1>1, Inductive, PTL
-----------------------------------------------------------------------------
\* The leases under the names module Lease gives them.
LeaseView   == [l \in {"account"} \X Resources \X Keys |-> lease[l[3]][l[2]]]
AccountView == [u \in {"account"} |-> account]

Takes(k, r) == account = "active" /\ lease[k][r] = "none" /\ SetLease(k, r, "reserved")
Ends(k, r, target) == SetLease(k, r, Settled(lease[k][r], target))

\* A step takes or settles at most one lease, or closes the account.
LEMMA LeaseSteps ==
    ASSUME TypeOK, RowsOK, HandlersOK, [Next]_vars
    PROVE  \/ UNCHANGED <<account, lease>>
           \/ account' = account /\ \E k \in Keys, r \in Resources : Takes(k, r)
           \/ account' = account /\ \E k \in Keys, r \in Resources, target \in {"committed", "released"} :
                                     Ends(k, r, target)
           \/ PrepareUserDeletion
           \/ DeleteUser
<1> USE DEF runVars, handlerVars
<1> DEFINE Goal == \/ UNCHANGED <<account, lease>>
                   \/ account' = account /\ \E k \in Keys, r \in Resources : Takes(k, r)
                   \/ account' = account /\ \E k \in Keys, r \in Resources, target \in {"committed", "released"} :
                                             Ends(k, r, target)
<1>0. "answer" \in Resources /\ "model_attempt" \in Resources
  BY DEF Resources
<1>k. \A h \in Handlers : pc[h] \notin {"idle", "done", "dead"} => req[h].key \in Keys
  BY DEF HandlersOK, HandlerOK, HasKey
<1>s. ASSUME NEW h \in Handlers, NEW st, SettleRun(h, st), Exists(h), account' = account PROVE Goal
  <2>1. run[h].key \in Keys /\ Expected(st) \in {"committed", "released"}
    BY <1>s DEF RowsOK, RowsNamed, Expected
  <2>2. Ends(run[h].key, "answer", Expected(st))
    BY <1>s DEF SettleRun, Ends
  <2> QED
    BY <1>0, <1>s, <2>1, <2>2
<1>1. ASSUME NEW h \in Handlers, ReserveAnswer(h) PROVE Goal
  BY <1>0, <1>k, <1>1 DEF ReserveAnswer, Answer, Takes
<1>2. ASSUME NEW h \in Handlers, ReserveModel(h) PROVE Goal
  BY <1>0, <1>k, <1>2 DEF ReserveModel, Model, Takes
<1>3. ASSUME NEW h \in Handlers, CommitModel(h) PROVE Goal
  BY <1>0, <1>k, <1>3 DEF CommitModel, Model, Ends
<1>4. ASSUME NEW h \in Handlers, NEW r \in Resources, ReleaseLease(h, r) PROVE Goal
  BY <1>k, <1>4 DEF ReleaseLease, Ends
<1>5. ASSUME NEW h \in Handlers, FailCreatedRun(h) \/ FailStream(h) PROVE Goal
  <2>1. ASSUME NEW st, FailSettles(h, st), account' = account PROVE Goal
    BY <1>s, <2>1 DEF FailSettles, Exists, Active
  <2> HIDE DEF Goal
  <2>2. account' = account /\ (lease' = lease => Goal)
    BY <1>5 DEF FailCreatedRun, FailStream, Goal
  <2> QED
    BY <1>5, <2>1, <2>2 DEF FailCreatedRun, FailStream
<1>6. ASSUME NEW h \in Handlers, NEW st \in {"completed", "incomplete"}, Complete(h, st) PROVE Goal
  BY <1>s, <1>6 DEF Complete, Completable, Exists, Active
<1>7. ASSUME NEW h \in Handlers, Create(h) \/ Bind(h) \/ EndSettlement(h) \/ StreamError(h) PROVE Goal
  BY <1>7 DEF Create, Bind, EndSettlement, StreamError
<1>8. ASSUME NEW h \in Handlers, ClientStep(h) PROVE Goal
  BY <1>8 DEF ClientStep, Start, Cancel, SignalAbort, Disconnect, Crash
<1>9. ASSUME NEW h \in Handlers, RecoverRun(h) PROVE Goal
  BY <1>s, <1>9 DEF RecoverRun, WasInterrupted, NeedsTerminalSettlement, Exists, Active, Terminal
<1>10. ASSUME NEW k \in Keys, NEW r \in Resources, ScanOrphans(k, r) \/ ReleaseOrphan(k, r) PROVE Goal
  BY <1>10 DEF ScanOrphans, ReleaseOrphan, Ends
<1>11. CASE UNCHANGED vars
  BY <1>11 DEF vars
<1> QED
  BY <1>1, <1>2, <1>3, <1>4, <1>5, <1>6, <1>7, <1>8, <1>9, <1>10, <1>11
     DEF Next, HandlerStep, RecoveryStep

\* One lease changes in the view when one lease changes.
LEMMA ViewOfOne ==
    ASSUME TypeOK, NEW k \in Keys, NEW r \in Resources, NEW st, SetLease(k, r, st)
    PROVE  /\ <<"account", r, k>> \in {"account"} \X Resources \X Keys
           /\ LeaseView[<<"account", r, k>>] = lease[k][r]
           /\ LeaseView' = [LeaseView EXCEPT ![<<"account", r, k>>] = st]
<1>1. <<"account", r, k>> \in {"account"} \X Resources \X Keys
  OBVIOUS
<1>2. \A l \in {"account"} \X Resources \X Keys :
         /\ l[2] \in Resources /\ l[3] \in Keys
         /\ l = <<"account", r, k>> <=> (l[2] = r /\ l[3] = k)
  OBVIOUS
<1>3. \A l \in {"account"} \X Resources \X Keys :
         lease'[l[3]][l[2]] = IF l = <<"account", r, k>> THEN st ELSE lease[l[3]][l[2]]
  BY <1>2, SetLeaseWrites
<1> QED
  BY <1>1, <1>3 DEF LeaseView

\* Handlers, failure paths, recovery and deletion only do with leases what
\* module Lease does, and hence what QuotaLedger implements.
THEOREM RunsUseLeases == Spec => UsesLeases
<1> USE DEF Promise!Leases
<1>1. IInv /\ Init => Promise!Init
  <2> SUFFICES ASSUME TypeOK, Init PROVE Promise!Init
    BY DEF IInv
  <2>1. \A l \in {"account"} \X Resources \X Keys : lease[l[3]][l[2]] \in Promise!Status
    BY DEF TypeOK, LeaseStatus, Promise!Status
  <2> QED
    BY <2>1 DEF Init, Promise!Init
<1>2. IInv /\ [Next]_vars => [Promise!Next]_(Promise!vars)
  <2> SUFFICES ASSUME TypeOK, RowsOK, HandlersOK, [Next]_vars PROVE [Promise!Next]_(Promise!vars)
    BY DEF IInv
  <2>1. CASE UNCHANGED <<account, lease>>
    BY <2>1 DEF Promise!vars
  <2>2. ASSUME NEW k \in Keys, NEW r \in Resources, Takes(k, r), account' = account PROVE Promise!Next
    <3> DEFINE l == <<"account", r, k>>
    <3>1. SetLease(k, r, "reserved") /\ lease[k][r] = "none" /\ account = "active"
      BY <2>2 DEF Takes
    <3>2. l \in {"account"} \X Resources \X Keys
      OBVIOUS
    <3>3. LeaseView[l] = "none" /\ LeaseView' = [LeaseView EXCEPT ![l] = "reserved"]
      BY <3>1, ViewOfOne
    <3>4. AccountView["account"] = "active" /\ AccountView' = AccountView
      BY <2>2, <3>1 DEF AccountView
    <3>5. Promise!Reserve(l)
      BY <3>3, <3>4 DEF Promise!Reserve, LeaseView, AccountView
    <3> QED
      BY <3>2, <3>5 DEF Promise!Next
  <2>3. ASSUME NEW k \in Keys, NEW r \in Resources, NEW target \in {"committed", "released"},
               Ends(k, r, target), account' = account
        PROVE  [Promise!Next]_(Promise!vars)
    <3> DEFINE l == <<"account", r, k>>
    <3>1. SetLease(k, r, Settled(lease[k][r], target))
      BY <2>3 DEF Ends
    <3>2. /\ l \in {"account"} \X Resources \X Keys /\ LeaseView[l] = lease[k][r]
          /\ LeaseView' = [LeaseView EXCEPT ![l] = Settled(lease[k][r], target)]
      BY <3>1, ViewOfOne
    <3>3. AccountView' = AccountView
      BY <2>3 DEF AccountView
    <3>4. CASE lease[k][r] = "reserved"
      <4>1. Promise!Settle(l, target)
        BY <3>2, <3>3, <3>4 DEF Promise!Settle, Settled, LeaseView, AccountView
      <4> QED
        BY <3>2, <4>1 DEF Promise!Next
    <3>5. CASE lease[k][r] # "reserved"
      <4>1. LeaseView' = LeaseView
        BY <3>2, <3>5 DEF Settled, LeaseView
      <4> QED
        BY <3>3, <4>1 DEF Promise!vars, LeaseView, AccountView
    <3> QED
      BY <3>4, <3>5
  <2>4. CASE PrepareUserDeletion
    <3>1. account = "active" /\ account' = "deleting"
      BY <2>4 DEF PrepareUserDeletion
    <3>2. \A l \in {"account"} \X Resources \X Keys :
             /\ l[1] = "account" /\ l[2] \in Resources /\ l[3] \in Keys
             /\ lease'[l[3]][l[2]] = IF l[2] = "answer" THEN "none"
                                     ELSE IF lease[l[3]][l[2]] = "reserved" THEN "released"
                                     ELSE lease[l[3]][l[2]]
      BY <2>4 DEF PrepareUserDeletion, Settled
    <3>3. Promise!Close("account")
      BY <3>1, <3>2 DEF Promise!Close, Promise!Closed
    <3> QED
      BY <3>3 DEF Promise!Next
  <2>5. CASE DeleteUser
    <3>1. account = "deleting" /\ account' = "deleted"
      BY <2>5 DEF DeleteUser
    <3>2. \A l \in {"account"} \X Resources \X Keys : l[1] = "account" /\ lease'[l[3]][l[2]] = "none"
      BY <2>5 DEF DeleteUser
    <3>3. Promise!Remove("account")
      BY <3>1, <3>2 DEF Promise!Remove
    <3> QED
      BY <3>3 DEF Promise!Next
  <2> QED
    BY <2>1, <2>2, <2>3, <2>4, <2>5, LeaseSteps
<1>3. Spec => Promise!Spec
  BY Inductive, <1>1, <1>2, PTL DEF Spec, Promise!Spec
<1> QED
  BY <1>3 DEF UsesLeases
=============================================================================
