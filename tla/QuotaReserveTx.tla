--------------------------- MODULE QuotaReserveTx ---------------------------
(***************************************************************************)
(* The quota transactions of QuotaLedger taken apart into their statements *)
(* under PostgreSQL's READ COMMITTED isolation: a process runs one reserve *)
(* or one transition, waits for row locks, reads what is committed at that *)
(* moment, keeps its writes to itself until it commits, and may be aborted *)
(* between any two statements.  The variables of QuotaLedger are the       *)
(* committed database.                                                     *)
(*                                                                         *)
(* prepareUserDeletion and the removal of a user hold the user row FOR     *)
(* UPDATE throughout; they are one step, taken when every lock they need   *)
(* is free.                                                                *)
(***************************************************************************)
EXTENDS QuotaLedger

CONSTANTS
    Procs,     \* database sessions
    NoLease    \* a session that has not begun

ASSUME TxConstants == NoLease \notin Leases

VARIABLE tx    \* tx[p]: the transaction of session p

txVars == <<vars, tx>>

Idle == [pc |-> "idle", lease |-> NoLease, target |-> "reserved", window |-> NoWindow,
         policy |-> <<>>, buckets |-> <<>>, rows |-> <<>>]

Init_ == Init /\ tx = [p \in Procs |-> Idle]

\* Sessions between their first statement and their end.
Open(p) == tx[p].pc \in {"read", "bucket", "insert", "commit"}

\* The KEY SHARE lock on the user row (assertActorCanReserve and
\* lockActorForTransition), kept until the transaction ends.
ActorNeverLocked(u) == FALSE
ActorLocked(u) == \E p \in Procs : Open(p) /\ Owner(tx[p].lease) = u

\* The bucket rows locked by another session, by INSERT or FOR UPDATE.
LockedBuckets(p) == UNION {DOMAIN tx[q].buckets : q \in {q \in Procs \ {p} : Open(q)}}

Bucket(t, s) == <<t.lease[2], s, t.window>>

\* The scopes a transaction has still to charge, and the one compareScopes puts
\* first: the global scope before the user scope.
Remaining(t) ==
    {s \in IF t.target = "reserved" THEN ScopesOf(t.lease) ELSE Movable(t.lease) :
        Bucket(t, s) \notin DOMAIN t.buckets}
FirstScopeUnsortedSettle(t) ==
    IF GlobalKey \in Remaining(t) /\ (t.target = "reserved" \/ Remaining(t) = {GlobalKey})
    THEN {GlobalKey} ELSE Remaining(t) \ {GlobalKey}
FirstScope(t) == IF GlobalKey \in Remaining(t) THEN {GlobalKey} ELSE Remaining(t)

Step(p, t) == tx' = [tx EXCEPT ![p] = t]

\* The transaction ends, and its connection goes back to the pool; a rollback
\* leaves no trace in the database.
EndTx(p) == Step(p, Idle)

\* f extended with x |-> y.
With(f, x, y) == [z \in DOMAIN f \cup {x} |-> IF z = x THEN y ELSE f[z]]
-----------------------------------------------------------------------------

\* reserve, first statement: assertActorCanReserve.
BeginReserve(p, l, w, policy) ==
    /\ tx[p].pc = "idle" /\ CanReserve(Owner(l))
    /\ Step(p, [Idle EXCEPT !.pc = "read", !.lease = l, !.window = w, !.policy = policy])
    /\ UNCHANGED vars

\* reserve: selectIdempotentRows, without a lock.
ReadRows(p) ==
    /\ tx[p].pc = "read" /\ tx[p].target = "reserved"
    /\ IF RowsOf(tx[p].lease) # {} THEN EndTx(p)
       ELSE Step(p, [tx[p] EXCEPT !.pc = "bucket"])
    /\ UNCHANGED vars

\* reserve: the next bucket is inserted or locked, its limit reconciled and the
\* unit added if it fits; otherwise QuotaExceededError rolls everything back.
ChargeBucket(p) ==
    LET t == tx[p]
    IN  /\ t.pc = "bucket" /\ t.target = "reserved"
        /\ \E s \in FirstScope(t) :
              LET b == Bucket(t, s)
              IN  /\ b \notin LockedBuckets(p)
                  /\ IF Fits(b, t.policy[s])
                     THEN Step(p, [t EXCEPT
                              !.pc = "insert",
                              !.buckets = With(@, b, [limit |-> ReconciledLimit(t.policy[s], b),
                                                      reserved |-> reserved[b] + 1,
                                                      committed |-> committed[b]]),
                              !.rows = With(@, s, "pending")])
                     ELSE EndTx(p)
        /\ UNCHANGED vars

\* reserve: the ledger row of the scope.  quota_ledger_idempotency_unique makes it
\* wait for a concurrent insert of the same key and refuses it if one committed.
ClaimedElsewhere(p, s) ==
    \E q \in Procs \ {p} : /\ Open(q) /\ tx[q].target = "reserved" /\ tx[q].lease = tx[p].lease
                           /\ s \in DOMAIN tx[q].rows /\ tx[q].rows[s] = "reserved"
Duplicate(l, s) == status[l][s] # "none"

InsertRow(p) ==
    LET t == tx[p]
    IN  /\ t.pc = "insert"
        /\ \E s \in DOMAIN t.rows :
              /\ t.rows[s] = "pending" /\ ~ClaimedElsewhere(p, s)
              /\ IF Duplicate(t.lease, s)
                 THEN Step(p, [Idle EXCEPT !.pc = "winner", !.lease = t.lease])
                 ELSE Step(p, [t EXCEPT !.rows[s] = "reserved",
                                        !.pc = IF Remaining(t) = {} THEN "commit" ELSE "bucket"])
        /\ UNCHANGED vars

\* After a unique violation the rows of the winner are the answer.
ReadWinner(p) ==
    /\ tx[p].pc = "winner"
    /\ EndTx(p)
    /\ UNCHANGED vars

\* transitionQuotaReservation, first statements: the actor lock and the ledger
\* rows FOR UPDATE, read once no other transition holds them.
BeginTransition(p, l, target) ==
    /\ tx[p].pc = "idle"
    /\ ~\E q \in Procs : Open(q) /\ tx[q].target # "reserved" /\ tx[q].lease = l
    /\ RowsOf(l) # {}
    /\ Step(p, [Idle EXCEPT !.pc = IF Movable(l) = {} THEN "commit" ELSE "bucket",
                            !.lease = l, !.target = target, !.window = window[l]])
    /\ UNCHANGED vars

\* transitionQuotaReservation: the next row that is still reserved.
MoveRow(p) ==
    LET t == tx[p]
    IN  /\ t.pc = "bucket" /\ t.target # "reserved"
        /\ \E s \in FirstScope(t) :
              LET b == Bucket(t, s)
              IN  /\ b \notin LockedBuckets(p)
                  /\ Step(p, [t EXCEPT
                       !.pc = IF Remaining(t) = {s} THEN "commit" ELSE "bucket",
                       !.buckets = With(@, b, [limit |-> limit[b], reserved |-> reserved[b] - 1,
                                               committed |-> IF t.target = "committed"
                                                             THEN committed[b] + 1 ELSE committed[b]]),
                       !.rows = With(@, s, t.target)])
        /\ UNCHANGED vars

\* COMMIT: the writes of the transaction become visible together.
CommitTx(p) ==
    LET t == tx[p]
        written(b) == b \in DOMAIN t.buckets
    IN  /\ t.pc = "commit"
        /\ status' = [status EXCEPT ![t.lease] =
                        [s \in Scopes |-> IF s \in DOMAIN t.rows THEN t.rows[s] ELSE @[s]]]
        /\ window' = [window EXCEPT ![t.lease] = t.window]
        /\ present' = [b \in Buckets |-> present[b] \/ written(b)]
        /\ limit' = [b \in Buckets |-> IF written(b) THEN t.buckets[b].limit ELSE limit[b]]
        /\ reserved' = [b \in Buckets |-> IF written(b) THEN t.buckets[b].reserved ELSE reserved[b]]
        /\ committed' = [b \in Buckets |-> IF written(b) THEN t.buckets[b].committed ELSE committed[b]]
        /\ EndTx(p)
        /\ UNCHANGED <<account, forgotten>>

\* A statement fails, the connection or the process is lost: ROLLBACK.
Abort(p) ==
    /\ Open(p)
    /\ EndTx(p)
    /\ UNCHANGED vars

\* The account transactions wait for the locks on the user row and on every
\* bucket they write.
DeletionStep(u) ==
    /\ ~ActorLocked(u)
    /\ \A b \in Buckets : Removed(u, b) \/ HeldBy(u, b, "reserved") # {} =>
          \A p \in Procs : Open(p) => b \notin DOMAIN tx[p].buckets
    /\ PrepareUserDeletion(u) \/ DeleteUser(u) \/ CleanupDeletedUser(u)
    /\ UNCHANGED tx

SessionStep(p) ==
    \/ ReadRows(p)
    \/ ChargeBucket(p)
    \/ InsertRow(p)
    \/ ReadWinner(p)
    \/ MoveRow(p)
    \/ CommitTx(p)

BeginStep(p) ==
    \/ \E l \in Leases, w \in Windows : \E policy \in [ScopesOf(l) -> Limits] :
          BeginReserve(p, l, w, policy)
    \/ \E l \in Leases, target \in {"committed", "released"} : BeginTransition(p, l, target)

TxNext ==
    \/ \E p \in Procs : BeginStep(p)
    \/ \E p \in Procs : SessionStep(p)
    \/ \E p \in Procs : Abort(p)
    \/ \E u \in Users : DeletionStep(u)

TxSpec == Init_ /\ [][TxNext]_txVars
-----------------------------------------------------------------------------

\* Whatever the interleaving of statements, the committed database only ever
\* changes by the whole operations of QuotaLedger: READ COMMITTED, the row locks
\* and the unique index are enough to make reserve and settle atomic.
ImplementsLedger == Spec

\* Session p cannot go on: the row it comes to next is locked, or claimed, by a
\* session that is still open.
Waits(p) ==
    LET t == tx[p]
    IN  \/ t.pc = "bucket" /\ \A s \in FirstScope(t) : Bucket(t, s) \in LockedBuckets(p)
        \/ t.pc = "insert" /\ \A s \in DOMAIN t.rows :
              t.rows[s] = "pending" => ClaimedElsewhere(p, s)

\* Open transactions never all wait for each other: the lock order of scopes and
\* the unique index leave no cycle that only a deadlock error could break.
NoWaitCycle ==
    (\E p \in Procs : Open(p)) => \E p \in Procs : Open(p) /\ ~Waits(p)
=============================================================================
