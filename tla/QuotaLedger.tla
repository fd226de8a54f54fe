---------------------------- MODULE QuotaLedger ----------------------------
(***************************************************************************)
(* The quota accounting of OpenVac: daily buckets (quota_bucket), the      *)
(* per-scope ledger rows of a lease (quota_ledger) and the account states  *)
(* that gate them.  Every public operation of PostgresQuotaRepository, and *)
(* the two account-deletion transactions that touch the same tables, is    *)
(* one PostgreSQL transaction and therefore one action.  The statements of *)
(* a reserve transaction are interleaved in module QuotaReserveTx.         *)
(*                                                                         *)
(* A lease is identified by its idempotency key <<user, resource, client   *)
(* request>>: the unique index quota_ledger_idempotency_unique allows one  *)
(* lease per key for as long as its rows exist.  Every caller reserves one *)
(* unit (ReserveQuotaInput.units is never passed).                         *)
(***************************************************************************)
EXTENDS Integers, FiniteSets

CONSTANTS
    Users,       \* account identifiers; a user scope is keyed by one
    Requests,    \* client request identifiers
    Resources,   \* quota_resource values in use
    Windows,     \* day keys of shanghaiDailyWindow
    GlobalKey,   \* the scope key "all" of the global scope
    NoWindow,    \* window of a lease that has never been reserved
    MaxLimit     \* the largest policy limit (environment limit plus bonus)

ASSUME QuotaConstants ==
    /\ Resources \subseteq {"answer", "web_search", "model_attempt"}
    /\ GlobalKey \notin Users
    /\ NoWindow \notin Windows
    /\ MaxLimit \in Nat

VARIABLES
    account,     \* account[u]: "active", "deleting" (deletionRequestedAt) or "deleted"
    status,      \* status[l][s]: ledger row of lease l in scope s, "none" when absent
    window,      \* window[l]: windowKey of the rows of l
    present,     \* present[b]: the quota_bucket row exists
    limit,       \* limit[b]: limitValue
    reserved,    \* reserved[b]: reservedUnits
    committed,   \* committed[b]: committedUnits
    forgotten    \* history: committed units of rows removed with their account

vars == <<account, status, window, present, limit, reserved, committed, forgotten>>

Scopes  == Users \cup {GlobalKey}
Leases  == Users \X Resources \X Requests
Buckets == Resources \X Scopes \X Windows
Limits  == 1 .. MaxLimit

RowStatus == {"none", "reserved", "committed", "released"}

Owner(l) == l[1]

\* QuotaService.scopes: an answer is charged to its user only, a web search and
\* a model attempt to the global scope and to the user.
ScopesOf(l) == IF l[2] = "answer" THEN {l[1]} ELSE {GlobalKey, l[1]}

\* selectIdempotentRows: the rows of a lease.
RowsOf(l) == {s \in Scopes : status[l][s] # "none"}

\* aggregateStatus of the rows of l.
AggregateStatus(l) ==
    CASE RowsOf(l) = {} -> "none"
      [] RowsOf(l) # {} /\ \A s \in RowsOf(l) : status[l][s] = "committed" -> "committed"
      [] RowsOf(l) # {} /\ \A s \in RowsOf(l) : status[l][s] = "released" -> "released"
      [] OTHER -> "reserved"

\* The leases whose row in bucket b has the given status.
Holding(b, st) ==
    {l \in Leases : l[2] = b[1] /\ window[l] = b[3] /\ status[l][b[2]] = st}

\* reconcileQuotaBucketLimit: a lowered policy never drops below what is used.
ReconciledLimit(policy, b) ==
    IF policy >= reserved[b] + committed[b] THEN policy ELSE reserved[b] + committed[b]

-----------------------------------------------------------------------------

Init ==
    /\ account = [u \in Users |-> "active"]
    /\ status = [l \in Leases |-> [s \in Scopes |-> "none"]]
    /\ window = [l \in Leases |-> NoWindow]
    /\ present = [b \in Buckets |-> FALSE]
    /\ limit = [b \in Buckets |-> 0]
    /\ reserved = [b \in Buckets |-> 0]
    /\ committed = [b \in Buckets |-> 0]
    /\ forgotten = [b \in Buckets |-> 0]

\* assertActorCanReserve: the account exists and its deletion was not requested.
CanReserveWhileDeleting(u) == account[u] # "deleted"
CanReserve(u) == account[u] = "active"

\* The conditional update that each scope of a reserve must be granted.
FitsOffByOne(b, policy) == reserved[b] + committed[b] <= ReconciledLimit(policy, b)
Fits(b, policy) == reserved[b] + committed[b] + 1 <= ReconciledLimit(policy, b)

\* reserve, the path that creates a lease.  policy[s] is the limit the service
\* computed before the transaction (environment limit, plus the answer bonus an
\* administrator may change at any time).  A scope that does not fit rolls the
\* whole transaction back.
Reserve(l, w, policy) ==
    LET charged == {<<l[2], s, w>> : s \in ScopesOf(l)}
    IN  /\ CanReserve(Owner(l))
        /\ RowsOf(l) = {}
        /\ \A s \in ScopesOf(l) : Fits(<<l[2], s, w>>, policy[s])
        /\ status' = [status EXCEPT ![l] =
                        [s \in Scopes |-> IF s \in ScopesOf(l) THEN "reserved" ELSE "none"]]
        /\ window' = [window EXCEPT ![l] = w]
        /\ present' = [b \in Buckets |-> present[b] \/ b \in charged]
        /\ limit' = [b \in Buckets |->
                        IF b \in charged THEN ReconciledLimit(policy[b[2]], b) ELSE limit[b]]
        /\ reserved' = [b \in Buckets |->
                        IF b \in charged THEN reserved[b] + 1 ELSE reserved[b]]
        /\ UNCHANGED <<account, committed, forgotten>>

\* The rows a transition moves: the others are skipped.
MovableSettledToo(l) == RowsOf(l)
Movable(l) == {s \in Scopes : status[l][s] = "reserved"}

\* transitionQuotaReservation: each row still reserved moves to the target and
\* its bucket with it; a settled row is skipped.
Transition(l, target) ==
    LET moved == Movable(l)
        hit   == {<<l[2], s, window[l]>> : s \in moved}
    IN  /\ RowsOf(l) # {}
        /\ status' = [status EXCEPT ![l] =
                        [s \in Scopes |-> IF s \in moved THEN target ELSE status[l][s]]]
        /\ reserved' = [b \in Buckets |-> IF b \in hit THEN reserved[b] - 1 ELSE reserved[b]]
        /\ committed' = [b \in Buckets |->
                        IF b \in hit /\ target = "committed" THEN committed[b] + 1 ELSE committed[b]]
        /\ UNCHANGED <<account, window, present, limit, forgotten>>

Commit(l)  == Transition(l, "committed")
Release(l) == Transition(l, "released")

\* The rows of user u that hold a unit of bucket b.
HeldBy(u, b, st) == {l \in Holding(b, st) : Owner(l) = u}

\* The buckets that go with the account: user scopes keyed by its identifier.
Removed(u, b) == b[2] = u

\* prepareUserDeletion: blocks new leases, gives reserved units back, and deletes
\* the user-scoped buckets with the ledger rows that cascade from them.
PrepareUserDeletion(u) ==
    /\ account[u] # "deleted"
    /\ account' = [account EXCEPT ![u] = "deleting"]
    /\ status' = [l \in Leases |-> [s \in Scopes |->
                    IF Owner(l) # u THEN status[l][s]
                    ELSE IF s = u THEN "none"
                    ELSE IF status[l][s] = "reserved" THEN "released" ELSE status[l][s]]]
    /\ present' = [b \in Buckets |-> present[b] /\ ~Removed(u, b)]
    /\ limit' = [b \in Buckets |-> IF Removed(u, b) THEN 0 ELSE limit[b]]
    /\ reserved' = [b \in Buckets |-> IF Removed(u, b) THEN 0
                        ELSE reserved[b] - Cardinality(HeldBy(u, b, "reserved"))]
    /\ committed' = [b \in Buckets |-> IF Removed(u, b) THEN 0 ELSE committed[b]]
    /\ UNCHANGED <<window, forgotten>>

\* Better Auth deletes the user row after beforeDelete succeeded; the remaining
\* ledger rows cascade, their buckets are not touched.
DeleteUser(u) ==
    /\ account[u] = "deleting"
    /\ account' = [account EXCEPT ![u] = "deleted"]
    /\ status' = [l \in Leases |->
                    IF Owner(l) = u THEN [s \in Scopes |-> "none"] ELSE status[l]]
    /\ forgotten' = [b \in Buckets |-> forgotten[b] + Cardinality(HeldBy(u, b, "committed"))]
    /\ UNCHANGED <<window, present, limit, reserved, committed>>

\* cleanupDeletedUser, run after the user row is gone: any user-scoped bucket
\* that appeared meanwhile is deleted with its rows.
CleanupDeletedUser(u) ==
    /\ account[u] = "deleted"
    /\ status' = [l \in Leases |-> [status[l] EXCEPT ![u] = "none"]]
    /\ present' = [b \in Buckets |-> present[b] /\ ~Removed(u, b)]
    /\ limit' = [b \in Buckets |-> IF Removed(u, b) THEN 0 ELSE limit[b]]
    /\ reserved' = [b \in Buckets |-> IF Removed(u, b) THEN 0 ELSE reserved[b]]
    /\ committed' = [b \in Buckets |-> IF Removed(u, b) THEN 0 ELSE committed[b]]
    /\ UNCHANGED <<account, window, forgotten>>

Next ==
    \/ \E l \in Leases, w \in Windows : \E policy \in [ScopesOf(l) -> Limits] : Reserve(l, w, policy)
    \/ \E l \in Leases : Commit(l)
    \/ \E l \in Leases : Release(l)
    \/ \E u \in Users : PrepareUserDeletion(u)
    \/ \E u \in Users : DeleteUser(u)
    \/ \E u \in Users : CleanupDeletedUser(u)

Spec == Init /\ [][Next]_vars
-----------------------------------------------------------------------------

\* Every variable stays in its domain; in particular no counter leaves Nat.
TypeOK ==
    /\ account \in [Users -> {"active", "deleting", "deleted"}]
    /\ status \in [Leases -> [Scopes -> RowStatus]]
    /\ window \in [Leases -> Windows \cup {NoWindow}]
    /\ present \in [Buckets -> BOOLEAN]
    /\ limit \in [Buckets -> Nat]
    /\ reserved \in [Buckets -> Nat]
    /\ committed \in [Buckets -> Nat]
    /\ forgotten \in [Buckets -> Nat]

\* reserved_units and committed_units of a bucket are exactly the rows that hold
\* a unit in it, plus, for committed units, those whose account was removed.
BucketMatchesLedger ==
    \A b \in Buckets :
        /\ reserved[b] = Cardinality(Holding(b, "reserved"))
        /\ committed[b] = Cardinality(Holding(b, "committed")) + forgotten[b]

\* The CHECK constraints of quota_bucket (quota_bucket_counts_non_negative and
\* quota_bucket_within_limit) hold after every transaction, so no settlement is
\* ever aborted by one, whatever the policy limit was lowered to.
BucketChecksHold ==
    \A b \in Buckets :
        /\ reserved[b] >= 0 /\ committed[b] >= 0
        /\ reserved[b] + committed[b] <= limit[b]

\* A lease of an active account is settled in all of its scopes or in none:
\* it has a row in every scope it charges and the rows agree.
LeaseIsAtomic ==
    \A l \in Leases :
        account[Owner(l)] = "active" /\ RowsOf(l) # {} =>
            /\ RowsOf(l) = ScopesOf(l)
            /\ \A s \in RowsOf(l) : status[l][s] = AggregateStatus(l)

\* From the moment deletion was requested the account holds no reserved unit
\* anywhere and no bucket keyed by its identifier exists, so removing the user
\* cannot strand units of the shared global bucket.
DeletionLeavesNothingHeld ==
    \A u \in Users : account[u] # "active" =>
        /\ \A l \in Leases : Owner(l) = u => \A s \in Scopes : status[l][s] # "reserved"
        /\ \A b \in Buckets : b[2] = u => ~present[b]

\* A settled row is final: it is never reserved again nor moved to the other
\* outcome; it can only disappear with its account.
SettledIsFinal ==
    [][\A l \in Leases, s \in Scopes :
          status[l][s] \in {"committed", "released"} /\ status'[l][s] # status[l][s]
            => status'[l][s] = "none" /\ account'[Owner(l)] # "active"]_vars

\* Units charged to the global scope of a day are never given back, not even by
\* the deletion of the account that spent them.
GlobalChargeIsKept ==
    [][\A b \in Buckets : b[2] = GlobalKey => committed'[b] >= committed[b]]_vars

\* The aggregate status of every lease, as callers see it.
LeaseView == [l \in Leases |-> AggregateStatus(l)]

Promise == INSTANCE Lease WITH lease <- LeaseView

\* The tables implement what callers rely on: seen through aggregateStatus, a
\* lease is created once, settled once and keeps its outcome, and every transaction
\* that moves several rows and buckets looks like one step.
ImplementsLease == Promise!Spec
=============================================================================
