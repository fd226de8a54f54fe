------------------------------- MODULE Lease -------------------------------
(***************************************************************************)
(* What the quota component promises its callers: a client request holds   *)
(* at most one lease per resource, the lease is settled once and keeps its *)
(* outcome, and closing the account gives back what is still held.  The    *)
(* module is what QuotaReservation.status shows of the tables of           *)
(* QuotaLedger; AgentRun, which uses the component, is checked against it. *)
(***************************************************************************)
CONSTANTS Users, Resources, Requests

VARIABLES
    account,   \* account[u]: "active", "deleting" or "deleted"
    lease      \* lease[l]: aggregate status of lease l, "none" when it has no rows

vars == <<account, lease>>

Leases == Users \X Resources \X Requests
Status == {"none", "reserved", "committed", "released"}

\* Only leases of open accounts exist to begin with.
Init ==
    /\ account = [u \in Users |-> "active"]
    /\ lease \in [Leases -> Status]

\* reserve: a new lease of an open account.
Reserve(l) ==
    /\ account[l[1]] = "active" /\ lease[l] = "none"
    /\ lease' = [lease EXCEPT ![l] = "reserved"]
    /\ UNCHANGED account

\* commit and release: the first one decides, a later one changes nothing.
Settle(l, target) ==
    /\ lease[l] = "reserved"
    /\ lease' = [lease EXCEPT ![l] = target]
    /\ UNCHANGED account

\* prepareUserDeletion: a lease charged to the account alone disappears with the
\* user-scoped bucket; one that is also charged globally keeps its outcome.
Closed(l) ==
    IF l[2] = "answer" THEN "none"
    ELSE IF lease[l] = "reserved" THEN "released" ELSE lease[l]

Close(u) ==
    /\ account[u] = "active"
    /\ account' = [account EXCEPT ![u] = "deleting"]
    /\ lease' = [l \in Leases |-> IF l[1] = u THEN Closed(l) ELSE lease[l]]

\* The user row goes, and every lease with it.
Remove(u) ==
    /\ account[u] = "deleting"
    /\ account' = [account EXCEPT ![u] = "deleted"]
    /\ lease' = [l \in Leases |-> IF l[1] = u THEN "none" ELSE lease[l]]

Next ==
    \/ \E l \in Leases : Reserve(l)
    \/ \E l \in Leases, target \in {"committed", "released"} : Settle(l, target)
    \/ \E u \in Users : Close(u)
    \/ \E u \in Users : Remove(u)

Spec == Init /\ [][Next]_vars
=============================================================================
