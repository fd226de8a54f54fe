--------------------------- MODULE Administration ---------------------------
(***************************************************************************)
(* Accounts and the people who administer them: roles, invitations, bans,      *)
(* sessions, quota bonuses and the deletion of an account.  A request is    *)
(* authenticated, with the role its actor then has, and writes later; all   *)
(* writes to roles, bans and sessions take one advisory lock and read the   *)
(* roles again under it, so each transaction is one action.  The writes to  *)
(* invitations trust the role of the authentication, Better Auth's own      *)
(* writes (sign-in, the deletion of the row) take no lock.                  *)
(***************************************************************************)
EXTENDS Naturals, FiniteSets

CONSTANTS
    Users, Invitations, None,
    MaxMeasures,  \* bound: bans, bonuses and sign-outs
    MaxRequests   \* bound: requests and sign-ins under way at a time

\* "support" stands for the three professional roles, which administer nobody.
Roles == {"owner", "admin", "support"}

ASSUME AdministrationAssumption ==
    /\ None \notin Users \cup Roles
    /\ MaxMeasures \in Nat /\ MaxRequests \in Nat \ {0}

VARIABLES
    account,     \* the row: active, deleting (beforeDelete ran), marked (and then
                 \* the deletion broke off), gone
    role,        \* admin_role, unique per user
    invitation,  \* rows of admin_invitation
    ban,         \* banned and ban_expires
    measures,    \* bans, bonuses and sign-outs given so far
    bonus,       \* whether daily_quota_bonus is raised
    session,     \* whether the account has a live session
    signIn,      \* a sign-in under way: what it read of the ban
    request,     \* an authenticated request under way and the role it carries
    stray        \* ghost: an account under deletion became owner

vars == <<account, role, invitation, ban, measures, bonus, session, signIn, request, stray>>
peopleVars == <<account, invitation, signIn>>
banVars == <<ban, measures>>

NoInvitation == [status |-> "none", role |-> "support", to |-> None, acceptedBy |-> None]

\* One owner, as the bootstrap script leaves it, and users who are signed in.
Init ==
    /\ account = [u \in Users |-> "active"]
    /\ \E o \in Users : role = [u \in Users |-> IF u = o THEN "owner" ELSE None]
    /\ invitation = [i \in Invitations |-> NoInvitation]
    /\ ban = [u \in Users |-> "none"] /\ measures = 0
    /\ bonus = [u \in Users |-> FALSE]
    /\ session = [u \in Users |-> TRUE]
    /\ signIn = [u \in Users |-> "none"]
    /\ request = [u \in Users |-> "none"]
    /\ stray = FALSE

-----------------------------------------------------------------------------
(* Authentication.                                                         *)

isEffectiveBan(u) == ban[u] \in {"timed", "permanent"}

HasRoom ==
    Cardinality({u \in Users : request[u] # "none" \/ signIn[u] # "none"}) < MaxRequests

\* authenticate and requireCapability: a signed-in account, not banned and not
\* being deleted; admins:write and users:write belong to owners and admins.
Authenticate(u) ==
    /\ request[u] = "none" /\ HasRoom
    /\ session[u] /\ account[u] = "active" /\ ~isEffectiveBan(u)
    /\ request' \in {[request EXCEPT ![u] = r] : r \in {"user"} \cup ({role[u]} \cap {"owner", "admin"})}
    /\ UNCHANGED <<peopleVars, role, banVars, bonus, session, stray>>

\* The request of u performs its one write and ends.
Performs(u) == request[u] # "none" /\ request' = [request EXCEPT ![u] = "none"]
AsAdministrator(u) == request[u] \in Roles /\ Performs(u)

\* It is refused, rolled back or given up.
Ends(u) ==
    /\ Performs(u)
    /\ UNCHANGED <<peopleVars, role, banVars, bonus, session, stray>>

-----------------------------------------------------------------------------
(* Roles.                                                                  *)

\* assertAdminRoleMutationAllowed and assertInvitationRoleAllowed.
MayAssign(actorRole, r) ==
    actorRole = "owner" \/ (actorRole = "admin" /\ r \notin {"owner", "admin"})

MutCurrentRole(u) == request[u]

\* effectiveAdminRole, read under the lock.
CurrentRole(u) == role[u]

Owners == {u \in Users : role[u] = "owner"}
MutLeavesAnOwner(r) == r = "owner" => Owners # {}

\* assertOwnerRoleRevocationAllowed
LeavesAnOwner(r) == r = "owner" => Cardinality(Owners) > 1

Becomes(t, r) ==
    /\ role' = [role EXCEPT ![t] = r]
    /\ stray' = (stray \/ (r = "owner" /\ account[t] # "active"))

grantAdminRole(a, t, r) ==
    /\ AsAdministrator(a) /\ MayAssign(CurrentRole(a), r)
    /\ account[t] = "active" /\ role[t] = None
    /\ Becomes(t, r)
    /\ UNCHANGED <<peopleVars, banVars, bonus, session>>

revokeAdminRole(a, t) ==
    /\ AsAdministrator(a) /\ role[t] # None
    /\ MayAssign(CurrentRole(a), role[t]) /\ LeavesAnOwner(role[t])
    /\ Becomes(t, None)
    /\ UNCHANGED <<peopleVars, banVars, bonus, session>>

replaceAdminRole(a, t, r) ==
    /\ AsAdministrator(a) /\ role[t] # None
    /\ MayAssign(CurrentRole(a), role[t]) /\ MayAssign(CurrentRole(a), r)
    /\ r # "owner" => LeavesAnOwner(role[t])
    /\ Becomes(t, r)
    /\ UNCHANGED <<peopleVars, banVars, bonus, session>>

-----------------------------------------------------------------------------
(* Invitations: addressed to an e-mail, here to the account that has it.    *)

createAdminInvitation(a, i, r, to) ==
    /\ AsAdministrator(a) /\ MayAssign(request[a], r)
    /\ account[a] # "gone" /\ invitation[i].status = "none"
    /\ invitation' = [invitation EXCEPT
                        ![i] = [NoInvitation EXCEPT !.status = "pending", !.role = r, !.to = to]]
    /\ UNCHANGED <<account, role, banVars, bonus, session, signIn, stray>>

MutOpen(i) == invitation[i].status \in {"pending", "expired"}

\* Neither accepted nor revoked nor expired.
Open(i) == invitation[i].status = "pending"

revokeAdminInvitation(a, i) ==
    /\ AsAdministrator(a) /\ MayAssign(request[a], invitation[i].role)
    /\ account[a] # "gone" /\ Open(i)
    /\ invitation' = [invitation EXCEPT ![i].status = "revoked"]
    /\ UNCHANGED <<account, role, banVars, bonus, session, signIn, stray>>

\* Whether the account is being deleted is not asked again.
acceptAdminInvitation(u, i) ==
    /\ request[u] = "user" /\ Performs(u)
    /\ Open(i) /\ invitation[i].to = u
    /\ account[u] # "gone" /\ role[u] = None
    /\ Becomes(u, invitation[i].role)
    /\ invitation' = [invitation EXCEPT ![i].status = "accepted", ![i].acceptedBy = u]
    /\ UNCHANGED <<account, banVars, bonus, session, signIn>>

InvitationExpires(i) ==
    /\ Open(i)
    /\ invitation' = [invitation EXCEPT ![i].status = "expired"]
    /\ UNCHANGED <<account, role, banVars, bonus, session, signIn, request, stray>>

-----------------------------------------------------------------------------
(* Bans, sessions and quota bonuses.                                       *)

\* assertUserMutationAllowed
MayManage(a, t, destructive) ==
    /\ CurrentRole(a) \in {"owner", "admin"} /\ MayAssign(CurrentRole(a), role[t])
    /\ destructive => a # t

Counted(given) ==
    /\ given => measures < MaxMeasures
    /\ measures' = measures + IF given THEN 1 ELSE 0

setUserBan(a, t, b) ==
    /\ AsAdministrator(a) /\ MayManage(a, t, b # "none") /\ account[t] # "gone"
    /\ Counted(b # "none")
    /\ ban' = [ban EXCEPT ![t] = b]
    /\ session' = IF b = "none" THEN session ELSE [session EXCEPT ![t] = FALSE]
    /\ UNCHANGED <<peopleVars, role, bonus, stray>>

setUserQuotaBonus(a, t, b) ==
    /\ AsAdministrator(a) /\ MayManage(a, t, FALSE) /\ account[t] # "gone"
    /\ Counted(b)
    /\ bonus' = [bonus EXCEPT ![t] = b]
    /\ UNCHANGED <<peopleVars, role, ban, session, stray>>

revokeUserSessions(a, t) ==
    /\ AsAdministrator(a) /\ MayManage(a, t, TRUE) /\ account[t] # "gone"
    /\ Counted(TRUE)
    /\ session' = [session EXCEPT ![t] = FALSE]
    /\ UNCHANGED <<peopleVars, role, ban, bonus, stray>>

BanLapses(u) ==
    /\ ban[u] = "timed" /\ ban' = [ban EXCEPT ![u] = "lapsed"]
    /\ UNCHANGED <<peopleVars, role, measures, bonus, session, request, stray>>

\* banDisposition, in the hook that runs before a session is created.
SignInReads(u) ==
    /\ HasRoom /\ signIn[u] = "none" /\ ~session[u] /\ account[u] # "gone" /\ ~isEffectiveBan(u)
    /\ signIn' = [signIn EXCEPT ![u] = IF ban[u] = "lapsed" THEN "clear" ELSE "allow"]
    /\ UNCHANGED <<account, role, invitation, banVars, bonus, session, request, stray>>

\* The expired ban is cleared by an update that does not look at it again.
SignInClears(u) ==
    /\ signIn[u] = "clear"
    /\ ban' = [ban EXCEPT ![u] = "none"]
    /\ signIn' = [signIn EXCEPT ![u] = "allow"]
    /\ UNCHANGED <<account, role, invitation, measures, bonus, session, request, stray>>


\* The session is inserted, if its account still exists.
SignInCreates(u) ==
    /\ signIn[u] = "allow" /\ signIn' = [signIn EXCEPT ![u] = "none"]
    /\ session' = [session EXCEPT ![u] = (account[u] # "gone")]
    /\ UNCHANGED <<account, role, invitation, banVars, bonus, request, stray>>

-----------------------------------------------------------------------------
(* Deletion.                                                               *)

\* beforeDelete: an account with a role is refused.
prepareUserDeletion(u) ==
    /\ session[u] /\ account[u] \in {"active", "marked"} /\ role[u] = None
    /\ account' = [account EXCEPT ![u] = "deleting"]
    /\ UNCHANGED <<role, invitation, banVars, bonus, session, signIn, request, stray>>

\* accepted_by is set to NULL when its account goes, which the CHECK on the shape
\* of an accepted invitation refuses.
AcceptedOne(u) == \E i \in Invitations : invitation[i].acceptedBy = u

DeleteUser(u) ==
    /\ account[u] = "deleting" /\ ~AcceptedOne(u)
    /\ account' = [account EXCEPT ![u] = "gone"]
    /\ role' = [role EXCEPT ![u] = None]
    /\ session' = [session EXCEPT ![u] = FALSE]
    /\ ban' = [ban EXCEPT ![u] = "none"] /\ bonus' = [bonus EXCEPT ![u] = FALSE]
    /\ UNCHANGED <<invitation, measures, signIn, request, stray>>

\* The row is not deleted: the CHECK, an error, the end of the process.
DeletionBreaksOff(u) ==
    /\ account[u] = "deleting"
    /\ account' = [account EXCEPT ![u] = "marked"]
    /\ UNCHANGED <<role, invitation, banVars, bonus, session, signIn, request, stray>>

Next ==
    \/ \E u \in Users : Authenticate(u) \/ Ends(u)
    \/ \E a, t \in Users, r \in Roles : grantAdminRole(a, t, r)
    \/ \E a, t \in Users : revokeAdminRole(a, t)
    \/ \E a, t \in Users, r \in Roles : replaceAdminRole(a, t, r)
    \/ \E a, to \in Users, i \in Invitations, r \in Roles : createAdminInvitation(a, i, r, to)
    \/ \E a \in Users, i \in Invitations : revokeAdminInvitation(a, i)
    \/ \E u \in Users, i \in Invitations : acceptAdminInvitation(u, i)
    \/ \E i \in Invitations : InvitationExpires(i)
    \/ \E a, t \in Users, b \in {"none", "timed", "permanent"} : setUserBan(a, t, b)
    \/ \E a, t \in Users, b \in BOOLEAN : setUserQuotaBonus(a, t, b)
    \/ \E a, t \in Users : revokeUserSessions(a, t)
    \/ \E u \in Users : BanLapses(u)
    \/ \E u \in Users : SignInReads(u) \/ SignInClears(u) \/ SignInCreates(u)
    \/ \E u \in Users : prepareUserDeletion(u)
    \/ \E u \in Users : DeleteUser(u)
    \/ \E u \in Users : DeletionBreaksOff(u)

Spec == Init /\ [][Next]_vars

-----------------------------------------------------------------------------
(* Properties.                                                              *)

\* Types, and what an account that is gone may leave behind: nothing.
TypeOK ==
    /\ account \in [Users -> {"active", "deleting", "marked", "gone"}]
    /\ role \in [Users -> Roles \cup {None}]
    /\ \A i \in Invitations :
         /\ invitation[i].status \in {"none", "pending", "accepted", "revoked", "expired"}
         /\ invitation[i].role \in Roles /\ invitation[i].to \in Users \cup {None}
         /\ invitation[i].acceptedBy # None <=> invitation[i].status = "accepted"
    /\ ban \in [Users -> {"none", "timed", "lapsed", "permanent"}] /\ measures \in 0..MaxMeasures
    /\ bonus \in [Users -> BOOLEAN] /\ session \in [Users -> BOOLEAN]
    /\ signIn \in [Users -> {"none", "allow", "clear"}]
    /\ request \in [Users -> {"none", "user"} \cup Roles] /\ stray \in BOOLEAN
    /\ \A u \in Users : account[u] = "gone" => role[u] = None /\ ~session[u]

\* Whatever became of the actor between its authentication and its write, an owner
\* or admin is demoted, banned, signed out or given a bonus only by somebody who is
\* owner at that moment, or goes with its own account (the roles read again under
\* the lock, store.ts:305-336 and 2051-2283).
OwnersAreProtected ==
    [][\A t \in Users :
         /\ role[t] \in {"owner", "admin"} /\ account'[t] # "gone"
         /\ \/ role'[t] # role[t] \/ bonus'[t] # bonus[t]
            \/ session[t] /\ ~session'[t]
            \/ ban'[t] \in {"timed", "permanent"} /\ ban'[t] # ban[t]
         => \E a \in Users : role[a] = "owner" /\ request[a] # request'[a]]_vars

\* "the system must keep at least one owner" (role-policy.ts:42), however
\* revocations, replacements, invitations and deletions interleave; the one way to
\* lose the last one is an account that became owner while it was being deleted.
OwnerRemains == Owners # {} \/ stray

\* An invitation gives its role once, to the account it names, and gives nothing
\* once it was revoked or expired, whichever of two requests comes first
\* (store.ts:1377-1589).
InvitationSpentOnce ==
    [][\A i \in Invitations :
         /\ invitation[i].status \in {"accepted", "revoked", "expired"}
              => invitation'[i] = invitation[i]
         /\ invitation'[i].status = "accepted" /\ invitation[i].status # "accepted"
              => LET u == invitation[i].to
                 IN role[u] = None /\ role'[u] = invitation[i].role]_vars

\* auth/index.ts:161: an administrator who has handed over and lost every role may
\* delete the account.  The preparation, which gives back the quota and the files
\* and locks the account out, succeeds only when the row can be deleted.
PreparedCanBeDeleted ==
    [][\A u \in Users : account[u] # "deleting" /\ account'[u] = "deleting" => ~AcceptedOne(u)]_vars
=============================================================================
