------------------------ MODULE AdministrationProofs ------------------------
(***************************************************************************)
(* Proofs about Administration for any number of accounts and invitations: *)
(* an owner remains, owners and admins are only touched by owners, and an  *)
(* invitation is spent once.                                               *)
(***************************************************************************)
EXTENDS Administration, FiniteSetTheorems, TLAPS

Invitation == [status : {"none", "pending", "accepted", "revoked", "expired"},
               role : Roles, to : Users \cup {None}, acceptedBy : Users \cup {None}]

\* TypeOK with the shape of the invitation rows spelled out.
Types == TypeOK /\ invitation \in [Invitations -> Invitation]

\* An owner whose account is being deleted is what stray records.
OwnersAreActive == \A u \in Users : role[u] = "owner" => account[u] = "active"

IInv == Types /\ (stray \/ (Owners # {} /\ OwnersAreActive))
-----------------------------------------------------------------------------
LEMMA InitIInv == Init => IInv
<1> SUFFICES ASSUME Init PROVE IInv
  OBVIOUS
<1>1. PICK o \in Users : role = [u \in Users |-> IF u = o THEN "owner" ELSE None]
  BY DEF Init
<1>2. Types
  <2>1. role \in [Users -> Roles \cup {None}]
    BY <1>1 DEF Roles
  <2>2. NoInvitation \in Invitation /\ NoInvitation.status = "none" /\ NoInvitation.acceptedBy = None
    BY DEF NoInvitation, Invitation, Roles
  <2>3. invitation \in [Invitations -> Invitation]
    BY <2>2 DEF Init
  <2>4. \A i \in Invitations :
           /\ invitation[i].status \in {"none", "pending", "accepted", "revoked", "expired"}
           /\ invitation[i].role \in Roles /\ invitation[i].to \in Users \cup {None}
           /\ invitation[i].acceptedBy # None <=> invitation[i].status = "accepted"
    BY <2>2 DEF Init, Invitation
  <2>5. /\ account \in [Users -> {"active", "deleting", "marked", "gone"}]
        /\ \A u \in Users : account[u] # "gone"
        /\ ban \in [Users -> {"none", "timed", "lapsed", "permanent"}]
        /\ measures \in 0..MaxMeasures
        /\ signIn \in [Users -> {"none", "allow", "clear"}]
        /\ request \in [Users -> {"none", "user"} \cup Roles]
    BY AdministrationAssumption DEF Init
  <2>6. bonus \in [Users -> BOOLEAN] /\ session \in [Users -> BOOLEAN] /\ stray \in BOOLEAN
    BY DEF Init
  <2> QED
    BY <2>1, <2>3, <2>4, <2>5, <2>6 DEF Types, TypeOK
<1>3. Owners # {} /\ OwnersAreActive
  BY <1>1, AdministrationAssumption DEF Init, Owners, OwnersAreActive
<1> QED
  BY <1>2, <1>3 DEF IInv

\* A change of one role.
LEMMA BecomesTypes ==
    ASSUME Types, NEW t \in Users, NEW r \in Roles \cup {None}, Becomes(t, r)
    PROVE  /\ role' \in [Users -> Roles \cup {None}] /\ stray' \in BOOLEAN
           /\ \A u \in Users : role'[u] = IF u = t THEN r ELSE role[u]
BY DEF Becomes, Types, TypeOK

LEMMA PerformsTypes ==
    ASSUME Types, NEW u \in Users, Performs(u)
    PROVE  /\ request' \in [Users -> {"none", "user"} \cup Roles]
           /\ request[u] # request'[u]
BY DEF Performs, Types, TypeOK

\* The actions that write neither invitations nor roles keep the types.
LEMMA TypesStep == Types /\ [Next]_vars => Types'
<1> SUFFICES ASSUME Types, [Next]_vars PROVE Types'
  OBVIOUS
<1> USE DEF peopleVars, banVars
<1>1. ASSUME NEW u \in Users, Authenticate(u) PROVE Types'
  BY <1>1 DEF Authenticate, Types, TypeOK, Roles
<1>2. ASSUME NEW u \in Users, Ends(u) PROVE Types'
  BY <1>2, PerformsTypes DEF Ends, Types, TypeOK
<1>3. ASSUME NEW a \in Users, NEW t \in Users, NEW r \in Roles, grantAdminRole(a, t, r) PROVE Types'
  BY <1>3, BecomesTypes, PerformsTypes DEF grantAdminRole, AsAdministrator, Types, TypeOK
<1>4. ASSUME NEW a \in Users, NEW t \in Users, revokeAdminRole(a, t) PROVE Types'
  BY <1>4, BecomesTypes, PerformsTypes DEF revokeAdminRole, AsAdministrator, Types, TypeOK
<1>5. ASSUME NEW a \in Users, NEW t \in Users, NEW r \in Roles, replaceAdminRole(a, t, r) PROVE Types'
  BY <1>5, BecomesTypes, PerformsTypes DEF replaceAdminRole, AsAdministrator, Types, TypeOK
<1>6. ASSUME NEW a \in Users, NEW to \in Users, NEW i \in Invitations, NEW r \in Roles,
             createAdminInvitation(a, i, r, to)
      PROVE  Types'
  <2>1. invitation' \in [Invitations -> Invitation]
    BY <1>6 DEF createAdminInvitation, Types, NoInvitation, Invitation
  <2>2. \A j \in Invitations : invitation'[j].acceptedBy # None <=> invitation'[j].status = "accepted"
    BY <1>6 DEF createAdminInvitation, Types, TypeOK, NoInvitation
  <2> QED
    BY <1>6, <2>1, <2>2, PerformsTypes
       DEF createAdminInvitation, AsAdministrator, Types, TypeOK, Invitation
<1>7. ASSUME NEW a \in Users, NEW i \in Invitations, revokeAdminInvitation(a, i) PROVE Types'
  <2>1. invitation' \in [Invitations -> Invitation]
    BY <1>7 DEF revokeAdminInvitation, Types, Invitation
  <2>2. \A j \in Invitations : invitation'[j].acceptedBy # None <=> invitation'[j].status = "accepted"
    BY <1>7 DEF revokeAdminInvitation, Open, Types, TypeOK, Invitation
  <2> QED
    BY <1>7, <2>1, <2>2, PerformsTypes
       DEF revokeAdminInvitation, AsAdministrator, Types, TypeOK, Invitation
<1>8. ASSUME NEW u \in Users, NEW i \in Invitations, acceptAdminInvitation(u, i) PROVE Types'
  <2>1. invitation[i].role \in Roles
    BY DEF Types, TypeOK
  <2>2a. invitation' \in [Invitations -> Invitation]
    <3>1. invitation' = [invitation EXCEPT ![i].status = "accepted", ![i].acceptedBy = u]
      BY <1>8 DEF acceptAdminInvitation
    <3>2. invitation \in [Invitations -> Invitation]
      BY DEF Types
    <3> QED
      BY <3>1, <3>2 DEF Invitation
  <2>2. \A j \in Invitations : invitation'[j].acceptedBy # None <=> invitation'[j].status = "accepted"
    BY <1>8, AdministrationAssumption DEF acceptAdminInvitation, Types, TypeOK, Invitation
  <2> QED
    BY <1>8, <2>1, <2>2a, <2>2, PerformsTypes, BecomesTypes
       DEF acceptAdminInvitation, Types, TypeOK, Invitation
<1>9. ASSUME NEW i \in Invitations, InvitationExpires(i) PROVE Types'
  <2>1. invitation' \in [Invitations -> Invitation]
    BY <1>9 DEF InvitationExpires, Types, Invitation
  <2>2. \A j \in Invitations : invitation'[j].acceptedBy # None <=> invitation'[j].status = "accepted"
    BY <1>9 DEF InvitationExpires, Open, Types, TypeOK, Invitation
  <2> QED
    BY <1>9, <2>1, <2>2 DEF InvitationExpires, Types, TypeOK, Invitation
<1>10. ASSUME NEW a \in Users, NEW t \in Users, NEW b \in {"none", "timed", "permanent"},
              setUserBan(a, t, b)
       PROVE  Types'
  BY <1>10, PerformsTypes, AdministrationAssumption
     DEF setUserBan, AsAdministrator, Counted, Types, TypeOK
<1>11. ASSUME NEW a \in Users, NEW t \in Users, NEW b \in BOOLEAN, setUserQuotaBonus(a, t, b)
       PROVE  Types'
  BY <1>11, PerformsTypes, AdministrationAssumption
     DEF setUserQuotaBonus, AsAdministrator, Counted, Types, TypeOK
<1>12. ASSUME NEW a \in Users, NEW t \in Users, revokeUserSessions(a, t) PROVE Types'
  BY <1>12, PerformsTypes, AdministrationAssumption
     DEF revokeUserSessions, AsAdministrator, Counted, Types, TypeOK
<1>13. ASSUME NEW u \in Users, BanLapses(u) \/ SignInReads(u) \/ SignInClears(u) \/ SignInCreates(u)
       PROVE  Types'
  BY <1>13 DEF BanLapses, SignInReads, SignInClears, SignInCreates, Types, TypeOK
<1>14. ASSUME NEW u \in Users, prepareUserDeletion(u) \/ DeletionBreaksOff(u) PROVE Types'
  BY <1>14 DEF prepareUserDeletion, DeletionBreaksOff, Types, TypeOK
<1>16. ASSUME NEW u \in Users, DeleteUser(u) PROVE Types'
  BY <1>16 DEF DeleteUser, Types, TypeOK
<1>15. CASE UNCHANGED vars
  BY <1>15 DEF vars, Types, TypeOK
<1> QED
  BY <1>1, <1>2, <1>3, <1>4, <1>5, <1>6, <1>7, <1>8, <1>9, <1>10, <1>11, <1>12, <1>13, <1>14,
     <1>15, <1>16 DEF Next

\* Only Becomes and the deletion of an account write roles.
LEMMA OwnerStep == IInv /\ [Next]_vars => IInv'
<1> SUFFICES ASSUME IInv, [Next]_vars PROVE IInv'
  OBVIOUS
<1>0. Types /\ Types'
  BY TypesStep DEF IInv
<1> SUFFICES ASSUME ~stray' PROVE Owners' # {} /\ OwnersAreActive'
  BY <1>0 DEF IInv
<1> USE DEF peopleVars, banVars
\* Granting a role to somebody, or to nobody, keeps the owners active ...
<1>1. ASSUME NEW t \in Users, NEW r \in Roles \cup {None}, Becomes(t, r), UNCHANGED account
      PROVE  ~stray /\ Owners # {} /\ OwnersAreActive /\ OwnersAreActive'
  <2>1. ~stray /\ (r = "owner" => account[t] = "active")
    BY <1>1 DEF Becomes
  <2> QED
    BY <1>0, <1>1, <2>1, BecomesTypes DEF IInv, OwnersAreActive
\* ... and an owner, unless the last one loses the role.
<1>2. ASSUME NEW t \in Users, NEW r \in Roles \cup {None}, Becomes(t, r), UNCHANGED account,
             role[t] # "owner" \/ LeavesAnOwner(role[t]) \/ r = "owner"
      PROVE  Owners' # {} /\ OwnersAreActive'
  <2>1. Owners # {} /\ OwnersAreActive'
    BY <1>1, <1>2
  <2>2. \A u \in Users : role'[u] = IF u = t THEN r ELSE role[u]
    BY <1>0, <1>2, BecomesTypes
  <2>3. CASE r = "owner" \/ role[t] # "owner"
    BY <2>1, <2>2, <2>3 DEF Owners
  <2>4. CASE LeavesAnOwner(role[t]) /\ role[t] = "owner"
    <3>1. Cardinality(Owners) > 1
      BY <2>4 DEF LeavesAnOwner
    <3>2. Owners # {t}
      BY <3>1, FS_Singleton
    <3>3. PICK u \in Owners : u # t
      BY <2>1, <3>2
    <3> QED
      BY <2>1, <2>2, <3>3 DEF Owners
  <2> QED
    BY <1>2, <2>3, <2>4
<1>3. ASSUME UNCHANGED <<role, stray>>, \A u \in Users : role[u] = "owner" => account'[u] = account[u]
      PROVE  Owners' # {} /\ OwnersAreActive'
  BY <1>3 DEF IInv, Owners, OwnersAreActive
<1>4. ASSUME NEW a \in Users, NEW t \in Users, NEW r \in Roles, grantAdminRole(a, t, r)
      PROVE  Owners' # {} /\ OwnersAreActive'
  <2>1. Becomes(t, r) /\ UNCHANGED account /\ role[t] # "owner"
    BY <1>4, AdministrationAssumption DEF grantAdminRole, Roles
  <2> QED
    BY <1>2, <2>1
<1>5. ASSUME NEW a \in Users, NEW t \in Users, revokeAdminRole(a, t)
      PROVE  Owners' # {} /\ OwnersAreActive'
  BY <1>2, <1>5 DEF revokeAdminRole
<1>6. ASSUME NEW a \in Users, NEW t \in Users, NEW r \in Roles, replaceAdminRole(a, t, r)
      PROVE  Owners' # {} /\ OwnersAreActive'
  BY <1>2, <1>6 DEF replaceAdminRole
<1>7. ASSUME NEW u \in Users, NEW i \in Invitations, acceptAdminInvitation(u, i)
      PROVE  Owners' # {} /\ OwnersAreActive'
  <2>1. Becomes(u, invitation[i].role) /\ UNCHANGED account /\ role[u] # "owner"
    BY <1>7, AdministrationAssumption DEF acceptAdminInvitation, Roles
  <2>2. invitation[i].role \in Roles
    BY <1>0 DEF Types, TypeOK
  <2> QED
    BY <1>2, <2>1, <2>2
<1>8. ASSUME NEW u \in Users, prepareUserDeletion(u) PROVE Owners' # {} /\ OwnersAreActive'
  <2>1. UNCHANGED <<role, stray>> /\ role[u] # "owner"
    BY <1>8, AdministrationAssumption DEF prepareUserDeletion, Roles
  <2>2. \A x \in Users : x # u => account'[x] = account[x]
    BY <1>0, <1>8 DEF prepareUserDeletion, Types, TypeOK
  <2> QED
    BY <1>3, <2>1, <2>2
<1>9. ASSUME NEW u \in Users, DeleteUser(u) PROVE Owners' # {} /\ OwnersAreActive'
  <2>1. Owners # {} /\ OwnersAreActive /\ account[u] # "active"
    BY <1>9 DEF DeleteUser, IInv
  <2>2. role[u] # "owner"
    BY <2>1 DEF OwnersAreActive
  <2>3. \A x \in Users : x # u => role'[x] = role[x] /\ account'[x] = account[x]
    BY <1>0, <1>9 DEF DeleteUser, Types, TypeOK
  <2>4. role'[u] # "owner"
    BY <1>0, <1>9, AdministrationAssumption DEF DeleteUser, Types, TypeOK, Roles
  <2> QED
    BY <2>1, <2>2, <2>3, <2>4 DEF Owners, OwnersAreActive
<1>10. ASSUME NEW u \in Users, DeletionBreaksOff(u) PROVE Owners' # {} /\ OwnersAreActive'
  <2>1. UNCHANGED <<role, stray>> /\ role[u] # "owner"
    BY <1>10 DEF DeletionBreaksOff, IInv, OwnersAreActive
  <2>2. \A x \in Users : x # u => account'[x] = account[x]
    BY <1>0, <1>10 DEF DeletionBreaksOff, Types, TypeOK
  <2> QED
    BY <1>3, <2>1, <2>2
<1>11. CASE UNCHANGED <<account, role, stray>>
  BY <1>3, <1>11
<1>12. ASSUME NEW u \in Users,
              Authenticate(u) \/ Ends(u) \/ BanLapses(u) \/ SignInReads(u) \/ SignInClears(u)
              \/ SignInCreates(u)
       PROVE  UNCHANGED <<account, role, stray>>
  BY <1>12 DEF Authenticate, Ends, BanLapses, SignInReads, SignInClears, SignInCreates
<1>13. ASSUME NEW a \in Users, NEW i \in Invitations,
              revokeAdminInvitation(a, i)
              \/ (\E to \in Users, r \in Roles : createAdminInvitation(a, i, r, to))
       PROVE  UNCHANGED <<account, role, stray>>
  BY <1>13 DEF revokeAdminInvitation, createAdminInvitation
<1>14. ASSUME NEW a \in Users, NEW t \in Users,
              revokeUserSessions(a, t)
              \/ (\E b \in {"none", "timed", "permanent"} : setUserBan(a, t, b))
              \/ (\E b \in BOOLEAN : setUserQuotaBonus(a, t, b))
       PROVE  UNCHANGED <<account, role, stray>>
  BY <1>14 DEF revokeUserSessions, setUserBan, setUserQuotaBonus
<1>15. CASE UNCHANGED vars
  BY <1>11, <1>15 DEF vars
<1>16. ASSUME NEW i \in Invitations, InvitationExpires(i) PROVE UNCHANGED <<account, role, stray>>
  BY <1>16 DEF InvitationExpires
<1> QED
  BY <1>4, <1>5, <1>6, <1>7, <1>8, <1>9, <1>10, <1>11, <1>12, <1>13, <1>14, <1>15, <1>16 DEF Next

\* Every reachable state satisfies the invariant.
THEOREM Inductive == Spec => []IInv
<1>1. IInv /\ [Next]_vars => IInv'
  BY OwnerStep
<1> QED
  BY InitIInv, <1>1, PTL DEF Spec

\* An owner remains, unless an account became owner while it was being deleted
\* (assertOwnerRoleRevocationAllowed, role-policy.ts).
THEOREM AnOwnerRemains == Spec => []OwnerRemains
<1>1. IInv => OwnerRemains
  BY DEF IInv, OwnerRemains
<1> QED
  BY <1>1, Inductive, PTL

-----------------------------------------------------------------------------
\* The body of OwnersAreProtected, and of InvitationSpentOnce.
ProtectedStep ==
    \A t \in Users :
         /\ role[t] \in {"owner", "admin"} /\ account'[t] # "gone"
         /\ \/ role'[t] # role[t] \/ bonus'[t] # bonus[t]
            \/ session[t] /\ ~session'[t]
            \/ ban'[t] \in {"timed", "permanent"} /\ ban'[t] # ban[t]
         => \E a \in Users : role[a] = "owner" /\ request[a] # request'[a]

SpentStep ==
    \A i \in Invitations :
         /\ invitation[i].status \in {"accepted", "revoked", "expired"}
              => invitation'[i] = invitation[i]
         /\ invitation'[i].status = "accepted" /\ invitation[i].status # "accepted"
              => LET u == invitation[i].to
                 IN role[u] = None /\ role'[u] = invitation[i].role

\* Whom an administrator may manage, or whose role may be changed by one, is
\* neither owner nor admin, unless the administrator is an owner.
LEMMA OnlyOwnersManageOwners ==
    ASSUME Types, NEW a \in Users, NEW t \in Users, AsAdministrator(a),
           MayAssign(CurrentRole(a), role[t]), role[t] \in {"owner", "admin"}
    PROVE  role[a] = "owner" /\ request[a] # request'[a]
BY PerformsTypes DEF AsAdministrator, MayAssign, CurrentRole

\* A step that takes nothing from anybody but t.
LEMMA TouchesOne ==
    ASSUME Types, NEW t \in Users,
           \A x \in Users : x # t => /\ role'[x] = role[x] /\ bonus'[x] = bonus[x]
                                     /\ session[x] => session'[x]
                                     /\ ban'[x] \in {ban[x], "none", "lapsed"},
           \/ role[t] \notin {"owner", "admin"}
           \/ \E a \in Users : role[a] = "owner" /\ request[a] # request'[a]
           \/ account'[t] = "gone"
    PROVE  ProtectedStep
BY DEF ProtectedStep

LEMMA ProtectedNext == Types /\ [Next]_vars => ProtectedStep
<1> SUFFICES ASSUME Types, [Next]_vars PROVE ProtectedStep
  OBVIOUS
<1> USE DEF peopleVars, banVars
<1>1. ASSUME NEW t \in Users, NEW r \in Roles \cup {None}, Becomes(t, r),
             UNCHANGED <<bonus, session, ban>>,
             \/ role[t] \notin {"owner", "admin"}
             \/ \E a \in Users : role[a] = "owner" /\ request[a] # request'[a]
      PROVE  ProtectedStep
  BY <1>1, BecomesTypes, TouchesOne
<1>2. ASSUME NEW a \in Users, NEW t \in Users, NEW r \in Roles, grantAdminRole(a, t, r)
      PROVE  ProtectedStep
  <2>1. Becomes(t, r) /\ UNCHANGED <<bonus, session, ban>> /\ role[t] \notin {"owner", "admin"}
    BY <1>2, AdministrationAssumption DEF grantAdminRole, Roles
  <2> QED
    BY <1>1, <2>1
<1>3. ASSUME NEW a \in Users, NEW t \in Users, revokeAdminRole(a, t) PROVE ProtectedStep
  <2>1. /\ Becomes(t, None) /\ UNCHANGED <<bonus, session, ban>>
        /\ AsAdministrator(a) /\ MayAssign(CurrentRole(a), role[t])
    BY <1>3 DEF revokeAdminRole
  <2> QED
    BY <1>1, <2>1, OnlyOwnersManageOwners
<1>4. ASSUME NEW a \in Users, NEW t \in Users, NEW r \in Roles, replaceAdminRole(a, t, r)
      PROVE  ProtectedStep
  <2>1. /\ Becomes(t, r) /\ UNCHANGED <<bonus, session, ban>>
        /\ AsAdministrator(a) /\ MayAssign(CurrentRole(a), role[t])
    BY <1>4 DEF replaceAdminRole
  <2> QED
    BY <1>1, <2>1, OnlyOwnersManageOwners
<1>5. ASSUME NEW u \in Users, NEW i \in Invitations, acceptAdminInvitation(u, i)
      PROVE  ProtectedStep
  <2>1. /\ Becomes(u, invitation[i].role) /\ UNCHANGED <<bonus, session, ban>>
        /\ role[u] \notin {"owner", "admin"}
    BY <1>5, AdministrationAssumption DEF acceptAdminInvitation, Roles
  <2>2. invitation[i].role \in Roles
    BY DEF Types, TypeOK
  <2> QED
    BY <1>1, <2>1, <2>2
\* Bans, bonuses and sign-outs pass assertUserMutationAllowed.
<1>6. ASSUME NEW a \in Users, NEW t \in Users, AsAdministrator(a),
             MayAssign(CurrentRole(a), role[t]), UNCHANGED role,
             \A x \in Users \ {t} : bonus'[x] = bonus[x] /\ session'[x] = session[x] /\ ban'[x] = ban[x]
      PROVE  ProtectedStep
  <2>1. \/ role[t] \notin {"owner", "admin"}
        \/ \E b \in Users : role[b] = "owner" /\ request[b] # request'[b]
    BY <1>6, OnlyOwnersManageOwners
  <2> QED
    BY <1>6, <2>1, TouchesOne
<1>7. ASSUME NEW a \in Users, NEW t \in Users, NEW b \in {"none", "timed", "permanent"},
             setUserBan(a, t, b)
      PROVE  ProtectedStep
  <2>1. \A x \in Users \ {t} : bonus'[x] = bonus[x] /\ session'[x] = session[x] /\ ban'[x] = ban[x]
    BY <1>7 DEF setUserBan, Types, TypeOK
  <2> QED
    BY <1>6, <1>7, <2>1 DEF setUserBan, MayManage
<1>8. ASSUME NEW a \in Users, NEW t \in Users, NEW b \in BOOLEAN, setUserQuotaBonus(a, t, b)
      PROVE  ProtectedStep
  <2>1. \A x \in Users \ {t} : bonus'[x] = bonus[x] /\ session'[x] = session[x] /\ ban'[x] = ban[x]
    BY <1>8 DEF setUserQuotaBonus, Types, TypeOK
  <2> QED
    BY <1>6, <1>8, <2>1 DEF setUserQuotaBonus, MayManage
<1>9. ASSUME NEW a \in Users, NEW t \in Users, revokeUserSessions(a, t) PROVE ProtectedStep
  <2>1. \A x \in Users \ {t} : bonus'[x] = bonus[x] /\ session'[x] = session[x] /\ ban'[x] = ban[x]
    BY <1>9 DEF revokeUserSessions, Types, TypeOK
  <2> QED
    BY <1>6, <1>9, <2>1 DEF revokeUserSessions, MayManage
\* Nobody's role, and nothing of the others.
<1>10. ASSUME NEW u \in Users, BanLapses(u) PROVE ProtectedStep
  BY <1>10 DEF BanLapses, ProtectedStep, Types, TypeOK
<1>11. ASSUME NEW u \in Users, SignInClears(u) PROVE ProtectedStep
  BY <1>11 DEF SignInClears, ProtectedStep, Types, TypeOK
<1>12. ASSUME NEW u \in Users, SignInCreates(u) PROVE ProtectedStep
  BY <1>12 DEF SignInCreates, ProtectedStep, Types, TypeOK
<1>13. ASSUME NEW u \in Users, DeleteUser(u) PROVE ProtectedStep
  <2>1. account'[u] = "gone"
    BY <1>13 DEF DeleteUser, Types, TypeOK
  <2>2. \A x \in Users : x # u => /\ role'[x] = role[x] /\ bonus'[x] = bonus[x]
                                  /\ session'[x] = session[x] /\ ban'[x] = ban[x]
    BY <1>13 DEF DeleteUser, Types, TypeOK
  <2> QED
    BY <2>1, <2>2, TouchesOne
<1>14. CASE UNCHANGED <<role, bonus, session, ban>>
  BY <1>14 DEF ProtectedStep
<1>15. ASSUME NEW u \in Users,
              Authenticate(u) \/ Ends(u) \/ SignInReads(u) \/ prepareUserDeletion(u)
              \/ DeletionBreaksOff(u)
       PROVE  UNCHANGED <<role, bonus, session, ban>>
  BY <1>15 DEF Authenticate, Ends, SignInReads, prepareUserDeletion, DeletionBreaksOff
<1>16. ASSUME NEW i \in Invitations,
              InvitationExpires(i)
              \/ (\E a \in Users : revokeAdminInvitation(a, i))
              \/ (\E a, to \in Users, r \in Roles : createAdminInvitation(a, i, r, to))
       PROVE  UNCHANGED <<role, bonus, session, ban>>
  BY <1>16 DEF InvitationExpires, revokeAdminInvitation, createAdminInvitation
<1>17. CASE UNCHANGED vars
  BY <1>14, <1>17 DEF vars
<1> QED
  BY <1>2, <1>3, <1>4, <1>5, <1>7, <1>8, <1>9, <1>10, <1>11, <1>12, <1>13, <1>14, <1>15, <1>16,
     <1>17 DEF Next

LEMMA SpentNext == Types /\ [Next]_vars => SpentStep
<1> SUFFICES ASSUME Types, [Next]_vars PROVE SpentStep
  OBVIOUS
<1> USE DEF peopleVars, banVars
<1>1. ASSUME NEW u \in Users, NEW i \in Invitations, acceptAdminInvitation(u, i) PROVE SpentStep
  <2>1. /\ invitation[i].status = "pending" /\ invitation[i].to = u /\ role[u] = None
        /\ role'[u] = invitation[i].role
    BY <1>1 DEF acceptAdminInvitation, Open, Becomes, Types, TypeOK
  <2>2. \A j \in Invitations : j # i => invitation'[j] = invitation[j]
    BY <1>1 DEF acceptAdminInvitation, Types
  <2> QED
    BY <2>1, <2>2 DEF SpentStep
\* The other writes to invitations change one that is new or pending, and accept none.
<1>2. ASSUME NEW i \in Invitations, invitation[i].status \in {"none", "pending"},
             invitation'[i].status # "accepted",
             \A j \in Invitations : j # i => invitation'[j] = invitation[j]
      PROVE  SpentStep
  BY <1>2 DEF SpentStep
<1>3. ASSUME NEW a \in Users, NEW to \in Users, NEW i \in Invitations, NEW r \in Roles,
             createAdminInvitation(a, i, r, to)
      PROVE  SpentStep
  <2>1. invitation'[i].status # "accepted" /\ invitation[i].status = "none"
    BY <1>3 DEF createAdminInvitation, Types, NoInvitation
  <2>2. \A j \in Invitations : j # i => invitation'[j] = invitation[j]
    BY <1>3 DEF createAdminInvitation, Types
  <2> QED
    BY <1>2, <2>1, <2>2
<1>4. ASSUME NEW a \in Users, NEW i \in Invitations, revokeAdminInvitation(a, i) PROVE SpentStep
  <2>1. invitation'[i].status # "accepted" /\ invitation[i].status = "pending"
    BY <1>4 DEF revokeAdminInvitation, Open, Types, Invitation
  <2>2. \A j \in Invitations : j # i => invitation'[j] = invitation[j]
    BY <1>4 DEF revokeAdminInvitation, Types
  <2> QED
    BY <1>2, <2>1, <2>2
<1>5. ASSUME NEW i \in Invitations, InvitationExpires(i) PROVE SpentStep
  <2>1. invitation'[i].status # "accepted" /\ invitation[i].status = "pending"
    BY <1>5 DEF InvitationExpires, Open, Types, Invitation
  <2>2. \A j \in Invitations : j # i => invitation'[j] = invitation[j]
    BY <1>5 DEF InvitationExpires, Types
  <2> QED
    BY <1>2, <2>1, <2>2
<1>6. CASE UNCHANGED invitation
  BY <1>6 DEF SpentStep
<1>7. ASSUME NEW u \in Users,
             Authenticate(u) \/ Ends(u) \/ BanLapses(u) \/ SignInReads(u) \/ SignInClears(u)
             \/ SignInCreates(u) \/ prepareUserDeletion(u) \/ DeleteUser(u) \/ DeletionBreaksOff(u)
      PROVE  UNCHANGED invitation
  BY <1>7 DEF Authenticate, Ends, BanLapses, SignInReads, SignInClears, SignInCreates,
              prepareUserDeletion, DeleteUser, DeletionBreaksOff
<1>8. ASSUME NEW a \in Users, NEW t \in Users,
             revokeAdminRole(a, t) \/ revokeUserSessions(a, t)
             \/ (\E r \in Roles : grantAdminRole(a, t, r) \/ replaceAdminRole(a, t, r))
             \/ (\E b \in {"none", "timed", "permanent"} : setUserBan(a, t, b))
             \/ (\E b \in BOOLEAN : setUserQuotaBonus(a, t, b))
      PROVE  UNCHANGED invitation
  BY <1>8 DEF revokeAdminRole, revokeUserSessions, grantAdminRole, replaceAdminRole, setUserBan,
              setUserQuotaBonus
<1>9. CASE UNCHANGED vars
  BY <1>6, <1>9 DEF vars
<1> QED
  BY <1>1, <1>3, <1>4, <1>5, <1>6, <1>7, <1>8, <1>9 DEF Next

\* Owners and admins are demoted, banned, signed out or given a bonus only by
\* somebody who is owner at that moment (store.ts, assertCanManageUser and the
\* roles read again under the lock).
THEOREM OwnersProtected == Spec => OwnersAreProtected
<1>1. Types /\ [Next]_vars => ProtectedStep
  BY ProtectedNext
<1>2. IInv => Types
  BY DEF IInv
<1> QED
  BY <1>1, <1>2, Inductive, PTL DEF Spec, OwnersAreProtected, ProtectedStep

\* An invitation gives its role once, to the account it names
\* (acceptAdminInvitation, revokeAdminInvitation).
THEOREM SpentOnce == Spec => InvitationSpentOnce
<1>1. Types /\ [Next]_vars => SpentStep
  BY SpentNext
<1>2. IInv => Types
  BY DEF IInv
<1> QED
  BY <1>1, <1>2, Inductive, PTL DEF Spec, InvitationSpentOnce, SpentStep

\* Every variable keeps its type, and an account that is gone leaves neither role nor
\* session (deleteUser, account-cleanup.ts).
THEOREM TypeCorrect == Spec => []TypeOK
<1>1. IInv => TypeOK
  BY DEF IInv, Types
<1> QED
  BY <1>1, Inductive, PTL
=============================================================================
