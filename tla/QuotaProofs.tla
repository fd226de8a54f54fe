----------------------------- MODULE QuotaProofs -----------------------------
(***************************************************************************)
(* Proofs about the quota component, for any number of accounts, requests, *)
(* days and sessions and any limits.  First QuotaLedger: the counters of   *)
(* every bucket equal the ledger rows that hold its units, the CHECK       *)
(* constraints of quota_bucket hold, a lease is atomic across its scopes,  *)
(* and account deletion strands nothing.  Then the refinements: seen       *)
(* through aggregateStatus, every transaction of QuotaLedger is one step   *)
(* of Lease, or no step at all; and in QuotaReserveTx the row locks and    *)
(* the unique index of READ COMMITTED make the statements of a transaction *)
(* one step of QuotaLedger.                                                *)
(***************************************************************************)
EXTENDS QuotaReserveTx, FiniteSetTheorems, TLAPS

\* A ledger row exists only in a scope its lease charges, and has a day.
RowsWellFormed ==
    \A l \in Leases, s \in Scopes :
        status[l][s] # "none" => s \in ScopesOf(l) /\ window[l] \in Windows

\* The rows holding units of one bucket are finitely many, although Users and
\* Requests may be infinite.
HoldingFinite ==
    \A b \in Buckets : IsFiniteSet(Holding(b, "reserved")) /\ IsFiniteSet(Holding(b, "committed"))

\* LeaseIsAtomic without aggregateStatus.
RowsAgree ==
    \A l \in Leases : account[Owner(l)] = "active" /\ RowsOf(l) # {} =>
        \A s, t \in ScopesOf(l) : status[l][s] # "none" /\ status[l][s] = status[l][t]

\* An account being deleted has no row left in its own scope.
UserScopeGone ==
    \A u \in Users : account[u] # "active" => \A l \in Leases : status[l][u] = "none"

\* Only the global buckets outlive a committed row.
OnlyGlobalForgotten == \A b \in Buckets : b[2] \in Users => forgotten[b] = 0

WithinLimit == \A b \in Buckets : reserved[b] + committed[b] <= limit[b]

IInv ==
    /\ TypeOK
    /\ RowsWellFormed
    /\ HoldingFinite
    /\ BucketMatchesLedger
    /\ WithinLimit
    /\ RowsAgree
    /\ UserScopeGone
    /\ OnlyGlobalForgotten
    /\ DeletionLeavesNothingHeld
-----------------------------------------------------------------------------

\* The parts of a lease key and of a bucket key.
LEMMA KeyParts ==
    /\ \A l \in Leases : l[1] \in Users /\ l[2] \in Resources /\ ScopesOf(l) \subseteq Scopes
    /\ \A b \in Buckets : b[1] \in Resources /\ b[2] \in Scopes /\ b[3] \in Windows
                          /\ b = <<b[1], b[2], b[3]>>
    /\ \A u \in Users : u \in Scopes /\ u # GlobalKey
    /\ GlobalKey \in Scopes
    /\ \A l \in Leases, s \in Scopes, w \in Windows : <<l[2], s, w>> \in Buckets
BY QuotaConstants DEF Leases, Buckets, Scopes, ScopesOf

\* Facts on the size of the sets the accounting counts.
LEMMA CardEmpty == IsFiniteSet({}) /\ Cardinality({}) = 0
BY FS_EmptySet

LEMMA CardMinusSet ==
    ASSUME NEW S, NEW T, IsFiniteSet(S), T \subseteq S
    PROVE  /\ IsFiniteSet(T) /\ IsFiniteSet(S \ T)
           /\ Cardinality(S) \in Nat /\ Cardinality(T) \in Nat
           /\ Cardinality(S \ T) = Cardinality(S) - Cardinality(T)
<1>1. IsFiniteSet(T)
  BY FS_Subset
<1>2. S \cap T = T
  OBVIOUS
<1>3. Cardinality(S \ T) = Cardinality(S) - Cardinality(S \cap T) /\ IsFiniteSet(S \ T)
  BY FS_Difference
<1> QED
  BY <1>1, <1>2, <1>3, FS_CardinalityType

\* Initially nothing is held, so the invariant holds.
LEMMA InitIInv == Init => IInv
<1> SUFFICES ASSUME Init PROVE IInv
  OBVIOUS
<1>1. TypeOK
  BY KeyParts DEF Init, TypeOK, RowStatus
<1>2. ASSUME NEW b \in Buckets
      PROVE  Holding(b, "reserved") = {} /\ Holding(b, "committed") = {}
  BY KeyParts DEF Init, Holding
<1>3. HoldingFinite
  BY <1>2, CardEmpty DEF HoldingFinite
<1>4. BucketMatchesLedger
  <2> SUFFICES ASSUME NEW b \in Buckets
               PROVE  /\ reserved[b] = Cardinality(Holding(b, "reserved"))
                      /\ committed[b] = Cardinality(Holding(b, "committed")) + forgotten[b]
    BY DEF BucketMatchesLedger
  <2>1. reserved[b] = 0 /\ committed[b] = 0 /\ forgotten[b] = 0
    BY DEF Init
  <2> QED
    BY <1>2, <2>1, CardEmpty
<1>5. RowsWellFormed /\ RowsAgree /\ UserScopeGone /\ DeletionLeavesNothingHeld
  BY KeyParts DEF Init, RowsWellFormed, RowsAgree, UserScopeGone, DeletionLeavesNothingHeld, RowsOf, Owner
<1>6. OnlyGlobalForgotten /\ WithinLimit
  BY DEF Init, OnlyGlobalForgotten, WithinLimit
<1> QED
  BY <1>1, <1>3, <1>4, <1>5, <1>6 DEF IInv

\* reserve adds exactly one row to each bucket it charges.
LEMMA ReserveStep ==
    ASSUME IInv, NEW l \in Leases, NEW w \in Windows, NEW policy \in [ScopesOf(l) -> Limits],
           Reserve(l, w, policy)
    PROVE  IInv'
<1> DEFINE charged == {<<l[2], s, w>> : s \in ScopesOf(l)}
<1> USE DEF IInv
<1>1. /\ account' = account /\ committed' = committed /\ forgotten' = forgotten
      /\ \A s \in Scopes : status[l][s] = "none"
      /\ account[l[1]] = "active"
  BY DEF Reserve, RowsOf, Owner, CanReserve
<1>2. \A k \in Leases, s \in Scopes :
         status'[k][s] = IF k # l THEN status[k][s]
                         ELSE IF s \in ScopesOf(l) THEN "reserved" ELSE "none"
  BY DEF Reserve, TypeOK
<1>3. \A k \in Leases : window'[k] = IF k = l THEN w ELSE window[k]
  BY DEF Reserve, TypeOK
<1>4. \A b \in Buckets : b \in charged <=> b[1] = l[2] /\ b[2] \in ScopesOf(l) /\ b[3] = w
  BY KeyParts
<1>5. \A b \in Buckets :
         /\ reserved'[b] = IF b \in charged THEN reserved[b] + 1 ELSE reserved[b]
         /\ limit'[b] = IF b \in charged THEN ReconciledLimit(policy[b[2]], b) ELSE limit[b]
         /\ present'[b] = (present[b] \/ b \in charged)
         /\ b \in charged => Fits(b, policy[b[2]])
  <2> SUFFICES ASSUME NEW b \in Buckets
               PROVE  /\ reserved'[b] = IF b \in charged THEN reserved[b] + 1 ELSE reserved[b]
                      /\ limit'[b] = IF b \in charged THEN ReconciledLimit(policy[b[2]], b)
                                     ELSE limit[b]
                      /\ present'[b] = (present[b] \/ b \in charged)
                      /\ b \in charged => Fits(b, policy[b[2]])
    OBVIOUS
  <2>1. b \in charged => \E s \in ScopesOf(l) : b = <<l[2], s, w>> /\ b[2] = s
    BY KeyParts
  <2>2. b \in charged => Fits(b, policy[b[2]])
    BY <2>1 DEF Reserve
  <2> QED
    BY <2>2 DEF Reserve
<1>6. ASSUME NEW b \in Buckets
      PROVE  /\ Holding(b, "committed")' = Holding(b, "committed")
             /\ l \notin Holding(b, "reserved")
             /\ Holding(b, "reserved")' =
                  IF b \in charged THEN Holding(b, "reserved") \cup {l} ELSE Holding(b, "reserved")
  BY <1>1, <1>2, <1>3, <1>4, KeyParts DEF Holding
<1>7. HoldingFinite'
  <2> SUFFICES ASSUME NEW b \in Buckets
               PROVE  IsFiniteSet(Holding(b, "reserved")') /\ IsFiniteSet(Holding(b, "committed")')
    BY DEF HoldingFinite
  <2>1. IsFiniteSet(Holding(b, "reserved")) /\ IsFiniteSet(Holding(b, "committed"))
    BY DEF HoldingFinite
  <2> QED
    BY <1>6, <2>1, FS_AddElement
<1>8. BucketMatchesLedger'
  <2> SUFFICES ASSUME NEW b \in Buckets
               PROVE  /\ reserved'[b] = Cardinality(Holding(b, "reserved")')
                      /\ committed'[b] = Cardinality(Holding(b, "committed")') + forgotten'[b]
    BY DEF BucketMatchesLedger
  <2>1. /\ IsFiniteSet(Holding(b, "reserved"))
        /\ reserved[b] = Cardinality(Holding(b, "reserved"))
        /\ committed[b] = Cardinality(Holding(b, "committed")) + forgotten[b]
    BY DEF HoldingFinite, BucketMatchesLedger
  <2>2. b \in charged => Cardinality(Holding(b, "reserved") \cup {l}) = reserved[b] + 1
    BY <1>6, <2>1, FS_AddElement
  <2> QED
    BY <1>1, <1>5, <1>6, <2>1, <2>2
<1>9. WithinLimit' /\ limit' \in [Buckets -> Nat] /\ reserved' \in [Buckets -> Nat]
  <2>1. \A b \in Buckets : reserved[b] \in Nat /\ committed[b] \in Nat /\ limit[b] \in Nat
                           /\ reserved[b] + committed[b] <= limit[b]
    BY DEF TypeOK, WithinLimit
  <2>2. \A b \in Buckets : b \in charged => policy[b[2]] \in Nat
    BY <1>4 DEF Limits
  <2>3. \A b \in Buckets : limit'[b] \in Nat /\ reserved'[b] \in Nat
    BY <1>5, <2>1, <2>2 DEF ReconciledLimit
  <2>4. \A b \in Buckets : reserved'[b] + committed'[b] <= limit'[b]
    BY <1>1, <1>5, <2>1, <2>2 DEF ReconciledLimit, Fits
  <2> QED
    BY <2>3, <2>4 DEF WithinLimit, Reserve
<1>10. TypeOK'
  <2>1. status' \in [Leases -> [Scopes -> RowStatus]]
    BY DEF Reserve, TypeOK, RowStatus
  <2>2. window' \in [Leases -> Windows \cup {NoWindow}]
    BY DEF Reserve, TypeOK
  <2>3. present' \in [Buckets -> BOOLEAN]
    BY DEF Reserve, TypeOK
  <2> QED
    BY <1>1, <1>9, <2>1, <2>2, <2>3 DEF TypeOK
<1>11. RowsWellFormed'
  BY <1>2, <1>3 DEF RowsWellFormed
<1>12. RowsAgree'
  <2> SUFFICES ASSUME NEW k \in Leases, account[Owner(k)] = "active", RowsOf(k)' # {},
                      NEW s \in ScopesOf(k), NEW t \in ScopesOf(k)
               PROVE  status'[k][s] # "none" /\ status'[k][s] = status'[k][t]
    BY <1>1 DEF RowsAgree
  <2>1. s \in Scopes /\ t \in Scopes
    BY KeyParts
  <2>2. CASE k = l
    BY <1>2, <2>1, <2>2
  <2>3. CASE k # l
    <3>1. RowsOf(k) # {}
      BY <1>2, <2>3 DEF RowsOf
    <3> QED
      BY <1>2, <2>1, <2>3, <3>1 DEF RowsAgree
  <2> QED
    BY <2>2, <2>3
<1>13. UserScopeGone'
  <2> SUFFICES ASSUME NEW u \in Users, account[u] # "active", NEW k \in Leases
               PROVE  status'[k][u] = "none"
    BY <1>1 DEF UserScopeGone
  <2>1. u \notin ScopesOf(l)
    BY <1>1, KeyParts DEF ScopesOf
  <2> QED
    BY <1>2, <2>1, KeyParts DEF UserScopeGone
<1>14. OnlyGlobalForgotten'
  BY <1>1 DEF OnlyGlobalForgotten
<1>15. DeletionLeavesNothingHeld'
  <2> SUFFICES ASSUME NEW u \in Users, account[u] # "active"
               PROVE  /\ \A k \in Leases : Owner(k) = u => \A s \in Scopes : status'[k][s] # "reserved"
                      /\ \A b \in Buckets : b[2] = u => ~present'[b]
    BY <1>1 DEF DeletionLeavesNothingHeld
  <2>1. u \notin ScopesOf(l) /\ u # l[1]
    BY <1>1, KeyParts DEF ScopesOf
  <2>2. \A b \in Buckets : b[2] = u => ~present'[b]
    BY <1>4, <1>5, <2>1 DEF DeletionLeavesNothingHeld
  <2> QED
    BY <1>2, <2>1, <2>2 DEF DeletionLeavesNothingHeld, Owner
<1> QED
  BY <1>7, <1>8, <1>9, <1>10, <1>11, <1>12, <1>13, <1>14, <1>15

\* A transition moves one row out of the reserved rows of each bucket it hits.
LEMMA TransitionStep ==
    ASSUME IInv, NEW l \in Leases, NEW target \in {"committed", "released"},
           Transition(l, target)
    PROVE  IInv'
<1> DEFINE hit == {<<l[2], s, window[l]>> : s \in Movable(l)}
<1> USE DEF IInv
<1>1. /\ account' = account /\ window' = window /\ present' = present
      /\ limit' = limit /\ forgotten' = forgotten
  BY DEF Transition
<1>2. \A k \in Leases, s \in Scopes :
         status'[k][s] = IF k = l /\ status[l][s] = "reserved" THEN target ELSE status[k][s]
  BY DEF Transition, TypeOK, Movable
<1>3. \A b \in Buckets :
         b \in hit <=> b[1] = l[2] /\ b[3] = window[l] /\ status[l][b[2]] = "reserved"
  BY KeyParts DEF Movable
<1>4. \A b \in Buckets :
         /\ reserved'[b] = IF b \in hit THEN reserved[b] - 1 ELSE reserved[b]
         /\ committed'[b] = IF b \in hit /\ target = "committed" THEN committed[b] + 1
                            ELSE committed[b]
  BY DEF Transition
<1>5. ASSUME NEW b \in Buckets
      PROVE  /\ b \in hit <=> l \in Holding(b, "reserved")
             /\ l \in Holding(b, "reserved") => l \notin Holding(b, "committed")
             /\ Holding(b, "reserved")' =
                  IF b \in hit THEN Holding(b, "reserved") \ {l} ELSE Holding(b, "reserved")
             /\ Holding(b, "committed")' =
                  IF b \in hit /\ target = "committed" THEN Holding(b, "committed") \cup {l}
                  ELSE Holding(b, "committed")
  BY <1>1, <1>2, <1>3, KeyParts DEF Holding
<1>6. ASSUME NEW b \in Buckets
      PROVE  /\ IsFiniteSet(Holding(b, "reserved")') /\ IsFiniteSet(Holding(b, "committed")')
             /\ reserved'[b] = Cardinality(Holding(b, "reserved")')
             /\ committed'[b] = Cardinality(Holding(b, "committed")') + forgotten'[b]
             /\ reserved'[b] \in Nat /\ committed'[b] \in Nat
             /\ reserved'[b] + committed'[b] <= limit'[b]
  <2>1. /\ IsFiniteSet(Holding(b, "reserved")) /\ IsFiniteSet(Holding(b, "committed"))
        /\ reserved[b] = Cardinality(Holding(b, "reserved"))
        /\ committed[b] = Cardinality(Holding(b, "committed")) + forgotten[b]
    BY DEF HoldingFinite, BucketMatchesLedger
  <2>2. /\ forgotten[b] \in Nat /\ limit[b] \in Nat /\ reserved[b] \in Nat /\ committed[b] \in Nat
        /\ reserved[b] + committed[b] <= limit[b]
    BY DEF TypeOK, WithinLimit
  <2>3. Cardinality(Holding(b, "committed")) \in Nat
    BY <2>1, FS_CardinalityType
  <2>4. CASE b \notin hit
    BY <1>1, <1>4, <1>5, <2>1, <2>2, <2>4
  <2>5. CASE b \in hit
    <3>1. /\ IsFiniteSet(Holding(b, "reserved") \ {l})
          /\ Cardinality(Holding(b, "reserved") \ {l}) = Cardinality(Holding(b, "reserved")) - 1
          /\ Cardinality(Holding(b, "reserved") \ {l}) \in Nat
      BY <1>5, <2>1, <2>5, FS_RemoveElement, FS_CardinalityType
    <3>2. /\ IsFiniteSet(Holding(b, "committed") \cup {l})
          /\ Cardinality(Holding(b, "committed") \cup {l}) = Cardinality(Holding(b, "committed")) + 1
      BY <1>5, <2>1, <2>5, FS_AddElement
    <3> HIDE DEF hit
    <3>3. /\ reserved'[b] = reserved[b] - 1
          /\ Cardinality(Holding(b, "reserved")') = reserved[b] - 1
          /\ IsFiniteSet(Holding(b, "reserved")')
          /\ reserved'[b] \in Nat
      BY <1>4, <1>5, <2>1, <2>5, <3>1
    <3>4. /\ committed'[b] = committed[b] + (IF target = "committed" THEN 1 ELSE 0)
          /\ committed'[b] \in Nat
      BY <1>4, <2>2, <2>5
    <3>5. IsFiniteSet(Holding(b, "committed")')
      BY <1>5, <2>1, <2>5, <3>2
    <3>6. Cardinality(Holding(b, "committed")')
            = Cardinality(Holding(b, "committed")) + (IF target = "committed" THEN 1 ELSE 0)
      BY <1>5, <2>3, <2>5, <3>2
    <3>7. forgotten'[b] = forgotten[b] /\ limit'[b] = limit[b]
      BY <1>1
    <3>8. committed'[b] = Cardinality(Holding(b, "committed")') + forgotten'[b]
      BY <2>1, <2>2, <2>3, <3>4, <3>6, <3>7
    <3>9. reserved'[b] + committed'[b] <= limit'[b]
      BY <2>2, <3>3, <3>4, <3>7
    <3> QED
      BY <3>3, <3>4, <3>5, <3>8, <3>9
  <2> QED
    BY <2>4, <2>5
<1>7. HoldingFinite' /\ BucketMatchesLedger' /\ WithinLimit'
  BY <1>6 DEF HoldingFinite, BucketMatchesLedger, WithinLimit
<1>8. TypeOK'
  <2>1. status' \in [Leases -> [Scopes -> RowStatus]]
    BY DEF Transition, TypeOK, RowStatus
  <2>2. reserved' \in [Buckets -> Nat] /\ committed' \in [Buckets -> Nat]
    BY <1>6 DEF Transition
  <2> QED
    BY <1>1, <2>1, <2>2 DEF TypeOK
<1>9. RowsWellFormed'
  BY <1>1, <1>2 DEF RowsWellFormed
<1>10. RowsAgree'
  <2> SUFFICES ASSUME NEW k \in Leases, account[Owner(k)] = "active", RowsOf(k)' # {},
                      NEW s \in ScopesOf(k), NEW t \in ScopesOf(k)
               PROVE  status'[k][s] # "none" /\ status'[k][s] = status'[k][t]
    BY <1>1 DEF RowsAgree
  <2>1. s \in Scopes /\ t \in Scopes
    BY KeyParts
  <2>2. RowsOf(k) # {}
    BY <1>2 DEF RowsOf
  <2> QED
    BY <1>2, <2>1, <2>2 DEF RowsAgree
<1>11. UserScopeGone'
  BY <1>1, <1>2, KeyParts DEF UserScopeGone
<1>12. OnlyGlobalForgotten'
  BY <1>1 DEF OnlyGlobalForgotten
<1>13. DeletionLeavesNothingHeld'
  BY <1>1, <1>2 DEF DeletionLeavesNothingHeld
<1> QED
  BY <1>7, <1>8, <1>9, <1>10, <1>11, <1>12, <1>13

\* prepareUserDeletion takes the rows of one account out of every bucket.
LEMMA PrepareUserDeletionStep ==
    ASSUME IInv, NEW u \in Users, PrepareUserDeletion(u)
    PROVE  IInv'
<1> USE DEF IInv
<1>1. /\ window' = window /\ forgotten' = forgotten
      /\ account' = [account EXCEPT ![u] = "deleting"]
  BY DEF PrepareUserDeletion
<1>2. \A k \in Leases, s \in Scopes :
         status'[k][s] = IF k[1] # u THEN status[k][s]
                         ELSE IF s = u THEN "none"
                         ELSE IF status[k][s] = "reserved" THEN "released" ELSE status[k][s]
  BY DEF PrepareUserDeletion, Owner
<1>3. \A b \in Buckets :
         /\ present'[b] = (present[b] /\ b[2] # u)
         /\ limit'[b] = IF b[2] = u THEN 0 ELSE limit[b]
         /\ reserved'[b] = IF b[2] = u THEN 0
                           ELSE reserved[b] - Cardinality(HeldBy(u, b, "reserved"))
         /\ committed'[b] = IF b[2] = u THEN 0 ELSE committed[b]
  BY DEF PrepareUserDeletion, Removed
<1>4. \A k \in Leases : k[1] # u => status[k][u] = "none"
  BY KeyParts DEF RowsWellFormed, ScopesOf
<1>5. ASSUME NEW b \in Buckets, b[2] = u
      PROVE  Holding(b, "reserved")' = {} /\ Holding(b, "committed")' = {}
  BY <1>2, <1>4, <1>5, KeyParts DEF Holding
<1>6. ASSUME NEW b \in Buckets, b[2] # u
      PROVE  /\ Holding(b, "reserved")' = Holding(b, "reserved") \ HeldBy(u, b, "reserved")
             /\ Holding(b, "committed")' = Holding(b, "committed")
             /\ HeldBy(u, b, "reserved") \subseteq Holding(b, "reserved")
  BY <1>1, <1>2, <1>6, KeyParts DEF Holding, HeldBy, Owner
<1>7. ASSUME NEW b \in Buckets
      PROVE  /\ IsFiniteSet(Holding(b, "reserved")') /\ IsFiniteSet(Holding(b, "committed")')
             /\ reserved'[b] = Cardinality(Holding(b, "reserved")')
             /\ committed'[b] = Cardinality(Holding(b, "committed")') + forgotten'[b]
             /\ reserved'[b] \in Nat /\ committed'[b] \in Nat /\ limit'[b] \in Nat
             /\ reserved'[b] + committed'[b] <= limit'[b]
  <2>1. /\ IsFiniteSet(Holding(b, "reserved")) /\ IsFiniteSet(Holding(b, "committed"))
        /\ reserved[b] = Cardinality(Holding(b, "reserved"))
        /\ committed[b] = Cardinality(Holding(b, "committed")) + forgotten[b]
    BY DEF HoldingFinite, BucketMatchesLedger
  <2>2. /\ forgotten[b] \in Nat /\ limit[b] \in Nat /\ reserved[b] \in Nat /\ committed[b] \in Nat
        /\ reserved[b] + committed[b] <= limit[b]
    BY DEF TypeOK, WithinLimit
  <2>3. CASE b[2] = u
    <3>1. forgotten[b] = 0
      BY <2>3 DEF OnlyGlobalForgotten
    <3>2. reserved'[b] = 0 /\ committed'[b] = 0 /\ limit'[b] = 0 /\ forgotten'[b] = 0
      BY <1>1, <1>3, <2>3, <3>1
    <3>3. Holding(b, "reserved")' = {} /\ Holding(b, "committed")' = {}
      BY <1>5, <2>3
    <3>4. /\ IsFiniteSet(Holding(b, "reserved")') /\ Cardinality(Holding(b, "reserved")') = 0
          /\ IsFiniteSet(Holding(b, "committed")') /\ Cardinality(Holding(b, "committed")') = 0
      BY <3>3, CardEmpty
    <3> QED
      BY <3>2, <3>4
  <2>4. CASE b[2] # u
    <3>1. /\ IsFiniteSet(Holding(b, "reserved") \ HeldBy(u, b, "reserved"))
          /\ Cardinality(Holding(b, "reserved") \ HeldBy(u, b, "reserved"))
               = reserved[b] - Cardinality(HeldBy(u, b, "reserved"))
          /\ Cardinality(HeldBy(u, b, "reserved")) \in Nat
      BY <1>6, <2>1, <2>4, CardMinusSet
    <3>2. Cardinality(Holding(b, "reserved") \ HeldBy(u, b, "reserved")) \in Nat
      BY <3>1, FS_CardinalityType
    <3>3. /\ reserved'[b] = reserved[b] - Cardinality(HeldBy(u, b, "reserved"))
          /\ committed'[b] = committed[b] /\ limit'[b] = limit[b] /\ forgotten'[b] = forgotten[b]
      BY <1>1, <1>3, <2>4
    <3>4. /\ IsFiniteSet(Holding(b, "reserved")')
          /\ Cardinality(Holding(b, "reserved")') = reserved'[b] /\ reserved'[b] \in Nat
      BY <1>6, <2>4, <3>1, <3>2, <3>3
    <3>5. Holding(b, "committed")' = Holding(b, "committed")
      BY <1>6, <2>4
    <3>6. reserved'[b] + committed'[b] <= limit'[b]
      BY <2>2, <3>1, <3>3
    <3> QED
      BY <2>1, <2>2, <3>3, <3>4, <3>5, <3>6
  <2> QED
    BY <2>3, <2>4
<1>8. HoldingFinite' /\ BucketMatchesLedger' /\ WithinLimit'
  BY <1>7 DEF HoldingFinite, BucketMatchesLedger, WithinLimit
<1>9. TypeOK'
  <2>1. status' \in [Leases -> [Scopes -> RowStatus]]
    BY DEF PrepareUserDeletion, TypeOK, RowStatus
  <2>2. /\ reserved' \in [Buckets -> Nat] /\ committed' \in [Buckets -> Nat]
        /\ limit' \in [Buckets -> Nat] /\ present' \in [Buckets -> BOOLEAN]
    BY <1>7 DEF PrepareUserDeletion, TypeOK
  <2> QED
    BY <1>1, <2>1, <2>2 DEF TypeOK
<1>10. RowsWellFormed'
  BY <1>1, <1>2 DEF RowsWellFormed
<1>11. RowsAgree'
  <2> SUFFICES ASSUME NEW k \in Leases, account'[Owner(k)] = "active", RowsOf(k)' # {},
                      NEW s \in ScopesOf(k), NEW t \in ScopesOf(k)
               PROVE  status'[k][s] # "none" /\ status'[k][s] = status'[k][t]
    BY DEF RowsAgree
  <2>1. s \in Scopes /\ t \in Scopes /\ k[1] \in Users
    BY KeyParts
  <2>2. k[1] # u /\ account[k[1]] = "active"
    BY <1>1, <2>1 DEF Owner, TypeOK
  <2>3. RowsOf(k) # {}
    BY <1>2, <2>2 DEF RowsOf
  <2> QED
    BY <1>2, <2>1, <2>2, <2>3 DEF RowsAgree, Owner
<1>12. UserScopeGone'
  <2> SUFFICES ASSUME NEW v \in Users, account'[v] # "active", NEW k \in Leases
               PROVE  status'[k][v] = "none"
    BY DEF UserScopeGone
  <2>1. v \in Scopes
    BY KeyParts
  <2>2. CASE v = u
    BY <1>2, <1>4, <2>1, <2>2
  <2>3. CASE v # u
    <3>1. status[k][v] = "none"
      BY <1>1, <2>3 DEF TypeOK, UserScopeGone
    <3> QED
      BY <1>2, <2>1, <3>1
  <2> QED
    BY <2>2, <2>3
<1>13. OnlyGlobalForgotten'
  BY <1>1 DEF OnlyGlobalForgotten
<1>14. DeletionLeavesNothingHeld'
  <2> SUFFICES ASSUME NEW v \in Users, account'[v] # "active"
               PROVE  /\ \A k \in Leases : k[1] = v => \A s \in Scopes : status'[k][s] # "reserved"
                      /\ \A b \in Buckets : b[2] = v => ~present'[b]
    BY DEF DeletionLeavesNothingHeld, Owner
  <2>1. CASE v = u
    BY <1>2, <1>3, <2>1
  <2>2. CASE v # u
    <3>1. account[v] # "active"
      BY <1>1, <2>2 DEF TypeOK
    <3>2. \A b \in Buckets : b[2] = v => ~present'[b]
      BY <1>3, <3>1 DEF DeletionLeavesNothingHeld
    <3>3. \A k \in Leases : k[1] = v => \A s \in Scopes : status'[k][s] # "reserved"
      BY <1>2, <2>2, <3>1 DEF DeletionLeavesNothingHeld, Owner
    <3> QED
      BY <3>2, <3>3
  <2> QED
    BY <2>1, <2>2
<1> QED
  BY <1>8, <1>9, <1>10, <1>11, <1>12, <1>13, <1>14

\* Removing the account moves its committed rows of the global buckets to the
\* history and removes nothing from any counter.
LEMMA DeleteUserStep ==
    ASSUME IInv, NEW u \in Users, DeleteUser(u)
    PROVE  IInv'
<1> USE DEF IInv
<1>1. /\ window' = window /\ present' = present /\ limit' = limit
      /\ reserved' = reserved /\ committed' = committed
      /\ account' = [account EXCEPT ![u] = "deleted"]
      /\ account[u] # "active"
  BY DEF DeleteUser
<1>2. \A k \in Leases, s \in Scopes :
         status'[k][s] = IF k[1] = u THEN "none" ELSE status[k][s]
  BY DEF DeleteUser, Owner
<1>3. \A b \in Buckets : forgotten'[b] = forgotten[b] + Cardinality(HeldBy(u, b, "committed"))
  BY DEF DeleteUser
<1>4. \A k \in Leases, s \in Scopes : k[1] = u => status[k][s] # "reserved"
  BY <1>1 DEF DeletionLeavesNothingHeld, Owner
<1>5. ASSUME NEW b \in Buckets
      PROVE  /\ Holding(b, "reserved")' = Holding(b, "reserved")
             /\ Holding(b, "committed")' = Holding(b, "committed") \ HeldBy(u, b, "committed")
             /\ HeldBy(u, b, "committed") \subseteq Holding(b, "committed")
             /\ b[2] \in Users => HeldBy(u, b, "committed") = {}
  <2>1. /\ Holding(b, "reserved")' = Holding(b, "reserved")
        /\ Holding(b, "committed")' = Holding(b, "committed") \ HeldBy(u, b, "committed")
        /\ HeldBy(u, b, "committed") \subseteq Holding(b, "committed")
    BY <1>1, <1>2, <1>4, KeyParts DEF Holding, HeldBy, Owner
  <2>2. ASSUME b[2] \in Users, NEW k \in Leases, k[1] = u
        PROVE  status[k][b[2]] = "none"
    BY <1>1, <2>2, KeyParts DEF UserScopeGone, RowsWellFormed, ScopesOf
  <2>3. b[2] \in Users => HeldBy(u, b, "committed") = {}
    BY <2>2 DEF HeldBy, Holding, Owner
  <2> QED
    BY <2>1, <2>3
<1>6. ASSUME NEW b \in Buckets
      PROVE  /\ IsFiniteSet(Holding(b, "reserved")') /\ IsFiniteSet(Holding(b, "committed")')
             /\ reserved'[b] = Cardinality(Holding(b, "reserved")')
             /\ committed'[b] = Cardinality(Holding(b, "committed")') + forgotten'[b]
             /\ forgotten'[b] \in Nat
  <2>1. /\ IsFiniteSet(Holding(b, "reserved")) /\ IsFiniteSet(Holding(b, "committed"))
        /\ reserved[b] = Cardinality(Holding(b, "reserved"))
        /\ committed[b] = Cardinality(Holding(b, "committed")) + forgotten[b]
        /\ forgotten[b] \in Nat
    BY DEF HoldingFinite, BucketMatchesLedger, TypeOK
  <2>2. /\ IsFiniteSet(Holding(b, "committed") \ HeldBy(u, b, "committed"))
        /\ Cardinality(Holding(b, "committed") \ HeldBy(u, b, "committed"))
             = Cardinality(Holding(b, "committed")) - Cardinality(HeldBy(u, b, "committed"))
        /\ Cardinality(HeldBy(u, b, "committed")) \in Nat
        /\ Cardinality(Holding(b, "committed")) \in Nat
    BY <1>5, <2>1, CardMinusSet
  <2>3. forgotten'[b] = forgotten[b] + Cardinality(HeldBy(u, b, "committed"))
    BY <1>3
  <2>4. /\ IsFiniteSet(Holding(b, "committed")')
        /\ Cardinality(Holding(b, "committed")')
             = Cardinality(Holding(b, "committed")) - Cardinality(HeldBy(u, b, "committed"))
    BY <1>5, <2>2
  <2>5. Holding(b, "reserved")' = Holding(b, "reserved") /\ reserved'[b] = reserved[b]
        /\ committed'[b] = committed[b]
    BY <1>1, <1>5
  <2> QED
    BY <2>1, <2>2, <2>3, <2>4, <2>5
<1>7. HoldingFinite' /\ BucketMatchesLedger'
  BY <1>6 DEF HoldingFinite, BucketMatchesLedger
<1>8. TypeOK'
  <2>1. status' \in [Leases -> [Scopes -> RowStatus]]
    BY DEF DeleteUser, TypeOK, RowStatus
  <2>2. forgotten' \in [Buckets -> Nat]
    BY <1>6 DEF DeleteUser
  <2> QED
    BY <1>1, <2>1, <2>2 DEF TypeOK
<1>9. WithinLimit'
  BY <1>1 DEF WithinLimit
<1>10. RowsWellFormed'
  BY <1>1, <1>2 DEF RowsWellFormed
<1>11. RowsAgree'
  <2> SUFFICES ASSUME NEW k \in Leases, account'[Owner(k)] = "active", RowsOf(k)' # {},
                      NEW s \in ScopesOf(k), NEW t \in ScopesOf(k)
               PROVE  status'[k][s] # "none" /\ status'[k][s] = status'[k][t]
    BY DEF RowsAgree
  <2>1. s \in Scopes /\ t \in Scopes /\ k[1] \in Users
    BY KeyParts
  <2>2. k[1] # u /\ account[k[1]] = "active"
    BY <1>1, <2>1 DEF Owner, TypeOK
  <2>3. RowsOf(k) # {}
    BY <1>2, <2>2 DEF RowsOf
  <2> QED
    BY <1>2, <2>1, <2>2, <2>3 DEF RowsAgree, Owner
<1>12. \A v \in Users : account'[v] # "active" => account[v] # "active"
  BY <1>1 DEF TypeOK
<1>13. UserScopeGone'
  BY <1>2, <1>12, KeyParts DEF UserScopeGone
<1>14. OnlyGlobalForgotten'
  <2> SUFFICES ASSUME NEW b \in Buckets, b[2] \in Users PROVE forgotten'[b] = 0
    BY DEF OnlyGlobalForgotten
  <2>1. forgotten[b] = 0 /\ HeldBy(u, b, "committed") = {}
    BY <1>5 DEF OnlyGlobalForgotten
  <2> QED
    BY <1>3, <2>1, CardEmpty
<1>15. DeletionLeavesNothingHeld'
  BY <1>1, <1>2, <1>12 DEF DeletionLeavesNothingHeld
<1> QED
  BY <1>7, <1>8, <1>9, <1>10, <1>11, <1>13, <1>14, <1>15

\* cleanupDeletedUser finds nothing left to remove.
LEMMA CleanupDeletedUserStep ==
    ASSUME IInv, NEW u \in Users, CleanupDeletedUser(u)
    PROVE  /\ UNCHANGED <<account, status, window, present, reserved, committed, forgotten>>
           /\ IInv'
<1> USE DEF IInv
<1>1. account[u] # "active" /\ UNCHANGED <<account, window, forgotten>>
  BY DEF CleanupDeletedUser
<1>2. \A k \in Leases : status[k][u] = "none"
  BY <1>1 DEF UserScopeGone
<1>3. status' = status
  BY <1>2, KeyParts DEF CleanupDeletedUser, TypeOK
<1>4. ASSUME NEW b \in Buckets, b[2] = u
      PROVE  ~present[b] /\ reserved[b] = 0 /\ committed[b] = 0
  <2>1. Holding(b, "reserved") = {} /\ Holding(b, "committed") = {}
    BY <1>2, <1>4 DEF Holding
  <2>2. forgotten[b] = 0 /\ ~present[b]
    BY <1>1, <1>4 DEF OnlyGlobalForgotten, DeletionLeavesNothingHeld
  <2>3. /\ reserved[b] = Cardinality(Holding(b, "reserved"))
        /\ committed[b] = Cardinality(Holding(b, "committed")) + forgotten[b]
    BY DEF BucketMatchesLedger
  <2> QED
    BY <2>1, <2>2, <2>3, CardEmpty
<1>5. reserved' = reserved /\ committed' = committed
  BY <1>4 DEF CleanupDeletedUser, Removed, TypeOK
<1>6. present' = present
  BY <1>4 DEF CleanupDeletedUser, Removed, TypeOK
<1>7. \A b \in Buckets : limit'[b] = IF b[2] = u THEN 0 ELSE limit[b]
  BY DEF CleanupDeletedUser, Removed
<1>8. limit' \in [Buckets -> Nat]
  BY DEF CleanupDeletedUser, Removed, TypeOK
<1>9. TypeOK'
  BY <1>1, <1>3, <1>5, <1>6, <1>8 DEF TypeOK
<1>10. WithinLimit'
  BY <1>4, <1>5, <1>7 DEF WithinLimit
<1>11. HoldingFinite' /\ BucketMatchesLedger'
  BY <1>1, <1>3, <1>5 DEF HoldingFinite, BucketMatchesLedger, Holding
<1>12. RowsWellFormed' /\ RowsAgree' /\ UserScopeGone' /\ OnlyGlobalForgotten'
  BY <1>1, <1>3 DEF RowsWellFormed, RowsAgree, UserScopeGone, OnlyGlobalForgotten, RowsOf
<1>13. DeletionLeavesNothingHeld'
  BY <1>1, <1>3, <1>6 DEF DeletionLeavesNothingHeld
<1> QED
  BY <1>1, <1>3, <1>5, <1>6, <1>9, <1>10, <1>11, <1>12, <1>13
-----------------------------------------------------------------------------

\* IInv is preserved by every step.
LEMMA NextIInv == IInv /\ [Next]_vars => IInv'
<1> SUFFICES ASSUME IInv, [Next]_vars PROVE IInv'
  OBVIOUS
<1>1. CASE UNCHANGED vars
  <2>1. (TypeOK /\ RowsWellFormed /\ RowsAgree /\ UserScopeGone /\ OnlyGlobalForgotten
           /\ WithinLimit /\ DeletionLeavesNothingHeld)'
    BY <1>1 DEF vars, IInv, TypeOK, RowsWellFormed, RowsAgree, UserScopeGone, OnlyGlobalForgotten,
       WithinLimit, DeletionLeavesNothingHeld, RowsOf
  <2>2. HoldingFinite' /\ BucketMatchesLedger'
    BY <1>1 DEF vars, IInv, HoldingFinite, BucketMatchesLedger, Holding
  <2> QED
    BY <2>1, <2>2 DEF IInv
<1>2. ASSUME NEW l \in Leases, NEW w \in Windows, NEW policy \in [ScopesOf(l) -> Limits],
             Reserve(l, w, policy)
      PROVE  IInv'
  BY <1>2, ReserveStep
<1>3. ASSUME NEW l \in Leases, Commit(l) \/ Release(l) PROVE IInv'
  BY <1>3, TransitionStep DEF Commit, Release
<1>4. ASSUME NEW u \in Users, PrepareUserDeletion(u) PROVE IInv'
  BY <1>4, PrepareUserDeletionStep
<1>5. ASSUME NEW u \in Users, DeleteUser(u) PROVE IInv'
  BY <1>5, DeleteUserStep
<1>6. ASSUME NEW u \in Users, CleanupDeletedUser(u) PROVE IInv'
  BY <1>6, CleanupDeletedUserStep
<1> QED
  BY <1>1, <1>2, <1>3, <1>4, <1>5, <1>6 DEF Next

\* The inductive invariant holds in every reachable state.
THEOREM Inductive == Spec => []IInv
BY InitIInv, NextIInv, PTL DEF Spec

\* Every variable keeps its type: no counter of a bucket ever becomes negative.
THEOREM TypeCorrect == Spec => []TypeOK
<1>1. IInv => TypeOK
  BY DEF IInv
<1> QED
  BY Inductive, <1>1, PTL

\* reserved_units and committed_units of every bucket equal the ledger rows that
\* hold its units, through reservations, settlements and account deletions.
THEOREM AccountingExact == Spec => []BucketMatchesLedger
<1>1. IInv => BucketMatchesLedger
  BY DEF IInv
<1> QED
  BY Inductive, <1>1, PTL

\* No transaction violates a CHECK constraint of quota_bucket.
THEOREM ChecksHold == Spec => []BucketChecksHold
<1>1. IInv => BucketChecksHold
  BY DEF IInv, TypeOK, WithinLimit, BucketChecksHold
<1> QED
  BY Inductive, <1>1, PTL

\* A lease of an active account is settled in all of its scopes or in none.
THEOREM LeaseAtomicity == Spec => []LeaseIsAtomic
<1>1. ASSUME IInv PROVE LeaseIsAtomic
  <2> SUFFICES ASSUME NEW l \in Leases, account[Owner(l)] = "active", RowsOf(l) # {}
               PROVE  /\ RowsOf(l) = ScopesOf(l)
                      /\ \A s \in RowsOf(l) : status[l][s] = AggregateStatus(l)
    BY DEF LeaseIsAtomic
  <2>1. \A s, t \in ScopesOf(l) : status[l][s] # "none" /\ status[l][s] = status[l][t]
    BY <1>1 DEF IInv, RowsAgree
  <2>2. RowsOf(l) = ScopesOf(l)
    BY <1>1, <2>1, KeyParts DEF IInv, RowsWellFormed, RowsOf
  <2>3. PICK st \in RowStatus : \A s \in RowsOf(l) : status[l][s] = st /\ st # "none"
    BY <1>1, <2>1, <2>2, KeyParts DEF IInv, TypeOK
  <2>4. AggregateStatus(l) = st
    BY <2>3 DEF AggregateStatus, RowStatus
  <2> QED
    BY <2>2, <2>3, <2>4
<1> QED
  BY Inductive, <1>1, PTL

\* Once deletion was requested, an account holds no reserved unit and no bucket
\* is keyed by it: removing the user strands no unit of the global buckets.
THEOREM DeletionStrandsNothing == Spec => []DeletionLeavesNothingHeld
<1>1. IInv => DeletionLeavesNothingHeld
  BY DEF IInv
<1> QED
  BY Inductive, <1>1, PTL

\* A committed or released row never changes its outcome: it only disappears
\* with its account.
THEOREM SettlementFinal == Spec => SettledIsFinal
<1> DEFINE Final == \A l \in Leases, s \in Scopes :
              status[l][s] \in {"committed", "released"} /\ status'[l][s] # status[l][s]
                => status'[l][s] = "none" /\ account'[Owner(l)] # "active"
<1>1. IInv /\ [Next]_vars => [Final]_vars
  <2> SUFFICES ASSUME IInv, Next,
                      NEW l \in Leases, NEW s \in Scopes,
                      status[l][s] \in {"committed", "released"}, status'[l][s] # status[l][s]
               PROVE  status'[l][s] = "none" /\ account'[l[1]] # "active"
    BY DEF Owner
  <2> USE DEF IInv
  <2>1. ASSUME NEW k \in Leases, NEW w \in Windows, NEW policy \in [ScopesOf(k) -> Limits],
               Reserve(k, w, policy)
        PROVE  FALSE
    BY <2>1 DEF Reserve, RowsOf, TypeOK
  <2>2. ASSUME NEW k \in Leases, NEW target \in {"committed", "released"}, Transition(k, target)
        PROVE  FALSE
    BY <2>2 DEF Transition, Movable, TypeOK
  <2>3. ASSUME NEW u \in Users, PrepareUserDeletion(u)
        PROVE  status'[l][s] = "none" /\ account'[l[1]] # "active"
    BY <2>3, KeyParts DEF PrepareUserDeletion, TypeOK, Owner
  <2>4. ASSUME NEW u \in Users, DeleteUser(u)
        PROVE  status'[l][s] = "none" /\ account'[l[1]] # "active"
    BY <2>4, KeyParts DEF DeleteUser, TypeOK, Owner
  <2>5. ASSUME NEW u \in Users, CleanupDeletedUser(u) PROVE FALSE
    BY <2>5, CleanupDeletedUserStep
  <2> QED
    BY <2>1, <2>2, <2>3, <2>4, <2>5 DEF Next, Commit, Release
<1>2. Spec => [][Final]_vars
  BY Inductive, <1>1, PTL DEF Spec
<1> QED
  BY <1>2 DEF SettledIsFinal

\* The committed units of a global bucket never go down, not even when the
\* account that spent them is deleted.
THEOREM GlobalChargeKept == Spec => GlobalChargeIsKept
<1> DEFINE Kept == \A b \in Buckets : b[2] = GlobalKey => committed'[b] >= committed[b]
<1>1. IInv /\ [Next]_vars => [Kept]_vars
  <2> SUFFICES ASSUME IInv, Next, NEW b \in Buckets, b[2] = GlobalKey
               PROVE  committed'[b] >= committed[b]
    OBVIOUS
  <2>1. committed[b] \in Nat
    BY DEF IInv, TypeOK
  <2>2. ASSUME NEW k \in Leases, NEW w \in Windows, NEW policy \in [ScopesOf(k) -> Limits],
               Reserve(k, w, policy)
        PROVE  committed'[b] = committed[b]
    BY <2>2 DEF Reserve
  <2>3. ASSUME NEW k \in Leases, NEW target \in {"committed", "released"}, Transition(k, target)
        PROVE  committed'[b] >= committed[b]
    BY <2>1, <2>3 DEF Transition
  <2>4. ASSUME NEW u \in Users, PrepareUserDeletion(u) \/ CleanupDeletedUser(u)
        PROVE  committed'[b] = committed[b]
    BY <2>4, KeyParts DEF PrepareUserDeletion, CleanupDeletedUser, Removed
  <2>5. ASSUME NEW u \in Users, DeleteUser(u) PROVE committed'[b] = committed[b]
    BY <2>5 DEF DeleteUser
  <2> QED
    BY <2>1, <2>2, <2>3, <2>4, <2>5 DEF Next, Commit, Release
<1>2. Spec => [][Kept]_vars
  BY Inductive, <1>1, PTL DEF Spec
<1> QED
  BY <1>2 DEF GlobalChargeIsKept
-----------------------------------------------------------------------------
(* QuotaLedger implements Lease.                                           *)

\* What aggregateStatus shows of a lease without rows and of one whose rows agree.
LEMMA ViewNone ==
    ASSUME NEW l \in Leases, \A s \in Scopes : status[l][s] = "none"
    PROVE  AggregateStatus(l) = "none"
BY DEF AggregateStatus, RowsOf

LEMMA ViewNoneNext ==
    ASSUME NEW l \in Leases, \A s \in Scopes : status'[l][s] = "none"
    PROVE  AggregateStatus(l)' = "none"
BY DEF AggregateStatus, RowsOf

LEMMA ViewUniform ==
    ASSUME NEW l \in Leases, NEW st \in {"reserved", "committed", "released"},
           NEW t \in Scopes, status[l][t] = st,
           \A s \in Scopes : status[l][s] \in {"none", st}
    PROVE  AggregateStatus(l) = st
BY DEF AggregateStatus, RowsOf

LEMMA ViewUniformNext ==
    ASSUME NEW l \in Leases, NEW st \in {"reserved", "committed", "released"},
           NEW t \in Scopes, status'[l][t] = st,
           \A s \in Scopes : status'[l][s] \in {"none", st}
    PROVE  AggregateStatus(l)' = st
BY DEF AggregateStatus, RowsOf

\* A lease whose rows are unchanged looks unchanged.
LEMMA ViewSame ==
    ASSUME NEW l \in Leases, \A s \in Scopes : status'[l][s] = status[l][s]
    PROVE  AggregateStatus(l)' = AggregateStatus(l)
<1>1. RowsOf(l)' = RowsOf(l)
  BY DEF RowsOf
<1>2. \A s \in RowsOf(l) : s \in Scopes
  BY DEF RowsOf
<1> QED
  BY <1>1, <1>2 DEF AggregateStatus

\* In a reachable state the rows of a lease agree, so the view is their status.
LEMMA ViewOfRows ==
    ASSUME IInv, NEW l \in Leases
    PROVE  \/ /\ \A s \in Scopes : status[l][s] = "none"
              /\ AggregateStatus(l) = "none"
           \/ \E st \in {"reserved", "committed", "released"}, t \in Scopes :
                /\ status[l][t] = st /\ AggregateStatus(l) = st
                /\ \A s \in Scopes : status[l][s] \in {"none", st}
<1> USE DEF IInv
<1>1. CASE \A s \in Scopes : status[l][s] = "none"
  BY <1>1, ViewNone
<1>2. CASE \E s \in Scopes : status[l][s] # "none"
  <2>1. PICK t \in Scopes : status[l][t] # "none"
    BY <1>2
  <2>2. status[l][t] \in {"reserved", "committed", "released"} /\ t \in ScopesOf(l)
    BY <2>1 DEF TypeOK, RowStatus, RowsWellFormed
  <2>3. \A s \in Scopes : status[l][s] \in {"none", status[l][t]}
    <3>1. CASE account[Owner(l)] = "active"
      <4>1. t \in RowsOf(l)
        BY <2>1 DEF RowsOf
      <4> QED
        BY <3>1, <4>1, <2>2 DEF RowsAgree, RowsWellFormed
    <3>2. CASE account[Owner(l)] # "active"
      <4>1. status[l][l[1]] = "none"
        BY <3>2, KeyParts DEF UserScopeGone, Owner
      <4>2. t = GlobalKey
        BY <4>1, <2>1, <2>2 DEF ScopesOf
      <4> QED
        BY <4>1, <4>2 DEF RowsWellFormed, ScopesOf
    <3> QED
      BY <3>1, <3>2
  <2>4. AggregateStatus(l) = status[l][t]
    BY <2>2, <2>3, ViewUniform
  <2> QED
    BY <2>2, <2>3, <2>4
<1> QED
  BY <1>1, <1>2

\* reserve creates one lease.
LEMMA ReserveIsReserve ==
    ASSUME IInv, NEW l \in Leases, NEW w \in Windows, NEW policy \in [ScopesOf(l) -> Limits],
           Reserve(l, w, policy)
    PROVE  Promise!Reserve(l)
<1> USE DEF IInv
<1>1. \A s \in Scopes : status[l][s] = "none"
  BY DEF Reserve, RowsOf
<1>2. AggregateStatus(l) = "none"
  BY <1>1, ViewNone
<1>3. \A k \in Leases, s \in Scopes :
         status'[k][s] = IF k # l THEN status[k][s]
                         ELSE IF s \in ScopesOf(l) THEN "reserved" ELSE "none"
  BY DEF Reserve, TypeOK
<1>4. AggregateStatus(l)' = "reserved"
  <2>1. l[1] \in Scopes /\ l[1] \in ScopesOf(l)
    BY KeyParts DEF ScopesOf
  <2> QED
    BY <1>3, <2>1, ViewUniformNext
<1>5. \A k \in Leases : k # l => AggregateStatus(k)' = AggregateStatus(k)
  BY <1>3, ViewSame
<1>6. LeaseView' = [LeaseView EXCEPT ![l] = "reserved"]
  BY <1>4, <1>5 DEF LeaseView
<1>7. account[l[1]] = "active" /\ account' = account
  BY DEF Reserve, CanReserve, Owner
<1>8. LeaseView[l] = "none"
  BY <1>2 DEF LeaseView
<1> QED
  BY <1>6, <1>7, <1>8 DEF Promise!Reserve

\* commit and release settle one lease, or change nothing.
LEMMA TransitionIsSettle ==
    ASSUME IInv, NEW l \in Leases, NEW target \in {"committed", "released"}, Transition(l, target)
    PROVE  Promise!Settle(l, target) \/ UNCHANGED <<account, LeaseView>>
<1> USE DEF IInv
<1>1. \A k \in Leases, s \in Scopes :
         status'[k][s] = IF k = l /\ status[l][s] = "reserved" THEN target ELSE status[k][s]
  BY DEF Transition, Movable, TypeOK
<1>2. account' = account
  BY DEF Transition
<1>3. \A k \in Leases : k # l => AggregateStatus(k)' = AggregateStatus(k)
  BY <1>1, ViewSame
<1>4. CASE AggregateStatus(l) = "reserved"
  <2>1. PICK t \in Scopes : /\ status[l][t] = "reserved"
                            /\ \A s \in Scopes : status[l][s] \in {"none", "reserved"}
    BY <1>4, ViewOfRows
  <2>2. AggregateStatus(l)' = target
    <3>1. status'[l][t] = target /\ \A s \in Scopes : status'[l][s] \in {"none", target}
      BY <1>1, <2>1
    <3> QED
      BY <3>1, ViewUniformNext
  <2>3. LeaseView' = [LeaseView EXCEPT ![l] = target] /\ LeaseView[l] = "reserved"
    BY <1>3, <1>4, <2>2 DEF LeaseView
  <2> QED
    BY <1>2, <2>3 DEF Promise!Settle
<1>5. CASE AggregateStatus(l) # "reserved"
  <2>1. \A s \in Scopes : status[l][s] # "reserved"
    BY <1>5, ViewOfRows
  <2>2. AggregateStatus(l)' = AggregateStatus(l)
    BY <1>1, <2>1, ViewSame
  <2> QED
    BY <1>2, <1>3, <2>2 DEF LeaseView
<1> QED
  BY <1>4, <1>5

\* prepareUserDeletion closes the account once; a repetition changes nothing.
LEMMA PrepareIsClose ==
    ASSUME IInv, NEW u \in Users, PrepareUserDeletion(u)
    PROVE  Promise!Close(u) \/ UNCHANGED <<account, LeaseView>>
<1> USE DEF IInv
<1>1. \A l \in Leases, s \in Scopes :
         status'[l][s] = IF l[1] # u THEN status[l][s]
                         ELSE IF s = u THEN "none"
                         ELSE IF status[l][s] = "reserved" THEN "released" ELSE status[l][s]
  BY DEF PrepareUserDeletion, Owner
<1>2. account' = [account EXCEPT ![u] = "deleting"] /\ account[u] \in {"active", "deleting"}
  BY DEF PrepareUserDeletion, TypeOK
<1>3. \A l \in Leases : l[1] # u => AggregateStatus(l)' = AggregateStatus(l)
  BY <1>1, ViewSame
<1>4. CASE account[u] = "active"
  <2>1. ASSUME NEW l \in Leases, l[1] = u
        PROVE  AggregateStatus(l)' = IF l[2] = "answer" THEN "none"
                                     ELSE IF AggregateStatus(l) = "reserved" THEN "released"
                                          ELSE AggregateStatus(l)
    <3>1. CASE l[2] = "answer"
      <4>1. \A s \in Scopes : s # u => status[l][s] = "none"
        BY <2>1, <3>1 DEF RowsWellFormed, ScopesOf
      <4>2. \A s \in Scopes : status'[l][s] = "none"
        BY <1>1, <2>1, <4>1
      <4> QED
        BY <3>1, <4>2, ViewNoneNext
    <3>2. CASE l[2] # "answer"
      <4>1. CASE \A s \in Scopes : status[l][s] = "none"
        <5>1. AggregateStatus(l) = "none" /\ AggregateStatus(l)' = "none"
          BY <1>1, <4>1, ViewNone, ViewNoneNext
        <5> QED
          BY <3>2, <5>1
      <4>2. CASE \E s \in Scopes : status[l][s] # "none"
        <5>1. PICK t \in Scopes : status[l][t] # "none"
          BY <4>2
        <5>2. ScopesOf(l) = {GlobalKey, u} /\ GlobalKey \in Scopes /\ GlobalKey # u
          BY <2>1, <3>2, KeyParts DEF ScopesOf
        <5>3. status[l][GlobalKey] # "none"
          BY <1>4, <2>1, <5>1, <5>2 DEF RowsAgree, RowsOf, Owner
        <5>4. PICK st \in {"reserved", "committed", "released"} :
                 /\ AggregateStatus(l) = st
                 /\ \A s \in Scopes : status[l][s] \in {"none", st}
          BY <5>1, ViewOfRows
        <5>5. status[l][GlobalKey] = st
          BY <5>2, <5>3, <5>4
        <5>6. AggregateStatus(l)' = IF st = "reserved" THEN "released" ELSE st
          <6>1. status'[l][GlobalKey] = IF st = "reserved" THEN "released" ELSE st
            BY <1>1, <2>1, <5>2, <5>5
          <6>2. \A s \in Scopes : status'[l][s] \in {"none", IF st = "reserved" THEN "released" ELSE st}
            BY <1>1, <2>1, <5>4
          <6> QED
            BY <6>1, <6>2, <5>2, ViewUniformNext
        <5> QED
          BY <3>2, <5>4, <5>6
      <4> QED
        BY <4>1, <4>2
    <3> QED
      BY <3>1, <3>2
  <2>2. \A l \in Leases : LeaseView[l] = AggregateStatus(l)
    BY DEF LeaseView
  <2>3. \A l \in Leases : LeaseView'[l] = IF l[1] = u THEN Promise!Closed(l) ELSE LeaseView[l]
    BY <1>3, <2>1, <2>2 DEF LeaseView, Promise!Closed
  <2>4. LeaseView' = [l \in Leases |-> IF l[1] = u THEN Promise!Closed(l) ELSE LeaseView[l]]
    BY <2>3 DEF LeaseView
  <2> QED
    BY <1>2, <1>4, <2>4 DEF Promise!Close, Promise!Leases, Leases
<1>5. CASE account[u] = "deleting"
  <2>1. account' = account
    BY <1>2, <1>5 DEF TypeOK
  <2>2. \A l \in Leases, s \in Scopes : status'[l][s] = status[l][s]
    BY <1>1, <1>5 DEF UserScopeGone, DeletionLeavesNothingHeld, Owner
  <2> QED
    BY <2>1, <2>2, ViewSame DEF LeaseView
<1> QED
  BY <1>2, <1>4, <1>5

\* Removing the user removes its leases; the cleanup afterwards finds none.
LEMMA DeleteIsRemove ==
    ASSUME IInv, NEW u \in Users, DeleteUser(u)
    PROVE  Promise!Remove(u)
<1> USE DEF IInv
<1>1. \A l \in Leases, s \in Scopes : status'[l][s] = IF l[1] = u THEN "none" ELSE status[l][s]
  BY DEF DeleteUser, Owner, TypeOK
<1>2. \A l \in Leases : AggregateStatus(l)' = IF l[1] = u THEN "none" ELSE AggregateStatus(l)
  BY <1>1, ViewNoneNext, ViewSame
<1>3. LeaseView' = [l \in Leases |-> IF l[1] = u THEN "none" ELSE LeaseView[l]]
  BY <1>2 DEF LeaseView
<1> QED
  BY <1>3 DEF DeleteUser, Promise!Remove, Promise!Leases, Leases

LEMMA CleanupIsStutter ==
    ASSUME IInv, NEW u \in Users, CleanupDeletedUser(u)
    PROVE  UNCHANGED <<account, LeaseView>>
<1> USE DEF IInv
<1>1. \A l \in Leases, s \in Scopes : status'[l][s] = status[l][s]
  BY DEF CleanupDeletedUser, TypeOK, UserScopeGone
<1> QED
  BY <1>1, ViewSame DEF CleanupDeletedUser, LeaseView

\* The tables of quota_ledger and quota_bucket implement the lease callers rely
\* on: every behaviour of QuotaLedger is, seen through aggregateStatus, one of Lease.
THEOREM LedgerImplementsLease == Spec => ImplementsLease
<1>1. Init => Promise!Init
  <2> SUFFICES ASSUME Init PROVE Promise!Init
    OBVIOUS
  <2>1. \A l \in Leases : AggregateStatus(l) = "none"
    BY ViewNone DEF Init
  <2> QED
    BY <2>1 DEF Init, Promise!Init, Promise!Leases, Promise!Status, LeaseView, Leases
<1>2. IInv /\ [Next]_vars => [Promise!Next]_(Promise!vars)
  <2> SUFFICES ASSUME IInv, [Next]_vars PROVE [Promise!Next]_(Promise!vars)
    OBVIOUS
  <2> USE DEF Promise!vars
  <2>0. Promise!Leases = Leases
    BY DEF Promise!Leases, Leases
  <2>1. CASE UNCHANGED vars
    BY <2>1, ViewSame DEF vars, LeaseView
  <2>2. ASSUME NEW l \in Leases, NEW w \in Windows, NEW policy \in [ScopesOf(l) -> Limits],
               Reserve(l, w, policy)
        PROVE  Promise!Next
    BY <2>0, <2>2, ReserveIsReserve DEF Promise!Next
  <2>3. ASSUME NEW l \in Leases, NEW target \in {"committed", "released"}, Transition(l, target)
        PROVE  [Promise!Next]_(Promise!vars)
    BY <2>0, <2>3, TransitionIsSettle DEF Promise!Next
  <2>4. ASSUME NEW u \in Users, PrepareUserDeletion(u) PROVE [Promise!Next]_(Promise!vars)
    BY <2>4, PrepareIsClose DEF Promise!Next
  <2>5. ASSUME NEW u \in Users, DeleteUser(u) PROVE Promise!Next
    BY <2>5, DeleteIsRemove DEF Promise!Next
  <2>6. ASSUME NEW u \in Users, CleanupDeletedUser(u) PROVE UNCHANGED Promise!vars
    BY <2>6, CleanupIsStutter
  <2> QED
    BY <2>1, <2>2, <2>3, <2>4, <2>5, <2>6 DEF Next, Commit, Release
<1>3. Spec => Promise!Spec
  BY Inductive, <1>1, <1>2, PTL DEF Spec, Promise!Spec
<1> QED
  BY <1>3 DEF ImplementsLease
-----------------------------------------------------------------------------
(* What the statements of a transaction know.                              *)

Rows == UNION {[S -> {"pending", "reserved", "committed", "released"}] : S \in SUBSET Scopes}
Writes == UNION {[S -> [limit : Int, reserved : Int, committed : Int]] : S \in SUBSET Buckets}
Policies == UNION {[S -> Limits] : S \in SUBSET Scopes}
Session == [pc : {"idle", "read", "bucket", "insert", "commit", "winner"},
            lease : Leases \cup {NoLease}, target : {"reserved", "committed", "released"},
            window : Windows \cup {NoWindow}, policy : Policies, buckets : Writes, rows : Rows]

\* The bucket rows a session has written are those of the scopes it came to.
Charged(t) == DOMAIN t.buckets = {Bucket(t, s) : s \in DOMAIN t.rows}

\* Of the scopes a session has to charge, the global one comes first.
InOrder(t, scopes) == DOMAIN t.rows # {} /\ GlobalKey \in scopes => GlobalKey \in DOMAIN t.rows

\* An open reserve: its account cannot be closed, the buckets it has locked are as
\* it read them, and no other row of its key has been committed.
Reserving(t) ==
    /\ t.lease \in Leases /\ t.window \in Windows /\ t.policy \in [ScopesOf(t.lease) -> Limits]
    /\ account[Owner(t.lease)] = "active"
    /\ DOMAIN t.rows \subseteq ScopesOf(t.lease) /\ Charged(t)
    /\ \A s \in DOMAIN t.rows :
          /\ t.rows[s] \in {"pending", "reserved"}
          /\ t.rows[s] = "reserved" => status[t.lease][s] = "none"
          /\ Fits(Bucket(t, s), t.policy[s])
          /\ t.buckets[Bucket(t, s)] =
                [limit |-> ReconciledLimit(t.policy[s], Bucket(t, s)),
                 reserved |-> reserved[Bucket(t, s)] + 1, committed |-> committed[Bucket(t, s)]]
    /\ t.pc = "read" => DOMAIN t.rows = {}
    /\ t.pc \in {"bucket", "commit"} => \A s \in DOMAIN t.rows : t.rows[s] = "reserved"
    /\ t.pc = "insert" => \A r, s \in DOMAIN t.rows :
          t.rows[r] = "pending" /\ t.rows[s] = "pending" => r = s
    /\ t.pc = "commit" => DOMAIN t.rows = ScopesOf(t.lease)
    /\ t.pc = "bucket" => DOMAIN t.rows # ScopesOf(t.lease)
    /\ t.pc = "insert" => \E s \in DOMAIN t.rows : t.rows[s] = "pending"
    /\ InOrder(t, ScopesOf(t.lease))
    /\ GlobalKey \in DOMAIN t.rows /\ t.rows[GlobalKey] = "pending" => DOMAIN t.rows = {GlobalKey}

\* An open transition: the rows of its lease stay as it locked them.
Settling(t) ==
    /\ t.pc \in {"bucket", "commit"} /\ t.lease \in Leases
    /\ RowsOf(t.lease) # {} /\ t.window = window[t.lease]
    /\ DOMAIN t.rows \subseteq Movable(t.lease) /\ Charged(t)
    /\ \A s \in DOMAIN t.rows :
          /\ t.rows[s] = t.target
          /\ t.buckets[Bucket(t, s)] =
                [limit |-> limit[Bucket(t, s)], reserved |-> reserved[Bucket(t, s)] - 1,
                 committed |-> IF t.target = "committed" THEN committed[Bucket(t, s)] + 1
                               ELSE committed[Bucket(t, s)]]
    /\ t.pc = "commit" => DOMAIN t.rows = Movable(t.lease)
    /\ t.pc = "bucket" => DOMAIN t.rows # Movable(t.lease)
    /\ InOrder(t, Movable(t.lease))

ReserveOK(p) == Open(p) /\ tx[p].target = "reserved" => Reserving(tx[p])
SettleOK(p) == Open(p) /\ tx[p].target # "reserved" => Settling(tx[p])

\* What two open sessions cannot both have: a bucket row, the ledger rows of a lease,
\* or a new row of the same key.
Apart(p, q) ==
    Open(p) /\ Open(q) =>
        /\ DOMAIN tx[p].buckets \cap DOMAIN tx[q].buckets = {}
        /\ tx[p].lease = tx[q].lease =>
              /\ tx[p].target = "reserved" \/ tx[q].target = "reserved"
              /\ tx[p].target = "reserved" /\ tx[q].target = "reserved" =>
                    \A s \in DOMAIN tx[p].rows \cap DOMAIN tx[q].rows :
                        tx[p].rows[s] # "reserved" \/ tx[q].rows[s] # "reserved"

\* A ledger row references a bucket that exists.
RowHasBucket ==
    \A l \in Leases, s \in Scopes : status[l][s] # "none" => present[<<l[2], s, window[l]>>]

Sessions ==
    /\ tx \in [Procs -> Session]
    /\ \A p \in Procs : ReserveOK(p) /\ SettleOK(p)
    /\ \A p, q \in Procs : p # q => Apart(p, q)

TxInv == IInv /\ RowHasBucket /\ Sessions
-----------------------------------------------------------------------------
LEMMA WithIs ==
    ASSUME NEW f, NEW x, NEW y
    PROVE  /\ DOMAIN With(f, x, y) = DOMAIN f \cup {x} /\ With(f, x, y)[x] = y
           /\ \A z \in DOMAIN f : z # x => With(f, x, y)[z] = f[z]
BY DEF With

LEMMA WithRows ==
    ASSUME NEW f \in Rows, NEW s \in Scopes, NEW y \in {"pending", "reserved", "committed", "released"}
    PROVE  With(f, s, y) \in Rows
<1>1. PICK S \in SUBSET Scopes : f \in [S -> {"pending", "reserved", "committed", "released"}]
  BY DEF Rows
<1>2. With(f, s, y) \in [S \cup {s} -> {"pending", "reserved", "committed", "released"}]
  BY <1>1 DEF With
<1>3. S \cup {s} \in SUBSET Scopes
  OBVIOUS
<1> QED
  BY <1>2, <1>3 DEF Rows

LEMMA ChangedRows ==
    ASSUME NEW f \in Rows, NEW s \in DOMAIN f, NEW y \in {"pending", "reserved", "committed", "released"}
    PROVE  [f EXCEPT ![s] = y] \in Rows
BY DEF Rows

LEMMA WithWrites ==
    ASSUME NEW f \in Writes, NEW b \in Buckets, NEW y \in [limit : Int, reserved : Int, committed : Int]
    PROVE  With(f, b, y) \in Writes
<1>1. PICK S \in SUBSET Buckets : f \in [S -> [limit : Int, reserved : Int, committed : Int]]
  BY DEF Writes
<1>2. With(f, b, y) \in [S \cup {b} -> [limit : Int, reserved : Int, committed : Int]]
  BY <1>1 DEF With
<1>3. S \cup {b} \in SUBSET Buckets
  OBVIOUS
<1> QED
  BY <1>2, <1>3 DEF Writes

\* A session that has not begun has written nothing.
LEMMA IdleIs ==
    /\ Idle \in Session /\ Idle.pc = "idle" /\ Idle.target = "reserved"
    /\ DOMAIN Idle.rows = {} /\ DOMAIN Idle.buckets = {}
<1>1. DOMAIN << >> = {} /\ \A X : << >> \in [{} -> X]
  OBVIOUS
<1>2. {} \in SUBSET Scopes /\ {} \in SUBSET Buckets
  OBVIOUS
<1>3. << >> \in Rows
  BY <1>1, <1>2 DEF Rows
<1>4. << >> \in Writes
  BY <1>1, <1>2 DEF Writes
<1>5. << >> \in Policies
  BY <1>1, <1>2 DEF Policies
<1> QED
  BY <1>1, <1>3, <1>4, <1>5 DEF Idle, Session

LEMMA StepIs ==
    ASSUME tx \in [Procs -> Session], NEW p \in Procs, NEW t \in Session, Step(p, t)
    PROVE  /\ tx' \in [Procs -> Session] /\ tx'[p] = t
           /\ \A q \in Procs : q # p => tx'[q] = tx[q]
BY DEF Step

\* The buckets of a session are locked for the others.
LEMMA LockedIs ==
    ASSUME NEW p \in Procs, NEW b, b \notin LockedBuckets(p)
    PROVE  \A q \in Procs : q # p /\ Open(q) => b \notin DOMAIN tx[q].buckets
BY DEF LockedBuckets

\* Scopes of one session have different buckets.
LEMMA BucketIs ==
    ASSUME NEW t \in Session, t.lease \in Leases, t.window \in Windows
    PROVE  /\ \A s \in Scopes : Bucket(t, s) \in Buckets
           /\ \A s \in Scopes : Bucket(t, s)[1] = t.lease[2] /\ Bucket(t, s)[2] = s /\ Bucket(t, s)[3] = t.window
           /\ \A r, s \in Scopes : Bucket(t, r) = Bucket(t, s) => r = s
BY KeyParts DEF Bucket

\* What is left to do is what has no row yet.
LEMMA RemainingIs ==
    ASSUME NEW t \in Session, t.lease \in Leases, t.window \in Windows, Charged(t), DOMAIN t.rows \subseteq Scopes
    PROVE  Remaining(t) = (IF t.target = "reserved" THEN ScopesOf(t.lease) ELSE Movable(t.lease)) \ DOMAIN t.rows
<1>1. \A s \in Scopes : Bucket(t, s) \in DOMAIN t.buckets <=> s \in DOMAIN t.rows
  BY BucketIs DEF Charged
<1>2. (IF t.target = "reserved" THEN ScopesOf(t.lease) ELSE Movable(t.lease)) \subseteq Scopes
  BY KeyParts DEF Movable
<1> QED
  BY <1>1, <1>2 DEF Remaining

LEMMA FirstScopeIs == \A t : FirstScope(t) \subseteq Remaining(t)
BY DEF FirstScope

\* The global scope comes before the other.
LEMMA GlobalFirst ==
    ASSUME NEW t, GlobalKey \in Remaining(t)
    PROVE  \A s \in FirstScope(t) : s = GlobalKey
BY DEF FirstScope

\* A lease has at most one scope besides the global one.
LEMMA ScopesAre ==
    ASSUME NEW l \in Leases
    PROVE  /\ ScopesOf(l) # {} /\ Owner(l) # GlobalKey
           /\ \A s \in ScopesOf(l) : s = GlobalKey \/ s = Owner(l)
BY QuotaConstants DEF Leases, ScopesOf, Owner
-----------------------------------------------------------------------------
(* A step of one session leaves the others as they are.                     *)

\* The database as session q knows it.
Untouched(q) ==
    LET t == tx[q]
    IN  /\ tx'[q] = t
        /\ Open(q) =>
              /\ account'[Owner(t.lease)] = account[Owner(t.lease)]
              /\ \A b \in DOMAIN t.buckets :
                    limit'[b] = limit[b] /\ reserved'[b] = reserved[b] /\ committed'[b] = committed[b]
              /\ \A s \in DOMAIN t.rows : t.rows[s] = "reserved" =>
                    (status[t.lease][s] = "none" => status'[t.lease][s] = "none")
              /\ t.target # "reserved" =>
                    /\ \A s \in Scopes : status'[t.lease][s] = status[t.lease][s]
                    /\ window'[t.lease] = window[t.lease]

LEMMA UntouchedKeeps ==
    ASSUME Sessions, NEW q \in Procs, Untouched(q)
    PROVE  ReserveOK(q)' /\ SettleOK(q)'
<1> DEFINE t == tx[q]
<1>0. tx'[q] = t /\ Open(q)' = Open(q) /\ t \in Session
  BY DEF Untouched, Open, Sessions
<1>1. CASE ~Open(q)
  BY <1>0, <1>1 DEF ReserveOK, Reserving, SettleOK, Settling
<1>2. CASE Open(q) /\ t.target = "reserved"
  <2>1. ReserveOK(q)
    BY DEF Sessions
  <2>2. /\ t.lease \in Leases /\ t.window \in Windows /\ DOMAIN t.rows \subseteq ScopesOf(t.lease) /\ Charged(t)
        /\ account[Owner(t.lease)] = "active"
    BY <1>2, <2>1 DEF ReserveOK, Reserving
  <2>3. account'[Owner(t.lease)] = "active"
    BY <1>2, <2>2 DEF Untouched
  <2>4. ASSUME NEW s \in DOMAIN t.rows
        PROVE  LET b == Bucket(t, s)
               IN  limit'[b] = limit[b] /\ reserved'[b] = reserved[b] /\ committed'[b] = committed[b]
    BY <1>2, <2>2, <2>4 DEF Charged, Untouched
  <2>5. ASSUME NEW s \in DOMAIN t.rows
        PROVE  /\ t.rows[s] \in {"pending", "reserved"}
               /\ t.rows[s] = "reserved" => status'[t.lease][s] = "none"
               /\ Fits(Bucket(t, s), t.policy[s])'
               /\ t.buckets[Bucket(t, s)] =
                     [limit |-> ReconciledLimit(t.policy[s], Bucket(t, s))',
                      reserved |-> reserved'[Bucket(t, s)] + 1, committed |-> committed'[Bucket(t, s)]]
    <3>1. /\ t.rows[s] \in {"pending", "reserved"}
          /\ t.rows[s] = "reserved" => status[t.lease][s] = "none"
          /\ Fits(Bucket(t, s), t.policy[s])
          /\ t.buckets[Bucket(t, s)] =
                [limit |-> ReconciledLimit(t.policy[s], Bucket(t, s)),
                 reserved |-> reserved[Bucket(t, s)] + 1, committed |-> committed[Bucket(t, s)]]
      BY <1>2, <2>1 DEF ReserveOK, Reserving
    <3>2. Bucket(t, s)' = Bucket(t, s)
      BY <1>0 DEF Bucket
    <3>3. /\ ReconciledLimit(t.policy[s], Bucket(t, s))' = ReconciledLimit(t.policy[s], Bucket(t, s))
          /\ Fits(Bucket(t, s), t.policy[s])'
      BY <1>0, <2>4, <3>1, <3>2 DEF ReconciledLimit, Fits
    <3> QED
      BY <1>2, <3>1, <3>3, <2>4 DEF Untouched
  <2>6. Charged(t)'
    BY <1>0, <2>2 DEF Charged, Bucket
  <2> QED
    BY <1>0, <1>2, <2>1, <2>2, <2>3, <2>5, <2>6 DEF ReserveOK, Reserving, SettleOK, Settling, Bucket
<1>3. CASE Open(q) /\ t.target # "reserved"
  <2>1. SettleOK(q)
    BY DEF Sessions
  <2>2. /\ \A s \in Scopes : status'[t.lease][s] = status[t.lease][s]
        /\ window'[t.lease] = window[t.lease]
    BY <1>3 DEF Untouched
  <2>3. RowsOf(t.lease)' = RowsOf(t.lease) /\ Movable(t.lease)' = Movable(t.lease)
    BY <1>0, <2>2 DEF RowsOf, Movable
  <2>4. Charged(t) /\ Charged(t)'
    BY <1>0, <1>3, <2>1 DEF SettleOK, Settling, Charged, Bucket
  <2>5. ASSUME NEW s \in DOMAIN t.rows
        PROVE  LET b == Bucket(t, s)
               IN  limit'[b] = limit[b] /\ reserved'[b] = reserved[b] /\ committed'[b] = committed[b]
    BY <1>3, <2>4 DEF Charged, Untouched
  <2> QED
    BY <1>0, <1>3, <2>1, <2>2, <2>3, <2>4, <2>5 DEF SettleOK, Settling, ReserveOK, Reserving, Bucket
<1> QED
  BY <1>1, <1>2, <1>3

\* Nothing is written to the database: only the session itself has to be looked at.
\* What a session knows is about rigid values and the database.
LEMMA SessionIs ==
    ASSUME NEW p \in Procs, NEW n, tx'[p] = n, UNCHANGED vars
    PROVE  /\ n.target # "reserved" \/ Reserving(n) => ReserveOK(p)'
           /\ n.target = "reserved" \/ Settling(n) => SettleOK(p)'
BY DEF ReserveOK, SettleOK, Reserving, Settling, Charged, Bucket, Fits, ReconciledLimit, Movable, RowsOf, vars

LEMMA LocalStep ==
    ASSUME TxInv, NEW p \in Procs, NEW t \in Session, Step(p, t), UNCHANGED vars,
           ReserveOK(p)', SettleOK(p)', \A q \in Procs : q # p => Apart(p, q)' /\ Apart(q, p)'
    PROVE  TxInv' /\ [Next]_vars
<1>1. tx' \in [Procs -> Session] /\ \A q \in Procs : q # p => tx'[q] = tx[q]
  BY StepIs DEF TxInv, Sessions
<1>2. \A q \in Procs : q # p => Untouched(q)
  BY <1>1 DEF Untouched, vars
<1>3. \A q \in Procs : ReserveOK(q)' /\ SettleOK(q)'
  BY <1>2, UntouchedKeeps DEF TxInv
<1>4. \A q, r \in Procs : q # r /\ q # p /\ r # p => Apart(q, r)'
  BY <1>1 DEF TxInv, Sessions, Apart, Open
<1>5. \A q, r \in Procs : q # r => Apart(q, r)'
  BY <1>4
<1>6. RowHasBucket'
  BY DEF TxInv, RowHasBucket, vars
<1>7. IInv'
  BY NextIInv DEF TxInv
<1> QED
  BY <1>1, <1>3, <1>5, <1>6, <1>7 DEF TxInv, Sessions

\* A transaction that ends, or that waits for nothing, holds nothing.
LEMMA Closes ==
    ASSUME TxInv, NEW p \in Procs, NEW t \in Session, t.pc \in {"idle", "winner"}, Step(p, t), UNCHANGED vars
    PROVE  TxInv' /\ [Next]_vars
<1>1. tx'[p] = t
  BY StepIs DEF TxInv, Sessions
<1>2. ~Open(p)'
  BY <1>1 DEF Open
<1>3. ReserveOK(p)' /\ SettleOK(p)' /\ \A q \in Procs : Apart(p, q)' /\ Apart(q, p)'
  BY <1>2 DEF ReserveOK, Reserving, SettleOK, Settling, Apart
<1> QED
  BY <1>3, LocalStep
-----------------------------------------------------------------------------
(* Statements that write nothing yet.                                      *)

LEMMA BeginReserveStep ==
    ASSUME TxInv, NEW p \in Procs, NEW l \in Leases, NEW w \in Windows, NEW policy \in [ScopesOf(l) -> Limits],
           BeginReserve(p, l, w, policy)
    PROVE  TxInv' /\ [Next]_vars
<1> DEFINE t == [Idle EXCEPT !.pc = "read", !.lease = l, !.window = w, !.policy = policy]
<1>1. policy \in Policies
  BY KeyParts DEF Policies
<1>2. /\ t \in Session /\ t.pc = "read" /\ t.lease = l /\ t.window = w /\ t.policy = policy
      /\ t.target = "reserved" /\ DOMAIN t.rows = {} /\ DOMAIN t.buckets = {}
  BY <1>1, IdleIs DEF Session
<1>3. Step(p, t) /\ UNCHANGED vars /\ account[Owner(l)] = "active"
  BY DEF BeginReserve, CanReserve
<1>4. tx'[p] = t /\ \A q \in Procs : q # p => tx'[q] = tx[q]
  BY <1>2, <1>3, StepIs DEF TxInv, Sessions
<1> HIDE DEF t
<1>5. ReserveOK(p)' /\ SettleOK(p)'
  BY <1>2, <1>3, <1>4 DEF ReserveOK, Reserving, SettleOK, Settling, Charged, InOrder, vars
<1>6. \A q \in Procs : q # p => Apart(p, q)' /\ Apart(q, p)'
  BY <1>2, <1>4 DEF Apart
<1> QED
  BY <1>2, <1>3, <1>5, <1>6, LocalStep

LEMMA ReadRowsStep ==
    ASSUME TxInv, NEW p \in Procs, ReadRows(p)
    PROVE  TxInv' /\ [Next]_vars
<1>1. CASE EndTx(p)
  BY <1>1, IdleIs, Closes DEF ReadRows, EndTx
<1>2. CASE Step(p, [tx[p] EXCEPT !.pc = "bucket"])
  <2> DEFINE t == [tx[p] EXCEPT !.pc = "bucket"]
  <2>1. tx[p] \in Session /\ tx[p].pc = "read" /\ tx[p].target = "reserved" /\ UNCHANGED vars
    BY DEF ReadRows, TxInv, Sessions
  <2>2. /\ t \in Session /\ t.pc = "bucket" /\ t.lease = tx[p].lease /\ t.window = tx[p].window
        /\ t.policy = tx[p].policy /\ t.target = tx[p].target /\ t.rows = tx[p].rows
        /\ t.buckets = tx[p].buckets
    BY <2>1 DEF Session
  <2>3. tx'[p] = t /\ \A q \in Procs : q # p => tx'[q] = tx[q]
    BY <1>2, <2>2, StepIs DEF TxInv, Sessions
  <2>4. ReserveOK(p) /\ Open(p) /\ DOMAIN tx[p].rows = {}
    BY <2>1 DEF TxInv, Sessions, ReserveOK, Reserving, Open
  <2>5. DOMAIN tx[p].buckets = {}
    BY <2>1, <2>4 DEF ReserveOK, Reserving, Charged
  <2> HIDE DEF t
  <2>6. ReserveOK(p)' /\ SettleOK(p)'
    <3>1. Reserving(tx[p])
      BY <2>1, <2>4 DEF ReserveOK
    <3>2. t.lease \in Leases /\ ScopesOf(t.lease) # {}
      BY <2>2, <3>1, ScopesAre DEF Reserving
    <3>3. Reserving(t)
      BY <2>1, <2>2, <2>4, <2>5, <3>1, <3>2 DEF Reserving, Charged, InOrder
    <3> QED
      BY <2>1, <2>2, <2>3, <3>3, SessionIs
  <2>7. \A q \in Procs : q # p => Apart(p, q)' /\ Apart(q, p)'
    BY <2>2, <2>3, <2>4, <2>5, <2>1 DEF Apart
  <2> QED
    BY <1>2, <2>1, <2>2, <2>6, <2>7, LocalStep DEF t
<1> QED
  BY <1>1, <1>2 DEF ReadRows

\* What is written to the row of a bucket has counters.
LEMMA WriteIs ==
    ASSUME IInv, NEW b \in Buckets
    PROVE  /\ \A n \in Limits : ReconciledLimit(n, b) \in Int
           /\ limit[b] \in Nat /\ reserved[b] \in Nat /\ committed[b] \in Nat
BY DEF IInv, TypeOK, ReconciledLimit, Limits

LEMMA ChargeBucketStep ==
    ASSUME TxInv, NEW p \in Procs, ChargeBucket(p)
    PROVE  TxInv' /\ [Next]_vars
<1> DEFINE t == tx[p]
<1>0. t \in Session /\ t.pc = "bucket" /\ t.target = "reserved" /\ UNCHANGED vars /\ Open(p) /\ ReserveOK(p)
  BY DEF ChargeBucket, TxInv, Sessions, Open
<1>1. CASE EndTx(p)
  BY <1>0, <1>1, IdleIs, Closes DEF EndTx
<1>2. CASE ~EndTx(p)
  <2>1. PICK s \in FirstScope(t) :
           /\ Bucket(t, s) \notin LockedBuckets(p) /\ Fits(Bucket(t, s), t.policy[s])
           /\ Step(p, [t EXCEPT
                    !.pc = "insert",
                    !.buckets = With(@, Bucket(t, s), [limit |-> ReconciledLimit(t.policy[s], Bucket(t, s)),
                                                       reserved |-> reserved[Bucket(t, s)] + 1,
                                                       committed |-> committed[Bucket(t, s)]]),
                    !.rows = With(@, s, "pending")])
    BY <1>2 DEF ChargeBucket
  <2> DEFINE b == Bucket(t, s)
             y == [limit |-> ReconciledLimit(t.policy[s], b), reserved |-> reserved[b] + 1,
                   committed |-> committed[b]]
             n == [t EXCEPT !.pc = "insert", !.buckets = With(t.buckets, b, y),
                            !.rows = With(t.rows, s, "pending")]
  <2>2. /\ t.lease \in Leases /\ t.window \in Windows /\ t.policy \in [ScopesOf(t.lease) -> Limits]
        /\ DOMAIN t.rows \subseteq ScopesOf(t.lease) /\ Charged(t) /\ account[Owner(t.lease)] = "active"
        /\ \A r \in DOMAIN t.rows : t.rows[r] = "reserved"
    BY <1>0 DEF ReserveOK, Reserving
  <2>3. DOMAIN t.rows \subseteq Scopes
    BY <2>2, KeyParts
  <2>4. s \in ScopesOf(t.lease) /\ s \notin DOMAIN t.rows /\ s \in Scopes
    BY <1>0, <2>1, <2>2, <2>3, FirstScopeIs, RemainingIs, KeyParts
  <2>5. b \in Buckets /\ b \notin DOMAIN t.buckets
    BY <1>0, <2>2, <2>3, <2>4, BucketIs DEF Charged
  <2>6. y \in [limit : Int, reserved : Int, committed : Int]
    BY <2>2, <2>4, <2>5, WriteIs DEF TxInv
  <2>7. With(t.buckets, b, y) \in Writes /\ With(t.rows, s, "pending") \in Rows
    BY <1>0, <2>4, <2>5, <2>6, WithWrites, WithRows DEF Session
  <2>8. /\ n \in Session /\ n.pc = "insert" /\ n.lease = t.lease /\ n.window = t.window
        /\ n.policy = t.policy /\ n.target = "reserved" /\ n.rows = With(t.rows, s, "pending")
        /\ n.buckets = With(t.buckets, b, y)
    BY <1>0, <2>7 DEF Session
  <2>9. Step(p, n)
    BY <2>1
  <2>10. tx'[p] = n /\ \A q \in Procs : q # p => tx'[q] = tx[q]
    BY <2>8, <2>9, StepIs DEF TxInv, Sessions
  <2> HIDE DEF n, y
  <2>11. /\ DOMAIN n.rows = DOMAIN t.rows \cup {s} /\ n.rows[s] = "pending"
         /\ \A r \in DOMAIN t.rows : n.rows[r] = "reserved"
         /\ DOMAIN n.buckets = DOMAIN t.buckets \cup {b} /\ n.buckets[b] = y
         /\ \A c \in DOMAIN t.buckets : n.buckets[c] = t.buckets[c]
    <3>1. /\ DOMAIN With(t.rows, s, "pending") = DOMAIN t.rows \cup {s} /\ With(t.rows, s, "pending")[s] = "pending"
          /\ \A z \in DOMAIN t.rows : z # s => With(t.rows, s, "pending")[z] = t.rows[z]
      BY DEF With
    <3>2. /\ DOMAIN With(t.buckets, b, y) = DOMAIN t.buckets \cup {b} /\ With(t.buckets, b, y)[b] = y
          /\ \A z \in DOMAIN t.buckets : z # b => With(t.buckets, b, y)[z] = t.buckets[z]
      BY DEF With
    <3> QED
      BY <2>2, <2>4, <2>5, <2>8, <3>1, <3>2
  <2>12. \A r \in Scopes : Bucket(n, r) = Bucket(t, r)
    BY <2>8 DEF Bucket
  <2>13. Charged(n)
    <3>1. {Bucket(n, r) : r \in DOMAIN n.rows} = {Bucket(t, r) : r \in DOMAIN t.rows} \cup {b}
      BY <2>3, <2>4, <2>11, <2>12
    <3> QED
      BY <2>2, <2>11, <3>1 DEF Charged
  <2>14. \A q \in Procs : q # p /\ Open(q) => b \notin DOMAIN tx[q].buckets
    BY <2>1, LockedIs
  <2>15. ASSUME NEW r \in DOMAIN n.rows
         PROVE  /\ n.rows[r] \in {"pending", "reserved"}
                /\ n.rows[r] = "reserved" => status[n.lease][r] = "none"
                /\ Fits(Bucket(n, r), n.policy[r])
                /\ n.buckets[Bucket(n, r)] =
                     [limit |-> ReconciledLimit(n.policy[r], Bucket(n, r)),
                      reserved |-> reserved[Bucket(n, r)] + 1, committed |-> committed[Bucket(n, r)]]
    <3>1. CASE r = s
      BY <2>1, <2>4, <2>8, <2>11, <2>12, <3>1 DEF y
    <3>2. CASE r \in DOMAIN t.rows
      <4>1. Bucket(n, r) = Bucket(t, r) /\ Bucket(t, r) \in DOMAIN t.buckets
        BY <2>2, <2>3, <2>12, <3>2 DEF Charged
      <4> QED
        BY <1>0, <2>8, <2>11, <3>2, <4>1 DEF ReserveOK, Reserving
    <3> QED
      BY <2>11, <3>1, <3>2
  <2>16. ReserveOK(p)' /\ SettleOK(p)'
    <3>1. \A r, r2 \in DOMAIN n.rows : n.rows[r] = "pending" /\ n.rows[r2] = "pending" => r = r2
      BY <2>11
    <3>2. DOMAIN n.rows \subseteq ScopesOf(n.lease)
      BY <2>2, <2>4, <2>8, <2>11
    <3>4. InOrder(t, ScopesOf(t.lease)) /\ Remaining(t) = ScopesOf(t.lease) \ DOMAIN t.rows
      BY <1>0, <2>2, <2>3, RemainingIs DEF ReserveOK, Reserving
    <3>5. GlobalKey \in ScopesOf(t.lease) /\ GlobalKey \notin DOMAIN t.rows => s = GlobalKey
      BY <2>1, <3>4, GlobalFirst
    <3>6. InOrder(n, ScopesOf(n.lease))
      BY <2>8, <2>11, <3>4, <3>5 DEF InOrder
    <3>7. GlobalKey \in DOMAIN n.rows /\ n.rows[GlobalKey] = "pending" => DOMAIN n.rows = {GlobalKey}
      <4> SUFFICES ASSUME GlobalKey \in DOMAIN n.rows, n.rows[GlobalKey] = "pending"
                   PROVE  DOMAIN n.rows = {GlobalKey}
        OBVIOUS
      <4>1. s = GlobalKey
        BY <2>11
      <4> QED
        BY <2>4, <2>11, <3>4, <4>1 DEF InOrder
    <3>8. \E r \in DOMAIN n.rows : n.rows[r] = "pending"
      BY <2>11
    <3>3. Reserving(n)
      BY <2>2, <2>8, <2>13, <2>15, <3>1, <3>2, <3>6, <3>7, <3>8 DEF Reserving
    <3> QED
      BY <1>0, <2>8, <2>10, <3>3, SessionIs
  <2>17. \A q \in Procs : q # p => Apart(p, q)' /\ Apart(q, p)'
    <3> SUFFICES ASSUME NEW q \in Procs, q # p
                 PROVE  Apart(p, q)' /\ Apart(q, p)'
      OBVIOUS
    <3>1. Apart(p, q) /\ Apart(q, p) /\ Open(q)' = Open(q) /\ tx'[q] = tx[q]
      BY <2>10 DEF TxInv, Sessions, Open
    <3>2. Open(q) => DOMAIN n.buckets \cap DOMAIN tx[q].buckets = {}
      BY <1>0, <2>11, <2>14, <3>1 DEF Apart
    <3>3. \A r \in DOMAIN n.rows : n.rows[r] = "reserved" => r \in DOMAIN t.rows /\ t.rows[r] = "reserved"
      BY <2>2, <2>11
    <3> QED
      BY <1>0, <2>8, <2>10, <3>1, <3>2, <3>3 DEF Apart
  <2> QED
    BY <1>0, <2>8, <2>9, <2>16, <2>17, LocalStep
<1> QED
  BY <1>1, <1>2

LEMMA InsertRowStep ==
    ASSUME TxInv, NEW p \in Procs, InsertRow(p)
    PROVE  TxInv' /\ [Next]_vars
<1> DEFINE t == tx[p]
<1>0. t \in Session /\ t.pc = "insert" /\ UNCHANGED vars /\ Open(p)
  BY DEF InsertRow, TxInv, Sessions, Open
<1>1. PICK s \in DOMAIN t.rows :
         /\ t.rows[s] = "pending" /\ ~ClaimedElsewhere(p, s)
         /\ IF Duplicate(t.lease, s)
            THEN Step(p, [Idle EXCEPT !.pc = "winner", !.lease = t.lease])
            ELSE Step(p, [t EXCEPT !.rows[s] = "reserved",
                                   !.pc = IF Remaining(t) = {} THEN "commit" ELSE "bucket"])
  BY DEF InsertRow
<1>2. CASE Duplicate(t.lease, s)
  <2>1. [Idle EXCEPT !.pc = "winner", !.lease = t.lease] \in Session
    BY <1>0, IdleIs DEF Session
  <2>2. [Idle EXCEPT !.pc = "winner", !.lease = t.lease].pc = "winner"
    BY IdleIs DEF Session
  <2> QED
    BY <1>0, <1>1, <1>2, <2>1, <2>2, Closes
<1>3. CASE ~Duplicate(t.lease, s)
  <2>1. t.target = "reserved"
    BY <1>0, <1>1 DEF TxInv, Sessions, SettleOK, Settling
  <2>2. Reserving(t)
    BY <1>0, <2>1 DEF TxInv, Sessions, ReserveOK
  <2>3. /\ t.lease \in Leases /\ t.window \in Windows
        /\ DOMAIN t.rows \subseteq ScopesOf(t.lease) /\ Charged(t) /\ s \in ScopesOf(t.lease)
        /\ DOMAIN t.rows \subseteq Scopes /\ status[t.lease][s] = "none"
    BY <1>1, <1>3, <2>2, KeyParts DEF Reserving, Duplicate
  <2> DEFINE m == [t.rows EXCEPT ![s] = "reserved"]
             n == [t EXCEPT !.rows = m, !.pc = IF Remaining(t) = {} THEN "commit" ELSE "bucket"]
  <2>4. m \in Rows
    BY <1>0, ChangedRows DEF Session
  <2>5. /\ n \in Session /\ n.pc = (IF Remaining(t) = {} THEN "commit" ELSE "bucket") /\ n.lease = t.lease
        /\ n.window = t.window /\ n.policy = t.policy /\ n.target = "reserved" /\ n.rows = m
        /\ n.buckets = t.buckets
    BY <1>0, <2>1, <2>4 DEF Session
  <2>6. Step(p, n)
    BY <1>1, <1>3
  <2>7. tx'[p] = n /\ \A q \in Procs : q # p => tx'[q] = tx[q]
    BY <2>5, <2>6, StepIs DEF TxInv, Sessions
  <2>8. /\ DOMAIN m = DOMAIN t.rows /\ m[s] = "reserved" /\ \A r \in DOMAIN t.rows : r # s => m[r] = t.rows[r]
    BY <1>0 DEF Session, Rows
  <2> HIDE DEF n, m
  <2>9. Remaining(t) = ScopesOf(t.lease) \ DOMAIN t.rows
    BY <1>0, <2>1, <2>3, RemainingIs
  <2>10. \A r \in DOMAIN n.rows : n.rows[r] = "reserved"
    <3>1. /\ \A r \in DOMAIN t.rows : t.rows[r] \in {"pending", "reserved"}
          /\ \A r \in DOMAIN t.rows : t.rows[r] = "pending" => r = s
      BY <1>0, <1>1, <2>2 DEF Reserving
    <3> QED
      BY <2>5, <2>8, <3>1
  <2>11. Charged(n) /\ \A r \in DOMAIN n.rows : Bucket(n, r) = Bucket(t, r)
    BY <2>3, <2>5, <2>8 DEF Charged, Bucket
  <2>12. \A r \in DOMAIN n.rows : status[n.lease][r] = "none"
    <3>1. \A r \in DOMAIN t.rows : t.rows[r] = "reserved" => status[t.lease][r] = "none"
      BY <2>2 DEF Reserving
    <3>2. \A r \in DOMAIN t.rows : r # s => t.rows[r] = "reserved"
      BY <1>0, <1>1, <2>2 DEF Reserving
    <3> QED
      BY <2>3, <2>5, <2>8, <3>1, <3>2
  <2>13. Reserving(n)
    <3>1. n.pc = "commit" => DOMAIN n.rows = ScopesOf(n.lease)
      BY <2>3, <2>5, <2>8, <2>9
    <3>2. \A r \in DOMAIN n.rows :
             /\ Fits(Bucket(n, r), n.policy[r])
             /\ n.buckets[Bucket(n, r)] =
                   [limit |-> ReconciledLimit(n.policy[r], Bucket(n, r)),
                    reserved |-> reserved[Bucket(n, r)] + 1, committed |-> committed[Bucket(n, r)]]
      BY <2>2, <2>5, <2>8, <2>11 DEF Reserving
    <3>3. n.pc \in {"commit", "bucket"} /\ DOMAIN n.rows \subseteq ScopesOf(n.lease)
      BY <2>3, <2>5, <2>8
    <3>4. n.policy \in [ScopesOf(n.lease) -> Limits] /\ account[Owner(n.lease)] = "active"
      BY <2>2, <2>5 DEF Reserving
    <3>5. n.pc = "bucket" => DOMAIN n.rows # ScopesOf(n.lease)
      BY <2>3, <2>5, <2>8, <2>9
    <3>6. InOrder(n, ScopesOf(n.lease))
      BY <2>2, <2>5, <2>8 DEF InOrder, Reserving
    <3> QED
      BY <2>3, <2>5, <2>10, <2>11, <2>12, <3>1, <3>2, <3>3, <3>4, <3>5, <3>6 DEF Reserving
  <2>14. ReserveOK(p)' /\ SettleOK(p)'
    BY <1>0, <2>5, <2>7, <2>13, SessionIs
  <2>15. ASSUME NEW q \in Procs, q # p
         PROVE  Apart(p, q)' /\ Apart(q, p)'
    <3>1. Apart(p, q) /\ Apart(q, p) /\ Open(q)' = Open(q) /\ tx'[q] = tx[q]
      BY <2>7, <2>15 DEF TxInv, Sessions, Open
    <3>2. Open(q) /\ tx[q].target = "reserved" /\ tx[q].lease = t.lease /\ s \in DOMAIN tx[q].rows
             => tx[q].rows[s] # "reserved"
      BY <1>1, <2>15 DEF ClaimedElsewhere
    <3> QED
      BY <1>0, <2>1, <2>5, <2>7, <2>8, <3>1, <3>2 DEF Apart
  <2> QED
    BY <1>0, <2>5, <2>6, <2>14, <2>15, LocalStep
<1> QED
  BY <1>2, <1>3

LEMMA EndStep ==
    ASSUME TxInv, NEW p \in Procs, ReadWinner(p) \/ Abort(p)
    PROVE  TxInv' /\ [Next]_vars
BY IdleIs, Closes DEF ReadWinner, Abort, EndTx

LEMMA BeginTransitionStep ==
    ASSUME TxInv, NEW p \in Procs, NEW l \in Leases, NEW target \in {"committed", "released"},
           BeginTransition(p, l, target)
    PROVE  TxInv' /\ [Next]_vars
<1> DEFINE t == [Idle EXCEPT !.pc = IF Movable(l) = {} THEN "commit" ELSE "bucket",
                             !.lease = l, !.target = target, !.window = window[l]]
<1>1. window[l] \in Windows \cup {NoWindow}
  BY DEF TxInv, IInv, TypeOK
<1>2. /\ t \in Session /\ t.pc = (IF Movable(l) = {} THEN "commit" ELSE "bucket") /\ t.lease = l
      /\ t.window = window[l] /\ t.target = target /\ DOMAIN t.rows = {} /\ DOMAIN t.buckets = {}
  BY <1>1, IdleIs DEF Session
<1>3. /\ Step(p, t) /\ UNCHANGED vars /\ RowsOf(l) # {}
      /\ \A q \in Procs : ~(Open(q) /\ tx[q].target # "reserved" /\ tx[q].lease = l)
  BY DEF BeginTransition
<1>4. tx'[p] = t /\ \A q \in Procs : q # p => tx'[q] = tx[q]
  BY <1>2, <1>3, StepIs DEF TxInv, Sessions
<1> HIDE DEF t
<1>5. Charged(t)
  BY <1>2 DEF Charged
<1>6. Settling(t)
  BY <1>2, <1>3, <1>5 DEF Settling, InOrder
<1>7. ReserveOK(p)' /\ SettleOK(p)'
  BY <1>2, <1>3, <1>4, <1>6, SessionIs
<1>8. ASSUME NEW q \in Procs, q # p
      PROVE  Apart(p, q)' /\ Apart(q, p)'
  <2>1. Open(q)' = Open(q) /\ tx'[q] = tx[q]
    BY <1>4, <1>8 DEF Open
  <2> QED
    BY <1>2, <1>3, <1>4, <2>1 DEF Apart
<1> QED
  BY <1>2, <1>3, <1>7, <1>8, LocalStep

\* The rows a transition moves are in buckets that exist.
LEMMA MovableIs ==
    ASSUME IInv, NEW l \in Leases
    PROVE  /\ \A s \in Movable(l) : s \in Scopes /\ s \in ScopesOf(l) /\ window[l] \in Windows
           /\ RowsOf(l) # {} => window[l] \in Windows
BY DEF IInv, RowsWellFormed, Movable, RowsOf

LEMMA MoveRowStep ==
    ASSUME TxInv, NEW p \in Procs, MoveRow(p)
    PROVE  TxInv' /\ [Next]_vars
<1> DEFINE t == tx[p]
<1>0. t \in Session /\ t.pc = "bucket" /\ t.target # "reserved" /\ UNCHANGED vars /\ Open(p) /\ Settling(t)
  BY DEF MoveRow, TxInv, Sessions, Open, SettleOK
<1>1. PICK s \in FirstScope(t) :
         /\ Bucket(t, s) \notin LockedBuckets(p)
         /\ Step(p, [t EXCEPT
              !.pc = IF Remaining(t) = {s} THEN "commit" ELSE "bucket",
              !.buckets = With(@, Bucket(t, s),
                               [limit |-> limit[Bucket(t, s)], reserved |-> reserved[Bucket(t, s)] - 1,
                                committed |-> IF t.target = "committed" THEN committed[Bucket(t, s)] + 1
                                              ELSE committed[Bucket(t, s)]]),
              !.rows = With(@, s, t.target)])
  BY DEF MoveRow
<1> DEFINE b == Bucket(t, s)
           y == [limit |-> limit[b], reserved |-> reserved[b] - 1,
                 committed |-> IF t.target = "committed" THEN committed[b] + 1 ELSE committed[b]]
           n == [t EXCEPT !.pc = IF Remaining(t) = {s} THEN "commit" ELSE "bucket",
                          !.buckets = With(t.buckets, b, y), !.rows = With(t.rows, s, t.target)]
<1>2. /\ t.lease \in Leases /\ t.window \in Windows /\ t.window = window[t.lease] /\ Charged(t)
      /\ DOMAIN t.rows \subseteq Movable(t.lease) /\ Movable(t.lease) \subseteq Scopes
      /\ \A r \in DOMAIN t.rows : t.rows[r] = t.target
  BY <1>0, MovableIs DEF Settling, TxInv, Movable
<1>3. DOMAIN t.rows \subseteq Scopes
  BY <1>2
<1>4. Remaining(t) = Movable(t.lease) \ DOMAIN t.rows
  BY <1>0, <1>2, <1>3, RemainingIs
<1>5. s \in Movable(t.lease) /\ s \notin DOMAIN t.rows /\ s \in Scopes
  BY <1>1, <1>2, <1>4, FirstScopeIs
<1>6. b \in Buckets /\ b \notin DOMAIN t.buckets
  BY <1>0, <1>2, <1>3, <1>5, BucketIs DEF Charged
<1>7. y \in [limit : Int, reserved : Int, committed : Int]
  BY <1>6, WriteIs DEF TxInv
<1>8. t.target \in {"committed", "released"}
  BY <1>0 DEF Session
<1>9. With(t.buckets, b, y) \in Writes /\ With(t.rows, s, t.target) \in Rows
  BY <1>0, <1>5, <1>6, <1>7, <1>8, WithWrites, WithRows DEF Session
<1>10. /\ n \in Session /\ n.pc = (IF Remaining(t) = {s} THEN "commit" ELSE "bucket") /\ n.lease = t.lease
       /\ n.window = t.window /\ n.target = t.target /\ n.rows = With(t.rows, s, t.target)
       /\ n.buckets = With(t.buckets, b, y)
  BY <1>0, <1>9 DEF Session
<1>11. Step(p, n)
  BY <1>1
<1>12. tx'[p] = n /\ \A q \in Procs : q # p => tx'[q] = tx[q]
  BY <1>10, <1>11, StepIs DEF TxInv, Sessions
<1> HIDE DEF n, y
<1>13. /\ DOMAIN n.rows = DOMAIN t.rows \cup {s} /\ \A r \in DOMAIN n.rows : n.rows[r] = t.target
       /\ DOMAIN n.buckets = DOMAIN t.buckets \cup {b} /\ n.buckets[b] = y
       /\ \A c \in DOMAIN t.buckets : n.buckets[c] = t.buckets[c]
  <2>1. /\ DOMAIN With(t.rows, s, t.target) = DOMAIN t.rows \cup {s} /\ With(t.rows, s, t.target)[s] = t.target
        /\ \A z \in DOMAIN t.rows : z # s => With(t.rows, s, t.target)[z] = t.rows[z]
    BY DEF With
  <2>2. /\ DOMAIN With(t.buckets, b, y) = DOMAIN t.buckets \cup {b} /\ With(t.buckets, b, y)[b] = y
        /\ \A z \in DOMAIN t.buckets : z # b => With(t.buckets, b, y)[z] = t.buckets[z]
    BY DEF With
  <2> QED
    BY <1>2, <1>5, <1>6, <1>10, <2>1, <2>2
<1>14. \A r \in Scopes : Bucket(n, r) = Bucket(t, r)
  BY <1>10 DEF Bucket
<1>15. Charged(n)
  <2>1. {Bucket(n, r) : r \in DOMAIN n.rows} = {Bucket(t, r) : r \in DOMAIN t.rows} \cup {b}
    BY <1>3, <1>5, <1>13, <1>14
  <2> QED
    BY <1>2, <1>13, <2>1 DEF Charged
<1>16. ASSUME NEW r \in DOMAIN n.rows
       PROVE  n.buckets[Bucket(n, r)] =
                 [limit |-> limit[Bucket(n, r)], reserved |-> reserved[Bucket(n, r)] - 1,
                  committed |-> IF n.target = "committed" THEN committed[Bucket(n, r)] + 1
                                ELSE committed[Bucket(n, r)]]
  <2>1. CASE r = s
    BY <1>5, <1>10, <1>13, <1>14, <2>1 DEF y
  <2>2. CASE r \in DOMAIN t.rows
    <3>1. Bucket(n, r) = Bucket(t, r) /\ Bucket(t, r) \in DOMAIN t.buckets
      BY <1>2, <1>3, <1>14, <2>2 DEF Charged
    <3> QED
      BY <1>0, <1>10, <1>13, <2>2, <3>1 DEF Settling
  <2> QED
    BY <1>13, <2>1, <2>2
<1>17. Settling(n)
  <2>1. n.pc = "commit" => DOMAIN n.rows = Movable(n.lease)
    BY <1>2, <1>4, <1>5, <1>10, <1>13
  <2>2. RowsOf(n.lease) # {} /\ n.pc \in {"bucket", "commit"} /\ DOMAIN n.rows \subseteq Movable(n.lease)
    BY <1>0, <1>2, <1>5, <1>10, <1>13 DEF Settling
  <2>3. InOrder(n, Movable(n.lease))
    <3>1. InOrder(t, Movable(t.lease))
      BY <1>0 DEF Settling
    <3>2. GlobalKey \in Movable(t.lease) /\ GlobalKey \notin DOMAIN t.rows => s = GlobalKey
      BY <1>1, <1>4, GlobalFirst
    <3> QED
      BY <1>10, <1>13, <3>1, <3>2 DEF InOrder
  <2>4. n.pc = "bucket" => DOMAIN n.rows # Movable(n.lease)
    BY <1>1, <1>4, <1>5, <1>10, <1>13, FirstScopeIs
  <2> QED
    BY <1>2, <1>10, <1>13, <1>15, <1>16, <2>1, <2>2, <2>3, <2>4 DEF Settling
<1>18. ReserveOK(p)' /\ SettleOK(p)'
  BY <1>0, <1>10, <1>12, <1>17, SessionIs
<1>19. \A q \in Procs : q # p /\ Open(q) => b \notin DOMAIN tx[q].buckets
  BY <1>1, LockedIs
<1>20. ASSUME NEW q \in Procs, q # p
       PROVE  Apart(p, q)' /\ Apart(q, p)'
  <2>1. Apart(p, q) /\ Apart(q, p) /\ Open(q)' = Open(q) /\ tx'[q] = tx[q]
    BY <1>12, <1>20 DEF TxInv, Sessions, Open
  <2>2. Open(q) => DOMAIN n.buckets \cap DOMAIN tx[q].buckets = {}
    BY <1>0, <1>13, <1>19, <1>20, <2>1 DEF Apart
  <2> QED
    BY <1>0, <1>10, <1>12, <2>1, <2>2 DEF Apart
<1> QED
  BY <1>0, <1>10, <1>11, <1>18, <1>20, LocalStep
-----------------------------------------------------------------------------
(* COMMIT and the account transactions change the database.                *)

\* A commit of a reserve is the whole reserve.
LEMMA CommitIsReserve ==
    ASSUME TxInv, NEW p \in Procs, CommitTx(p), tx[p].target = "reserved"
    PROVE  /\ tx[p].lease \in Leases /\ tx[p].window \in Windows /\ tx[p].policy \in [ScopesOf(tx[p].lease) -> Limits]
           /\ Reserve(tx[p].lease, tx[p].window, tx[p].policy)
           /\ DOMAIN tx[p].rows = ScopesOf(tx[p].lease)
           /\ \A s \in ScopesOf(tx[p].lease) : tx[p].rows[s] = "reserved"
<1> DEFINE t == tx[p]
           charged == {<<t.lease[2], s, t.window>> : s \in ScopesOf(t.lease)}
<1>0. t \in Session /\ t.pc = "commit" /\ Open(p) /\ Reserving(t)
  BY DEF CommitTx, TxInv, Sessions, Open, ReserveOK
<1>1. /\ t.lease \in Leases /\ t.window \in Windows /\ t.policy \in [ScopesOf(t.lease) -> Limits]
      /\ account[Owner(t.lease)] = "active" /\ DOMAIN t.rows = ScopesOf(t.lease) /\ Charged(t)
      /\ \A s \in ScopesOf(t.lease) : t.rows[s] = "reserved" /\ status[t.lease][s] = "none"
  BY <1>0 DEF Reserving
<1>2. DOMAIN t.buckets = charged
  BY <1>1 DEF Charged, Bucket
<1>3. RowsOf(t.lease) = {}
  BY <1>1 DEF RowsOf, TxInv, IInv, RowsWellFormed
<1>4. \A s \in ScopesOf(t.lease) : Fits(<<t.lease[2], s, t.window>>, t.policy[s])
  BY <1>0, <1>1 DEF Reserving, Bucket
<1>5. \A b \in charged : t.buckets[b] = [limit |-> ReconciledLimit(t.policy[b[2]], b),
                                         reserved |-> reserved[b] + 1, committed |-> committed[b]]
  <2> SUFFICES ASSUME NEW s \in ScopesOf(t.lease)
               PROVE  LET b == <<t.lease[2], s, t.window>>
                      IN  t.buckets[b] = [limit |-> ReconciledLimit(t.policy[b[2]], b),
                                          reserved |-> reserved[b] + 1, committed |-> committed[b]]
    OBVIOUS
  <2> QED
    BY <1>0, <1>1 DEF Reserving, Bucket
<1>6. /\ status' = [status EXCEPT ![t.lease] =
                       [s \in Scopes |-> IF s \in DOMAIN t.rows THEN t.rows[s] ELSE @[s]]]
      /\ window' = [window EXCEPT ![t.lease] = t.window]
      /\ present' = [b \in Buckets |-> present[b] \/ b \in charged]
      /\ limit' = [b \in Buckets |-> IF b \in charged THEN t.buckets[b].limit ELSE limit[b]]
      /\ reserved' = [b \in Buckets |-> IF b \in charged THEN t.buckets[b].reserved ELSE reserved[b]]
      /\ committed' = [b \in Buckets |-> IF b \in charged THEN t.buckets[b].committed ELSE committed[b]]
      /\ UNCHANGED <<account, forgotten>>
  BY <1>2 DEF CommitTx
<1> HIDE DEF charged
<1>7. status' = [status EXCEPT ![t.lease] =
                    [s \in Scopes |-> IF s \in ScopesOf(t.lease) THEN "reserved" ELSE "none"]]
  <2>1. \A s \in Scopes : s \notin ScopesOf(t.lease) => status[t.lease][s] = "none"
    BY <1>3 DEF RowsOf
  <2> QED
    BY <1>1, <1>6, <2>1 DEF TxInv, IInv, TypeOK
<1>10. \A b \in charged : /\ t.buckets[b].limit = ReconciledLimit(t.policy[b[2]], b)
                          /\ t.buckets[b].reserved = reserved[b] + 1 /\ t.buckets[b].committed = committed[b]
  <2> TAKE b \in charged
  <2>1. t.buckets[b] = [limit |-> ReconciledLimit(t.policy[b[2]], b),
                        reserved |-> reserved[b] + 1, committed |-> committed[b]]
    BY <1>5
  <2> QED
    BY <2>1
<1>8. /\ limit' = [b \in Buckets |-> IF b \in charged THEN ReconciledLimit(t.policy[b[2]], b) ELSE limit[b]]
      /\ reserved' = [b \in Buckets |-> IF b \in charged THEN reserved[b] + 1 ELSE reserved[b]]
  BY <1>6, <1>10
<1>9. committed' = committed
  BY <1>6, <1>10 DEF TxInv, IInv, TypeOK
<1> QED
  BY <1>1, <1>3, <1>4, <1>6, <1>7, <1>8, <1>9 DEF Reserve, CanReserve, charged

\* A commit of a transition is the whole transition.
LEMMA CommitIsTransition ==
    ASSUME TxInv, NEW p \in Procs, CommitTx(p), tx[p].target # "reserved"
    PROVE  /\ tx[p].lease \in Leases /\ tx[p].target \in {"committed", "released"}
           /\ Transition(tx[p].lease, tx[p].target)
<1> DEFINE t == tx[p]
           hit == {<<t.lease[2], s, window[t.lease]>> : s \in Movable(t.lease)}
<1>0. t \in Session /\ t.pc = "commit" /\ Open(p) /\ Settling(t)
  BY DEF CommitTx, TxInv, Sessions, Open, SettleOK
<1>1. /\ t.lease \in Leases /\ RowsOf(t.lease) # {} /\ t.window = window[t.lease]
      /\ DOMAIN t.rows = Movable(t.lease) /\ Charged(t) /\ \A s \in Movable(t.lease) : t.rows[s] = t.target
  BY <1>0 DEF Settling
<1>2. t.target \in {"committed", "released"}
  BY <1>0 DEF Session
<1>3. DOMAIN t.buckets = hit
  BY <1>1 DEF Charged, Bucket
<1>4. \A b \in hit : t.buckets[b] = [limit |-> limit[b], reserved |-> reserved[b] - 1,
                                     committed |-> IF t.target = "committed" THEN committed[b] + 1 ELSE committed[b]]
  <2> SUFFICES ASSUME NEW s \in Movable(t.lease)
               PROVE  LET b == <<t.lease[2], s, window[t.lease]>>
                      IN  t.buckets[b] = [limit |-> limit[b], reserved |-> reserved[b] - 1,
                                          committed |-> IF t.target = "committed" THEN committed[b] + 1
                                                        ELSE committed[b]]
    OBVIOUS
  <2> QED
    BY <1>0, <1>1 DEF Settling, Bucket
<1>5. \A b \in hit : present[b] = TRUE
  <2>1. \A s \in Movable(t.lease) : s \in Scopes /\ status[t.lease][s] # "none"
    BY DEF Movable
  <2>2. \A s \in Movable(t.lease) : <<t.lease[2], s, window[t.lease]>> \in Buckets
                                    /\ present[<<t.lease[2], s, window[t.lease]>>]
    BY <1>1, <2>1, MovableIs, KeyParts DEF TxInv, RowHasBucket
  <2> QED
    BY <2>2 DEF TxInv, IInv, TypeOK
<1>6. /\ status' = [status EXCEPT ![t.lease] =
                       [s \in Scopes |-> IF s \in DOMAIN t.rows THEN t.rows[s] ELSE @[s]]]
      /\ window' = [window EXCEPT ![t.lease] = t.window]
      /\ present' = [b \in Buckets |-> present[b] \/ b \in hit]
      /\ limit' = [b \in Buckets |-> IF b \in hit THEN t.buckets[b].limit ELSE limit[b]]
      /\ reserved' = [b \in Buckets |-> IF b \in hit THEN t.buckets[b].reserved ELSE reserved[b]]
      /\ committed' = [b \in Buckets |-> IF b \in hit THEN t.buckets[b].committed ELSE committed[b]]
      /\ UNCHANGED <<account, forgotten>>
  BY <1>3 DEF CommitTx
<1> HIDE DEF hit
<1>7. status' = [status EXCEPT ![t.lease] =
                    [s \in Scopes |-> IF s \in Movable(t.lease) THEN t.target ELSE status[t.lease][s]]]
  BY <1>1, <1>6
<1>10. \A b \in hit : /\ t.buckets[b].limit = limit[b] /\ t.buckets[b].reserved = reserved[b] - 1
                      /\ t.buckets[b].committed = IF t.target = "committed" THEN committed[b] + 1 ELSE committed[b]
  <2> TAKE b \in hit
  <2>1. t.buckets[b] = [limit |-> limit[b], reserved |-> reserved[b] - 1,
                        committed |-> IF t.target = "committed" THEN committed[b] + 1 ELSE committed[b]]
    BY <1>4
  <2> QED
    BY <2>1
<1>8. window' = window /\ present' = present /\ limit' = limit
  BY <1>1, <1>5, <1>6, <1>10 DEF TxInv, IInv, TypeOK
<1>9. /\ reserved' = [b \in Buckets |-> IF b \in hit THEN reserved[b] - 1 ELSE reserved[b]]
      /\ committed' = [b \in Buckets |-> IF b \in hit /\ t.target = "committed" THEN committed[b] + 1 ELSE committed[b]]
  BY <1>6, <1>10
<1> QED
  BY <1>1, <1>2, <1>6, <1>7, <1>8, <1>9 DEF Transition, hit

\* The buckets a session has not written stay as they are when it commits.
LEMMA OtherBuckets ==
    ASSUME TxInv, NEW p \in Procs, CommitTx(p)
    PROVE  /\ \A b \in Buckets : b \notin DOMAIN tx[p].buckets =>
                  limit'[b] = limit[b] /\ reserved'[b] = reserved[b] /\ committed'[b] = committed[b]
           /\ \A l \in Leases : l # tx[p].lease => status'[l] = status[l] /\ window'[l] = window[l]
           /\ UNCHANGED account /\ EndTx(p)
BY DEF CommitTx, TxInv, IInv, TypeOK

LEMMA BucketsOf ==
    ASSUME Sessions, NEW q \in Procs
    PROVE  DOMAIN tx[q].buckets \subseteq Buckets
<1>1. tx[q].buckets \in Writes
  BY DEF Sessions, Session
<1> QED
  BY <1>1 DEF Writes

LEMMA CommitTxStep ==
    ASSUME TxInv, NEW p \in Procs, CommitTx(p)
    PROVE  TxInv' /\ [Next]_vars
<1> DEFINE t == tx[p]
<1>0. t \in Session /\ Open(p) /\ ReserveOK(p) /\ SettleOK(p)
  BY DEF CommitTx, Open, TxInv, Sessions
<1>1. /\ tx' \in [Procs -> Session] /\ tx'[p] = Idle /\ \A q \in Procs : q # p => tx'[q] = tx[q]
      /\ ~Open(p)'
  BY OtherBuckets, IdleIs, StepIs DEF EndTx, TxInv, Sessions, Open
<1>2. ASSUME NEW q \in Procs, q # p, Open(q)
      PROVE  /\ account'[Owner(tx[q].lease)] = account[Owner(tx[q].lease)]
             /\ \A b \in DOMAIN tx[q].buckets :
                   limit'[b] = limit[b] /\ reserved'[b] = reserved[b] /\ committed'[b] = committed[b]
  <2>1. Apart(q, p)
    BY <1>2 DEF TxInv, Sessions
  <2> QED
    BY <1>0, <1>2, <2>1, OtherBuckets, BucketsOf DEF Apart, TxInv
<1>3. ASSUME t.target = "reserved"
      PROVE  Next /\ RowHasBucket' /\ \A q \in Procs : q # p => Untouched(q)
  <2>1. /\ t.lease \in Leases /\ t.window \in Windows /\ t.policy \in [ScopesOf(t.lease) -> Limits]
        /\ Reserve(t.lease, t.window, t.policy) /\ DOMAIN t.rows = ScopesOf(t.lease)
        /\ \A s \in ScopesOf(t.lease) : t.rows[s] = "reserved"
    BY <1>3, CommitIsReserve
  <2>2. Next
    BY <2>1 DEF Next
  <2>3. ASSUME NEW q \in Procs, q # p
        PROVE  Untouched(q)
    <3>1. CASE Open(q) /\ tx[q].target = "reserved"
      <4>1. Reserving(tx[q]) /\ Apart(p, q)
        BY <2>3, <3>1 DEF TxInv, Sessions, ReserveOK
      <4>2. ASSUME NEW s \in DOMAIN tx[q].rows, tx[q].rows[s] = "reserved", status[tx[q].lease][s] = "none"
            PROVE  status'[tx[q].lease][s] = "none"
        <5>1. tx[q].lease # t.lease
          BY <1>0, <1>3, <2>1, <3>1, <4>1, <4>2 DEF Apart, Reserving
        <5> QED
          BY <4>1, <4>2, <5>1, OtherBuckets DEF Reserving
      <4> QED
        BY <1>1, <1>2, <2>3, <3>1, <4>2 DEF Untouched
    <3>2. CASE Open(q) /\ tx[q].target # "reserved"
      <4>1. Settling(tx[q])
        BY <2>3, <3>2 DEF TxInv, Sessions, SettleOK
      <4>2. tx[q].lease # t.lease /\ tx[q].lease \in Leases
        BY <2>1, <4>1 DEF Settling, Reserve
      <4> QED
        BY <1>1, <1>2, <2>3, <3>2, <4>2, OtherBuckets DEF Untouched
    <3>3. CASE ~Open(q)
      BY <1>1, <2>3, <3>3 DEF Untouched
    <3> QED
      BY <3>1, <3>2, <3>3
  <2>4. RowHasBucket'
    <3> SUFFICES ASSUME NEW l \in Leases, NEW s \in Scopes, status'[l][s] # "none"
                 PROVE  present'[<<l[2], s, window'[l]>>]
      BY DEF RowHasBucket
    <3>1. CASE l = t.lease
      <4>1. s \in ScopesOf(t.lease) /\ window'[l] = t.window
        BY <2>1, <3>1 DEF Reserve, TxInv, IInv, TypeOK
      <4> QED
        BY <2>1, <3>1, <4>1, KeyParts DEF Reserve
    <3>2. CASE l # t.lease
      <4>1. status'[l] = status[l] /\ window'[l] = window[l] /\ present[<<l[2], s, window[l]>>]
        BY <3>2, OtherBuckets DEF TxInv, RowHasBucket
      <4>2. <<l[2], s, window[l]>> \in Buckets
        BY <4>1, KeyParts DEF TxInv, IInv, RowsWellFormed
      <4> QED
        BY <2>1, <4>1, <4>2 DEF Reserve
    <3> QED
      BY <3>1, <3>2
  <2> QED
    BY <2>2, <2>3, <2>4
<1>4. ASSUME t.target # "reserved"
      PROVE  Next /\ RowHasBucket' /\ \A q \in Procs : q # p => Untouched(q)
  <2>1. t.lease \in Leases /\ t.target \in {"committed", "released"} /\ Transition(t.lease, t.target)
    BY <1>4, CommitIsTransition
  <2>2. Next
    BY <2>1 DEF Next, Commit, Release
  <2>5. \A l \in Leases, s \in Scopes : /\ status[l][s] = "none" <=> status'[l][s] = "none"
                                        /\ window'[l] = window[l]
    BY <2>1 DEF Transition, Movable, TxInv, IInv, TypeOK
  <2>3. ASSUME NEW q \in Procs, q # p
        PROVE  Untouched(q)
    <3>1. CASE Open(q) /\ tx[q].target = "reserved"
      <4>1. Reserving(tx[q])
        BY <2>3, <3>1 DEF TxInv, Sessions, ReserveOK
      <4>2. tx[q].lease \in Leases /\ DOMAIN tx[q].rows \subseteq Scopes
        BY <4>1, KeyParts DEF Reserving
      <4> QED
        BY <1>1, <1>2, <2>3, <2>5, <3>1, <4>2 DEF Untouched
    <3>2. CASE Open(q) /\ tx[q].target # "reserved"
      <4>1. Settling(tx[q]) /\ Apart(p, q)
        BY <2>3, <3>2 DEF TxInv, Sessions, SettleOK
      <4>2. tx[q].lease # t.lease /\ tx[q].lease \in Leases
        BY <1>0, <1>4, <3>2, <4>1 DEF Settling, Apart
      <4> QED
        BY <1>1, <1>2, <2>3, <3>2, <4>2, OtherBuckets DEF Untouched
    <3>3. CASE ~Open(q)
      BY <1>1, <2>3, <3>3 DEF Untouched
    <3> QED
      BY <3>1, <3>2, <3>3
  <2>4. RowHasBucket'
    BY <2>1, <2>5 DEF Transition, TxInv, RowHasBucket
  <2> QED
    BY <2>2, <2>3, <2>4
<1>5. Next /\ RowHasBucket' /\ \A q \in Procs : q # p => Untouched(q)
  BY <1>3, <1>4
<1>6. \A q \in Procs : ReserveOK(q)' /\ SettleOK(q)'
  BY <1>1, <1>5, UntouchedKeeps DEF TxInv, ReserveOK, SettleOK
<1>7. \A q, r \in Procs : q # r => Apart(q, r)'
  BY <1>1 DEF TxInv, Sessions, Apart, Open
<1> QED
  BY <1>1, <1>5, <1>6, <1>7, NextIInv DEF TxInv, Sessions

\* The account transactions find every lock they need free.
LEMMA DeletionIsNext ==
    ASSUME TxInv, NEW u \in Users, DeletionStep(u)
    PROVE  TxInv' /\ [Next]_vars
<1>1. Next /\ tx' = tx
  BY DEF DeletionStep, Next
<1>2. ASSUME NEW q \in Procs, Open(q)
      PROVE  tx[q].lease \in Leases /\ Owner(tx[q].lease) # u
  BY <1>2 DEF DeletionStep, ActorLocked, TxInv, Sessions, ReserveOK, SettleOK, Reserving, Settling
<1>3. \A l \in Leases : Owner(l) \in Users /\ (Owner(l) # u => \A s \in Scopes : status[l][s] # "none" => s # u)
  BY KeyParts DEF Owner, ScopesOf, TxInv, IInv, RowsWellFormed
<1>4. \A l \in Leases : Owner(l) # u => /\ account'[Owner(l)] = account[Owner(l)]
                                        /\ \A s \in Scopes : status'[l][s] = status[l][s]
                                        /\ window'[l] = window[l]
  BY <1>3 DEF DeletionStep, PrepareUserDeletion, DeleteUser, CleanupDeletedUser, TxInv, IInv, TypeOK
<1>5. ASSUME NEW q \in Procs, Open(q), NEW b \in DOMAIN tx[q].buckets
      PROVE  limit'[b] = limit[b] /\ reserved'[b] = reserved[b] /\ committed'[b] = committed[b]
  <2>1. b \in Buckets /\ ~Removed(u, b) /\ HeldBy(u, b, "reserved") = {}
    BY <1>5, BucketsOf DEF DeletionStep, TxInv
  <2>2. Cardinality(HeldBy(u, b, "reserved")) = 0 /\ reserved[b] \in Nat
    BY <2>1, CardEmpty DEF TxInv, IInv, TypeOK
  <2> QED
    BY <2>1, <2>2 DEF DeletionStep, PrepareUserDeletion, DeleteUser, CleanupDeletedUser
<1>6. \A q \in Procs : Untouched(q)
  <2> SUFFICES ASSUME NEW q \in Procs
               PROVE  Untouched(q)
    OBVIOUS
  <2>1. Open(q) => DOMAIN tx[q].rows \subseteq Scopes
    BY KeyParts DEF TxInv, Sessions, ReserveOK, SettleOK, Reserving, Settling, Movable
  <2> QED
    BY <1>1, <1>2, <1>4, <1>5, <2>1 DEF Untouched
<1>7. RowHasBucket'
  <2> SUFFICES ASSUME NEW l \in Leases, NEW s \in Scopes, status'[l][s] # "none"
               PROVE  present'[<<l[2], s, window'[l]>>]
    BY DEF RowHasBucket
  <2>1. status[l][s] # "none" /\ window'[l] = window[l] /\ s # u
    BY <1>3, <1>4, KeyParts
       DEF DeletionStep, PrepareUserDeletion, DeleteUser, CleanupDeletedUser, TxInv, IInv, TypeOK, DeletionLeavesNothingHeld, UserScopeGone
  <2>2. <<l[2], s, window[l]>> \in Buckets /\ present[<<l[2], s, window[l]>>]
    BY <2>1, KeyParts DEF TxInv, IInv, RowsWellFormed, RowHasBucket
  <2> QED
    BY <2>1, <2>2 DEF DeletionStep, PrepareUserDeletion, DeleteUser, CleanupDeletedUser, Removed
<1>8. \A q \in Procs : ReserveOK(q)' /\ SettleOK(q)'
  BY <1>6, UntouchedKeeps DEF TxInv
<1>9. \A q, r \in Procs : q # r => Apart(q, r)'
  BY <1>1 DEF TxInv, Sessions, Apart, Open
<1> QED
  BY <1>1, <1>7, <1>8, <1>9, NextIInv DEF TxInv, Sessions
-----------------------------------------------------------------------------
LEMMA TxInit == Init_ => TxInv
<1> SUFFICES ASSUME Init_
             PROVE  TxInv
  OBVIOUS
<1>1. IInv /\ tx \in [Procs -> Session]
  BY InitIInv, IdleIs DEF Init_
<1>2. \A p \in Procs : ~Open(p)
  BY IdleIs DEF Init_, Open
<1>3. RowHasBucket
  BY DEF Init_, Init, RowHasBucket
<1> QED
  BY <1>1, <1>2, <1>3 DEF TxInv, Sessions, ReserveOK, SettleOK, Apart

LEMMA TxStep == TxInv /\ [TxNext]_txVars => TxInv' /\ [Next]_vars
<1> SUFFICES ASSUME TxInv, [TxNext]_txVars
             PROVE  TxInv' /\ [Next]_vars
  OBVIOUS
<1>1. CASE UNCHANGED txVars
  <2>1. UNCHANGED vars /\ tx' = tx
    BY <1>1 DEF txVars
  <2>2. \A q \in Procs : Untouched(q)
    BY <2>1 DEF Untouched, vars
  <2>3. \A q \in Procs : ReserveOK(q)' /\ SettleOK(q)'
    BY <2>2, UntouchedKeeps DEF TxInv
  <2>4. \A q, r \in Procs : q # r => Apart(q, r)'
    BY <2>1 DEF TxInv, Sessions, Apart, Open
  <2>5. RowHasBucket'
    BY <2>1 DEF TxInv, RowHasBucket, vars
  <2> QED
    BY <2>1, <2>3, <2>4, <2>5, NextIInv DEF TxInv, Sessions
<1>2. ASSUME NEW p \in Procs, BeginStep(p)
      PROVE  TxInv' /\ [Next]_vars
  BY <1>2, BeginReserveStep, BeginTransitionStep DEF BeginStep
<1>3. ASSUME NEW p \in Procs, SessionStep(p)
      PROVE  TxInv' /\ [Next]_vars
  BY <1>3, ReadRowsStep, ChargeBucketStep, InsertRowStep, EndStep, MoveRowStep, CommitTxStep DEF SessionStep
<1>4. ASSUME NEW p \in Procs, Abort(p)
      PROVE  TxInv' /\ [Next]_vars
  BY <1>4, EndStep
<1>5. ASSUME NEW u \in Users, DeletionStep(u)
      PROVE  TxInv' /\ [Next]_vars
  BY <1>5, DeletionIsNext
<1> QED
  BY <1>1, <1>2, <1>3, <1>4, <1>5 DEF TxNext

\* What open transactions know of each other and of the database, in every reachable state.
THEOREM SessionsInductive == TxSpec => []TxInv
BY TxInit, TxStep, PTL DEF TxSpec

\* However the statements of reserve and settle interleave, with locks taken late,
\* reads of rows that were not locked and aborts in between, the committed database
\* only changes by whole operations of QuotaLedger.
THEOREM TxImplementsLedger == TxSpec => ImplementsLedger
<1>1. Init_ => Init
  BY DEF Init_
<1>2. TxSpec => Spec
  BY SessionsInductive, TxStep, <1>1, PTL DEF TxSpec, Spec
<1> QED
  BY <1>2 DEF ImplementsLedger

\* What callers of reserve and settle see of the interleaved statements is a Lease.
THEOREM TxImplementsLease == TxSpec => ImplementsLease
BY TxImplementsLedger, LedgerImplementsLease, PTL DEF ImplementsLedger

\* The buckets count the committed rows although a transaction writes them one by one.
THEOREM TxAccountingExact == TxSpec => []BucketMatchesLedger
BY TxImplementsLedger, AccountingExact, PTL DEF ImplementsLedger

\* No CHECK constraint of quota_bucket aborts a transaction that was granted its unit
\* while others were open.
THEOREM TxChecksHold == TxSpec => []BucketChecksHold
BY TxImplementsLedger, ChecksHold, PTL DEF ImplementsLedger

\* Account deletion strands no unit, whatever reserve was under way when it was asked for.
THEOREM TxDeletionStrandsNothing == TxSpec => []DeletionLeavesNothingHeld
BY TxImplementsLedger, DeletionStrandsNothing, PTL DEF ImplementsLedger

-----------------------------------------------------------------------------
(* No cycle of waits: from the last lock that a session can come to back to  *)
(* the first, whoever waits waits for a session that holds a later one.      *)

\* Session p waits at a bucket or at a row of the ledger.
LEMMA WaitsAt ==
    ASSUME TxInv, NEW p \in Procs, Open(p), Waits(p)
    PROVE  /\ tx[p] \in Session /\ tx[p].pc \in {"bucket", "insert"}
           /\ tx[p].target = "reserved" => Reserving(tx[p])
           /\ tx[p].target # "reserved" => Settling(tx[p]) /\ tx[p].pc = "bucket"
BY DEF TxInv, Sessions, Waits, ReserveOK, SettleOK, Settling

\* The scopes session p has to charge, in the order of their locks.
ScopesToCharge(p) == IF tx[p].target = "reserved" THEN ScopesOf(tx[p].lease) ELSE Movable(tx[p].lease)

LEMMA ChargesInOrder ==
    ASSUME TxInv, NEW p \in Procs, Open(p), Waits(p)
    PROVE  LET t == tx[p]
           IN  /\ t.lease \in Leases /\ t.window \in Windows /\ Charged(t)
               /\ DOMAIN t.rows \subseteq ScopesToCharge(p) /\ InOrder(t, ScopesToCharge(p))
               /\ \A s \in ScopesToCharge(p) : s \in Scopes /\ (s = GlobalKey \/ s = Owner(t.lease))
               /\ Owner(t.lease) # GlobalKey
               /\ t.pc = "bucket" => DOMAIN t.rows # ScopesToCharge(p)
               /\ Remaining(t) = ScopesToCharge(p) \ DOMAIN t.rows
<1> DEFINE t == tx[p]
<1>1. CASE t.target = "reserved"
  <2>1. Reserving(t) /\ t \in Session
    BY <1>1, WaitsAt
  <2>2. /\ t.lease \in Leases /\ t.window \in Windows /\ Charged(t)
        /\ DOMAIN t.rows \subseteq ScopesOf(t.lease) /\ InOrder(t, ScopesOf(t.lease))
        /\ t.pc = "bucket" => DOMAIN t.rows # ScopesOf(t.lease)
    BY <2>1 DEF Reserving
  <2>3. ScopesOf(t.lease) \subseteq Scopes
    BY <2>2, KeyParts
  <2>4. Remaining(t) = ScopesOf(t.lease) \ DOMAIN t.rows
    BY <1>1, <2>1, <2>2, <2>3, RemainingIs
  <2> QED
    BY <1>1, <2>2, <2>3, <2>4, ScopesAre DEF ScopesToCharge
<1>2. CASE t.target # "reserved"
  <2>1. Settling(t) /\ t \in Session /\ IInv
    BY <1>2, WaitsAt DEF TxInv
  <2>2. /\ t.lease \in Leases /\ Charged(t) /\ RowsOf(t.lease) # {} /\ t.window = window[t.lease]
        /\ DOMAIN t.rows \subseteq Movable(t.lease) /\ InOrder(t, Movable(t.lease))
        /\ t.pc = "bucket" => DOMAIN t.rows # Movable(t.lease)
    BY <2>1 DEF Settling
  <2>3. /\ \A s \in Movable(t.lease) : s \in Scopes /\ s \in ScopesOf(t.lease)
        /\ t.window \in Windows
    BY <2>1, <2>2, MovableIs
  <2>4. Remaining(t) = Movable(t.lease) \ DOMAIN t.rows
    BY <1>2, <2>1, <2>2, <2>3, RemainingIs
  <2> QED
    BY <1>2, <2>2, <2>3, <2>4, ScopesAre DEF ScopesToCharge
<1> QED
  BY <1>1, <1>2

\* A session that waits for a bucket waits for another that has charged its scope.
LEMMA BucketHeld ==
    ASSUME TxInv, NEW p \in Procs, Open(p), Waits(p), tx[p].pc = "bucket"
    PROVE  \E s \in FirstScope(tx[p]), q \in Procs :
              s \in Remaining(tx[p]) /\ Open(q) /\ Bucket(tx[p], s) \in DOMAIN tx[q].buckets
<1>1. Remaining(tx[p]) # {} /\ FirstScope(tx[p]) # {} /\ FirstScope(tx[p]) \subseteq Remaining(tx[p])
  BY ChargesInOrder DEF FirstScope
<1>2. \A s \in FirstScope(tx[p]) : Bucket(tx[p], s) \in LockedBuckets(p)
  BY DEF Waits
<1> QED
  BY <1>1, <1>2 DEF LockedBuckets

\* No session that waits has charged the scope of its user.
LEMMA NoneHoldsUser ==
    ASSUME TxInv, \A p \in Procs : Open(p) => Waits(p)
    PROVE  \A p \in Procs : Open(p) => DOMAIN tx[p].rows \subseteq {GlobalKey}
<1> SUFFICES ASSUME NEW p \in Procs, Open(p), NEW s \in DOMAIN tx[p].rows, s # GlobalKey
             PROVE  FALSE
  OBVIOUS
<1> DEFINE Full(q) == Open(q) /\ \E r \in DOMAIN tx[q].rows : r # GlobalKey
\* it has then charged every scope, and waits to insert the row of its user
<1>1. ASSUME NEW q \in Procs, Full(q)
      PROVE  /\ tx[q].pc = "insert" /\ Reserving(tx[q]) /\ tx[q].target = "reserved"
             /\ \A r \in DOMAIN tx[q].rows : tx[q].rows[r] = "pending" => r = Owner(tx[q].lease)
  <2>1. Waits(q) /\ Open(q)
    BY <1>1
  <2>2. DOMAIN tx[q].rows = ScopesToCharge(q)
    BY <1>1, <2>1, ChargesInOrder DEF InOrder
  <2>3. tx[q].pc = "insert" /\ tx[q].target = "reserved" /\ Reserving(tx[q])
    BY <2>1, <2>2, ChargesInOrder, WaitsAt
  <2>4. ASSUME NEW r \in DOMAIN tx[q].rows, tx[q].rows[r] = "pending"
        PROVE  r = Owner(tx[q].lease)
    BY <1>1, <2>1, <2>3, <2>4, ChargesInOrder DEF Reserving
  <2> QED
    BY <2>3, <2>4
<1>2. PICK r \in DOMAIN tx[p].rows : tx[p].rows[r] = "pending"
  BY <1>1 DEF Reserving
<1>3. Waits(p) /\ tx[p].pc = "insert" /\ r = Owner(tx[p].lease)
  BY <1>1, <1>2
<1>4. PICK q \in Procs \ {p} : /\ Open(q) /\ tx[q].target = "reserved" /\ tx[q].lease = tx[p].lease
                               /\ r \in DOMAIN tx[q].rows /\ tx[q].rows[r] = "reserved"
  BY <1>2, <1>3 DEF Waits, ClaimedElsewhere
<1>5. Owner(tx[p].lease) # GlobalKey
  BY <1>3, ChargesInOrder
<1>6. Full(q)
  BY <1>3, <1>4, <1>5
<1>7. PICK r2 \in DOMAIN tx[q].rows : tx[q].rows[r2] = "pending"
  BY <1>1, <1>6 DEF Reserving
<1>8. r2 = r
  BY <1>1, <1>3, <1>4, <1>6, <1>7
<1> QED
  BY <1>4, <1>7, <1>8

\* Nor has any charged the global scope.
LEMMA NoneHoldsGlobal ==
    ASSUME TxInv, \A p \in Procs : Open(p) => Waits(p)
    PROVE  \A p \in Procs : Open(p) => DOMAIN tx[p].rows = {}
\* with only the bucket of its user to come to, a session would wait for one that holds it
<1>1. ASSUME NEW p \in Procs, Open(p), tx[p].pc = "bucket", GlobalKey \in DOMAIN tx[p].rows
      PROVE  FALSE
  <2>1. PICK s \in FirstScope(tx[p]), q \in Procs :
           s \in Remaining(tx[p]) /\ Open(q) /\ Bucket(tx[p], s) \in DOMAIN tx[q].buckets
    BY <1>1, BucketHeld
  <2>2. s # GlobalKey
    BY <1>1, <2>1, ChargesInOrder
  <2>3. Charged(tx[q]) /\ DOMAIN tx[q].rows \subseteq {GlobalKey}
    BY <2>1, ChargesInOrder, NoneHoldsUser
  <2> QED
    BY <2>1, <2>2, <2>3 DEF Charged, Bucket
<1> SUFFICES ASSUME NEW p \in Procs, Open(p), GlobalKey \in DOMAIN tx[p].rows
             PROVE  FALSE
  BY NoneHoldsUser
<1>2. Waits(p) /\ tx[p].pc = "insert" /\ Reserving(tx[p])
  BY <1>1, WaitsAt
<1>3. tx[p].rows[GlobalKey] = "pending"
  BY <1>2, NoneHoldsUser DEF Reserving
<1>4. PICK q \in Procs \ {p} : /\ Open(q) /\ tx[q].target = "reserved"
                               /\ GlobalKey \in DOMAIN tx[q].rows /\ tx[q].rows[GlobalKey] = "reserved"
  BY <1>2, <1>3 DEF Waits, ClaimedElsewhere
<1>5. tx[q].pc = "insert" /\ Reserving(tx[q])
  BY <1>1, <1>4, WaitsAt
<1>6. PICK r \in DOMAIN tx[q].rows : tx[q].rows[r] = "pending"
  BY <1>5 DEF Reserving
<1>7. r = GlobalKey
  BY <1>4, NoneHoldsUser
<1> QED
  BY <1>4, <1>6, <1>7

LEMMA SomeoneGoesOn == TxInv => NoWaitCycle
<1> SUFFICES ASSUME TxInv, NEW p \in Procs, Open(p), \A q \in Procs : Open(q) => Waits(q)
             PROVE  FALSE
  BY DEF NoWaitCycle
<1>1. Waits(p) /\ DOMAIN tx[p].rows = {}
  BY NoneHoldsGlobal
<1>2. tx[p].pc = "bucket"
  BY <1>1, WaitsAt DEF Reserving
<1>3. PICK s \in FirstScope(tx[p]), q \in Procs : Open(q) /\ Bucket(tx[p], s) \in DOMAIN tx[q].buckets
  BY <1>1, <1>2, BucketHeld
<1>4. Charged(tx[q]) /\ DOMAIN tx[q].rows = {}
  BY <1>3, ChargesInOrder, NoneHoldsGlobal
<1> QED
  BY <1>3, <1>4 DEF Charged

\* NoWaitCycle (QuotaReserveTx): whatever sessions are open, and however their
\* reserves, settlements and aborts interleave, one of them does not wait: no deadlock
\* between them is left for PostgreSQL to break.
THEOREM TxNeverAllWait == TxSpec => []NoWaitCycle
BY SessionsInductive, SomeoneGoesOn, PTL
===============================================================================
