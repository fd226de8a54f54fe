------------------------- MODULE ArtifactStorageProofs -------------------------
(***************************************************************************)
(* Proofs about ArtifactStorage for any number of runs, formats and worker *)
(* slots: what is charged is what the file rows hold, a ready artifact can *)
(* be downloaded in every format, and no stored object is forgotten.       *)
(***************************************************************************)
EXTENDS ArtifactStorage, FiniteSetTheorems, TLAPS

Pcs == {"idle", "creating", "boundary", "reserve", "reserving", "put", "commit", "abort",
        "complete", "returned", "fail", "delete", "done", "dead"}
Uploading == {"reserve", "reserving", "put", "commit", "abort"}

Maker == [pc : Pcs, fmt : Formats \cup {None}, left : SUBSET Formats, doomed : SUBSET Keys,
          ready : BOOLEAN, broken : BOOLEAN]
Job == [status : {"none", "queued", "running", "succeeded", "failed"}, due : {"now", "late"},
        token : Workers \cup {None}]
Clean == [on : BOOLEAN, owns : BOOLEAN, snap : SUBSET Keys]
Hold == [task : {"none", "delete", "deleted", "failed"}, key : Keys \cup {None}]

\* TypeOK with the shape of the records spelled out, without the counters.
Shapes ==
    /\ account \in {"active", "deleting", "deleted"} /\ conv \in {"open", "gone"}
    /\ run \in [Artifacts -> {"running", "answered", "failed", "gone"}]
    /\ art \in [Artifacts -> {"none", "generating", "ready", "failed"}]
    /\ file \in [Keys -> {"none", "reserved", "committed"}]
    /\ old \in [Keys -> BOOLEAN] /\ object \in [Keys -> BOOLEAN]
    /\ job \in [Keys -> Job] /\ maker \in [Artifacts -> Maker]
    /\ cleaner \in [Artifacts -> Clean] /\ hold \in [Workers -> Hold]
Counters == used \in Nat /\ reserved \in Nat

\* The tool call is at one of these steps for the file k.
At(k, pcs) == maker[k[1]].pc \in pcs /\ maker[k[1]].fmt = k[2]

\* A file that the tool call has not come to yet.
Fresh(k) ==
    \/ maker[k[1]].pc \in {"idle", "creating"}
    \/ k[2] \in maker[k[1]].left
    \/ At(k, {"reserve", "reserving"})
Strayed(k) == \E x \in stray : x[1] = k

\* The deletion of the object of k that its job stands for has been done.
Deleted(k) ==
    \/ job[k].status = "succeeded"
    \/ \E w \in Workers : /\ hold[w].task = "deleted" /\ hold[w].key = k
                          /\ job[k].status = "running" /\ job[k].token = w

\* Every file is reserved at most once.
FreshIsNew(k) == Fresh(k) => file[k] = "none" /\ ~object[k] /\ job[k].status = "none" /\ ~Strayed(k)

\* An object that may be stored has a row, or a job that comes after it: the job of
\* a file being uploaded waits, or AbortFile queues it again.
Followed(k) ==
    /\ job[k].status = "none" => ~old[k]
    /\ account # "active" /\ file[k] # "none" => job[k].status # "none"
    /\ (object[k] \/ At(k, {"put"})) /\ file[k] = "none" /\ ~Strayed(k) => job[k].status # "none"
    /\ At(k, {"put"}) => ~object[k] /\ file[k] # "committed"
    /\ At(k, {"put"}) /\ file[k] = "reserved" =>
          \/ job[k].status = "none"
          \/ job[k].status = "queued" /\ job[k].due = "late" /\ ~old[k]
DeletedIsGone(k) ==
    Deleted(k) /\ object[k] =>
        \/ At(k, {"commit", "abort"}) /\ file[k] = "none"
        \/ maker[k[1]].broken \/ maker[k[1]].pc = "dead"

\* The files of an artifact that is being made, or is ready, have no deletion job.
Alive(k) ==
    account = "active" /\ art[k[1]] \in {"generating", "ready"} =>
        /\ job[k].status = "none"
        /\ file[k] = "committed" \/ At(k, {"commit"}) => object[k]
        /\ art[k[1]] = "ready" => file[k] = "committed"

KeyOK(k) == FreshIsNew(k) /\ Followed(k) /\ DeletedIsGone(k) /\ Alive(k)

\* A tool call, and the settlement of its run.
CallOK(a) ==
    /\ maker[a].pc \in Uploading => maker[a].fmt \in Formats /\ maker[a].fmt \notin maker[a].left
    /\ maker[a].doomed \subseteq KeysOf(a)
    /\ maker[a].ready => maker[a].pc = "done"
    /\ maker[a].pc = "delete" => art[a] \in {"none", "failed"}
RunOK(a) ==
    /\ cleaner[a].on => account = "active" /\ run[a] = "running"
    /\ run[a] = "answered" => maker[a].ready
    /\ (maker[a].ready \/ maker[a].pc = "returned") /\ run[a] \in {"running", "answered"}
          => art[a] \in {"ready", "none"}

\* Who holds the user row keeps the account open; a deleted account has no files.
Closed ==
    /\ account # "active" => Creating = {} /\ Reserving = {}
    /\ account = "deleted" => \A k \in Keys : file[k] = "none"

Holding == \A w \in Workers : hold[w].task # "none" => hold[w].key \in Keys /\ job[hold[w].key].status # "none"

Ledger ==
    /\ \A k \in Keys : Strayed(k) => file[k] = "none"
    /\ IsFiniteSet(stray) /\ stray \subseteq Keys \X {"reserved", "committed"}
    /\ IsFiniteSet(Rows(Artifacts))
    /\ AccountMatchesRows

Core ==
    /\ Shapes /\ Closed /\ Holding
    /\ \A a \in Artifacts : CallOK(a) /\ RunOK(a)
    /\ \A k \in Keys : KeyOK(k)

IInv == Core /\ Counters /\ Ledger
-----------------------------------------------------------------------------
\* Keys are pairs of an artifact and a format.
LEMMA KeyIs ==
    /\ \A k \in Keys : k[1] \in Artifacts /\ k[2] \in Formats /\ k = <<k[1], k[2]>>
    /\ \A a \in Artifacts : \A k : k \in KeysOf(a) <=> k \in Keys /\ k[1] = a
    /\ \A S, k : k \in Rows(S) <=> k \in Keys /\ k[1] \in S /\ file[k] # "none"
BY DEF Keys, KeysOf, Rows

LEMMA CurrentIs ==
    ASSUME NEW a \in Artifacts, maker[a].fmt \in Formats
    PROVE  /\ Current(a) \in Keys /\ Current(a)[1] = a /\ Current(a)[2] = maker[a].fmt
           /\ \A k \in Keys : k = Current(a) <=> k[1] = a /\ k[2] = maker[a].fmt
BY DEF Keys, Current

\* A call that moves on keeps what it knows.
LEMMA GotoIs ==
    ASSUME maker \in [Artifacts -> Maker], NEW a \in Artifacts, NEW p \in Pcs, Goto(a, p)
    PROVE  /\ maker' \in [Artifacts -> Maker]
           /\ \A b \in Artifacts : b # a => maker'[b] = maker[b]
           /\ maker'[a].pc = p /\ maker'[a].fmt = maker[a].fmt /\ maker'[a].left = maker[a].left
           /\ maker'[a].doomed = maker[a].doomed /\ maker'[a].ready = maker[a].ready
           /\ maker'[a].broken = maker[a].broken
<1>1. maker' = [maker EXCEPT ![a] = [maker[a] EXCEPT !.pc = p]] /\ maker[a] \in Maker
  BY DEF Goto
<1>2. [maker[a] EXCEPT !.pc = p] \in Maker
  BY <1>1 DEF Maker
<1> QED
  BY <1>1, <1>2 DEF Maker

LEMMA EnqueueIs ==
    ASSUME job \in [Keys -> Job], NEW S, NEW due, \A k \in Keys : due[k] \in {"now", "late"},
           Enqueue(S, due)
    PROVE  /\ job' \in [Keys -> Job]
           /\ \A k \in Keys :
                 /\ job[k].status # "none" \/ k \notin S => job'[k] = job[k]
                 /\ job[k].status = "none" /\ k \in S => job'[k].status = "queued" /\ job'[k].due = due[k]
<1>1. \A k \in Keys : Queued(due[k]) \in Job /\ Queued(due[k]).status = "queued" /\ Queued(due[k]).due = due[k]
  BY DEF Queued, Job
<1> QED
  BY <1>1 DEF Enqueue

LEMMA DueIs ==
    /\ \A k \in Keys : Due[k] \in {"now", "late"} /\ AtOnce[k] \in {"now", "late"}
    /\ \A k \in Keys : file[k] = "reserved" => Due[k] = "late"
BY DEF Due, AtOnce

LEMMA NonNegativeIs ==
    ASSUME NEW n \in Int
    PROVE  NonNegative(n) \in Nat /\ (n >= 0 => NonNegative(n) = n)
BY DEF NonNegative

LEMMA WithoutFilesIs ==
    ASSUME file \in [Keys -> {"none", "reserved", "committed"}], NEW S, file' = WithoutFiles(S)
    PROVE  /\ file' \in [Keys -> {"none", "reserved", "committed"}]
           /\ \A k \in Keys : file'[k] = IF k \in S THEN "none" ELSE file[k]
BY DEF WithoutFiles
-----------------------------------------------------------------------------
\* Counting file rows and stray units.
HeldBy(S, q) == {k \in S : file[k] = q}
StrayOf(q) == {x \in stray : x[2] = q}

LEMMA Counting ==
    /\ \A S, q : Count(S, q) = Cardinality(HeldBy(S, q))
    /\ \A q : Count(Keys, q)' = Cardinality(HeldBy(Keys, q)')
    /\ \A q : StrayUnits(q) = Cardinality(StrayOf(q)) /\ StrayUnits(q)' = Cardinality(StrayOf(q)')
BY DEF Count, HeldBy, StrayUnits, StrayOf

LEMMA HeldIsFinite ==
    ASSUME Ledger, NEW q \in {"reserved", "committed"}
    PROVE  IsFiniteSet(HeldBy(Keys, q)) /\ Count(Keys, q) \in Nat
<1>1. HeldBy(Keys, q) \in SUBSET Rows(Artifacts)
  BY KeyIs DEF HeldBy
<1> QED
  BY <1>1, FS_Subset, FS_CardinalityType, Counting DEF Ledger

LEMMA StrayIsFinite ==
    ASSUME Ledger, NEW q
    PROVE  IsFiniteSet(StrayOf(q)) /\ StrayUnits(q) \in Nat
<1>1. StrayOf(q) \in SUBSET stray
  BY DEF StrayOf
<1> QED
  BY <1>1, FS_Subset, FS_CardinalityType, Counting DEF Ledger

LEMMA CountPart ==
    ASSUME Ledger, NEW S \in SUBSET Keys, NEW q \in {"reserved", "committed"}
    PROVE  /\ IsFiniteSet(HeldBy(S, q)) /\ Count(S, q) \in Nat
           /\ Count(S, q) <= Count(Keys, q)
           /\ Cardinality(HeldBy(Keys, q) \ HeldBy(S, q)) = Count(Keys, q) - Count(S, q)
<1>1. IsFiniteSet(HeldBy(Keys, q)) /\ Count(Keys, q) \in Nat
  BY HeldIsFinite
<1>2. HeldBy(S, q) \in SUBSET HeldBy(Keys, q)
  BY DEF HeldBy
<1>3. IsFiniteSet(HeldBy(S, q)) /\ Cardinality(HeldBy(S, q)) <= Cardinality(HeldBy(Keys, q))
  BY <1>1, <1>2, FS_Subset
<1>4. Cardinality(HeldBy(S, q)) \in Nat
  BY <1>3, FS_CardinalityType
<1>5. HeldBy(Keys, q) \cap HeldBy(S, q) = HeldBy(S, q)
  BY <1>2
<1>6. Cardinality(HeldBy(Keys, q) \ HeldBy(S, q)) =
         Cardinality(HeldBy(Keys, q)) - Cardinality(HeldBy(Keys, q) \cap HeldBy(S, q))
  BY <1>1, FS_Difference
<1>7. Cardinality(HeldBy(Keys, q) \ HeldBy(S, q)) =
         Cardinality(HeldBy(Keys, q)) - Cardinality(HeldBy(S, q))
  BY <1>5, <1>6
<1> QED
  BY <1>3, <1>4, <1>7, Counting
-----------------------------------------------------------------------------
\* How a step may change the files and what is charged for them.
SameFiles == UNCHANGED <<file, used, reserved, stray>> /\ (account' = "deleted" <=> account = "deleted")
Reserves(c) ==
    /\ account = "active" /\ file[c] = "none" /\ ~Strayed(c)
    /\ file' = [file EXCEPT ![c] = "reserved"] /\ reserved' = reserved + 1
    /\ UNCHANGED <<account, used, stray>>
Commits(c) ==
    /\ file[c] = "reserved" /\ file' = [file EXCEPT ![c] = "committed"]
    /\ reserved' = reserved - 1 /\ used' = used + 1
    /\ UNCHANGED <<account, stray>>
\* Rows R go; the units of S among them are returned and the rest go astray.
TagsOf(S) == {<<k, file[k]>> : k \in S}
Drops(R, S) ==
    /\ S \subseteq R /\ ReturnUnits(S)
    /\ file' = WithoutFiles(R)
    /\ stray' = stray \cup TagsOf(R \ S)
    /\ account' = account

LEMMA SameLedger ==
    ASSUME Shapes, Counters, Ledger, SameFiles
    PROVE  Ledger' /\ Counters'
<1>1. \A q : Count(Keys, q)' = Count(Keys, q) /\ StrayUnits(q)' = StrayUnits(q)
  BY DEF SameFiles, Count, StrayUnits
<1>2. Rows(Artifacts)' = Rows(Artifacts)
  BY DEF SameFiles, Rows
<1>3. AccountMatchesRows' /\ Counters'
  BY <1>1 DEF SameFiles, Ledger, AccountMatchesRows, Counters
<1>4. \A k \in Keys : Strayed(k)' => file'[k] = "none"
  BY DEF SameFiles, Ledger, Strayed
<1> QED
  BY <1>2, <1>3, <1>4 DEF SameFiles, Ledger

LEMMA ReservesLedger ==
    ASSUME Shapes, Counters, Ledger, NEW c \in Keys, Reserves(c)
    PROVE  Ledger' /\ Counters'
<1>1. \A k \in Keys : file'[k] = IF k = c THEN "reserved" ELSE file[k]
  BY DEF Reserves, Shapes
<1>2. /\ HeldBy(Keys, "reserved")' = HeldBy(Keys, "reserved") \cup {c}
      /\ c \notin HeldBy(Keys, "reserved")
      /\ HeldBy(Keys, "committed")' = HeldBy(Keys, "committed")
  BY <1>1 DEF Reserves, HeldBy
<1>3. /\ IsFiniteSet(HeldBy(Keys, "reserved")) /\ Count(Keys, "reserved") \in Nat
      /\ Count(Keys, "committed") \in Nat
  BY HeldIsFinite
<1>4. Cardinality(HeldBy(Keys, "reserved") \cup {c}) = Cardinality(HeldBy(Keys, "reserved")) + 1
  BY <1>2, <1>3, FS_AddElement
<1>5. Count(Keys, "reserved")' = Count(Keys, "reserved") + 1 /\ Count(Keys, "committed")' = Count(Keys, "committed")
  BY <1>2, <1>4, Counting
<1>6. \A q : StrayUnits(q)' = StrayUnits(q) /\ StrayUnits(q) \in Nat
  BY StrayIsFinite DEF Reserves, StrayUnits
<1>7. AccountMatchesRows' /\ Counters'
  BY <1>3, <1>5, <1>6 DEF Ledger, Reserves, AccountMatchesRows, Counters
<1>8. Rows(Artifacts)' = Rows(Artifacts) \cup {c}
  BY <1>1, KeyIs DEF Rows
<1>9. IsFiniteSet(Rows(Artifacts)')
  BY <1>8, FS_AddElement DEF Ledger
<1>10. \A k \in Keys : Strayed(k)' => file'[k] = "none"
  BY <1>1 DEF Reserves, Strayed, Ledger
<1> QED
  BY <1>7, <1>9, <1>10 DEF Ledger, Reserves

LEMMA CommitsLedger ==
    ASSUME Shapes, Counters, Ledger, Closed, NEW c \in Keys, Commits(c)
    PROVE  Ledger' /\ Counters'
<1>1. \A k \in Keys : file'[k] = IF k = c THEN "committed" ELSE file[k]
  BY DEF Commits, Shapes
<1>2. /\ HeldBy(Keys, "committed")' = HeldBy(Keys, "committed") \cup {c}
      /\ c \notin HeldBy(Keys, "committed") /\ c \in HeldBy(Keys, "reserved")
      /\ HeldBy(Keys, "reserved")' = HeldBy(Keys, "reserved") \ {c}
  BY <1>1 DEF Commits, HeldBy
<1>3. /\ IsFiniteSet(HeldBy(Keys, "reserved")) /\ Count(Keys, "reserved") \in Nat
      /\ IsFiniteSet(HeldBy(Keys, "committed")) /\ Count(Keys, "committed") \in Nat
  BY HeldIsFinite
<1>4. Cardinality(HeldBy(Keys, "committed") \cup {c}) = Cardinality(HeldBy(Keys, "committed")) + 1
  BY <1>2, <1>3, FS_AddElement
<1>5. /\ Cardinality(HeldBy(Keys, "reserved") \ {c}) = Cardinality(HeldBy(Keys, "reserved")) - 1
      /\ Cardinality(HeldBy(Keys, "reserved") \ {c}) \in Nat
  BY <1>2, <1>3, FS_RemoveElement, FS_CardinalityType
<1>6. /\ Count(Keys, "reserved")' = Count(Keys, "reserved") - 1 /\ Count(Keys, "reserved") >= 1
      /\ Count(Keys, "committed")' = Count(Keys, "committed") + 1
  BY <1>2, <1>3, <1>4, <1>5, Counting
<1>7. \A q : StrayUnits(q)' = StrayUnits(q) /\ StrayUnits(q) \in Nat
  BY StrayIsFinite DEF Commits, StrayUnits
<1>8. account # "deleted"
  BY DEF Closed, Commits
<1>9. AccountMatchesRows' /\ Counters'
  BY <1>3, <1>6, <1>7, <1>8 DEF Ledger, Commits, AccountMatchesRows, Counters
<1>10. Rows(Artifacts)' = Rows(Artifacts)
  BY <1>1 DEF Rows, Commits
<1>11. \A k \in Keys : Strayed(k)' => file'[k] = "none"
  BY <1>1 DEF Commits, Strayed, Ledger
<1> QED
  BY <1>9, <1>10, <1>11 DEF Ledger, Commits

LEMMA TagsCount ==
    ASSUME NEW S, IsFiniteSet(S)
    PROVE  IsFiniteSet(TagsOf(S)) /\ Cardinality(TagsOf(S)) = Cardinality(S)
<1> DEFINE f == [k \in S |-> <<k, file[k]>>]
<1>1. f \in Bijection(S, TagsOf(S))
  BY DEF Bijection, Injection, IsInjective, Surjection, TagsOf
<1>2. ExistsBijection(S, TagsOf(S))
  BY <1>1 DEF ExistsBijection
<1> QED
  BY <1>2, FS_Bijection

LEMMA DropsLedger ==
    ASSUME Shapes, Counters, Ledger, NEW R \in SUBSET Rows(Artifacts), NEW S, Drops(R, S)
    PROVE  Ledger' /\ Counters'
<1>0. S \in SUBSET Keys /\ R \in SUBSET Keys /\ S \subseteq R /\ R \ S \in SUBSET Keys
  BY KeyIs DEF Drops
<1>1. \A k \in Keys : file'[k] = IF k \in R THEN "none" ELSE file[k]
  BY WithoutFilesIs DEF Drops, Shapes
<1>2. /\ used' = NonNegative(used - Count(S, "committed"))
      /\ reserved' = NonNegative(reserved - Count(S, "reserved"))
      /\ stray' = stray \cup TagsOf(R \ S) /\ account' = account
  BY DEF Drops, ReturnUnits
<1>3. IsFiniteSet(R) /\ IsFiniteSet(R \ S) /\ IsFiniteSet(TagsOf(R \ S))
  BY FS_Subset, FS_Difference, TagsCount DEF Ledger
<1>4. IsFiniteSet(stray')
  BY <1>2, <1>3, FS_Union DEF Ledger
<1>5. stray' \subseteq Keys \X {"reserved", "committed"}
  BY <1>0, <1>2, KeyIs DEF TagsOf, Ledger, Shapes
<1>6. \A k \in Keys : Strayed(k)' => file'[k] = "none"
  BY <1>0, <1>1, <1>2 DEF Strayed, TagsOf, Ledger
<1>7. IsFiniteSet(Rows(Artifacts)')
  <2>1. Rows(Artifacts)' \in SUBSET Rows(Artifacts)
    BY <1>1 DEF Rows
  <2> QED
    BY <2>1, FS_Subset DEF Ledger
\* The files that go with quota q: some are returned, the others stray.
<1>8. ASSUME NEW q \in {"reserved", "committed"}
      PROVE  /\ Count(S, q) \in Nat /\ Count(S, q) <= Count(Keys, q) /\ Count(Keys, q) \in Nat
             /\ StrayUnits(q) \in Nat /\ StrayUnits(q)' \in Nat /\ Count(Keys, q)' \in Nat
             /\ Count(Keys, q)' + StrayUnits(q)' = Count(Keys, q) - Count(S, q) + StrayUnits(q)
  <2>1. /\ Count(S, q) \in Nat /\ Count(S, q) <= Count(Keys, q) /\ Count(Keys, q) \in Nat
        /\ StrayUnits(q) \in Nat /\ IsFiniteSet(StrayOf(q))
        /\ IsFiniteSet(HeldBy(S, q)) /\ IsFiniteSet(HeldBy(R \ S, q)) /\ IsFiniteSet(HeldBy(R, q))
        /\ Cardinality(HeldBy(Keys, q) \ HeldBy(R, q)) = Count(Keys, q) - Count(R, q)
        /\ Count(R, q) \in Nat /\ Count(R, q) <= Count(Keys, q) /\ Count(R \ S, q) \in Nat
    BY <1>0, CountPart, HeldIsFinite, StrayIsFinite
  <2>2. HeldBy(Keys, q)' = HeldBy(Keys, q) \ HeldBy(R, q)
    BY <1>0, <1>1 DEF HeldBy
  <2>3. Count(Keys, q)' = Count(Keys, q) - Count(R, q)
    BY <2>1, <2>2, Counting
  <2>4. Count(R, q) = Count(S, q) + Count(R \ S, q)
    <3>1. HeldBy(R, q) = HeldBy(S, q) \cup HeldBy(R \ S, q) /\ HeldBy(S, q) \cap HeldBy(R \ S, q) = {}
      BY <1>0 DEF HeldBy
    <3>2. Cardinality(HeldBy(S, q) \cup HeldBy(R \ S, q)) =
            Cardinality(HeldBy(S, q)) + Cardinality(HeldBy(R \ S, q))
              - Cardinality(HeldBy(S, q) \cap HeldBy(R \ S, q))
      BY <2>1, FS_Union
    <3>3. Cardinality(HeldBy(S, q) \cap HeldBy(R \ S, q)) = 0
      BY <3>1, FS_EmptySet
    <3>4. /\ Count(R, q) = Cardinality(HeldBy(R, q)) /\ Count(S, q) = Cardinality(HeldBy(S, q))
          /\ Count(R \ S, q) = Cardinality(HeldBy(R \ S, q))
      BY Counting
    <3>5. Cardinality(HeldBy(R, q)) = Cardinality(HeldBy(S, q)) + Cardinality(HeldBy(R \ S, q)) - 0
      BY <3>1, <3>2, <3>3
    <3> QED
      BY <2>1, <3>4, <3>5
  <2>5. StrayOf(q)' = StrayOf(q) \cup TagsOf(HeldBy(R \ S, q))
    BY <1>2 DEF StrayOf, TagsOf, HeldBy
  <2>6. StrayOf(q) \cap TagsOf(HeldBy(R \ S, q)) = {}
    BY <1>0, KeyIs DEF StrayOf, TagsOf, HeldBy, Strayed, Ledger
  <2>7. /\ IsFiniteSet(TagsOf(HeldBy(R \ S, q)))
        /\ Cardinality(TagsOf(HeldBy(R \ S, q))) = Cardinality(HeldBy(R \ S, q))
    BY <2>1, TagsCount
  <2>8. Cardinality(StrayOf(q) \cup TagsOf(HeldBy(R \ S, q))) =
          Cardinality(StrayOf(q)) + Cardinality(TagsOf(HeldBy(R \ S, q)))
            - Cardinality(StrayOf(q) \cap TagsOf(HeldBy(R \ S, q)))
    BY <2>1, <2>7, FS_Union
  <2>9. Cardinality(StrayOf(q) \cap TagsOf(HeldBy(R \ S, q))) = 0
    BY <2>6, FS_EmptySet
  <2>10. StrayUnits(q)' = Cardinality(StrayOf(q) \cup TagsOf(HeldBy(R \ S, q)))
    BY <2>5, Counting
  <2>11. StrayUnits(q) = Cardinality(StrayOf(q)) /\ Count(R \ S, q) = Cardinality(HeldBy(R \ S, q))
    BY Counting
  <2>12. StrayUnits(q)' = StrayUnits(q) + Count(R \ S, q)
    BY <2>1, <2>7, <2>8, <2>9, <2>10, <2>11
  <2> QED
    BY <2>1, <2>3, <2>4, <2>12
<1>9. Counters'
  BY <1>2, <1>8, NonNegativeIs DEF Counters
<1>10. AccountMatchesRows'
  <2>1. ASSUME NEW q \in {"reserved", "committed"}, NEW n \in Nat, n = Count(Keys, q) + StrayUnits(q)
        PROVE  NonNegative(n - Count(S, q)) = Count(Keys, q)' + StrayUnits(q)'
    <3>1. n - Count(S, q) = Count(Keys, q)' + StrayUnits(q)' /\ n - Count(S, q) \in Int /\ n - Count(S, q) >= 0
      BY <1>8, <2>1
    <3> QED
      BY <3>1, NonNegativeIs
  <2> QED
    BY <1>2, <2>1 DEF Ledger, AccountMatchesRows, Counters
<1> QED
  BY <1>4, <1>5, <1>6, <1>7, <1>9, <1>10 DEF Ledger

LEMMA DeleteUserLedger ==
    ASSUME Shapes, Counters, Ledger, DeleteUser
    PROVE  Ledger' /\ Counters'
<1>1. \A k \in Keys : file'[k] = "none"
  BY WithoutFilesIs DEF DeleteUser, Shapes
<1>2. Rows(Artifacts)' = {}
  BY <1>1 DEF Rows
<1> QED
  BY <1>1, <1>2, FS_EmptySet DEF DeleteUser, Ledger, AccountMatchesRows, Counters
-----------------------------------------------------------------------------
\* A key whose row, object and job stay as they are.
KeyStays(k) ==
    /\ file'[k] = file[k] /\ object'[k] = object[k] /\ job'[k] = job[k] /\ old'[k] = old[k]
    /\ Strayed(k)' <=> Strayed(k)
    /\ Deleted(k)' => Deleted(k)
\* Its tool call does not come to another step that matters for it.
CallStays(k) ==
    /\ Fresh(k)' => Fresh(k)
    /\ At(k, {"put"})' => At(k, {"put"})
    /\ At(k, {"commit"})' => At(k, {"commit"})
    /\ At(k, {"commit", "abort"}) /\ file[k] = "none" => At(k, {"commit", "abort"})' \/ maker'[k[1]].broken
                                                           \/ maker'[k[1]].pc = "dead"
    /\ maker[k[1]].broken \/ maker[k[1]].pc = "dead" => maker'[k[1]].broken \/ maker'[k[1]].pc = "dead"

LEMMA KeySame ==
    ASSUME NEW k \in Keys, KeyOK(k), KeyStays(k), CallStays(k), account' = account,
           art'[k[1]] = "generating" => art[k[1]] = "generating",
           art'[k[1]] = "ready" => art[k[1]] = "ready"
    PROVE  KeyOK(k)'
<1>1. FreshIsNew(k)'
  BY DEF KeyOK, KeyStays, CallStays, FreshIsNew
<1>2. Followed(k)'
  BY DEF KeyOK, KeyStays, CallStays, Followed
<1>3. DeletedIsGone(k)'
  BY DEF KeyOK, KeyStays, CallStays, DeletedIsGone
<1>4. Alive(k)'
  BY DEF KeyOK, KeyStays, CallStays, Alive
<1> QED
  BY <1>1, <1>2, <1>3, <1>4 DEF KeyOK

LEMMA Unrelated ==
    ASSUME Core, NEW k \in Keys, UNCHANGED <<object, job, old, stray, hold>>,
           file'[k] = file[k], maker'[k[1]] = maker[k[1]]
    PROVE  KeyStays(k) /\ CallStays(k)
BY DEF KeyStays, CallStays, Strayed, Deleted, Fresh, At

\* The tool call a moves on without touching a file.
Moves(a) ==
    /\ maker' \in [Artifacts -> Maker]
    /\ \A b \in Artifacts \ {a} : maker'[b] = maker[b]
    /\ \A k \in KeysOf(a) : CallStays(k)
    /\ maker'[a].pc \in {"creating", "reserving"} => account = "active"

LEMMA MovesStep ==
    ASSUME Core, NEW a \in Artifacts, Moves(a), CallOK(a)', RunOK(a)',
           UNCHANGED <<dbVars, old, object, job, cleaner, hold>>
    PROVE  Core'
<1>1. Shapes'
  BY DEF Core, Shapes, Moves, dbVars
<1>2. Closed'
  BY DEF Core, Closed, Moves, dbVars, Creating, Reserving, Pc
<1>3. Holding'
  BY DEF Core, Holding
<1>4. \A b \in Artifacts : CallOK(b)' /\ RunOK(b)'
  BY DEF Core, CallOK, RunOK, Moves, dbVars
<1>5. ASSUME NEW k \in Keys PROVE KeyOK(k)'
  <2>1. CASE k[1] # a
    <3>1. k[1] \in Artifacts /\ maker'[k[1]] = maker[k[1]]
      BY <2>1, KeyIs DEF Moves
    <3> QED
      BY <3>1, Unrelated, KeySame DEF Core, dbVars
  <2>2. CASE k[1] = a
    <3>1. CallStays(k)
      BY <2>2, KeyIs DEF Moves
    <3>2. KeyStays(k)
      BY DEF KeyStays, dbVars, Strayed, Deleted
    <3> QED
      BY <3>1, <3>2, KeySame DEF Core, dbVars
  <2> QED
    BY <2>1, <2>2
<1> QED
  BY <1>1, <1>2, <1>3, <1>4, <1>5 DEF Core

LEMMA GotoMoves ==
    ASSUME Core, NEW a \in Artifacts, NEW p \in Pcs, Goto(a, p),
           UNCHANGED <<dbVars, old, object, job, cleaner, hold>>,
           maker[a].pc \notin {"done", "dead"},
           p \notin {"idle", "boundary", "reserve", "put", "commit", "returned", "delete", "dead"},
           p = "creating" => maker[a].pc = "idle" /\ account = "active",
           p = "reserving" => maker[a].pc = "reserve" /\ account = "active",
           p = "abort" => maker[a].pc \in Uploading,
           maker[a].pc \in {"commit", "abort"} => p = "abort"
    PROVE  Core'
<1>1. /\ maker' \in [Artifacts -> Maker]
      /\ \A b \in Artifacts : b # a => maker'[b] = maker[b]
      /\ maker'[a].pc = p /\ maker'[a].fmt = maker[a].fmt /\ maker'[a].left = maker[a].left
      /\ maker'[a].doomed = maker[a].doomed /\ maker'[a].ready = maker[a].ready
      /\ maker'[a].broken = maker[a].broken
  BY GotoIs DEF Core, Shapes
<1>2. Moves(a)
  <2>1. \A k \in KeysOf(a) : CallStays(k)
    BY <1>1, KeyIs DEF CallStays, Fresh, At
  <2> QED
    BY <1>1, <2>1 DEF Moves
<1>3. CallOK(a)' /\ RunOK(a)'
  BY <1>1 DEF Core, CallOK, RunOK, dbVars, Uploading
<1> QED
  BY <1>2, <1>3, MovesStep
-----------------------------------------------------------------------------
\* A file of a is written by its own tool call, which is at c.
LEMMA OthersSame ==
    ASSUME Core, NEW a \in Artifacts, maker' \in [Artifacts -> Maker],
           \A b \in Artifacts \ {a} : maker'[b] = maker[b] /\ art'[b] = art[b],
           UNCHANGED <<account, old, stray, hold>>,
           \A k \in Keys : k[1] # a => file'[k] = file[k] /\ object'[k] = object[k] /\ job'[k] = job[k]
    PROVE  \A k \in Keys : k[1] # a => KeyOK(k)'
<1> SUFFICES ASSUME NEW k \in Keys, k[1] # a PROVE KeyOK(k)'
  OBVIOUS
<1>1. k[1] \in Artifacts /\ maker'[k[1]] = maker[k[1]] /\ art'[k[1]] = art[k[1]]
  BY KeyIs
<1>2. KeyStays(k) /\ CallStays(k)
  BY <1>1 DEF KeyStays, CallStays, Strayed, Deleted, Fresh, At
<1> QED
  BY <1>1, <1>2, KeySame DEF Core

LEMMA CallsSame ==
    ASSUME Core, NEW a \in Artifacts, CallOK(a)', RunOK(a)',
           \A b \in Artifacts \ {a} : maker'[b] = maker[b] /\ art'[b] = art[b] /\ cleaner'[b] = cleaner[b]
                                      /\ run'[b] = run[b],
           UNCHANGED account
    PROVE  \A b \in Artifacts : CallOK(b)' /\ RunOK(b)'
BY DEF Core, CallOK, RunOK

LEMMA CreateCommitStep ==
    ASSUME Core, NEW a \in Artifacts, CreateCommit(a)
    PROVE  Core'
<1>0. maker[a].pc = "creating" /\ maker[a] \in Maker
  BY DEF CreateCommit, Pc, Core, Shapes
<1>1. CASE UNCHANGED art /\ Goto(a, "done")
  BY <1>0, <1>1, GotoMoves DEF CreateCommit, dbVars, Pcs
<1>2. CASE /\ art' = [art EXCEPT ![a] = "generating"]
           /\ maker' = [maker EXCEPT ![a].pc = "boundary", ![a].left = Formats] \/ Goto(a, "done")
  <2>0. UNCHANGED <<account, conv, run, file, stray, old, object, job, cleaner, hold>>
    BY DEF CreateCommit
  <2>1. /\ maker' \in [Artifacts -> Maker]
        /\ \A b \in Artifacts : b # a => maker'[b] = maker[b]
        /\ maker'[a].pc \in {"boundary", "done"} /\ maker'[a].ready = maker[a].ready
        /\ maker'[a].doomed = maker[a].doomed /\ maker'[a].broken = maker[a].broken
    <3>1. CASE Goto(a, "done")
      BY <3>1, GotoIs DEF Core, Shapes, Pcs
    <3>2. CASE maker' = [maker EXCEPT ![a].pc = "boundary", ![a].left = Formats]
      <4>1. maker' = [maker EXCEPT ![a] = [maker[a] EXCEPT !.pc = "boundary", !.left = Formats]]
        BY <3>2 DEF Core, Shapes
      <4>2. [maker[a] EXCEPT !.pc = "boundary", !.left = Formats] \in Maker
        BY <1>0 DEF Maker, Pcs
      <4> QED
        BY <1>0, <4>1, <4>2 DEF Core, Shapes, Maker
    <3> QED
      BY <1>2, <3>1, <3>2
  <2>2. art' \in [Artifacts -> {"none", "generating", "ready", "failed"}]
        /\ art'[a] = "generating" /\ \A b \in Artifacts : b # a => art'[b] = art[b]
    BY <1>2 DEF Core, Shapes
  <2>3. \A k \in Keys : k[1] # a => KeyOK(k)'
    BY <2>0, <2>1, <2>2, OthersSame
  <2>4. ASSUME NEW k \in Keys, k[1] = a PROVE KeyOK(k)'
    <3>1. Fresh(k)
      BY <1>0, <2>4 DEF Fresh
    <3>2. file[k] = "none" /\ ~object[k] /\ job[k].status = "none" /\ ~Strayed(k)
      BY <3>1 DEF Core, KeyOK, FreshIsNew
    <3>3. Strayed(k)' <=> Strayed(k)
      BY <2>0 DEF Strayed
    <3> QED
      BY <2>0, <2>1, <2>2, <2>4, <3>2, <3>3
         DEF Core, KeyOK, FreshIsNew, Followed, DeletedIsGone, Alive, At
  <2>5. CallOK(a)' /\ RunOK(a)'
    BY <1>0, <2>0, <2>1, <2>2 DEF Core, CallOK, RunOK, Uploading
  <2>6. Shapes' /\ Closed' /\ Holding'
    BY <2>0, <2>1, <2>2 DEF Core, Shapes, Closed, Holding, Creating, Reserving, Pc
  <2> QED
    BY <2>0, <2>1, <2>2, <2>3, <2>4, <2>5, <2>6, CallsSame DEF Core
<1> QED
  BY <1>1, <1>2 DEF CreateCommit

LEMMA BoundaryStep ==
    ASSUME Core, NEW a \in Artifacts, Boundary(a)
    PROVE  Core'
<1>0. maker[a].pc = "boundary" /\ maker[a] \in Maker /\ UNCHANGED <<dbVars, old, object, job, cleaner, hold>>
  BY DEF Boundary, Pc, Core, Shapes
<1>1. CASE Goto(a, "fail") \/ Goto(a, "complete")
  BY <1>0, <1>1, GotoMoves DEF Pcs, Uploading
<1>2. ASSUME NEW f \in maker[a].left,
             maker' = [maker EXCEPT ![a].pc = "reserve", ![a].fmt = f, ![a].left = @ \ {f}]
      PROVE  Core'
  <2>1. /\ maker' = [maker EXCEPT ![a] = [maker[a] EXCEPT !.pc = "reserve", !.fmt = f, !.left = @ \ {f}]]
        /\ f \in Formats
    BY <1>0, <1>2 DEF Core, Shapes, Maker
  <2>2. [maker[a] EXCEPT !.pc = "reserve", !.fmt = f, !.left = @ \ {f}] \in Maker
    BY <1>0, <2>1 DEF Maker, Pcs
  <2>3. /\ maker' \in [Artifacts -> Maker] /\ \A b \in Artifacts : b # a => maker'[b] = maker[b]
        /\ maker'[a].pc = "reserve" /\ maker'[a].fmt = f /\ maker'[a].left = maker[a].left \ {f}
        /\ maker'[a].doomed = maker[a].doomed /\ maker'[a].ready = maker[a].ready
        /\ maker'[a].broken = maker[a].broken
    BY <1>0, <2>1, <2>2 DEF Core, Shapes, Maker
  <2>4. \A k \in KeysOf(a) : CallStays(k)
    BY <1>0, <1>2, <2>3, KeyIs DEF CallStays, Fresh, At
  <2>5. Moves(a)
    BY <2>3, <2>4 DEF Moves
  <2>6. CallOK(a)' /\ RunOK(a)'
    BY <1>0, <2>1, <2>3 DEF Core, CallOK, RunOK, dbVars, Uploading
  <2> QED
    BY <1>0, <2>5, <2>6, MovesStep
<1> QED
  BY <1>1, <1>2 DEF Boundary

LEMMA ReserveCommitStep ==
    ASSUME Core, NEW a \in Artifacts, ReserveCommit(a)
    PROVE  Core'
<1>0. /\ maker[a].pc = "reserving" /\ maker[a] \in Maker /\ maker[a].fmt \in Formats /\ maker[a].fmt \notin maker[a].left
      /\ UNCHANGED <<account, conv, run, art, used, stray, old, object, job, cleaner, hold>>
      /\ account = "active"
  BY DEF ReserveCommit, Pc, Core, Shapes, CallOK, Uploading, Closed, Reserving
<1>1. CASE Goto(a, "fail") /\ UNCHANGED <<file, reserved>>
  BY <1>0, <1>1, GotoMoves DEF Pcs, dbVars
<1>2. PICK c \in Keys : c = Current(a) /\ c[1] = a /\ \A k \in Keys : k = c <=> k[1] = a /\ k[2] = maker[a].fmt
  BY <1>0, CurrentIs
<1>3. CASE /\ file[c] = "none" /\ file' = [file EXCEPT ![c] = "reserved"]
           /\ Goto(a, "put") \/ Goto(a, "fail")
  <2>1. /\ maker' \in [Artifacts -> Maker] /\ \A b \in Artifacts : b # a => maker'[b] = maker[b]
        /\ maker'[a].pc \in {"put", "fail"} /\ maker'[a].fmt = maker[a].fmt /\ maker'[a].left = maker[a].left
        /\ maker'[a].doomed = maker[a].doomed /\ maker'[a].ready = maker[a].ready
        /\ maker'[a].broken = maker[a].broken
    BY <1>3, GotoIs DEF Core, Shapes, Pcs
  <2>2. file' \in [Keys -> {"none", "reserved", "committed"}]
        /\ file'[c] = "reserved" /\ \A k \in Keys : k # c => file'[k] = file[k]
    BY <1>3 DEF Core, Shapes
  <2>3. \A k \in Keys : k[1] # a => KeyOK(k)'
    BY <1>0, <1>2, <2>1, <2>2, OthersSame
  <2>4. ASSUME NEW k \in Keys, k[1] = a, k # c PROVE KeyOK(k)'
    <3>1. KeyStays(k) /\ CallStays(k)
      BY <1>0, <1>2, <2>1, <2>2, <2>4 DEF KeyStays, CallStays, Strayed, Deleted, Fresh, At
    <3> QED
      BY <1>0, <3>1, KeySame DEF Core
  <2>5. KeyOK(c)'
    <3>1. c[2] = maker[a].fmt /\ Fresh(c)
      BY <1>0, <1>2 DEF Fresh, At
    <3>2. /\ ~object'[c] /\ job'[c].status = "none" /\ ~Strayed(c)' /\ ~old'[c]
      BY <1>0, <3>1 DEF Core, KeyOK, FreshIsNew, Followed, Strayed
    <3>3. ~Fresh(c)' /\ ~At(c, {"commit"})'
      BY <1>0, <1>2, <2>1, <3>1 DEF Fresh, At
    <3>4. art[a] = "ready" => file[c] = "committed"
      BY <1>0, <1>2 DEF Core, KeyOK, Alive
    <3> QED
      BY <1>0, <1>2, <1>3, <2>2, <3>2, <3>3, <3>4 DEF KeyOK, FreshIsNew, Followed, DeletedIsGone, Alive
  <2>6. CallOK(a)' /\ RunOK(a)'
    BY <1>0, <2>1 DEF Core, CallOK, RunOK, Uploading
  <2>7. Shapes' /\ Closed' /\ Holding'
    BY <1>0, <2>1, <2>2 DEF Core, Shapes, Closed, Holding, Creating, Reserving, Pc
  <2> QED
    BY <1>0, <2>1, <2>3, <2>4, <2>5, <2>6, <2>7, CallsSame DEF Core
<1> QED
  BY <1>1, <1>2, <1>3 DEF ReserveCommit

\* A key whose row may have gone, with a job or astray, and whose artifact is not
\* made any more.
LEMMA KeyDropped ==
    ASSUME Core, NEW k \in Keys, CallStays(k),
           file'[k] \in {file[k], "none"},
           job'[k] # job[k] => /\ job[k].status = "none" /\ job'[k].status = "queued"
                               /\ file[k] # "none" /\ file'[k] = "none",
           file'[k] # file[k] => job'[k].status # "none" \/ Strayed(k)',
           Strayed(k) => Strayed(k)', Strayed(k)' => Strayed(k) \/ file[k] # "none",
           object'[k] => object[k], UNCHANGED <<old, hold>>,
           account' = account \/ (account' # "active" /\ account # "active"),
           account' = "active" => art'[k[1]] \notin {"generating", "ready"}
    PROVE  KeyOK(k)'
<1>0. KeyOK(k)
  BY DEF Core
<1>1. FreshIsNew(k)'
  BY <1>0 DEF KeyOK, FreshIsNew, CallStays
<1>2. Followed(k)'
  BY <1>0 DEF KeyOK, Followed, CallStays
<1>3. DeletedIsGone(k)'
  <2>1. Deleted(k)' => Deleted(k)
    BY DEF Deleted
  <2> QED
    BY <1>0, <2>1 DEF KeyOK, DeletedIsGone, CallStays
<1>4. Alive(k)'
  BY DEF Alive
<1> QED
  BY <1>1, <1>2, <1>3, <1>4 DEF KeyOK

LEMMA PutStep ==
    ASSUME Core, NEW a \in Artifacts, Put(a)
    PROVE  Core'
<1>0. /\ maker[a].pc = "put" /\ maker[a].fmt \in Formats /\ maker[a].fmt \notin maker[a].left
      /\ UNCHANGED <<dbVars, old, job, cleaner, hold>>
  BY DEF Put, Pc, Core, CallOK, Uploading
<1>1. CASE Goto(a, "abort") /\ UNCHANGED object
  BY <1>0, <1>1, GotoMoves DEF Pcs, Uploading
<1>2. PICK c \in Keys : c = Current(a) /\ c[1] = a /\ \A k \in Keys : k = c <=> k[1] = a /\ k[2] = maker[a].fmt
  BY <1>0, CurrentIs
<1>3. CASE object' = [object EXCEPT ![c] = TRUE] /\ (Goto(a, "commit") \/ Goto(a, "abort"))
  <2>1. /\ maker' \in [Artifacts -> Maker] /\ \A b \in Artifacts : b # a => maker'[b] = maker[b]
        /\ maker'[a].pc \in {"commit", "abort"} /\ maker'[a].fmt = maker[a].fmt /\ maker'[a].left = maker[a].left
        /\ maker'[a].doomed = maker[a].doomed /\ maker'[a].ready = maker[a].ready
        /\ maker'[a].broken = maker[a].broken
    BY <1>3, GotoIs DEF Core, Shapes, Pcs
  <2>2. object' \in [Keys -> BOOLEAN] /\ object'[c] /\ \A k \in Keys : k # c => object'[k] = object[k]
    BY <1>3 DEF Core, Shapes
  <2>3. \A k \in Keys : k[1] # a => KeyOK(k)'
    BY <1>0, <1>2, <2>1, <2>2, OthersSame DEF dbVars
  <2>4. ASSUME NEW k \in Keys, k[1] = a, k # c PROVE KeyOK(k)'
    <3>1. KeyStays(k) /\ CallStays(k)
      BY <1>0, <1>2, <2>1, <2>2, <2>4 DEF KeyStays, CallStays, Strayed, Deleted, Fresh, At, dbVars
    <3> QED
      BY <1>0, <3>1, KeySame DEF Core, dbVars
  <2>5. KeyOK(c)'
    <3>1. At(c, {"put"}) /\ KeyOK(c)
      BY <1>0, <1>2 DEF At, Core
    <3>2. At(c, {"commit", "abort"})' /\ ~Fresh(c)' /\ ~At(c, {"put"})'
      BY <1>0, <1>2, <2>1 DEF At, Fresh
    <3>3. (Strayed(c)' <=> Strayed(c)) /\ (Deleted(c)' <=> Deleted(c))
      BY <1>0 DEF Strayed, Deleted, dbVars
    <3>4. Deleted(c) => file[c] = "none"
      BY <3>1 DEF KeyOK, Followed, Deleted, Core, Shapes
    <3> QED
      BY <1>0, <2>2, <3>1, <3>2, <3>3, <3>4 DEF KeyOK, FreshIsNew, Followed, DeletedIsGone, Alive, dbVars
  <2>6. CallOK(a)' /\ RunOK(a)'
    BY <1>0, <2>1 DEF Core, CallOK, RunOK, Uploading, dbVars
  <2>7. Shapes' /\ Closed' /\ Holding'
    BY <1>0, <2>1, <2>2 DEF Core, Shapes, Closed, Holding, Creating, Reserving, Pc, dbVars
  <2> QED
    BY <1>0, <2>1, <2>3, <2>4, <2>5, <2>6, <2>7, CallsSame DEF Core, dbVars
<1> QED
  BY <1>1, <1>2, <1>3 DEF Put

LEMMA CommitFileStep ==
    ASSUME Core, NEW a \in Artifacts, CommitFile(a)
    PROVE  Core'
<1>0. /\ maker[a].pc = "commit" /\ maker[a].fmt \in Formats /\ maker[a].fmt \notin maker[a].left
      /\ UNCHANGED <<account, conv, run, art, stray, old, object, job, cleaner, hold>>
  BY DEF CommitFile, Pc, Core, CallOK, Uploading
<1>1. CASE Goto(a, "abort") /\ UNCHANGED <<file, used, reserved>>
  BY <1>0, <1>1, GotoMoves DEF Pcs, Uploading, dbVars
<1>2. PICK c \in Keys : c = Current(a) /\ c[1] = a /\ \A k \in Keys : k = c <=> k[1] = a /\ k[2] = maker[a].fmt
  BY <1>0, CurrentIs
<1>3. CASE /\ CanCommit(a) /\ file' = [file EXCEPT ![c] = "committed"]
           /\ Goto(a, "boundary") \/ Goto(a, "abort")
  <2>1. /\ maker' \in [Artifacts -> Maker] /\ \A b \in Artifacts : b # a => maker'[b] = maker[b]
        /\ maker'[a].pc \in {"boundary", "abort"} /\ maker'[a].fmt = maker[a].fmt /\ maker'[a].left = maker[a].left
        /\ maker'[a].doomed = maker[a].doomed /\ maker'[a].ready = maker[a].ready
        /\ maker'[a].broken = maker[a].broken
    BY <1>3, GotoIs DEF Core, Shapes, Pcs
  <2>2. /\ file' \in [Keys -> {"none", "reserved", "committed"}]
        /\ file'[c] = "committed" /\ \A k \in Keys : k # c => file'[k] = file[k]
        /\ file[c] = "reserved" /\ art[a] = "generating"
    BY <1>2, <1>3 DEF Core, Shapes, CanCommit
  <2>3. \A k \in Keys : k[1] # a => KeyOK(k)'
    BY <1>0, <1>2, <2>1, <2>2, OthersSame
  <2>4. ASSUME NEW k \in Keys, k[1] = a, k # c PROVE KeyOK(k)'
    <3>1. KeyStays(k) /\ CallStays(k)
      BY <1>0, <1>2, <2>1, <2>2, <2>4 DEF KeyStays, CallStays, Strayed, Deleted, Fresh, At
    <3> QED
      BY <1>0, <3>1, KeySame DEF Core
  <2>5. KeyOK(c)'
    <3>1. At(c, {"commit"}) /\ KeyOK(c)
      BY <1>0, <1>2 DEF At, Core
    <3>2. ~Fresh(c)' /\ ~At(c, {"put"})'
      BY <1>0, <1>2, <2>1 DEF At, Fresh
    <3>3. (Strayed(c)' <=> Strayed(c)) /\ (Deleted(c)' <=> Deleted(c))
      BY <1>0 DEF Strayed, Deleted
    <3> QED
      BY <1>0, <1>2, <2>1, <2>2, <3>1, <3>2, <3>3 DEF KeyOK, FreshIsNew, Followed, DeletedIsGone, Alive
  <2>6. CallOK(a)' /\ RunOK(a)'
    BY <1>0, <2>1 DEF Core, CallOK, RunOK, Uploading
  <2>7. Shapes' /\ Closed' /\ Holding'
    <3>1. account # "deleted"
      BY <2>2 DEF Core, Closed
    <3> QED
      BY <1>0, <2>1, <2>2, <3>1 DEF Core, Shapes, Closed, Holding, Creating, Reserving, Pc
  <2> QED
    BY <1>0, <2>1, <2>3, <2>4, <2>5, <2>6, <2>7, CallsSame DEF Core
<1> QED
  BY <1>1, <1>2, <1>3 DEF CommitFile

LEMMA AbortFileStep ==
    ASSUME Core, NEW a \in Artifacts, AbortFile(a)
    PROVE  Core'
<1>0. /\ maker[a].pc = "abort" /\ maker[a].fmt \in Formats /\ maker[a].fmt \notin maker[a].left
      /\ maker[a] \in Maker /\ UNCHANGED <<account, conv, run, stray, old, object, cleaner, hold>>
  BY DEF AbortFile, Pc, Core, Shapes, CallOK, Uploading
<1>1. CASE /\ maker' = [maker EXCEPT ![a].pc = "fail", ![a].broken = TRUE]
           /\ UNCHANGED <<file, used, reserved, job, art>>
  <2>1. /\ maker' = [maker EXCEPT ![a] = [maker[a] EXCEPT !.pc = "fail", !.broken = TRUE]]
        /\ [maker[a] EXCEPT !.pc = "fail", !.broken = TRUE] \in Maker
    BY <1>0, <1>1 DEF Core, Shapes, Maker, Pcs
  <2>2. /\ maker' \in [Artifacts -> Maker] /\ \A b \in Artifacts : b # a => maker'[b] = maker[b]
        /\ maker'[a].pc = "fail" /\ maker'[a].fmt = maker[a].fmt /\ maker'[a].left = maker[a].left
        /\ maker'[a].doomed = maker[a].doomed /\ maker'[a].ready = maker[a].ready /\ maker'[a].broken
    BY <1>0, <2>1 DEF Core, Shapes, Maker
  <2>3. Moves(a)
    <3>1. \A k \in KeysOf(a) : CallStays(k)
      BY <1>0, <2>2, KeyIs DEF CallStays, Fresh, At
    <3> QED
      BY <2>2, <3>1 DEF Moves
  <2>4. CallOK(a)' /\ RunOK(a)'
    BY <1>0, <1>1, <2>2 DEF Core, CallOK, RunOK, Uploading
  <2> QED
    BY <1>0, <1>1, <2>3, <2>4, MovesStep DEF dbVars
<1>2. PICK c \in Keys : c = Current(a) /\ c[1] = a /\ \A k \in Keys : k = c <=> k[1] = a /\ k[2] = maker[a].fmt
  BY <1>0, CurrentIs
<1>3. CASE /\ file' = [file EXCEPT ![c] = IF @ = "reserved" THEN "none" ELSE @]
           /\ job' = [job EXCEPT ![c] = Requeued(@)]
           /\ art' = [art EXCEPT ![a] = IF @ = "none" THEN @ ELSE "failed"]
           /\ Goto(a, "fail") /\ account # "deleted"
  <2>1. /\ maker' \in [Artifacts -> Maker] /\ \A b \in Artifacts : b # a => maker'[b] = maker[b]
        /\ maker'[a].pc = "fail" /\ maker'[a].fmt = maker[a].fmt /\ maker'[a].left = maker[a].left
        /\ maker'[a].doomed = maker[a].doomed /\ maker'[a].ready = maker[a].ready
        /\ maker'[a].broken = maker[a].broken
    BY <1>3, GotoIs DEF Core, Shapes, Pcs
  <2>2. /\ file' \in [Keys -> {"none", "reserved", "committed"}]
        /\ file'[c] \in {file[c], "none"} /\ \A k \in Keys : k # c => file'[k] = file[k]
        /\ art' \in [Artifacts -> {"none", "generating", "ready", "failed"}]
        /\ art'[a] \in {"none", "failed"} /\ \A b \in Artifacts : b # a => art'[b] = art[b]
    BY <1>2, <1>3 DEF Core, Shapes
  <2>3. /\ Queued("now") \in Job /\ Queued("now").status = "queued"
        /\ job' = [job EXCEPT ![c] = Queued("now")]
    BY <1>3 DEF Queued, Job, Requeued
  <2>4. /\ job' \in [Keys -> Job] /\ job'[c].status = "queued" /\ \A k \in Keys : k # c => job'[k] = job[k]
    BY <2>3 DEF Core, Shapes
  <2>5. \A k \in Keys : k[1] # a => KeyOK(k)'
    BY <1>0, <1>2, <2>1, <2>2, <2>4, OthersSame
  <2>6. ASSUME NEW k \in Keys, k[1] = a, k # c PROVE KeyOK(k)'
    <3>1. KeyStays(k) /\ CallStays(k)
      BY <1>0, <1>2, <2>1, <2>2, <2>4, <2>6 DEF KeyStays, CallStays, Strayed, Deleted, Fresh, At
    <3> QED
      BY <1>0, <2>2, <2>6, <3>1, KeySame DEF Core
  <2>7. KeyOK(c)'
    <3>1. ~Fresh(c)' /\ ~At(c, {"put"})'
      BY <1>0, <1>2, <2>1 DEF At, Fresh
    <3>2. ~Deleted(c)'
      BY <2>4 DEF Deleted
    <3> QED
      BY <1>2, <2>2, <2>4, <3>1, <3>2 DEF KeyOK, FreshIsNew, Followed, DeletedIsGone, Alive
  <2>8. CallOK(a)' /\ RunOK(a)'
    BY <1>0, <2>1, <2>2 DEF Core, CallOK, RunOK, Uploading
  <2>9. Shapes' /\ Closed' /\ Holding'
    BY <1>0, <1>3, <2>1, <2>2, <2>4 DEF Core, Shapes, Closed, Holding, Creating, Reserving, Pc
  <2> QED
    BY <1>0, <2>1, <2>2, <2>5, <2>6, <2>7, <2>8, <2>9, CallsSame DEF Core
<1> QED
  BY <1>1, <1>2, <1>3 DEF AbortFile

LEMMA CompleteStep ==
    ASSUME Core, NEW a \in Artifacts, CompleteArtifact(a)
    PROVE  Core'
<1>0. /\ maker[a].pc = "complete"
      /\ UNCHANGED <<account, conv, run, file, used, reserved, stray, old, object, job, cleaner, hold>>
  BY DEF CompleteArtifact, Pc
<1>1. CASE Goto(a, "fail") /\ UNCHANGED art
  BY <1>0, <1>1, GotoMoves DEF Pcs, Uploading, dbVars
<1>2. CASE /\ art[a] = "generating" /\ AllCommitted(a) /\ art' = [art EXCEPT ![a] = "ready"]
           /\ Goto(a, "returned") \/ Goto(a, "fail")
  <2>1. /\ maker' \in [Artifacts -> Maker] /\ \A b \in Artifacts : b # a => maker'[b] = maker[b]
        /\ maker'[a].pc \in {"returned", "fail"} /\ maker'[a].fmt = maker[a].fmt /\ maker'[a].left = maker[a].left
        /\ maker'[a].doomed = maker[a].doomed /\ maker'[a].ready = maker[a].ready
        /\ maker'[a].broken = maker[a].broken
    BY <1>2, GotoIs DEF Core, Shapes, Pcs
  <2>2. /\ art' \in [Artifacts -> {"none", "generating", "ready", "failed"}]
        /\ art'[a] = "ready" /\ \A b \in Artifacts : b # a => art'[b] = art[b]
    BY <1>2 DEF Core, Shapes
  <2>3. \A k \in Keys : k[1] # a => KeyOK(k)'
    BY <1>0, <2>1, <2>2, OthersSame
  <2>4. ASSUME NEW k \in Keys, k[1] = a PROVE KeyOK(k)'
    <3>1. KeyStays(k) /\ CallStays(k)
      BY <1>0, <2>1, <2>4 DEF KeyStays, CallStays, Strayed, Deleted, Fresh, At
    <3>2. KeyOK(k)
      BY DEF Core
    <3>3. FreshIsNew(k)' /\ Followed(k)' /\ DeletedIsGone(k)'
      BY <1>0, <3>1, <3>2 DEF KeyOK, KeyStays, CallStays, FreshIsNew, Followed, DeletedIsGone
    <3>4. Alive(k)'
      <4>1. file[k] = "committed"
        BY <1>2, <2>4, KeyIs DEF AllCommitted
      <4> QED
        BY <1>0, <1>2, <2>4, <3>1, <3>2, <4>1 DEF KeyOK, Alive, KeyStays
    <3> QED
      BY <3>3, <3>4 DEF KeyOK
  <2>5. CallOK(a)' /\ RunOK(a)'
    BY <1>0, <2>1, <2>2 DEF Core, CallOK, RunOK, Uploading
  <2>6. Shapes' /\ Closed' /\ Holding'
    BY <1>0, <2>1, <2>2 DEF Core, Shapes, Closed, Holding, Creating, Reserving, Pc
  <2> QED
    BY <1>0, <2>1, <2>2, <2>3, <2>4, <2>5, <2>6, CallsSame DEF Core
<1> QED
  BY <1>1, <1>2 DEF CompleteArtifact

LEMMA ReturnStep ==
    ASSUME Core, NEW a \in Artifacts, Return(a)
    PROVE  Core'
<1>0. maker[a].pc = "returned" /\ maker[a] \in Maker /\ UNCHANGED <<dbVars, old, object, job, cleaner, hold>>
  BY DEF Return, Pc, Core, Shapes
<1>1. CASE Goto(a, "fail")
  BY <1>0, <1>1, GotoMoves DEF Pcs, Uploading
<1>2. CASE maker' = [maker EXCEPT ![a].pc = "done", ![a].ready = TRUE]
  <2>1. /\ maker' = [maker EXCEPT ![a] = [maker[a] EXCEPT !.pc = "done", !.ready = TRUE]]
        /\ [maker[a] EXCEPT !.pc = "done", !.ready = TRUE] \in Maker
    BY <1>0, <1>2 DEF Core, Shapes, Maker, Pcs
  <2>2. /\ maker' \in [Artifacts -> Maker] /\ \A b \in Artifacts : b # a => maker'[b] = maker[b]
        /\ maker'[a].pc = "done" /\ maker'[a].fmt = maker[a].fmt /\ maker'[a].left = maker[a].left
        /\ maker'[a].doomed = maker[a].doomed /\ maker'[a].broken = maker[a].broken
    BY <1>0, <2>1 DEF Core, Shapes, Maker
  <2>3. Moves(a)
    <3>1. \A k \in KeysOf(a) : CallStays(k)
      BY <1>0, <2>2, KeyIs DEF CallStays, Fresh, At
    <3> QED
      BY <2>2, <3>1 DEF Moves
  <2>4. CallOK(a)' /\ RunOK(a)'
    <3>1. maker'[a].ready
      BY <1>0, <2>1 DEF Core, Shapes, Maker
    <3> QED
      BY <1>0, <2>2, <3>1 DEF Core, CallOK, RunOK, Uploading, dbVars
  <2> QED
    BY <1>0, <2>3, <2>4, MovesStep
<1> QED
  BY <1>1, <1>2 DEF Return

LEMMA FailArtifactStep ==
    ASSUME Core, NEW a \in Artifacts, FailArtifact(a)
    PROVE  Core'
<1>0. /\ maker[a].pc = "fail" /\ maker[a] \in Maker
      /\ UNCHANGED <<account, conv, run, stray, old, object, cleaner, hold>>
  BY DEF FailArtifact, Pc, Core, Shapes
<1>1. CASE Goto(a, "done") /\ UNCHANGED <<file, used, reserved, job, art>>
  BY <1>0, <1>1, GotoMoves DEF Pcs, Uploading, dbVars
<1>2. CASE /\ Enqueue(Rows({a}), AtOnce) /\ file' = WithoutFiles(Rows({a}))
           /\ art' = [art EXCEPT ![a] = Failed(@)]
           /\ \/ maker' = [maker EXCEPT ![a].pc = "delete", ![a].doomed = Rows({a})]
              \/ Goto(a, "done")
  <2>1. /\ maker' \in [Artifacts -> Maker] /\ \A b \in Artifacts : b # a => maker'[b] = maker[b]
        /\ maker'[a].pc \in {"delete", "done"} /\ maker'[a].fmt = maker[a].fmt /\ maker'[a].left = maker[a].left
        /\ maker'[a].doomed \in {maker[a].doomed, Rows({a})} /\ maker'[a].ready = maker[a].ready
        /\ maker'[a].broken = maker[a].broken
    <3>1. CASE Goto(a, "done")
      BY <3>1, GotoIs DEF Core, Shapes, Pcs
    <3>2. CASE maker' = [maker EXCEPT ![a].pc = "delete", ![a].doomed = Rows({a})]
      <4>1. maker' = [maker EXCEPT ![a] = [maker[a] EXCEPT !.pc = "delete", !.doomed = Rows({a})]]
        BY <3>2 DEF Core, Shapes
      <4>2. Rows({a}) \in SUBSET Keys
        BY KeyIs
      <4>3. [maker[a] EXCEPT !.pc = "delete", !.doomed = Rows({a})] \in Maker
        BY <1>0, <4>2 DEF Maker, Pcs
      <4> QED
        BY <1>0, <4>1, <4>3 DEF Core, Shapes, Maker
    <3> QED
      BY <1>2, <3>1, <3>2
  <2>2. /\ file' \in [Keys -> {"none", "reserved", "committed"}]
        /\ \A k \in Keys : file'[k] = IF k \in Rows({a}) THEN "none" ELSE file[k]
    BY <1>2, WithoutFilesIs DEF Core, Shapes
  <2>3. /\ art' \in [Artifacts -> {"none", "generating", "ready", "failed"}]
        /\ art'[a] = "failed" /\ \A b \in Artifacts : b # a => art'[b] = art[b]
    BY <1>2 DEF Core, Shapes, Failed
  <2>4. /\ job' \in [Keys -> Job]
        /\ \A k \in Keys : /\ job[k].status # "none" \/ k \notin Rows({a}) => job'[k] = job[k]
                           /\ job[k].status = "none" /\ k \in Rows({a}) => job'[k].status = "queued"
    BY <1>2, EnqueueIs, DueIs DEF Core, Shapes
  <2>5. \A k \in Keys : k[1] # a => KeyOK(k)'
    BY <1>0, <2>1, <2>2, <2>3, <2>4, KeyIs, OthersSame
  <2>6. ASSUME NEW k \in Keys, k[1] = a PROVE KeyOK(k)'
    <3>1. CallStays(k)
      BY <1>0, <2>1, <2>6 DEF CallStays, Fresh, At
    <3>2. k \in Rows({a}) <=> file[k] # "none"
      BY <2>6, KeyIs
    <3>3. Strayed(k)' <=> Strayed(k)
      BY <1>0 DEF Strayed
    <3> QED
      BY <1>0, <2>2, <2>3, <2>4, <2>6, <3>1, <3>2, <3>3, KeyDropped
  <2>7. CallOK(a)' /\ RunOK(a)'
    <3>1. Rows({a}) \subseteq KeysOf(a)
      BY KeyIs
    <3> QED
      BY <1>0, <2>1, <2>3, <3>1 DEF Core, CallOK, RunOK, Uploading
  <2>8. Shapes' /\ Closed' /\ Holding'
    BY <1>0, <2>1, <2>2, <2>3, <2>4 DEF Core, Shapes, Closed, Holding, Creating, Reserving, Pc
  <2> QED
    BY <1>0, <2>1, <2>3, <2>5, <2>6, <2>7, <2>8, CallsSame DEF Core
<1> QED
  BY <1>1, <1>2 DEF FailArtifact

LEMMA DeleteDirectStep ==
    ASSUME Core, NEW a \in Artifacts, DeleteDirect(a)
    PROVE  Core'
<1>0. /\ maker[a].pc = "delete" /\ maker[a] \in Maker /\ UNCHANGED <<dbVars, old, job, cleaner, hold>>
      /\ art[a] \in {"none", "failed"} /\ maker[a].doomed \subseteq KeysOf(a)
  BY DEF DeleteDirect, Pc, Core, Shapes, CallOK
<1>1. PICK S \in SUBSET maker[a].doomed : object' = [k \in Keys |-> object[k] /\ k \notin S]
  BY DEF DeleteDirect
<1>2. /\ object' \in [Keys -> BOOLEAN]
      /\ \A k \in Keys : /\ object'[k] => object[k]
                         /\ k[1] # a => object'[k] = object[k]
  <2>1. object' \in [Keys -> BOOLEAN]
    BY <1>1 DEF Core, Shapes
  <2>2. \A k \in Keys : object'[k] => object[k]
    BY <1>1
  <2>3. \A k \in Keys : k[1] # a => object'[k] = object[k]
    <3>1. \A k \in Keys : k[1] # a => k \notin S
      BY <1>0, KeyIs
    <3> QED
      BY <1>1, <3>1 DEF Core, Shapes
  <2> QED
    BY <2>1, <2>2, <2>3
<1>3. /\ maker' = [maker EXCEPT ![a] = [maker[a] EXCEPT !.pc = "done", !.doomed = {}]]
      /\ [maker[a] EXCEPT !.pc = "done", !.doomed = {}] \in Maker
  BY <1>0 DEF DeleteDirect, Core, Shapes, Maker, Pcs
<1>4. /\ maker' \in [Artifacts -> Maker] /\ \A b \in Artifacts : b # a => maker'[b] = maker[b]
      /\ maker'[a].pc = "done" /\ maker'[a].fmt = maker[a].fmt /\ maker'[a].left = maker[a].left
      /\ maker'[a].doomed = {} /\ maker'[a].ready = maker[a].ready /\ maker'[a].broken = maker[a].broken
  BY <1>0, <1>3 DEF Core, Shapes, Maker
<1>5. \A k \in Keys : k[1] # a => KeyOK(k)'
  BY <1>0, <1>2, <1>4, OthersSame DEF dbVars
<1>6. ASSUME NEW k \in Keys, k[1] = a PROVE KeyOK(k)'
  <2>1. CallStays(k)
    BY <1>0, <1>4, <1>6 DEF CallStays, Fresh, At
  <2>2. Strayed(k)' <=> Strayed(k)
    BY <1>0 DEF Strayed, dbVars
  <2> QED
    BY <1>0, <1>2, <1>6, <2>1, <2>2, KeyDropped DEF dbVars
<1>7. CallOK(a)' /\ RunOK(a)'
  BY <1>0, <1>4 DEF Core, CallOK, RunOK, Uploading, dbVars
<1>8. Shapes' /\ Closed' /\ Holding'
  BY <1>0, <1>2, <1>4 DEF Core, Shapes, Closed, Holding, Creating, Reserving, Pc, dbVars
<1> QED
  BY <1>0, <1>4, <1>5, <1>6, <1>7, <1>8, CallsSame DEF Core, dbVars

LEMMA CrashStep ==
    ASSUME Core, NEW a \in Artifacts, Crash(a)
    PROVE  Core'
<1>0. maker[a].pc \notin {"done", "dead"} /\ UNCHANGED <<dbVars, old, object, job, cleaner, hold>>
  BY DEF Crash
<1>1. /\ [NoMaker EXCEPT !.pc = "dead"] \in Maker /\ [NoMaker EXCEPT !.pc = "dead"].pc = "dead"
      /\ [NoMaker EXCEPT !.pc = "dead"].left = {} /\ [NoMaker EXCEPT !.pc = "dead"].doomed = {}
      /\ ~[NoMaker EXCEPT !.pc = "dead"].ready
  BY DEF NoMaker, Maker, Pcs
<1>2. /\ maker' \in [Artifacts -> Maker] /\ \A b \in Artifacts : b # a => maker'[b] = maker[b]
      /\ maker'[a].pc = "dead" /\ maker'[a].left = {} /\ maker'[a].doomed = {} /\ ~maker'[a].ready
  BY <1>1 DEF Crash, Core, Shapes
<1>3. Moves(a)
  <2>1. \A k \in KeysOf(a) : CallStays(k)
    BY <1>2, KeyIs DEF CallStays, Fresh, At
  <2> QED
    BY <1>2, <2>1 DEF Moves
<1>4. CallOK(a)' /\ RunOK(a)'
  BY <1>0, <1>2 DEF Core, CallOK, RunOK, Uploading, dbVars
<1> QED
  BY <1>0, <1>3, <1>4, MovesStep

\* Every step of a tool call.
LEMMA MakerCore ==
    ASSUME Core, NEW a \in Artifacts, MakerStep(a)
    PROVE  Core'
<1>1. CASE CreateCheck(a) \/ CreateRefused(a)
  BY <1>1, GotoMoves DEF CreateCheck, CreateRefused, Pc, Pcs, Uploading
<1>2. CASE ReserveLock(a)
  BY <1>2, GotoMoves DEF ReserveLock, Pc, Pcs, Uploading
<1>3. CASE Abort(a)
  <2>1. UNCHANGED <<dbVars, old, object, job, maker, cleaner, hold>>
    BY <1>3 DEF Abort
  <2>2. \A k \in Keys : KeyOK(k)'
    <3>1. \A k \in Keys : maker'[k[1]] = maker[k[1]] /\ file'[k] = file[k] /\ art'[k[1]] = art[k[1]]
      BY <2>1 DEF dbVars
    <3> QED
      BY <2>1, <3>1, Unrelated, KeySame DEF Core, dbVars
  <2> QED
    BY <2>1, <2>2 DEF Core, Shapes, Closed, Holding, CallOK, RunOK, Creating, Reserving, Pc, dbVars
<1> QED
  BY <1>1, <1>2, <1>3, CreateCommitStep, BoundaryStep, ReserveCommitStep, PutStep, CommitFileStep,
     AbortFileStep, CompleteStep, ReturnStep, FailArtifactStep, DeleteDirectStep, CrashStep DEF MakerStep
-----------------------------------------------------------------------------
\* Steps that leave files, objects, jobs and tool calls alone.
LEMMA FilesSame ==
    ASSUME Core, UNCHANGED <<account, conv, file, art, stray, old, object, job, maker, hold>>
    PROVE  /\ \A k \in Keys : KeyOK(k)'
           /\ Closed' /\ Holding' /\ \A a \in Artifacts : CallOK(a)'
<1>1. ASSUME NEW k \in Keys PROVE KeyOK(k)'
  <2>1. maker'[k[1]] = maker[k[1]] /\ file'[k] = file[k] /\ art'[k[1]] = art[k[1]]
    OBVIOUS
  <2> QED
    BY <2>1, Unrelated, KeySame DEF Core
<1> QED
  BY <1>1 DEF Core, Closed, Holding, CallOK, Creating, Reserving, Pc

\* Every step of a run: answered, or settled as failed.
LEMMA RunCore ==
    ASSUME Core, NEW a \in Artifacts, RunStep(a)
    PROVE  Core'
<1>1. CASE AnswerRun(a)
  <2>1. /\ UNCHANGED <<account, conv, file, art, stray, old, object, job, maker, hold, cleaner>>
        /\ run' = [run EXCEPT ![a] = "answered"] /\ run[a] = "running" /\ maker[a].ready /\ ~cleaner[a].on
    BY <1>1 DEF AnswerRun
  <2>2. \A b \in Artifacts : RunOK(b)'
    BY <2>1 DEF Core, Shapes, RunOK
  <2>3. Shapes'
    BY <2>1 DEF Core, Shapes
  <2> QED
    BY <2>1, <2>2, <2>3, FilesSame DEF Core
<1>2. ASSUME NEW by \in {"handler", "recovery"}, CleanupStart(a, by)
      PROVE  Core'
  <2> DEFINE new == [on |-> TRUE, snap |-> Rows({a}),
                     owns |-> art[a] # "none" /\ a \notin Reserving /\ a \notin clearing.rows]
  <2>1. /\ UNCHANGED <<account, conv, file, art, stray, old, object, job, maker, hold, run>>
        /\ run[a] = "running" /\ account = "active"
        /\ cleaner' = [cleaner EXCEPT ![a] = new]
    BY <1>2 DEF CleanupStart, dbVars
  <2>2. new \in Clean
    BY KeyIs DEF Clean
  <2> HIDE DEF new
  <2>3. cleaner' \in [Artifacts -> Clean] /\ \A b \in Artifacts : b # a => cleaner'[b] = cleaner[b]
    BY <2>1, <2>2 DEF Core, Shapes
  <2>4. \A b \in Artifacts : RunOK(b)'
    BY <2>1, <2>3 DEF Core, RunOK
  <2>5. Shapes'
    BY <2>1, <2>3 DEF Core, Shapes
  <2> QED
    BY <2>1, <2>4, <2>5, FilesSame DEF Core
<1>3. CASE CleanupRollback(a)
  <2>1. /\ UNCHANGED <<account, conv, file, art, stray, old, object, job, maker, hold, run>>
        /\ cleaner' = [cleaner EXCEPT ![a] = NoClean] /\ NoClean \in Clean /\ ~NoClean.on
    BY <1>3 DEF CleanupRollback, dbVars, NoClean, Clean
  <2>2. cleaner' \in [Artifacts -> Clean] /\ ~cleaner'[a].on
        /\ \A b \in Artifacts : b # a => cleaner'[b] = cleaner[b]
    BY <2>1 DEF Core, Shapes
  <2>3. \A b \in Artifacts : RunOK(b)'
    BY <2>1, <2>2 DEF Core, RunOK
  <2>4. Shapes'
    BY <2>1, <2>2 DEF Core, Shapes
  <2> QED
    BY <2>1, <2>3, <2>4, FilesSame DEF Core
<1>4. CASE CleanupFinish(a)
  <2>0. UNCHANGED <<account, conv, old, object, maker, hold>>
    BY <1>4 DEF CleanupFinish
  <2>1. /\ file' \in [Keys -> {"none", "reserved", "committed"}]
        /\ \A k \in Keys : file'[k] = IF k \in Rows({a}) THEN "none" ELSE file[k]
    BY <1>4, WithoutFilesIs DEF Core, Shapes, CleanupFinish
  <2>2. /\ job' \in [Keys -> Job]
        /\ \A k \in Keys : /\ job[k].status # "none" \/ k \notin Rows({a}) => job'[k] = job[k]
                           /\ job[k].status = "none" /\ k \in Rows({a}) => job'[k].status = "queued"
    BY <1>4, EnqueueIs, DueIs DEF Core, Shapes, CleanupFinish
  <2>3. /\ art' \in [Artifacts -> {"none", "generating", "ready", "failed"}]
        /\ art'[a] \in {"none", "failed"} /\ \A b \in Artifacts : b # a => art'[b] = art[b]
        /\ run' \in [Artifacts -> {"running", "answered", "failed", "gone"}]
        /\ run'[a] = "failed" /\ \A b \in Artifacts : b # a => run'[b] = run[b]
    BY <1>4 DEF Core, Shapes, CleanupFinish
  <2>4. /\ NoClean \in Clean /\ ~NoClean.on
    BY DEF NoClean, Clean
  <2>5. /\ cleaner' \in [Artifacts -> Clean] /\ ~cleaner'[a].on
        /\ \A b \in Artifacts : b # a => cleaner'[b] = cleaner[b]
    BY <1>4, <2>4 DEF Core, Shapes, CleanupFinish
  <2>6. stray' = stray \cup {<<k, file[k]>> : k \in Rows({a}) \ cleaner[a].snap}
    BY <1>4 DEF CleanupFinish
  <2>7. ASSUME NEW k \in Keys PROVE KeyOK(k)'
    <3>1. CallStays(k)
      BY <2>0 DEF CallStays, Fresh, At
    <3>2. Strayed(k) => Strayed(k)'
      BY <2>6 DEF Strayed
    <3>3. Strayed(k)' => Strayed(k) \/ (k[1] = a /\ file[k] # "none")
      BY <2>6, KeyIs DEF Strayed
    <3>4. k \in Rows({a}) <=> k[1] = a /\ file[k] # "none"
      BY KeyIs
    <3>5. CASE k[1] = a
      BY <2>0, <2>1, <2>2, <2>3, <3>1, <3>2, <3>3, <3>4, <3>5, KeyDropped
    <3>6. CASE k[1] # a
      <4>1. KeyStays(k)
        BY <2>0, <2>1, <2>2, <3>2, <3>3, <3>4, <3>6 DEF KeyStays, Deleted
      <4> QED
        BY <2>0, <2>3, <3>1, <3>6, <4>1, KeyIs, KeySame DEF Core
    <3> QED
      BY <3>5, <3>6
  <2>8. CallOK(a)' /\ RunOK(a)'
    BY <2>0, <2>3, <2>5 DEF Core, CallOK, RunOK
  <2>9. Shapes' /\ Closed' /\ Holding'
    BY <2>0, <2>1, <2>2, <2>3, <2>5 DEF Core, Shapes, Closed, Holding, Creating, Reserving, Pc
  <2> QED
    BY <2>0, <2>3, <2>5, <2>7, <2>8, <2>9, CallsSame DEF Core
<1> QED
  BY <1>1, <1>2, <1>3, <1>4 DEF RunStep

\* All artifacts and all files go.
LEMMA AllGone ==
    ASSUME Core, file' = WithoutFiles(Keys), art' = [a \in Artifacts |-> "none"],
           UNCHANGED <<old, object, maker, hold>>,
           account' = account \/ (account' # "active" /\ account # "active"),
           \A k \in Keys : job'[k] # job[k] => /\ job[k].status = "none" /\ job'[k].status = "queued"
                                               /\ file[k] # "none",
           \A k \in Keys : file[k] # "none" => job'[k].status # "none" \/ Strayed(k)',
           \A k \in Keys : Strayed(k) => Strayed(k)',
           \A k \in Keys : Strayed(k)' => Strayed(k) \/ file[k] # "none"
    PROVE  /\ \A k \in Keys : KeyOK(k)'
           /\ file' \in [Keys -> {"none", "reserved", "committed"}]
           /\ art' \in [Artifacts -> {"none", "generating", "ready", "failed"}]
           /\ Closed' /\ \A a \in Artifacts : CallOK(a)'
<1>1. /\ file' \in [Keys -> {"none", "reserved", "committed"}] /\ \A k \in Keys : file'[k] = "none"
  BY WithoutFilesIs DEF Core, Shapes
<1>2. ASSUME NEW k \in Keys PROVE KeyOK(k)'
  <2>1. CallStays(k)
    BY DEF CallStays, Fresh, At
  <2>2. art'[k[1]] = "none"
    BY KeyIs
  <2> QED
    BY <1>1, <2>1, <2>2, KeyDropped
<1>3. art' \in [Artifacts -> {"none", "generating", "ready", "failed"}]
  OBVIOUS
<1>4. Closed'
  <2>1. account' # "active" => account # "active"
    OBVIOUS
  <2> QED
    BY <1>1, <2>1 DEF Core, Closed, Creating, Reserving, Pc
<1>5. \A a \in Artifacts : CallOK(a)'
  BY DEF Core, CallOK
<1> QED
  BY <1>1, <1>2, <1>3, <1>4, <1>5

LEMMA DeleteConversationStep ==
    ASSUME Core, DeleteConversation
    PROVE  Core'
<1>1. /\ UNCHANGED <<account, run, stray, old, object, maker, cleaner, hold>> /\ conv' = "gone"
      /\ file' = WithoutFiles(Keys) /\ art' = [a \in Artifacts |-> "none"]
  BY DEF DeleteConversation
<1>2. /\ job' \in [Keys -> Job]
      /\ \A k \in Keys : /\ job[k].status # "none" \/ k \notin Rows(Artifacts) => job'[k] = job[k]
                         /\ job[k].status = "none" /\ k \in Rows(Artifacts) => job'[k].status = "queued"
  BY EnqueueIs, DueIs DEF Core, Shapes, DeleteConversation
<1>3. \A k \in Keys : k \in Rows(Artifacts) <=> file[k] # "none"
  BY KeyIs
<1>4. \A k \in Keys : Strayed(k)' <=> Strayed(k)
  BY <1>1 DEF Strayed
<1>5. \A k \in Keys : /\ job'[k] # job[k] => /\ job[k].status = "none" /\ job'[k].status = "queued"
                                             /\ file[k] # "none"
                      /\ file[k] # "none" => job'[k].status # "none" \/ Strayed(k)'
  BY <1>2, <1>3
<1>6. /\ \A k \in Keys : KeyOK(k)'
      /\ file' \in [Keys -> {"none", "reserved", "committed"}]
      /\ art' \in [Artifacts -> {"none", "generating", "ready", "failed"}]
      /\ Closed' /\ \A a \in Artifacts : CallOK(a)'
  BY <1>1, <1>4, <1>5, AllGone
<1>7. \A a \in Artifacts : RunOK(a)'
  BY <1>1 DEF Core, RunOK
<1>8. Shapes' /\ Holding'
  BY <1>1, <1>2, <1>6 DEF Core, Shapes, Holding
<1> QED
  BY <1>6, <1>7, <1>8 DEF Core

LEMMA ClearCommitStep ==
    ASSUME Core, ClearCommit
    PROVE  Core'
<1> DEFINE missed == Rows(Artifacts \ clearing.rows)
<1>1. /\ UNCHANGED <<account, old, object, maker, cleaner, hold>> /\ conv' = "gone"
      /\ file' = WithoutFiles(Keys) /\ art' = [a \in Artifacts |-> "none"]
      /\ run' = [a \in Artifacts |-> "gone"] /\ \A a \in Artifacts : ~cleaner[a].on
      /\ stray' = stray \cup {<<k, file[k]>> : k \in missed}
  BY DEF ClearCommit
<1>2. /\ job' \in [Keys -> Job]
      /\ \A k \in Keys :
            /\ job[k].status # "none" \/ k \notin Rows(clearing.rows) => job'[k] = job[k]
            /\ job[k].status = "none" /\ k \in Rows(clearing.rows) => job'[k].status = "queued"
  BY EnqueueIs, DueIs DEF Core, Shapes, ClearCommit
<1>3. \A k \in Keys : /\ k \in Rows(clearing.rows) => file[k] # "none"
                      /\ file[k] # "none" => k \in Rows(clearing.rows) \/ k \in missed
                      /\ k \in missed => file[k] # "none"
  BY KeyIs
<1>4. \A k \in Keys : Strayed(k)' <=> Strayed(k) \/ k \in missed
  <2> TAKE k \in Keys
  <2>1. Strayed(k) => Strayed(k)'
    BY <1>1 DEF Strayed
  <2>2. k \in missed => Strayed(k)'
    <3>1. k \in missed => <<k, file[k]>> \in stray'
      BY <1>1
    <3> QED
      BY <3>1 DEF Strayed
  <2>3. ASSUME Strayed(k)', ~Strayed(k)
        PROVE  k \in missed
    <3>1. PICK x \in stray' : x[1] = k
      BY <2>3 DEF Strayed
    <3>2. x \in {<<j, file[j]>> : j \in missed}
      BY <1>1, <2>3, <3>1 DEF Strayed
    <3>3. PICK j \in missed : x = <<j, file[j]>>
      BY <3>2
    <3> QED
      BY <3>1, <3>3
  <2> QED
    BY <2>1, <2>2, <2>3
<1>5. \A k \in Keys : /\ job'[k] # job[k] => /\ job[k].status = "none" /\ job'[k].status = "queued"
                                             /\ file[k] # "none"
                      /\ file[k] # "none" => job'[k].status # "none" \/ Strayed(k)'
  BY <1>2, <1>3, <1>4
<1>6. /\ \A k \in Keys : KeyOK(k)'
      /\ file' \in [Keys -> {"none", "reserved", "committed"}]
      /\ art' \in [Artifacts -> {"none", "generating", "ready", "failed"}]
      /\ Closed' /\ \A a \in Artifacts : CallOK(a)'
  BY <1>1, <1>3, <1>4, <1>5, AllGone
<1>7. \A a \in Artifacts : RunOK(a)'
  BY <1>1 DEF Core, RunOK
<1>8. Shapes' /\ Holding'
  BY <1>1, <1>2, <1>6 DEF Core, Shapes, Holding
<1> QED
  BY <1>6, <1>7, <1>8 DEF Core

LEMMA DeleteUserStep ==
    ASSUME Core, DeleteUser
    PROVE  Core'
<1>1. /\ UNCHANGED <<stray, old, object, job, maker, cleaner, hold>> /\ conv' = "gone"
      /\ file' = WithoutFiles(Keys) /\ art' = [a \in Artifacts |-> "none"]
      /\ run' = [a \in Artifacts |-> "gone"] /\ account = "deleting" /\ account' = "deleted"
  BY DEF DeleteUser
<1>2. \A k \in Keys : Strayed(k)' <=> Strayed(k)
  BY <1>1 DEF Strayed
<1>3. \A k \in Keys : file[k] # "none" => job'[k].status # "none"
  BY <1>1 DEF Core, KeyOK, Followed
<1>4. /\ \A k \in Keys : KeyOK(k)'
      /\ file' \in [Keys -> {"none", "reserved", "committed"}]
      /\ art' \in [Artifacts -> {"none", "generating", "ready", "failed"}]
      /\ Closed' /\ \A a \in Artifacts : CallOK(a)'
  BY <1>1, <1>2, <1>3, AllGone
<1>5. \A a \in Artifacts : RunOK(a)'
  BY <1>1 DEF Core, RunOK
<1>6. Shapes' /\ Holding'
  BY <1>1, <1>4 DEF Core, Shapes, Holding
<1> QED
  BY <1>4, <1>5, <1>6 DEF Core

LEMMA PrepareStep ==
    ASSUME Core, PrepareUserDeletion
    PROVE  Core'
<1>1. /\ UNCHANGED <<conv, run, art, file, stray, old, object, maker, cleaner, hold>>
      /\ account = "active" /\ account' = "deleting" /\ Creating = {} /\ Reserving = {}
      /\ \A a \in Artifacts : ~cleaner[a].on
  BY DEF PrepareUserDeletion
<1>2. /\ job' \in [Keys -> Job]
      /\ \A k \in Keys :
            /\ job[k].status # "none" \/ k \notin Rows(Artifacts) => job'[k] = job[k]
            /\ job[k].status = "none" /\ k \in Rows(Artifacts) =>
                  job'[k].status = "queued" /\ job'[k].due = Due[k]
  BY EnqueueIs, DueIs DEF Core, Shapes, PrepareUserDeletion
<1>3. ASSUME NEW k \in Keys PROVE KeyOK(k)'
  <2>1. k \in Rows(Artifacts) <=> file[k] # "none"
    BY KeyIs
  <2>2. /\ Fresh(k)' <=> Fresh(k)
        /\ Strayed(k)' <=> Strayed(k)
        /\ At(k, {"put"})' <=> At(k, {"put"})
        /\ At(k, {"commit", "abort"})' <=> At(k, {"commit", "abort"})
    BY <1>1 DEF Fresh, Strayed, At
  <2>3. KeyOK(k)
    BY DEF Core
  <2>4. FreshIsNew(k)'
    BY <1>1, <1>2, <2>1, <2>2, <2>3 DEF KeyOK, FreshIsNew
  <2>5. Followed(k)'
    BY <1>1, <1>2, <2>1, <2>2, <2>3, DueIs DEF KeyOK, Followed
  <2>6. DeletedIsGone(k)'
    <3>1. Deleted(k)' => Deleted(k)
      BY <1>1, <1>2 DEF Deleted
    <3> QED
      BY <1>1, <2>2, <2>3, <3>1 DEF KeyOK, DeletedIsGone
  <2> QED
    BY <1>1, <2>4, <2>5, <2>6 DEF KeyOK, Alive
<1>4. \A a \in Artifacts : CallOK(a)' /\ RunOK(a)'
  BY <1>1 DEF Core, CallOK, RunOK
<1>5. Shapes' /\ Closed' /\ Holding'
  BY <1>1, <1>2 DEF Core, Shapes, Closed, Holding, Creating, Reserving, Pc
<1> QED
  BY <1>3, <1>4, <1>5 DEF Core

LEMMA AccountCore ==
    ASSUME Core, AccountStep
    PROVE  Core'
<1>1. CASE ClearSelect \/ ClearAbort
  <2>1. UNCHANGED <<account, conv, run, file, art, stray, old, object, job, maker, cleaner, hold>>
    BY <1>1 DEF ClearSelect, ClearAbort, dbVars
  <2>2. Shapes' /\ \A a \in Artifacts : RunOK(a)'
    BY <2>1 DEF Core, Shapes, RunOK
  <2> QED
    BY <2>1, <2>2, FilesSame DEF Core
<1> QED
  BY <1>1, DeleteConversationStep, ClearCommitStep, DeleteUserStep, PrepareStep DEF AccountStep
-----------------------------------------------------------------------------
\* Steps of the worker and of time.
LEMMA JobsMove ==
    ASSUME Core, UNCHANGED dbVars, UNCHANGED <<maker, cleaner>>, \A k \in Keys : KeyOK(k)', Shapes', Holding'
    PROVE  Core'
BY DEF Core, Closed, CallOK, RunOK, Creating, Reserving, Pc, dbVars

LEMMA TickStep ==
    ASSUME Core, NEW c \in Keys, Tick(c)
    PROVE  Core'
<1>1. /\ UNCHANGED <<dbVars, object, job, maker, cleaner, hold>> /\ job[c].status = "queued"
      /\ old' = [old EXCEPT ![c] = TRUE] /\ ~At(c, {"put"})
  <2>1. At(c, {"put"}) => Pc(c[1], "put") /\ Current(c[1]) = c
    BY KeyIs DEF At, Pc, Current
  <2> QED
    BY <2>1 DEF Tick
<1>2. old' \in [Keys -> BOOLEAN] /\ \A k \in Keys : k # c => old'[k] = old[k]
  BY <1>1 DEF Core, Shapes
<1>3. ASSUME NEW k \in Keys PROVE KeyOK(k)'
  <2>1. CallStays(k) /\ (Strayed(k)' <=> Strayed(k)) /\ (Deleted(k)' <=> Deleted(k))
    BY <1>1 DEF CallStays, Fresh, At, Strayed, Deleted, dbVars
  <2>2. CASE k # c
    BY <1>1, <1>2, <2>1, <2>2, KeySame DEF Core, KeyStays, dbVars
  <2>3. CASE k = c
    BY <1>1, <2>1, <2>3 DEF Core, KeyOK, FreshIsNew, Followed, DeletedIsGone, Alive, CallStays, dbVars
  <2> QED
    BY <2>2, <2>3
<1>4. Shapes' /\ Holding'
  BY <1>1, <1>2 DEF Core, Shapes, Holding, dbVars
<1> QED
  BY <1>1, <1>3, <1>4, JobsMove

LEMMA ClaimStep ==
    ASSUME Core, NEW w \in Workers, NEW c \in Keys, ClaimDeletion(w, c)
    PROVE  Core'
<1>1. /\ UNCHANGED <<dbVars, old, object, maker, cleaner>> /\ job[c].status = "queued" /\ hold[w].task = "none"
      /\ job[c].due = "late" => old[c]
      /\ job' = [job EXCEPT ![c] = [job[c] EXCEPT !.status = "running", !.token = w]]
      /\ hold' = [hold EXCEPT ![w] = [task |-> "delete", key |-> c]]
  <2>1. /\ UNCHANGED <<dbVars, old, object, maker, cleaner>> /\ job[c].status = "queued" /\ hold[w].task = "none"
        /\ job[c].due = "late" => old[c]
    BY DEF ClaimDeletion
  <2>2. job' = [job EXCEPT ![c] = [job[c] EXCEPT !.status = "running", !.token = w]]
    <3>1. job \in [Keys -> Job]
      BY DEF Core, Shapes
    <3>2. job' = [job EXCEPT ![c].status = "running", ![c].token = w]
      BY DEF ClaimDeletion
    <3> QED
      BY <3>1, <3>2
  <2>3. hold' = [hold EXCEPT ![w] = [task |-> "delete", key |-> c]]
    BY DEF ClaimDeletion
  <2> QED
    BY <2>1, <2>2, <2>3
<1>2. PICK next : next = [job[c] EXCEPT !.status = "running", !.token = w]
  OBVIOUS
<1>3. /\ job' \in [Keys -> Job] /\ job'[c].status = "running" /\ job'[c].token = w
      /\ \A k \in Keys : k # c => job'[k] = job[k]
  <2>1. job \in [Keys -> Job]
    BY DEF Core, Shapes
  <2>2. next \in Job /\ next.status = "running" /\ next.token = w
    BY <1>2, <2>1 DEF Job
  <2>3. job' = [job EXCEPT ![c] = next]
    BY <1>1, <1>2
  <2> QED
    BY <2>1, <2>2, <2>3
<1>4. /\ hold' \in [Workers -> Hold] /\ hold'[w].task = "delete" /\ hold'[w].key = c
      /\ \A v \in Workers : v # w => hold'[v] = hold[v]
  BY <1>1 DEF Core, Shapes, Hold
<1>5. ASSUME NEW k \in Keys PROVE KeyOK(k)'
  <2>1. CallStays(k) /\ (Strayed(k)' <=> Strayed(k))
    BY <1>1 DEF CallStays, Fresh, At, Strayed, dbVars
  <2>2. CASE k # c
    <3>1. Deleted(k)' => Deleted(k)
      BY <1>3, <1>4, <2>2 DEF Deleted
    <3> QED
      BY <1>1, <1>3, <2>1, <2>2, <3>1, KeySame DEF Core, KeyStays, dbVars
  <2>3. CASE k = c
    <3>1. ~Deleted(k)'
      BY <1>3, <1>4, <2>3 DEF Deleted
    <3> QED
      BY <1>1, <1>3, <2>1, <2>3, <3>1
         DEF Core, KeyOK, FreshIsNew, Followed, DeletedIsGone, Alive, CallStays, dbVars
  <2> QED
    BY <2>2, <2>3
<1>6. Shapes' /\ Holding'
  BY <1>1, <1>3, <1>4 DEF Core, Shapes, Holding, dbVars
<1> QED
  BY <1>1, <1>5, <1>6, JobsMove

LEMMA DeleteObjectStep ==
    ASSUME Core, NEW w \in Workers, DeleteObject(w)
    PROVE  Core'
<1>1. /\ UNCHANGED <<dbVars, old, job, maker, cleaner>> /\ hold[w].task = "delete"
      /\ \/ object' = [object EXCEPT ![hold[w].key] = FALSE] /\ hold' = [hold EXCEPT ![w].task = "deleted"]
         \/ UNCHANGED object /\ hold' = [hold EXCEPT ![w].task = "failed"]
  BY DEF DeleteObject
<1>2. PICK c \in Keys : c = hold[w].key /\ job[c].status # "none"
  BY <1>1 DEF Core, Holding
<1>3. /\ [hold[w] EXCEPT !.task = "deleted"] \in Hold /\ [hold[w] EXCEPT !.task = "failed"] \in Hold
      /\ [hold[w] EXCEPT !.task = "deleted"].key = c /\ [hold[w] EXCEPT !.task = "failed"].key = c
      /\ [hold[w] EXCEPT !.task = "deleted"].task = "deleted" /\ [hold[w] EXCEPT !.task = "failed"].task = "failed"
  BY <1>2 DEF Core, Shapes, Hold
<1>4. /\ hold' \in [Workers -> Hold] /\ hold'[w].key = c /\ \A v \in Workers : v # w => hold'[v] = hold[v]
      /\ object' \in [Keys -> BOOLEAN] /\ \A k \in Keys : k # c => object'[k] = object[k]
      /\ \/ hold'[w].task = "deleted" /\ ~object'[c]
         \/ hold'[w].task = "failed" /\ object'[c] = object[c]
  <2>1. \/ hold' = [hold EXCEPT ![w] = [hold[w] EXCEPT !.task = "deleted"]]
           /\ object' = [object EXCEPT ![c] = FALSE]
        \/ hold' = [hold EXCEPT ![w] = [hold[w] EXCEPT !.task = "failed"]] /\ object' = object
    BY <1>1, <1>2 DEF Core, Shapes
  <2> QED
    BY <1>3, <2>1 DEF Core, Shapes
<1>5. ASSUME NEW k \in Keys PROVE KeyOK(k)'
  <2>1. CallStays(k) /\ (Strayed(k)' <=> Strayed(k))
    BY <1>1 DEF CallStays, Fresh, At, Strayed, dbVars
  <2>2. CASE k # c
    <3>1. Deleted(k)' => Deleted(k)
      BY <1>1, <1>4, <2>2 DEF Deleted
    <3> QED
      BY <1>1, <1>4, <2>1, <2>2, <3>1, KeySame DEF Core, KeyStays, dbVars
  <2>3. CASE k = c
    <3>1. Deleted(c)' /\ object'[c] => Deleted(c) /\ object[c]
      BY <1>1, <1>4 DEF Deleted
    <3> QED
      BY <1>1, <1>2, <1>4, <2>1, <2>3, <3>1
         DEF Core, KeyOK, FreshIsNew, Followed, DeletedIsGone, Alive, CallStays, dbVars
  <2> QED
    BY <2>2, <2>3
<1>6. Shapes' /\ Holding'
  BY <1>1, <1>2, <1>4 DEF Core, Shapes, Holding, dbVars
<1> QED
  BY <1>1, <1>5, <1>6, JobsMove

LEMMA MarkStep ==
    ASSUME Core, NEW w \in Workers, MarkDeletion(w)
    PROVE  Core'
<1>1. /\ UNCHANGED <<dbVars, old, object, maker, cleaner>> /\ hold[w].task \in {"deleted", "failed"}
      /\ hold' = [hold EXCEPT ![w] = NoHold]
  BY DEF MarkDeletion
<1>2. PICK c \in Keys : c = hold[w].key /\ job[c].status # "none"
  BY <1>1 DEF Core, Holding
<1>3. NoHold \in Hold /\ NoHold.task = "none"
  BY DEF NoHold, Hold
<1>4. /\ hold' \in [Workers -> Hold] /\ hold'[w].task = "none" /\ \A v \in Workers : v # w => hold'[v] = hold[v]
  BY <1>1, <1>3 DEF Core, Shapes
<1>5. /\ job' \in [Keys -> Job] /\ \A k \in Keys : k # c => job'[k] = job[k]
      /\ \/ job'[c] = job[c]
         \/ /\ job[c].status = "running" /\ job[c].token = w
            /\ job'[c].status \in {"queued", "failed"} \/ (hold[w].task = "deleted" /\ job'[c].status = "succeeded")
  <2>1. CASE ~JobLease(w)
    BY <2>1 DEF MarkDeletion, Core, Shapes
  <2>2. CASE JobLease(w)
    <3>1. PICK st \in {"succeeded", "queued", "failed"} :
             /\ st = "succeeded" => hold[w].task = "deleted"
             /\ job' = [job EXCEPT ![c] = [status |-> st, due |-> "now", token |-> None]]
      BY <1>2, <2>2 DEF MarkDeletion
    <3>2. [status |-> st, due |-> "now", token |-> None] \in Job
      BY DEF Job
    <3> QED
      BY <1>2, <2>2, <3>1, <3>2 DEF JobLease, Core, Shapes
  <2> QED
    BY <2>1, <2>2
<1>6. ASSUME NEW k \in Keys PROVE KeyOK(k)'
  <2>1. CallStays(k) /\ (Strayed(k)' <=> Strayed(k))
    BY <1>1 DEF CallStays, Fresh, At, Strayed, dbVars
  <2>2. Deleted(k)' => Deleted(k)
    BY <1>2, <1>4, <1>5 DEF Deleted
  <2>3. CASE job'[k] = job[k]
    BY <1>1, <2>1, <2>2, <2>3, KeySame DEF Core, KeyStays, dbVars
  <2>4. CASE job'[k] # job[k]
    BY <1>1, <1>5, <2>1, <2>2, <2>4
       DEF Core, KeyOK, FreshIsNew, Followed, DeletedIsGone, Alive, CallStays, dbVars
  <2> QED
    BY <2>3, <2>4
<1>7. Shapes' /\ Holding'
  BY <1>1, <1>4, <1>5 DEF Core, Shapes, Holding, dbVars
<1> QED
  BY <1>1, <1>6, <1>7, JobsMove

LEMMA CoreStep == Core /\ [Next]_vars => Core'
<1> SUFFICES ASSUME Core, [Next]_vars PROVE Core'
  OBVIOUS
<1>1. CASE \E w \in Workers : WorkerStep(w)
  BY <1>1, ClaimStep, DeleteObjectStep, MarkStep DEF WorkerStep
<1>2. CASE UNCHANGED vars
  <2>1. Shapes' /\ \A a \in Artifacts : RunOK(a)'
    BY <1>2 DEF Core, Shapes, RunOK, vars, dbVars
  <2> QED
    BY <1>2, <2>1, FilesSame DEF Core, vars, dbVars
<1> QED
  BY <1>1, <1>2, MakerCore, RunCore, AccountCore, TickStep DEF Next
-----------------------------------------------------------------------------
LEMMA NoTags == TagsOf({}) = {}
BY DEF TagsOf

\* What each step of a tool call does to the files.
LEMMA MakerLedger ==
    ASSUME Core, Counters, Ledger, NEW a \in Artifacts, MakerStep(a)
    PROVE  Ledger' /\ Counters'
<1>0. Shapes /\ Closed /\ CallOK(a) /\ maker[a] \in Maker
  BY DEF Core, Shapes
<1>1. CASE SameFiles
  BY <1>0, <1>1, SameLedger
<1>2. CASE ReserveCommit(a) /\ ~SameFiles
  <2>1. Pc(a, "reserving") /\ maker[a].fmt \in Formats
    BY <1>0, <1>2 DEF ReserveCommit, Pc, CallOK, Uploading
  <2>2. /\ file[Current(a)] = "none" /\ reserved' = reserved + 1
        /\ file' = [file EXCEPT ![Current(a)] = "reserved"] /\ UNCHANGED <<account, used, stray>>
    BY <1>2 DEF ReserveCommit, SameFiles
  <2>3. Fresh(Current(a)) /\ Current(a) \in Keys
    BY <2>1, CurrentIs DEF Fresh, At, Pc
  <2>4. ~Strayed(Current(a))
    BY <2>3 DEF Core, KeyOK, FreshIsNew
  <2>5. account = "active"
    BY <1>0, <2>1 DEF Closed, Reserving
  <2> QED
    BY <1>0, <2>2, <2>3, <2>4, <2>5, ReservesLedger DEF Reserves
<1>3. CASE CommitFile(a) /\ ~SameFiles
  <2>1. maker[a].fmt \in Formats
    BY <1>0, <1>3 DEF CommitFile, Pc, CallOK, Uploading
  <2>2. Commits(Current(a))
    BY <1>3 DEF CommitFile, CanCommit, SameFiles, Commits
  <2> QED
    BY <1>0, <2>1, <2>2, CurrentIs, CommitsLedger
<1>4. CASE AbortFile(a) /\ ~SameFiles
  <2> DEFINE R == {Current(a)} \cap {x \in Keys : file[x] = "reserved"}
  <2>1. maker[a].fmt \in Formats
    BY <1>0, <1>4 DEF AbortFile, Pc, CallOK, Uploading
  <2>2. /\ ReturnUnits(R) /\ UNCHANGED <<account, stray>>
        /\ file' = [file EXCEPT ![Current(a)] = IF @ = "reserved" THEN "none" ELSE @]
    BY <1>4 DEF AbortFile, SameFiles
  <2>3. file' = WithoutFiles(R)
    BY <1>0, <2>1, <2>2, CurrentIs DEF WithoutFiles, Shapes
  <2>4. R \in SUBSET Rows(Artifacts)
    BY KeyIs
  <2>5. stray' = stray \cup TagsOf(R \ R)
    BY <2>2, NoTags
  <2>6. Drops(R, R)
    BY <2>2, <2>3, <2>5 DEF Drops
  <2> QED
    BY <1>0, <2>4, <2>6, DropsLedger
<1>5. CASE FailArtifact(a) /\ ~SameFiles
  <2>1. /\ ReturnUnits(Rows({a})) /\ UNCHANGED <<account, stray>> /\ file' = WithoutFiles(Rows({a}))
    BY <1>5 DEF FailArtifact, FailedUnits, SameFiles
  <2>2. Rows({a}) \in SUBSET Rows(Artifacts) /\ stray' = stray \cup TagsOf(Rows({a}) \ Rows({a}))
    BY <2>1, KeyIs, NoTags
  <2>3. Drops(Rows({a}), Rows({a}))
    BY <2>1, <2>2 DEF Drops
  <2> QED
    BY <1>0, <2>2, <2>3, DropsLedger
<1>6. CreateCheck(a) \/ CreateCommit(a) \/ CreateRefused(a) \/ Boundary(a) \/ ReserveLock(a) \/ Put(a)
         \/ CompleteArtifact(a) \/ Return(a) \/ DeleteDirect(a) \/ Abort(a) \/ Crash(a) => SameFiles
  BY DEF CreateCheck, CreateCommit, CreateRefused, Boundary, ReserveLock, Put, CompleteArtifact, Return,
         DeleteDirect, Abort, Crash, SameFiles, dbVars
<1> QED
  BY <1>1, <1>2, <1>3, <1>4, <1>5, <1>6 DEF MakerStep

LEMMA RunLedger ==
    ASSUME Core, Counters, Ledger, NEW a \in Artifacts, RunStep(a)
    PROVE  Ledger' /\ Counters'
<1>0. Shapes
  BY DEF Core
<1>1. CASE CleanupFinish(a)
  <2>1. /\ ReturnUnits(Summed(a)) /\ file' = WithoutFiles(Rows({a})) /\ account' = account
        /\ stray' = stray \cup {<<k, file[k]>> : k \in Rows({a}) \ cleaner[a].snap}
    BY <1>1 DEF CleanupFinish
  <2>2. /\ Summed(a) \subseteq Rows({a}) /\ Rows({a}) \ cleaner[a].snap = Rows({a}) \ Summed(a)
        /\ Rows({a}) \in SUBSET Rows(Artifacts)
    BY KeyIs DEF Summed
  <2>3. Drops(Rows({a}), Summed(a))
    BY <2>1, <2>2 DEF Drops, TagsOf
  <2> QED
    BY <1>0, <2>2, <2>3, DropsLedger
<1>2. ~CleanupFinish(a) => SameFiles
  BY DEF RunStep, AnswerRun, CleanupStart, CleanupRollback, SameFiles, dbVars
<1> QED
  BY <1>0, <1>1, <1>2, SameLedger

LEMMA AccountLedger ==
    ASSUME Core, Counters, Ledger, AccountStep
    PROVE  Ledger' /\ Counters'
<1>0. Shapes
  BY DEF Core
<1>1. WithoutFiles(Keys) = WithoutFiles(Rows(Artifacts))
  BY <1>0, KeyIs DEF WithoutFiles, Shapes
<1>2. CASE DeleteConversation
  <2>1. /\ ReturnUnits(Rows(Artifacts)) /\ file' = WithoutFiles(Rows(Artifacts)) /\ UNCHANGED <<account, stray>>
    BY <1>1, <1>2 DEF DeleteConversation
  <2>2. stray' = stray \cup TagsOf(Rows(Artifacts) \ Rows(Artifacts))
    BY <2>1, NoTags
  <2>3. Drops(Rows(Artifacts), Rows(Artifacts))
    BY <2>1, <2>2 DEF Drops
  <2> QED
    BY <1>0, <2>3, DropsLedger
<1>3. CASE ClearCommit
  <2>1. /\ ReturnUnits(Rows(clearing.rows)) /\ file' = WithoutFiles(Rows(Artifacts)) /\ account' = account
        /\ stray' = stray \cup {<<k, file[k]>> : k \in Rows(Artifacts \ clearing.rows)}
    BY <1>1, <1>3 DEF ClearCommit
  <2>2. /\ Rows(clearing.rows) \subseteq Rows(Artifacts)
        /\ Rows(Artifacts \ clearing.rows) = Rows(Artifacts) \ Rows(clearing.rows)
    BY KeyIs
  <2>3. Drops(Rows(Artifacts), Rows(clearing.rows))
    BY <2>1, <2>2 DEF Drops, TagsOf
  <2> QED
    BY <1>0, <2>3, DropsLedger
<1>4. CASE DeleteUser
  BY <1>0, <1>4, DeleteUserLedger
<1>5. ClearSelect \/ ClearAbort \/ PrepareUserDeletion => SameFiles
  BY DEF ClearSelect, ClearAbort, PrepareUserDeletion, SameFiles, dbVars
<1> QED
  BY <1>0, <1>2, <1>3, <1>4, <1>5, SameLedger DEF AccountStep

LEMMA LedgerStep ==
    ASSUME Core, Counters, Ledger, [Next]_vars
    PROVE  Ledger' /\ Counters'
<1>1. ASSUME NEW w \in Workers, WorkerStep(w)
      PROVE  SameFiles
  BY <1>1 DEF WorkerStep, ClaimDeletion, DeleteObject, MarkDeletion, SameFiles, dbVars
<1>2. ASSUME NEW k \in Keys, Tick(k)
      PROVE  SameFiles
  BY <1>2 DEF Tick, SameFiles, dbVars
<1>3. UNCHANGED vars => SameFiles
  BY DEF vars, dbVars, SameFiles
<1>4. SameFiles => Ledger' /\ Counters'
  BY SameLedger DEF Core
<1> QED
  BY <1>1, <1>2, <1>3, <1>4, MakerLedger, RunLedger, AccountLedger DEF Next
-----------------------------------------------------------------------------
LEMMA InitHolds == Init => IInv
<1> SUFFICES ASSUME Init
             PROVE  IInv
  OBVIOUS
<1>1. NoMaker \in Maker /\ NoMaker.pc = "idle" /\ NoMaker.doomed = {} /\ NoMaker.ready = FALSE
  BY DEF NoMaker, Maker, Pcs
<1>2. NoJob \in Job /\ NoJob.status = "none" /\ NoClean \in Clean /\ NoClean.on = FALSE
      /\ NoHold \in Hold /\ NoHold.task = "none"
  BY DEF NoJob, Job, NoClean, Clean, NoHold, Hold
<1>3. Shapes /\ Counters
  BY <1>1, <1>2 DEF Init, Shapes, Counters
<1>4. /\ \A a \in Artifacts : maker[a] = NoMaker /\ cleaner[a] = NoClean /\ run[a] = "running" /\ art[a] = "none"
      /\ \A k \in Keys : job[k] = NoJob /\ object[k] = FALSE /\ file[k] = "none" /\ old[k] = FALSE
      /\ \A w \in Workers : hold[w] = NoHold
      /\ stray = {} /\ used = 0 /\ reserved = 0 /\ account = "active"
  BY DEF Init
<1>5. \A a \in Artifacts : CallOK(a) /\ RunOK(a)
  BY <1>1, <1>2, <1>4 DEF CallOK, RunOK, Uploading
<1>6. ASSUME NEW k \in Keys
      PROVE  KeyOK(k)
  BY <1>1, <1>2, <1>4, KeyIs DEF KeyOK, FreshIsNew, Followed, DeletedIsGone, Alive, At, Strayed
<1>7. Closed /\ Holding
  BY <1>2, <1>4 DEF Closed, Holding
<1>8. Rows(Artifacts) = {} /\ \A q \in {"reserved", "committed"} : HeldBy(Keys, q) = {} /\ StrayOf(q) = {}
  BY <1>4, KeyIs DEF HeldBy, StrayOf
<1>9. Ledger
  <2>1. IsFiniteSet({}) /\ Cardinality({}) = 0
    BY FS_EmptySet
  <2>2. AccountMatchesRows
    BY <1>4, <1>8, <2>1, Counting DEF AccountMatchesRows
  <2> QED
    BY <1>4, <1>8, <2>1, <2>2 DEF Ledger, Strayed
<1> QED
  BY <1>3, <1>5, <1>6, <1>7, <1>9 DEF IInv, Core

LEMMA Step == IInv /\ [Next]_vars => IInv'
BY CoreStep, LedgerStep DEF IInv

\* The inductive invariant: the domains, who holds which lock, where each file is
\* between the tool call, its row, its object and its deletion job, and the ledger.
THEOREM Inductive == Spec => []IInv
BY InitHolds, Step, PTL DEF Spec

\* Every variable stays in its domain, and the byte counters never go below zero:
\* the clamping in the release statements is never what keeps them there.
THEOREM TypeCorrect == Spec => []TypeOK
<1>1. IInv => TypeOK
  BY DEF IInv, Core, Shapes, Counters, TypeOK, Maker, Job
<1> QED
  BY <1>1, Inductive, PTL

\* Whatever removes the files of an artifact (abort, failure, the settlement of the
\* run, recovery, deletion), the bytes charged are those of the rows there are and
\* of the rows that were removed unseen.
THEOREM AccountIsTheRows == Spec => []AccountMatchesRows
<1>1. IInv => AccountMatchesRows
  BY DEF IInv, Ledger
<1> QED
  BY <1>1, Inductive, PTL

\* No failure path, settlement or deletion job takes away an object of an artifact
\* that is shown as ready, and a stored answer has such an artifact.
THEOREM ReadyStaysDownloadable == Spec => []ReadyIsDownloadable
<1>1. IInv => ReadyIsDownloadable
  <2> SUFFICES ASSUME IInv, account = "active", NEW a \in Artifacts
               PROVE  /\ art[a] = "ready" => \A k \in KeysOf(a) : file[k] = "committed" /\ object[k]
                      /\ run[a] = "answered" /\ art[a] # "none" => art[a] = "ready"
    BY DEF ReadyIsDownloadable
  <2>1. art[a] = "ready" => \A k \in KeysOf(a) : file[k] = "committed" /\ object[k]
    BY KeyIs DEF IInv, Core, KeyOK, Alive
  <2>2. run[a] = "answered" /\ art[a] # "none" => art[a] = "ready"
    BY DEF IInv, Core, RunOK
  <2> QED
    BY <2>1, <2>2
<1> QED
  BY <1>1, Inductive, PTL

\* After a tool call whose cleanup was answered, an object without a row has a
\* deletion job that is still to be done, although the upload may have ended after
\* the run was settled and after an earlier job for the same key.
THEOREM NoObjectIsForgotten == Spec => []NoOrphanObject
<1>1. IInv => NoOrphanObject
  <2> SUFFICES ASSUME IInv, NEW k \in Keys,
                      object[k], file[k] = "none", k \notin {x[1] : x \in stray},
                      Pc(k[1], "done"), ~maker[k[1]].broken
               PROVE  job[k].status \in {"queued", "running", "failed"}
    BY DEF NoOrphanObject
  <2>1. KeyOK(k) /\ ~Strayed(k) /\ job[k] \in Job
    BY DEF IInv, Core, Shapes, Strayed
  <2>2. job[k].status # "none"
    BY <2>1 DEF KeyOK, Followed
  <2>3. job[k].status # "succeeded"
    BY <2>1 DEF KeyOK, DeletedIsGone, Deleted, At, Pc
  <2> QED
    BY <2>1, <2>2, <2>3 DEF Job
<1> QED
  BY <1>1, Inductive, PTL
=============================================================================
